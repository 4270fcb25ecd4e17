---------------------------- MODULE SDKSourceProofs ----------------------------
(***************************************************************************)
(* Proofs about SDKSource, for every number of tracks and every request    *)
(* whose operations fit in the channels: the pipeline holds what the       *)
(* tracks have, no notice is lost on its way to a writer, and an egress of *)
(* given tracks starts with all of them and ends with the last.            *)
(***************************************************************************)
EXTENDS SDKSource, FiniteSetTheorems, TLAPS

(***************************************************************************)
(* What the proofs assume of the requests.                                 *)
(***************************************************************************)
\* Every operation the room, the bus and the close can submit for a track fits in its
\* channel, so that SetTimeProvider finds room in it.
ChannelsSuffice == \A p \in Plans : \A t \in Tracks : 3 * p.subs[t] + 2 < OpCap

\* A request that ends with its tracks selects one; a track composite request selects one
\* audio and one video track at most.
RequestsSelect ==
    \A p \in Plans :
        /\ p.kind # "room" => \E t \in Tracks : p.subs[t] > 0
        /\ p.kind = "composite" => Cardinality({t \in Tracks : p.subs[t] > 0}) <= 2

(***************************************************************************)
(* The inductive invariant.                                                *)
(***************************************************************************)
Places == {"idle", "creating", "orphan", "linking", "activating", "active", "closing",
           "unsubscribed", "unsubscribedDrain", "draining", "removing", "removed"}
Ops == [type : {"Subscribe"}, ch : BOOLEAN] \cup [type : {"Playing"}, gen : Nat]
         \cup [type : {"Unsubscribe", "Finished", "SetTimeProvider", "Close"}]

RequestTypes == request \in Plans
JoinTypes ==
    join \in [at : {"join", "await", "lock", "done", "failed"}, results : Seq(BOOLEAN),
              got : Nat, cap : Nat]
States == [at : Places, gen : Nat, postInit : BOOLEAN, ch : BOOLEAN, left : Int]
Writers == [life : {"none", "live", "ending", "finished"}, playing : BOOLEAN, clock : BOOLEAN]
ChannelTypes ==
    /\ worker \in [Tracks -> {"none", "running", "exited"}]
    /\ ops \in [Tracks -> Seq(Ops)] /\ \A t \in Tracks : Len(ops[t]) <= OpCap
WorkerTypes ==
    ChannelTypes /\ state \in [Tracks -> States] /\ writer \in [Tracks -> Writers]
OtherTypes ==
    /\ subLock \subseteq Tracks /\ known \subseteq Tracks /\ toClose \subseteq Tracks
    /\ pipe \in [Tracks -> Nat]
    /\ room \in [Tracks -> [subs : Nat, held : BOOLEAN, failed : BOOLEAN]]
    /\ handled \in [Tracks -> SUBSET Nat]
    /\ active \in Nat
    /\ built \in BOOLEAN /\ closing \in BOOLEAN /\ provider \in BOOLEAN /\ ended \in BOOLEAN
    /\ closer \in {"idle", "snapshot", "send", "closed"} /\ tpSender \in {"idle", "send", "done"}

\* A call of submitOp is for its own track, or the bus's for any.
WellCalled ==
    /\ DOMAIN call = Callers
    /\ \A c \in Callers :
        \/ call[c] = NoCall
        \/ \E t \in Tracks : \E op \in Ops :
              /\ call[c] = [at |-> "submit", track |-> t, op |-> op]
              /\ op.type # "Close"
              /\ c # Bus => c = t
              /\ c = Bus => op.type # "Subscribe"

\* Where the source is.
Phases ==
    /\ built => join.at = "done"
    /\ closing => built
    /\ closer # "idle" => closing
    /\ tpSender # "idle" => provider

\* What a channel holds.
Has(s, op) == \E i \in 1..Len(s) : s[i] = op
HasType(s, type) == \E i \in 1..Len(s) : s[i].type = type

\* A subscription that was asked for is counted by the room first.
Subscriptions(s) == Cardinality({i \in 1..Len(s) : s[i].type = "Subscribe"})
Asked(t) == IF call[t].op.type = "Subscribe" THEN 1 ELSE 0

Generations(t) ==
    /\ state[t].gen + Subscriptions(ops[t]) + Asked(t) <= room[t].subs
    /\ room[t].subs <= request.subs[t]
    /\ handled[t] \subseteq 1..state[t].gen
    /\ pipe[t] <= state[t].gen

\* What is in the channel, or on its way there, was submitted once for what happened.
One(b) == IF b THEN 1 ELSE 0
Waiting(t) == Len(ops[t]) + One(call[t].at = "submit")
                + One(call[Bus].at = "submit" /\ call[Bus].track = t)
Happened(t) == 2 * room[t].subs - One(room[t].held) + Cardinality(handled[t])
                 + One(room[t].failed) + One(tpSender = "done")
                 + One(closer \in {"send", "closed"} /\ t \notin toClose)
Budget(t) == Waiting(t) <= Happened(t)

\* The life of a worker.
Lives(t) ==
    /\ state[t].at # "idle" => worker[t] = "running" /\ state[t].gen > 0
    /\ worker[t] = "none" => state[t].gen = 0
    /\ t \in known => state[t].gen > 0
    /\ state[t].at = "creating" => t \in subLock /\ (state[t].postInit <=> join.at = "done")
    /\ state[t].at = "linking" => join.at = "done"
    /\ state[t].at \in {"orphan", "closing"} => closing
    /\ state[t].at \in {"removing", "removed"} => Continues
    /\ HasType(ops[t], "Close") => closing

\* Where a worker has nothing in the pipeline.
Out == {"idle", "creating", "orphan", "linking", "removed"}

Piped(t) ==
    /\ ~built => pipe[t] = 0
    /\ built /\ state[t].at \in {"activating", "active"} /\ writer[t].life = "live"
         => pipe[t] = state[t].gen
    /\ built /\ Continues /\ worker[t] # "exited" /\ state[t].at \in Out => pipe[t] = 0
    /\ ~built /\ state[t].at \notin Out => t \in known
    /\ ~built /\ Continues /\ state[t].at \in Out => t \notin known

\* A notice is in the writer, in its channel or on its way there.
Playing(t) == [type |-> "Playing", gen |-> state[t].gen]
Noticed(t) ==
    /\ state[t].at \in {"creating", "orphan", "linking"} => state[t].gen \notin handled[t]
    /\ ~closing /\ state[t].at \in {"activating", "active"} /\ state[t].gen \in handled[t]
         => \/ writer[t].playing
            \/ Has(ops[t], Playing(t))
            \/ call[Bus] = [at |-> "submit", track |-> t, op |-> Playing(t)]
    /\ tpSender = "done" /\ state[t].at \in {"linking", "activating", "active"}
         => \/ writer[t].clock
            \/ HasType(ops[t], "SetTimeProvider")

\* active counts the workers of these places.
Counted == {"active", "unsubscribed", "unsubscribedDrain", "closing"}
Counting == active = Cardinality({t \in Tracks : state[t].at \in Counted})

\* An egress with a track that came has one that will end it.
Ending(t) ==
    \/ state[t].at \in {"linking", "activating", "active", "unsubscribed", "unsubscribedDrain"}
    \/ state[t].at = "draining" /\ state[t].left = 0
WillEnd == ~Continues /\ ~closing /\ ~ended => known = {} \/ \E t \in Tracks : Ending(t)

\* The results that are counted are at most the tracks that are known.
ResultsCount ==
    /\ join.got <= Cardinality(known)
    /\ \A i \in 1..Len(join.results) :
          (\A j \in 1..i : join.results[j]) => join.got + i <= Cardinality(known)

Joining ==
    /\ Exact => join.at # "join"
    /\ Exact /\ join.at = "await"
         => join.cap = Cardinality(Selected) /\ (known = Selected \/ ended \/ ResultsCount)
    /\ Exact /\ join.at \in {"lock", "done"} => known = Selected \/ ended

Types == RequestTypes /\ JoinTypes /\ WorkerTypes /\ OtherTypes /\ WellCalled
Each == \A t \in Tracks : Generations(t) /\ Budget(t) /\ Lives(t) /\ Piped(t) /\ Noticed(t)

IInv == Types /\ Phases /\ Each /\ Counting /\ WillEnd /\ Joining

(***************************************************************************)
(* Channels.                                                               *)
(***************************************************************************)
SubsAt(s) == {i \in 1..Len(s) : s[i].type = "Subscribe"}

\* The subscriptions of a channel are a number.
LEMMA SubsFinite ==
    ASSUME NEW s \in Seq(Ops)
    PROVE  IsFiniteSet(SubsAt(s)) /\ Subscriptions(s) \in Nat /\ Subscriptions(s) = Cardinality(SubsAt(s))
<1>1. IsFiniteSet(1..Len(s)) /\ SubsAt(s) \in SUBSET (1..Len(s))
  BY FS_Interval DEF SubsAt
<1>2. IsFiniteSet(SubsAt(s))
  BY <1>1, FS_Subset
<1> QED BY <1>2, FS_CardinalityType DEF Subscriptions, SubsAt

\* An operation that is appended.
LEMMA Appended ==
    ASSUME NEW s \in Seq(Ops), NEW e \in Ops
    PROVE  /\ Append(s, e) \in Seq(Ops) /\ Len(Append(s, e)) = Len(s) + 1
           /\ \A op : Has(Append(s, e), op) <=> Has(s, op) \/ op = e
           /\ \A type : HasType(Append(s, e), type) <=> HasType(s, type) \/ e.type = type
           /\ Subscriptions(Append(s, e)) = Subscriptions(s) + (IF e.type = "Subscribe" THEN 1 ELSE 0)
<1> DEFINE a == Append(s, e)
<1>1. /\ a \in Seq(Ops) /\ Len(a) = Len(s) + 1 /\ Len(s) \in Nat
      /\ a[Len(s) + 1] = e /\ \A i \in 1..Len(s) : a[i] = s[i]
  OBVIOUS
<1> HIDE DEF a
<1>2. \A i \in 1..Len(a) : i \in 1..Len(s) \/ i = Len(s) + 1
  BY <1>1
<1>3. 1..Len(s) \subseteq 1..Len(a) /\ Len(s) + 1 \in 1..Len(a) /\ Len(s) + 1 \notin 1..Len(s)
  BY <1>1
<1>4. \A op : Has(a, op) <=> Has(s, op) \/ op = e
  BY <1>1, <1>2, <1>3 DEF Has
<1>5. \A type : HasType(a, type) <=> HasType(s, type) \/ e.type = type
  BY <1>1, <1>2, <1>3 DEF HasType
<1>6. CASE e.type = "Subscribe"
  <2>1. SubsAt(a) = SubsAt(s) \cup {Len(s) + 1} /\ Len(s) + 1 \notin SubsAt(s)
    BY <1>1, <1>2, <1>3, <1>6 DEF SubsAt
  <2>2. Cardinality(SubsAt(a)) = Cardinality(SubsAt(s)) + 1
    BY <2>1, SubsFinite, FS_AddElement
  <2>3. Subscriptions(a) = Subscriptions(s) + 1
    BY <1>1, <2>2, SubsFinite
  <2> QED BY <1>1, <1>4, <1>5, <1>6, <2>3 DEF a
<1>7. CASE e.type # "Subscribe"
  <2>1. SubsAt(a) = SubsAt(s)
    BY <1>1, <1>2, <1>3, <1>7 DEF SubsAt
  <2>2. Subscriptions(a) = Subscriptions(s) + 0
    BY <1>1, <2>1, SubsFinite
  <2> QED BY <1>1, <1>4, <1>5, <1>7, <2>2 DEF a
<1> QED BY <1>6, <1>7

\* An operation that is taken.
LEMMA Taken ==
    ASSUME NEW s \in Seq(Ops), s # <<>>
    PROVE  /\ Tail(s) \in Seq(Ops) /\ Len(Tail(s)) = Len(s) - 1 /\ Len(s) > 0 /\ Head(s) \in Ops
           /\ \A op : Has(s, op) <=> Has(Tail(s), op) \/ op = Head(s)
           /\ \A type : HasType(s, type) <=> HasType(Tail(s), type) \/ Head(s).type = type
           /\ Subscriptions(s)
                = Subscriptions(Tail(s)) + (IF Head(s).type = "Subscribe" THEN 1 ELSE 0)
<1> DEFINE a == Tail(s)
<1>1. /\ a \in Seq(Ops) /\ Len(a) = Len(s) - 1 /\ Len(s) \in Nat /\ Len(s) > 0
      /\ Head(s) = s[1] /\ Head(s) \in Ops
  OBVIOUS
<1>0. \A i \in 1..Len(a) : a[i] = s[i + 1]
  OBVIOUS
<1> HIDE DEF a
<1>2. \A i \in 1..Len(s) : i = 1 \/ (i - 1 \in 1..Len(a) /\ (i - 1) + 1 = i)
  BY <1>1
<1>3. 1 \in 1..Len(s) /\ \A i \in 1..Len(a) : i + 1 \in 1..Len(s) /\ i + 1 # 1
  BY <1>1
<1>30. \A i \in 1..Len(s) : i = 1 \/ (i - 1 \in 1..Len(a) /\ a[i - 1] = s[i])
  BY <1>0, <1>2
<1>4. \A op : Has(s, op) <=> Has(a, op) \/ op = Head(s)
  BY <1>0, <1>1, <1>3, <1>30 DEF Has
<1>5. \A type : HasType(s, type) <=> HasType(a, type) \/ Head(s).type = type
  BY <1>0, <1>1, <1>3, <1>30 DEF HasType
<1> DEFINE later == SubsAt(s) \ {1}
           shift == [i \in SubsAt(a) |-> i + 1]
<1>6. shift \in Bijection(SubsAt(a), later)
  <2>1. \A i \in SubsAt(a) : i \in Int /\ i + 1 \in later
    BY <1>0, <1>3 DEF SubsAt
  <2>2. shift \in [SubsAt(a) -> later]
    BY <2>1
  <2>3. \A i, j \in SubsAt(a) : shift[i] = shift[j] => i = j
    BY <2>1
  <2>4. \A k \in later : \E i \in SubsAt(a) : shift[i] = k
    <3> SUFFICES ASSUME NEW k \in later PROVE \E i \in SubsAt(a) : shift[i] = k
      OBVIOUS
    <3>1. k \in 1..Len(s) /\ k # 1 /\ s[k].type = "Subscribe"
      BY DEF SubsAt
    <3>2. k - 1 \in 1..Len(a) /\ a[k - 1] = s[k]
      BY <1>30, <3>1
    <3>3. k - 1 \in SubsAt(a) /\ (k - 1) + 1 = k
      BY <3>1, <3>2 DEF SubsAt
    <3> QED BY <3>3
  <2> QED BY <2>2, <2>3, <2>4 DEF Bijection, Injection, Surjection, IsInjective
<1>7. Cardinality(SubsAt(a)) = Cardinality(later)
  BY <1>1, <1>6, SubsFinite, FS_Bijection DEF ExistsBijection
<1>8. Subscriptions(s) = Subscriptions(a) + (IF Head(s).type = "Subscribe" THEN 1 ELSE 0)
  <2>0. IsFiniteSet(SubsAt(s)) /\ Cardinality(SubsAt(s)) \in Nat
    BY SubsFinite, FS_CardinalityType
  <2>3. Subscriptions(s) = Cardinality(SubsAt(s)) /\ Subscriptions(a) = Cardinality(SubsAt(a))
    BY <1>1, SubsFinite
  <2>1. CASE Head(s).type = "Subscribe"
    <3>1. 1 \in SubsAt(s)
      BY <1>1, <1>3, <2>1 DEF SubsAt
    <3>2. Cardinality(later) = Cardinality(SubsAt(s)) - 1
      BY <2>0, <3>1, FS_RemoveElement
    <3> QED BY <1>7, <2>0, <2>1, <2>3, <3>2
  <2>2. CASE Head(s).type # "Subscribe"
    <3>1. later = SubsAt(s)
      BY <1>1, <2>2 DEF SubsAt
    <3>2. Subscriptions(s) = Subscriptions(a) /\ Subscriptions(a) \in Nat
      BY <1>7, <2>0, <2>3, <3>1
    <3> QED BY <2>2, <3>2
  <2> QED BY <2>1, <2>2
<1> QED BY <1>1, <1>4, <1>5, <1>8 DEF a

(***************************************************************************)
(* The steps of a worker.                                                  *)
(***************************************************************************)
\* A step of the worker of t leaves the other workers alone.
Local(t) ==
    /\ \A u \in Tracks : u # t =>
          /\ state'[u] = state[u] /\ writer'[u] = writer[u] /\ ops'[u] = ops[u]
          /\ worker'[u] = worker[u] /\ pipe'[u] = pipe[u]
          /\ u \in known' <=> u \in known
          /\ u \in subLock' <=> u \in subLock
    /\ join'.at = join.at
    /\ UNCHANGED <<request, built, closing, closer, toClose, provider, tpSender, call, room,
                   handled>>

\* The other workers keep what they have.
LEMMA OthersStand ==
    ASSUME Each, NEW t \in Tracks, Local(t), NEW u \in Tracks, u # t
    PROVE  Generations(u)' /\ Budget(u)' /\ Lives(u)' /\ Piped(u)' /\ Noticed(u)'
<1>1. Generations(u) /\ Budget(u) /\ Lives(u) /\ Piped(u) /\ Noticed(u)
  BY DEF Each
<1>2. Generations(u)'
  BY <1>1 DEF Local, Generations, Asked
<1>3. Budget(u)'
  BY <1>1 DEF Local, Budget, Waiting, Happened
<1>4. Lives(u)'
  BY <1>1 DEF Local, Lives, Continues
<1>5. Piped(u)'
  BY <1>1 DEF Local, Piped, Continues
<1>6. Noticed(u)'
  BY <1>1 DEF Local, Noticed, Playing
<1> QED BY <1>2, <1>3, <1>4, <1>5, <1>6

\* So only the conjuncts of t are left to show.
LEMMA EachKept ==
    ASSUME Each, NEW t \in Tracks, Local(t),
           Generations(t)', Budget(t)', Lives(t)', Piped(t)', Noticed(t)'
    PROVE  Each'
BY OthersStand DEF Each

\* A worker does not move the source.
LEMMA PhasesKept ==
    ASSUME Phases, NEW t \in Tracks, Local(t) PROVE Phases'
BY DEF Phases, Local

\* The channel only loses operations.
Shortens(t) ==
    \/ ops'[t] = ops[t]
    \/ ops[t] # <<>> /\ ops'[t] = Tail(ops[t])
    \/ ops'[t] = <<>>

\* The worker takes an operation, or leaves the rest of them.
LEMMA TakenTypes ==
    ASSUME ChannelTypes, NEW t \in Tracks, worker' \in [Tracks -> {"none", "running", "exited"}],
           ops[t] # <<>>, ops' = [ops EXCEPT ![t] = Tail(@)]
    PROVE  ChannelTypes' /\ Shortens(t) /\ \A u \in Tracks : u # t => ops'[u] = ops[u]
<1>1. ops[t] \in Seq(Ops) /\ Len(ops[t]) \in Nat /\ Len(ops[t]) <= OpCap /\ OpCap \in Nat
  BY SourceAssumption DEF ChannelTypes
<1>2. Tail(ops[t]) \in Seq(Ops) /\ Len(Tail(ops[t])) = Len(ops[t]) - 1 /\ ops'[t] = Tail(ops[t])
  BY <1>1, Taken DEF ChannelTypes
<1>3. ops' \in [Tracks -> Seq(Ops)] /\ \A u \in Tracks : u # t => ops'[u] = ops[u]
  BY <1>2 DEF ChannelTypes
<1>4. Len(ops'[t]) <= OpCap
  BY <1>1, <1>2
<1>5. \A u \in Tracks : Len(ops'[u]) <= OpCap
  BY <1>3, <1>4 DEF ChannelTypes
<1> QED BY <1>2, <1>3, <1>5 DEF ChannelTypes, Shortens

\* The worker exits: the rest of the channel is never taken.
LEMMA EmptiedTypes ==
    ASSUME ChannelTypes, NEW t \in Tracks, worker' \in [Tracks -> {"none", "running", "exited"}],
           ops' = [ops EXCEPT ![t] = <<>>]
    PROVE  ChannelTypes' /\ Shortens(t) /\ \A u \in Tracks : u # t => ops'[u] = ops[u]
<1>1. <<>> \in Seq(Ops) /\ Len(<<>>) = 0 /\ OpCap \in Nat
  BY SourceAssumption
<1>2. ops'[t] = <<>> /\ ops' \in [Tracks -> Seq(Ops)] /\ \A u \in Tracks : u # t => ops'[u] = ops[u]
  BY <1>1 DEF ChannelTypes
<1>3. \A u \in Tracks : Len(ops'[u]) <= OpCap
  BY <1>1, <1>2 DEF ChannelTypes
<1> QED BY <1>2, <1>3 DEF ChannelTypes, Shortens

\* A generation is handled once.
LEMMA HandledFinite ==
    ASSUME NEW n \in Nat, NEW S \in SUBSET (1..n)
    PROVE  IsFiniteSet(S) /\ Cardinality(S) \in Nat /\ Cardinality(S) <= n
<1>1. 1 \in Int /\ n \in Int
  OBVIOUS
<1>2. IsFiniteSet(1..n) /\ Cardinality(1..n) = n
  BY <1>1, FS_Interval
<1> QED BY <1>2, FS_Subset, FS_CardinalityType

\* The budget is a number.
LEMMA HappenedType ==
    ASSUME Types, Each, NEW t \in Tracks PROVE Happened(t) \in Int
<1>1. state[t].gen \in Nat /\ handled[t] \in SUBSET (1..state[t].gen)
  BY DEF Each, Generations, Types, WorkerTypes, States
<1>2. Cardinality(handled[t]) \in Nat
  BY <1>1, HandledFinite
<1>3. 2 * room[t].subs \in Int
  BY DEF Types, OtherTypes
<1>4. /\ One(room[t].held) \in Int /\ One(room[t].failed) \in Int /\ One(tpSender = "done") \in Int
      /\ One(closer \in {"send", "closed"} /\ t \notin toClose) \in Int
  BY DEF One
<1> QED BY <1>2, <1>3, <1>4 DEF Happened

\* A worker that takes operations spends no budget and asks for no subscription.
LEMMA ChannelKept ==
    ASSUME Types, Each, NEW t \in Tracks, Local(t), Shortens(t),
           state'[t].gen = state[t].gen, pipe'[t] \in {pipe[t], 0, state[t].gen}
    PROVE  /\ Generations(t)' /\ Budget(t)'
           /\ HasType(ops'[t], "Close") => HasType(ops[t], "Close")
<1>1. Generations(t) /\ Budget(t) /\ ops[t] \in Seq(Ops)
  BY DEF Each, Types, WorkerTypes, ChannelTypes
<1>2. /\ Len(ops'[t]) \in Nat /\ Len(ops'[t]) <= Len(ops[t]) /\ Len(ops[t]) \in Nat
      /\ Subscriptions(ops'[t]) \in Nat /\ Subscriptions(ops[t]) \in Nat
      /\ Subscriptions(ops'[t]) <= Subscriptions(ops[t])
      /\ HasType(ops'[t], "Close") => HasType(ops[t], "Close")
  <2>1. CASE ops'[t] = ops[t]
    BY <1>1, <2>1, SubsFinite
  <2>2. CASE ops[t] # <<>> /\ ops'[t] = Tail(ops[t])
    <3>1. /\ Tail(ops[t]) \in Seq(Ops) /\ Len(Tail(ops[t])) = Len(ops[t]) - 1
          /\ HasType(Tail(ops[t]), "Close") => HasType(ops[t], "Close")
          /\ Subscriptions(ops[t]) = Subscriptions(Tail(ops[t])) + (IF Head(ops[t]).type = "Subscribe" THEN 1 ELSE 0)
      BY <1>1, <2>2, Taken
    <3>2. Subscriptions(Tail(ops[t])) \in Nat /\ Subscriptions(ops[t]) \in Nat
      BY <1>1, <3>1, SubsFinite
    <3> QED BY <1>1, <2>2, <3>1, <3>2
  <2>3. CASE ops'[t] = <<>>
    <3>1. <<>> \in Seq(Ops) /\ Len(<<>>) = 0 /\ ~HasType(<<>>, "Close") /\ SubsAt(<<>>) = {}
      BY DEF HasType, SubsAt
    <3>2. Subscriptions(<<>>) = 0
      BY <3>1, SubsFinite, FS_EmptySet
    <3> QED BY <1>1, <2>3, <3>1, <3>2, SubsFinite
  <2> QED BY <2>1, <2>2, <2>3 DEF Shortens
<1>3. /\ state[t].gen \in Nat /\ pipe[t] \in Nat /\ room[t].subs \in Nat /\ handled[t] \subseteq Nat
  BY DEF Types, WorkerTypes, OtherTypes, States
<1>4. Asked(t) \in Nat /\ Asked(t)' = Asked(t) /\ room'[t] = room[t] /\ handled'[t] = handled[t] /\ request' = request
  BY DEF Asked, Local
<1>5. Generations(t)'
  BY <1>1, <1>2, <1>3, <1>4 DEF Generations
<1>6. Happened(t)' = Happened(t)
  BY DEF Happened, Local
<1>7. Budget(t)'
  <2>1. One(call[t].at = "submit") \in Nat /\ One(call[Bus].at = "submit" /\ call[Bus].track = t) \in Nat
    BY DEF One
  <2>2. /\ One(call[t].at = "submit")' = One(call[t].at = "submit")
        /\ One(call[Bus].at = "submit" /\ call[Bus].track = t)' = One(call[Bus].at = "submit" /\ call[Bus].track = t)
    BY DEF One, Local
  <2>4. Happened(t) \in Int
    BY HappenedType
  <2> QED BY <1>1, <1>2, <1>6, <2>1, <2>2, <2>4 DEF Budget, Waiting
<1> QED BY <1>2, <1>5, <1>7

CountedSet == {t \in Tracks : state[t].at \in Counted}

\* There are no more counted workers than tracks.
LEMMA CountedFinite ==
    /\ IsFiniteSet(CountedSet) /\ Cardinality(CountedSet) \in Nat
    /\ Cardinality(CountedSet) <= Cardinality(Tracks)
<1>1. CountedSet \in SUBSET Tracks
  BY DEF CountedSet
<1> QED BY <1>1, SourceAssumption, FS_Subset, FS_CardinalityType

\* active follows the places of the workers: none enters or leaves those that count.
LEMMA CountSame ==
    ASSUME Counting, NEW t \in Tracks, Local(t), active' = active,
           state'[t].at \in Counted <=> state[t].at \in Counted
    PROVE  Counting' /\ active' \in Nat
<1>1. CountedSet' = CountedSet
  BY DEF CountedSet, Local
<1> QED BY <1>1, CountedFinite DEF Counting, CountedSet

\* A worker becomes active.
LEMMA CountUp ==
    ASSUME Counting, NEW t \in Tracks, Local(t), active' = active + 1,
           state'[t].at \in Counted, state[t].at \notin Counted
    PROVE  Counting' /\ active' \in Nat
<1>1. CountedSet' = CountedSet \cup {t} /\ t \notin CountedSet
  BY DEF CountedSet, Local
<1>2. Cardinality(CountedSet') = Cardinality(CountedSet) + 1
  BY <1>1, CountedFinite, FS_AddElement
<1> QED BY <1>2, CountedFinite DEF Counting, CountedSet

\* A worker is counted no more; unless active is 0, another one is.
LEMMA CountDown ==
    ASSUME Counting, NEW t \in Tracks, Local(t), active' = active - 1,
           state'[t].at \notin Counted, state[t].at \in Counted
    PROVE  /\ Counting' /\ active' \in Nat
           /\ active' # 0 => \E u \in Tracks : u # t /\ state'[u].at \in Counted
<1>1. CountedSet' = CountedSet \ {t} /\ t \in CountedSet
  BY DEF CountedSet, Local
<1>2. Cardinality(CountedSet') = Cardinality(CountedSet) - 1 /\ IsFiniteSet(CountedSet')
  BY <1>1, CountedFinite, FS_RemoveElement
<1>3. Counting' /\ active' = Cardinality(CountedSet')
  BY <1>2 DEF Counting, CountedSet
<1>4. active' \in Nat /\ (active' # 0 => CountedSet' # {})
  BY <1>2, <1>3, FS_CardinalityType, FS_EmptySet
<1> QED BY <1>1, <1>3, <1>4 DEF CountedSet

\* A step that leaves the tracks that will end the egress.
LEMMA WillEndKept ==
    ASSUME WillEnd, NEW t \in Tracks, Local(t), ended => ended',
           \/ ended' \/ Continues \/ closing \/ Ending(t)'
           \/ known' = known /\ ~Ending(t)
    PROVE  WillEnd'
BY DEF WillEnd, Local, Ending, Continues

\* A step that joinRoom does not see.
LEMMA JoiningKept ==
    ASSUME Joining, UNCHANGED <<request, join, known>>, ended => ended' PROVE Joining'
BY DEF Joining, ResultsCount, Exact, Selected

\* The operation is over: the state is idle, of the same generation.
LEMMA ForgetTypes ==
    ASSUME state \in [Tracks -> States], NEW t \in Tracks
    PROVE  /\ Forget(t) \in [Tracks -> States] /\ \A u \in Tracks : u # t => Forget(t)[u] = state[u]
           /\ Forget(t)[t].at = "idle" /\ Forget(t)[t].gen = state[t].gen
<1>1. state[t] \in States
  OBVIOUS
<1> QED BY <1>1 DEF Forget, States, Places

\* The same after a cleanup.
LEMMA CleanTypes ==
    ASSUME state \in [Tracks -> States], NEW t \in Tracks
    PROVE  /\ [Forget(t) EXCEPT ![t].left = 0] \in [Tracks -> States]
           /\ \A u \in Tracks : u # t => [Forget(t) EXCEPT ![t].left = 0][u] = state[u]
           /\ [Forget(t) EXCEPT ![t].left = 0][t].at = "idle"
           /\ [Forget(t) EXCEPT ![t].left = 0][t].gen = state[t].gen
<1> DEFINE f == Forget(t)
<1>1. /\ f \in [Tracks -> States] /\ \A u \in Tracks : u # t => f[u] = state[u]
      /\ f[t].at = "idle" /\ f[t].gen = state[t].gen
  BY ForgetTypes
<1> HIDE DEF f
<1>2. f[t] \in States
  BY <1>1
<1>3. [f EXCEPT ![t].left = 0] \in [Tracks -> States]
  BY <1>1, <1>2 DEF States
<1>4. /\ \A u \in Tracks : u # t => [f EXCEPT ![t].left = 0][u] = state[u]
      /\ [f EXCEPT ![t].left = 0][t].at = "idle"
      /\ [f EXCEPT ![t].left = 0][t].gen = state[t].gen
  BY <1>1, <1>2 DEF States
<1> QED BY <1>3, <1>4 DEF f

\* The state of a worker that starts a cleanup.
LEMMA CleanupTypes ==
    ASSUME state \in [Tracks -> States], NEW t \in Tracks, active \in Nat,
           state' = [state EXCEPT ![t].left = active - 1,
                                  ![t].at = IF Continues /\ t \in Video THEN "removing" ELSE "draining"]
    PROVE  /\ state' \in [Tracks -> States] /\ \A u \in Tracks : u # t => state'[u] = state[u]
           /\ state'[t].gen = state[t].gen
           /\ state'[t].at = (IF Continues /\ t \in Video THEN "removing" ELSE "draining")
           /\ state'[t].left = active - 1
<1> DEFINE place == IF Continues /\ t \in Video THEN "removing" ELSE "draining"
           new == [state[t] EXCEPT !.left = active - 1, !.at = place]
<1>1. state' = [state EXCEPT ![t] = new]
  OBVIOUS
<1>2. state[t] \in States /\ place \in Places /\ active - 1 \in Int
  BY DEF Places
<1> HIDE DEF place
<1>3. new.at = place /\ new.left = active - 1 /\ new.gen = state[t].gen
  BY <1>2 DEF States
<1>4. new \in States
  BY <1>2 DEF States
<1> HIDE DEF new
<1>5. state'[t] = new
  BY <1>1
<1>6. state' \in [Tracks -> States]
  BY <1>1, <1>4
<1>7. \A u \in Tracks : u # t => state'[u] = state[u]
  BY <1>1
<1> QED BY <1>3, <1>5, <1>6, <1>7 DEF place

\* The cleanup of a track: it ends the egress, or another track will.
LEMMA CleanupEnds ==
    ASSUME Each, NEW t \in Tracks, Local(t), active' = active - 1, active \in Nat,
           state'[t].left = active - 1,
           state'[t].at = (IF Continues /\ t \in Video THEN "removing" ELSE "draining"),
           active' # 0 => \E u \in Tracks : u # t /\ state'[u].at \in Counted
    PROVE  WillEnd'
<1> SUFFICES ASSUME ~Continues, ~closing PROVE \E u \in Tracks : Ending(u)'
  BY DEF WillEnd, Local, Continues
<1>1. CASE active' = 0
  BY <1>1 DEF Ending
<1>2. CASE active' # 0
  <2>1. PICK u \in Tracks : u # t /\ state'[u].at \in Counted
    BY <1>2
  <2>2. state'[u].at = state[u].at /\ (state[u].at = "closing" => closing)
    BY <2>1 DEF Each, Lives, Local
  <2> QED BY <2>1, <2>2 DEF Ending, Counted
<1> QED BY <1>1, <1>2

\* What is not for the state the worker is in.
LEMMA DropsKept ==
    ASSUME IInv, NEW t \in Tracks, Drops(t) PROVE IInv'
<1>1. /\ Types /\ Phases /\ Each /\ Counting /\ WillEnd /\ Joining
      /\ Lives(t) /\ Piped(t) /\ Noticed(t)
  BY DEF IInv, Each
<1>2. /\ UNCHANGED <<request, built, closing, closer, toClose, provider, tpSender, call, room,
                     handled>>
      /\ UNCHANGED <<writer, worker, pipe, known, subLock, join, ended, state, active>>
      /\ worker[t] = "running" /\ ops[t] # <<>>
      /\ ops' = [ops EXCEPT ![t] = Tail(@)]
      /\ \/ state[t].at = "active" /\ Head(ops[t]).type = "Subscribe"
         \/ state[t].at = "idle"
  BY DEF Drops, outside, closeVars, tpVars, At, Runs, Takes
<1>3. /\ request \in Plans /\ JoinTypes /\ ChannelTypes /\ OtherTypes /\ WellCalled
      /\ state \in [Tracks -> States] /\ writer \in [Tracks -> Writers]
      /\ ops[t] \in Seq(Ops) /\ Len(ops[t]) \in Nat /\ state[t] \in States /\ writer[t] \in Writers
      /\ pipe[t] \in Nat
  BY <1>1 DEF Types, RequestTypes, WorkerTypes, ChannelTypes, OtherTypes
<1>4. /\ state' \in [Tracks -> States] /\ \A u \in Tracks : u # t => state'[u] = state[u]
      /\ state'[t].gen = state[t].gen /\ state'[t].at = state[t].at
  BY <1>2, <1>3 DEF States, Places
<1>5. /\ writer' \in [Tracks -> Writers] /\ \A u \in Tracks : u # t => writer'[u] = writer[u]
  BY <1>2, <1>3 DEF Writers, NoWriter, NewWriter, OtherTypes
<1>50. ChannelTypes' /\ Shortens(t) /\ \A u \in Tracks : u # t => ops'[u] = ops[u]
  <2>1. worker' \in [Tracks -> {"none", "running", "exited"}]
    BY <1>2, <1>3 DEF ChannelTypes
  <2> QED BY <1>2, <1>3, <2>1, TakenTypes
<1>51. pipe' \in [Tracks -> Nat] /\ pipe'[t] \in {pipe[t], 0, state[t].gen}
  BY <1>2, <1>3 DEF OtherTypes, States
<1>6. Local(t)
  BY <1>2, <1>3, <1>4, <1>5, <1>50 DEF Local, ChannelTypes, OtherTypes, JoinTypes
<1>7. Counting' /\ active' \in Nat
  BY <1>1, <1>2, <1>4, <1>6, CountSame DEF Counted
<1>8. Types'
  <2>1. JoinTypes' /\ OtherTypes'
    BY <1>2, <1>3, <1>7, <1>51 DEF JoinTypes, OtherTypes
  <2> QED BY <1>2, <1>3, <1>4, <1>5, <1>50, <2>1 DEF Types, RequestTypes, WorkerTypes, WellCalled
<1>9. /\ Generations(t)' /\ Budget(t)'
      /\ HasType(ops'[t], "Close") => HasType(ops[t], "Close")
  BY <1>1, <1>4, <1>50, <1>51, <1>6, ChannelKept
<1>10. Lives(t)'
  BY <1>1, <1>2, <1>3, <1>4, <1>9 DEF Lives, Continues, ChannelTypes, Phases
<1>11. Piped(t)'
  BY <1>1, <1>2, <1>3, <1>4, <1>5 DEF Piped, Out, Continues, ChannelTypes, OtherTypes, Lives, Phases
<1>12. Noticed(t)'
  <2>1. /\ \A op : Has(ops[t], op) => Has(ops'[t], op) \/ op = Head(ops[t])
        /\ \A type : HasType(ops[t], type) => HasType(ops'[t], type) \/ Head(ops[t]).type = type
    BY <1>2, <1>3, Taken DEF ChannelTypes
  <2>2. Playing(t)' = Playing(t) /\ Playing(t).type = "Playing" /\ Playing(t).gen = state[t].gen
    BY <1>4 DEF Playing
  <2> QED BY <1>1, <1>2, <1>3, <1>4, <1>5, <2>1, <2>2 DEF Noticed
<1>13. WillEnd'
  BY <1>1, <1>2, <1>4, <1>6, WillEndKept DEF Ending
<1>14. Joining'
  BY <1>1, <1>2, JoiningKept
<1> QED BY <1>1, <1>6, <1>7, <1>8, <1>9, <1>10, <1>11, <1>12, <1>13, <1>14, EachKept, PhasesKept
        DEF IInv

\* OpPlaying.
LEMMA TakesPlayingKept ==
    ASSUME IInv, NEW t \in Tracks, TakesPlaying(t) PROVE IInv'
<1>1. /\ Types /\ Phases /\ Each /\ Counting /\ WillEnd /\ Joining
      /\ Lives(t) /\ Piped(t) /\ Noticed(t)
  BY DEF IInv, Each
<1>2. /\ UNCHANGED <<request, built, closing, closer, toClose, provider, tpSender, call, room,
                     handled>>
      /\ UNCHANGED <<worker, pipe, known, subLock, join, ended, state, active>>
      /\ worker[t] = "running" /\ state[t].at = "active" /\ ops[t] # <<>>
      /\ ops' = [ops EXCEPT ![t] = Tail(@)]
      /\ Head(ops[t]).type = "Playing"
      /\ writer' = [writer EXCEPT ![t].playing = @ \/ Head(ops[t]).gen = state[t].gen]
  BY DEF TakesPlaying, outside, closeVars, tpVars, At, Runs, Takes
<1>3. /\ request \in Plans /\ JoinTypes /\ ChannelTypes /\ OtherTypes /\ WellCalled
      /\ state \in [Tracks -> States] /\ writer \in [Tracks -> Writers]
      /\ ops[t] \in Seq(Ops) /\ Len(ops[t]) \in Nat /\ state[t] \in States /\ writer[t] \in Writers
      /\ pipe[t] \in Nat
  BY <1>1 DEF Types, RequestTypes, WorkerTypes, ChannelTypes, OtherTypes
<1>4. /\ state' \in [Tracks -> States] /\ \A u \in Tracks : u # t => state'[u] = state[u]
      /\ state'[t].gen = state[t].gen /\ state'[t].at = state[t].at
  BY <1>2, <1>3 DEF States, Places
<1>5. /\ writer' \in [Tracks -> Writers] /\ \A u \in Tracks : u # t => writer'[u] = writer[u]
      /\ writer'[t].playing = (writer[t].playing \/ Head(ops[t]).gen = state[t].gen)
      /\ writer'[t].clock = writer[t].clock /\ writer'[t].life = writer[t].life
  BY <1>2, <1>3 DEF Writers, NoWriter, NewWriter, OtherTypes
<1>50. ChannelTypes' /\ Shortens(t) /\ \A u \in Tracks : u # t => ops'[u] = ops[u]
  <2>1. worker' \in [Tracks -> {"none", "running", "exited"}]
    BY <1>2, <1>3 DEF ChannelTypes
  <2> QED BY <1>2, <1>3, <2>1, TakenTypes
<1>51. pipe' \in [Tracks -> Nat] /\ pipe'[t] \in {pipe[t], 0, state[t].gen}
  BY <1>2, <1>3 DEF OtherTypes, States
<1>6. Local(t)
  BY <1>2, <1>3, <1>4, <1>5, <1>50 DEF Local, ChannelTypes, OtherTypes, JoinTypes
<1>7. Counting' /\ active' \in Nat
  BY <1>1, <1>2, <1>4, <1>6, CountSame DEF Counted
<1>8. Types'
  <2>1. JoinTypes' /\ OtherTypes'
    BY <1>2, <1>3, <1>7, <1>51 DEF JoinTypes, OtherTypes
  <2> QED BY <1>2, <1>3, <1>4, <1>5, <1>50, <2>1 DEF Types, RequestTypes, WorkerTypes, WellCalled
<1>9. /\ Generations(t)' /\ Budget(t)'
      /\ HasType(ops'[t], "Close") => HasType(ops[t], "Close")
  BY <1>1, <1>4, <1>50, <1>51, <1>6, ChannelKept
<1>10. Lives(t)'
  BY <1>1, <1>2, <1>3, <1>4, <1>9 DEF Lives, Continues, ChannelTypes, Phases
<1>11. Piped(t)'
  BY <1>1, <1>2, <1>3, <1>4, <1>5 DEF Piped, Out, Continues, ChannelTypes, OtherTypes, Lives, Phases
<1>12. Noticed(t)'
  <2>1. /\ \A op : Has(ops[t], op) => Has(ops'[t], op) \/ op = Head(ops[t])
        /\ \A type : HasType(ops[t], type) => HasType(ops'[t], type) \/ Head(ops[t]).type = type
    BY <1>2, <1>3, Taken DEF ChannelTypes
  <2>2. Playing(t)' = Playing(t) /\ Playing(t).type = "Playing" /\ Playing(t).gen = state[t].gen
    BY <1>4 DEF Playing
  <2> QED BY <1>1, <1>2, <1>3, <1>4, <1>5, <2>1, <2>2 DEF Noticed
<1>13. WillEnd'
  BY <1>1, <1>2, <1>4, <1>6, WillEndKept DEF Ending
<1>14. Joining'
  BY <1>1, <1>2, JoiningKept
<1> QED BY <1>1, <1>6, <1>7, <1>8, <1>9, <1>10, <1>11, <1>12, <1>13, <1>14, EachKept, PhasesKept
        DEF IInv

\* OpSetTimeProvider.
LEMMA TakesProviderKept ==
    ASSUME IInv, NEW t \in Tracks, TakesProvider(t) PROVE IInv'
<1>1. /\ Types /\ Phases /\ Each /\ Counting /\ WillEnd /\ Joining
      /\ Lives(t) /\ Piped(t) /\ Noticed(t)
  BY DEF IInv, Each
<1>2. /\ UNCHANGED <<request, built, closing, closer, toClose, provider, tpSender, call, room,
                     handled>>
      /\ UNCHANGED <<worker, pipe, known, subLock, join, ended, state, active>>
      /\ worker[t] = "running" /\ state[t].at = "active" /\ ops[t] # <<>>
      /\ ops' = [ops EXCEPT ![t] = Tail(@)]
      /\ Head(ops[t]).type = "SetTimeProvider"
      /\ writer' = [writer EXCEPT ![t].clock = TRUE]
  BY DEF TakesProvider, outside, closeVars, tpVars, At, Runs, Takes
<1>3. /\ request \in Plans /\ JoinTypes /\ ChannelTypes /\ OtherTypes /\ WellCalled
      /\ state \in [Tracks -> States] /\ writer \in [Tracks -> Writers]
      /\ ops[t] \in Seq(Ops) /\ Len(ops[t]) \in Nat /\ state[t] \in States /\ writer[t] \in Writers
      /\ pipe[t] \in Nat
  BY <1>1 DEF Types, RequestTypes, WorkerTypes, ChannelTypes, OtherTypes
<1>4. /\ state' \in [Tracks -> States] /\ \A u \in Tracks : u # t => state'[u] = state[u]
      /\ state'[t].gen = state[t].gen /\ state'[t].at = state[t].at
  BY <1>2, <1>3 DEF States, Places
<1>5. /\ writer' \in [Tracks -> Writers] /\ \A u \in Tracks : u # t => writer'[u] = writer[u]
      /\ writer'[t].playing = writer[t].playing
      /\ writer'[t].clock = TRUE /\ writer'[t].life = writer[t].life
  BY <1>2, <1>3 DEF Writers, NoWriter, NewWriter, OtherTypes
<1>50. ChannelTypes' /\ Shortens(t) /\ \A u \in Tracks : u # t => ops'[u] = ops[u]
  <2>1. worker' \in [Tracks -> {"none", "running", "exited"}]
    BY <1>2, <1>3 DEF ChannelTypes
  <2> QED BY <1>2, <1>3, <2>1, TakenTypes
<1>51. pipe' \in [Tracks -> Nat] /\ pipe'[t] \in {pipe[t], 0, state[t].gen}
  BY <1>2, <1>3 DEF OtherTypes, States
<1>6. Local(t)
  BY <1>2, <1>3, <1>4, <1>5, <1>50 DEF Local, ChannelTypes, OtherTypes, JoinTypes
<1>7. Counting' /\ active' \in Nat
  BY <1>1, <1>2, <1>4, <1>6, CountSame DEF Counted
<1>8. Types'
  <2>1. JoinTypes' /\ OtherTypes'
    BY <1>2, <1>3, <1>7, <1>51 DEF JoinTypes, OtherTypes
  <2> QED BY <1>2, <1>3, <1>4, <1>5, <1>50, <2>1 DEF Types, RequestTypes, WorkerTypes, WellCalled
<1>9. /\ Generations(t)' /\ Budget(t)'
      /\ HasType(ops'[t], "Close") => HasType(ops[t], "Close")
  BY <1>1, <1>4, <1>50, <1>51, <1>6, ChannelKept
<1>10. Lives(t)'
  BY <1>1, <1>2, <1>3, <1>4, <1>9 DEF Lives, Continues, ChannelTypes, Phases
<1>11. Piped(t)'
  BY <1>1, <1>2, <1>3, <1>4, <1>5 DEF Piped, Out, Continues, ChannelTypes, OtherTypes, Lives, Phases
<1>12. Noticed(t)'
  <2>1. /\ \A op : Has(ops[t], op) => Has(ops'[t], op) \/ op = Head(ops[t])
        /\ \A type : HasType(ops[t], type) => HasType(ops'[t], type) \/ Head(ops[t]).type = type
    BY <1>2, <1>3, Taken DEF ChannelTypes
  <2>2. Playing(t)' = Playing(t) /\ Playing(t).type = "Playing" /\ Playing(t).gen = state[t].gen
    BY <1>4 DEF Playing
  <2> QED BY <1>1, <1>2, <1>3, <1>4, <1>5, <2>1, <2>2 DEF Noticed
<1>13. WillEnd'
  BY <1>1, <1>2, <1>4, <1>6, WillEndKept DEF Ending
<1>14. Joining'
  BY <1>1, <1>2, JoiningKept
<1> QED BY <1>1, <1>6, <1>7, <1>8, <1>9, <1>10, <1>11, <1>12, <1>13, <1>14, EachKept, PhasesKept
        DEF IInv

\* handleOrphanedWriter.
LEMMA OrphanDrainedKept ==
    ASSUME IInv, NEW t \in Tracks, OrphanDrained(t) PROVE IInv'
<1>1. /\ Types /\ Phases /\ Each /\ Counting /\ WillEnd /\ Joining
      /\ Lives(t) /\ Piped(t) /\ Noticed(t)
  BY DEF IInv, Each
<1>2. /\ UNCHANGED <<request, built, closing, closer, toClose, provider, tpSender, call, room,
                     handled>>
      /\ UNCHANGED <<worker, pipe, known, subLock, join, ended, ops, active>>
      /\ worker[t] = "running" /\ state[t].at = "orphan"
      /\ state' = Forget(t)
      /\ writer' = [writer EXCEPT ![t] = NoWriter]
  BY DEF OrphanDrained, outside, closeVars, tpVars, At, Runs
<1>3. /\ request \in Plans /\ JoinTypes /\ ChannelTypes /\ OtherTypes /\ WellCalled
      /\ state \in [Tracks -> States] /\ writer \in [Tracks -> Writers]
      /\ ops[t] \in Seq(Ops) /\ Len(ops[t]) \in Nat /\ state[t] \in States /\ writer[t] \in Writers
      /\ pipe[t] \in Nat
  BY <1>1 DEF Types, RequestTypes, WorkerTypes, ChannelTypes, OtherTypes
<1>4. /\ state' \in [Tracks -> States] /\ \A u \in Tracks : u # t => state'[u] = state[u]
      /\ state'[t].gen = state[t].gen /\ state'[t].at = "idle"
  BY <1>2, <1>3 DEF States, Places, Forget
<1>5. /\ writer' \in [Tracks -> Writers] /\ \A u \in Tracks : u # t => writer'[u] = writer[u]
  BY <1>2, <1>3 DEF Writers, NoWriter, NewWriter, OtherTypes
<1>50. ChannelTypes' /\ Shortens(t) /\ \A u \in Tracks : u # t => ops'[u] = ops[u]
  BY <1>2, <1>3 DEF ChannelTypes, Shortens
<1>51. pipe' \in [Tracks -> Nat] /\ pipe'[t] \in {pipe[t], 0, state[t].gen}
  BY <1>2, <1>3 DEF OtherTypes, States
<1>6. Local(t)
  BY <1>2, <1>3, <1>4, <1>5, <1>50 DEF Local, ChannelTypes, OtherTypes, JoinTypes
<1>7. Counting' /\ active' \in Nat
  BY <1>1, <1>2, <1>4, <1>6, CountSame DEF Counted
<1>8. Types'
  <2>1. JoinTypes' /\ OtherTypes'
    BY <1>2, <1>3, <1>7, <1>51 DEF JoinTypes, OtherTypes
  <2> QED BY <1>2, <1>3, <1>4, <1>5, <1>50, <2>1 DEF Types, RequestTypes, WorkerTypes, WellCalled
<1>9. /\ Generations(t)' /\ Budget(t)'
      /\ HasType(ops'[t], "Close") => HasType(ops[t], "Close")
  BY <1>1, <1>4, <1>50, <1>51, <1>6, ChannelKept
<1>10. Lives(t)'
  BY <1>1, <1>2, <1>3, <1>4, <1>9 DEF Lives, Continues, ChannelTypes, Phases
<1>11. Piped(t)'
  BY <1>1, <1>2, <1>3, <1>4, <1>5 DEF Piped, Out, Continues, ChannelTypes, OtherTypes, Lives, Phases
<1>12. Noticed(t)'
  BY <1>1, <1>2, <1>3, <1>4, <1>5 DEF Noticed, Playing
<1>13. WillEnd'
  BY <1>1, <1>2, <1>4, <1>6, WillEndKept DEF Ending
<1>14. Joining'
  BY <1>1, <1>2, JoiningKept
<1> QED BY <1>1, <1>6, <1>7, <1>8, <1>9, <1>10, <1>11, <1>12, <1>13, <1>14, EachKept, PhasesKept
        DEF IInv

\* OnTrackAdded.
LEMMA LinksKept ==
    ASSUME IInv, NEW t \in Tracks, Links(t) PROVE IInv'
<1>1. /\ Types /\ Phases /\ Each /\ Counting /\ WillEnd /\ Joining
      /\ Lives(t) /\ Piped(t) /\ Noticed(t)
  BY DEF IInv, Each
<1>2. /\ UNCHANGED <<request, built, closing, closer, toClose, provider, tpSender, call, room,
                     handled>>
      /\ UNCHANGED <<writer, worker, known, subLock, join, ended, ops, active>>
      /\ worker[t] = "running" /\ state[t].at = "linking" /\ built
      /\ pipe' = [pipe EXCEPT ![t] = state[t].gen]
      /\ state' = [state EXCEPT ![t].at = "activating"]
  BY DEF Links, outside, closeVars, tpVars, At, Runs, Goes
<1>3. /\ request \in Plans /\ JoinTypes /\ ChannelTypes /\ OtherTypes /\ WellCalled
      /\ state \in [Tracks -> States] /\ writer \in [Tracks -> Writers]
      /\ ops[t] \in Seq(Ops) /\ Len(ops[t]) \in Nat /\ state[t] \in States /\ writer[t] \in Writers
      /\ pipe[t] \in Nat
  BY <1>1 DEF Types, RequestTypes, WorkerTypes, ChannelTypes, OtherTypes
<1>4. /\ state' \in [Tracks -> States] /\ \A u \in Tracks : u # t => state'[u] = state[u]
      /\ state'[t].gen = state[t].gen /\ state'[t].at = "activating"
  BY <1>2, <1>3 DEF States, Places
<1>5. /\ writer' \in [Tracks -> Writers] /\ \A u \in Tracks : u # t => writer'[u] = writer[u]
  BY <1>2, <1>3 DEF Writers, NoWriter, NewWriter, OtherTypes
<1>50. ChannelTypes' /\ Shortens(t) /\ \A u \in Tracks : u # t => ops'[u] = ops[u]
  BY <1>2, <1>3 DEF ChannelTypes, Shortens
<1>51. pipe' \in [Tracks -> Nat] /\ pipe'[t] \in {pipe[t], 0, state[t].gen}
  BY <1>2, <1>3 DEF OtherTypes, States
<1>6. Local(t)
  BY <1>2, <1>3, <1>4, <1>5, <1>50 DEF Local, ChannelTypes, OtherTypes, JoinTypes
<1>7. Counting' /\ active' \in Nat
  BY <1>1, <1>2, <1>4, <1>6, CountSame DEF Counted
<1>8. Types'
  <2>1. JoinTypes' /\ OtherTypes'
    BY <1>2, <1>3, <1>7, <1>51 DEF JoinTypes, OtherTypes
  <2> QED BY <1>2, <1>3, <1>4, <1>5, <1>50, <2>1 DEF Types, RequestTypes, WorkerTypes, WellCalled
<1>9. /\ Generations(t)' /\ Budget(t)'
      /\ HasType(ops'[t], "Close") => HasType(ops[t], "Close")
  BY <1>1, <1>4, <1>50, <1>51, <1>6, ChannelKept
<1>10. Lives(t)'
  BY <1>1, <1>2, <1>3, <1>4, <1>9 DEF Lives, Continues, ChannelTypes, Phases
<1>11. Piped(t)'
  BY <1>1, <1>2, <1>3, <1>4, <1>5 DEF Piped, Out, Continues, ChannelTypes, OtherTypes, Lives, Phases
<1>12. Noticed(t)'
  BY <1>1, <1>2, <1>3, <1>4, <1>5 DEF Noticed, Playing
<1>13. WillEnd'
  BY <1>1, <1>2, <1>4, <1>6, WillEndKept DEF Ending
<1>14. Joining'
  BY <1>1, <1>2, JoiningKept
<1> QED BY <1>1, <1>6, <1>7, <1>8, <1>9, <1>10, <1>11, <1>12, <1>13, <1>14, EachKept, PhasesKept
        DEF IInv

\* The writer is counted.
LEMMA ActivatesKept ==
    ASSUME IInv, NEW t \in Tracks, Activates(t) PROVE IInv'
<1>1. /\ Types /\ Phases /\ Each /\ Counting /\ WillEnd /\ Joining
      /\ Lives(t) /\ Piped(t) /\ Noticed(t)
  BY DEF IInv, Each
<1>2. /\ UNCHANGED <<request, built, closing, closer, toClose, provider, tpSender, call, room,
                     handled>>
      /\ UNCHANGED <<writer, worker, pipe, known, subLock, join, ended, ops>>
      /\ worker[t] = "running" /\ state[t].at = "activating"
      /\ active' = active + 1
      /\ state' = [Forget(t) EXCEPT ![t].at = "active"]
  BY DEF Activates, outside, closeVars, tpVars, At, Runs
<1>3. /\ request \in Plans /\ JoinTypes /\ ChannelTypes /\ OtherTypes /\ WellCalled
      /\ state \in [Tracks -> States] /\ writer \in [Tracks -> Writers]
      /\ ops[t] \in Seq(Ops) /\ Len(ops[t]) \in Nat /\ state[t] \in States /\ writer[t] \in Writers
      /\ pipe[t] \in Nat
  BY <1>1 DEF Types, RequestTypes, WorkerTypes, ChannelTypes, OtherTypes
<1>4. /\ state' \in [Tracks -> States] /\ \A u \in Tracks : u # t => state'[u] = state[u]
      /\ state'[t].gen = state[t].gen /\ state'[t].at = "active"
  BY <1>2, <1>3 DEF States, Places, Forget
<1>5. /\ writer' \in [Tracks -> Writers] /\ \A u \in Tracks : u # t => writer'[u] = writer[u]
  BY <1>2, <1>3 DEF Writers, NoWriter, NewWriter, OtherTypes
<1>50. ChannelTypes' /\ Shortens(t) /\ \A u \in Tracks : u # t => ops'[u] = ops[u]
  BY <1>2, <1>3 DEF ChannelTypes, Shortens
<1>51. pipe' \in [Tracks -> Nat] /\ pipe'[t] \in {pipe[t], 0, state[t].gen}
  BY <1>2, <1>3 DEF OtherTypes, States
<1>6. Local(t)
  BY <1>2, <1>3, <1>4, <1>5, <1>50 DEF Local, ChannelTypes, OtherTypes, JoinTypes
<1>7. Counting' /\ active' \in Nat
  BY <1>1, <1>2, <1>4, <1>6, CountUp DEF Counted
<1>8. Types'
  <2>1. JoinTypes' /\ OtherTypes'
    BY <1>2, <1>3, <1>7, <1>51 DEF JoinTypes, OtherTypes
  <2> QED BY <1>2, <1>3, <1>4, <1>5, <1>50, <2>1 DEF Types, RequestTypes, WorkerTypes, WellCalled
<1>9. /\ Generations(t)' /\ Budget(t)'
      /\ HasType(ops'[t], "Close") => HasType(ops[t], "Close")
  BY <1>1, <1>4, <1>50, <1>51, <1>6, ChannelKept
<1>10. Lives(t)'
  BY <1>1, <1>2, <1>3, <1>4, <1>9 DEF Lives, Continues, ChannelTypes, Phases
<1>11. Piped(t)'
  BY <1>1, <1>2, <1>3, <1>4, <1>5 DEF Piped, Out, Continues, ChannelTypes, OtherTypes, Lives, Phases
<1>12. Noticed(t)'
  BY <1>1, <1>2, <1>3, <1>4, <1>5 DEF Noticed, Playing
<1>13. WillEnd'
  BY <1>1, <1>2, <1>4, <1>6, WillEndKept DEF Ending
<1>14. Joining'
  BY <1>1, <1>2, JoiningKept
<1> QED BY <1>1, <1>6, <1>7, <1>8, <1>9, <1>10, <1>11, <1>12, <1>13, <1>14, EachKept, PhasesKept
        DEF IInv

\* OpClose of an active worker.
LEMMA ActiveTakesCloseKept ==
    ASSUME IInv, NEW t \in Tracks, TakesClose(t), state[t].at = "active" PROVE IInv'
<1>1. /\ Types /\ Phases /\ Each /\ Counting /\ WillEnd /\ Joining
      /\ Lives(t) /\ Piped(t) /\ Noticed(t)
  BY DEF IInv, Each
<1>2. /\ UNCHANGED <<request, built, closing, closer, toClose, provider, tpSender, call, room,
                     handled>>
      /\ UNCHANGED <<writer, worker, pipe, known, subLock, join, ended, active>>
      /\ worker[t] = "running" /\ state[t].at = "active" /\ ops[t] # <<>>
      /\ ops' = [ops EXCEPT ![t] = Tail(@)]
      /\ Head(ops[t]).type = "Close"
      /\ state' = [state EXCEPT ![t].at = "closing"]
  BY DEF TakesClose, outside, closeVars, tpVars, At, Runs, Takes, Goes
<1>3. /\ request \in Plans /\ JoinTypes /\ ChannelTypes /\ OtherTypes /\ WellCalled
      /\ state \in [Tracks -> States] /\ writer \in [Tracks -> Writers]
      /\ ops[t] \in Seq(Ops) /\ Len(ops[t]) \in Nat /\ state[t] \in States /\ writer[t] \in Writers
      /\ pipe[t] \in Nat
  BY <1>1 DEF Types, RequestTypes, WorkerTypes, ChannelTypes, OtherTypes
<1>30. closing
  BY <1>1, <1>2, <1>3, Taken DEF Lives, ChannelTypes
<1>4. /\ state' \in [Tracks -> States] /\ \A u \in Tracks : u # t => state'[u] = state[u]
      /\ state'[t].gen = state[t].gen /\ state'[t].at = "closing"
  BY <1>2, <1>3 DEF States, Places
<1>5. /\ writer' \in [Tracks -> Writers] /\ \A u \in Tracks : u # t => writer'[u] = writer[u]
  BY <1>2, <1>3 DEF Writers, NoWriter, NewWriter, OtherTypes
<1>50. ChannelTypes' /\ Shortens(t) /\ \A u \in Tracks : u # t => ops'[u] = ops[u]
  <2>1. worker' \in [Tracks -> {"none", "running", "exited"}]
    BY <1>2, <1>3 DEF ChannelTypes
  <2> QED BY <1>2, <1>3, <2>1, TakenTypes
<1>51. pipe' \in [Tracks -> Nat] /\ pipe'[t] \in {pipe[t], 0, state[t].gen}
  BY <1>2, <1>3 DEF OtherTypes, States
<1>6. Local(t)
  BY <1>2, <1>3, <1>4, <1>5, <1>50 DEF Local, ChannelTypes, OtherTypes, JoinTypes
<1>7. Counting' /\ active' \in Nat
  BY <1>1, <1>2, <1>4, <1>6, CountSame DEF Counted
<1>8. Types'
  <2>1. JoinTypes' /\ OtherTypes'
    BY <1>2, <1>3, <1>7, <1>51 DEF JoinTypes, OtherTypes
  <2> QED BY <1>2, <1>3, <1>4, <1>5, <1>50, <2>1 DEF Types, RequestTypes, WorkerTypes, WellCalled
<1>9. /\ Generations(t)' /\ Budget(t)'
      /\ HasType(ops'[t], "Close") => HasType(ops[t], "Close")
  BY <1>1, <1>4, <1>50, <1>51, <1>6, ChannelKept
<1>10. Lives(t)'
  BY <1>1, <1>2, <1>3, <1>4, <1>30, <1>9 DEF Lives, Continues, ChannelTypes, Phases
<1>11. Piped(t)'
  BY <1>1, <1>2, <1>3, <1>4, <1>5 DEF Piped, Out, Continues, ChannelTypes, OtherTypes, Lives, Phases
<1>12. Noticed(t)'
  BY <1>1, <1>2, <1>3, <1>4, <1>5 DEF Noticed, Playing
<1>13. WillEnd'
  BY <1>1, <1>2, <1>4, <1>6, <1>30, WillEndKept DEF Ending
<1>14. Joining'
  BY <1>1, <1>2, JoiningKept
<1> QED BY <1>1, <1>6, <1>7, <1>8, <1>9, <1>10, <1>11, <1>12, <1>13, <1>14, EachKept, PhasesKept
        DEF IInv

\* OpClose of an idle worker.
LEMMA IdleTakesCloseKept ==
    ASSUME IInv, NEW t \in Tracks, TakesClose(t), state[t].at # "active" PROVE IInv'
<1>1. /\ Types /\ Phases /\ Each /\ Counting /\ WillEnd /\ Joining
      /\ Lives(t) /\ Piped(t) /\ Noticed(t)
  BY DEF IInv, Each
<1>2. /\ UNCHANGED <<request, built, closing, closer, toClose, provider, tpSender, call, room,
                     handled>>
      /\ UNCHANGED <<writer, pipe, known, subLock, join, ended, state, active>>
      /\ worker[t] = "running" /\ state[t].at = "idle" /\ ops[t] # <<>>
      /\ ops' = [ops EXCEPT ![t] = <<>>]
      /\ worker' = [worker EXCEPT ![t] = "exited"]
  BY DEF TakesClose, outside, closeVars, tpVars, At, Runs, Takes, Exits
<1>3. /\ request \in Plans /\ JoinTypes /\ ChannelTypes /\ OtherTypes /\ WellCalled
      /\ state \in [Tracks -> States] /\ writer \in [Tracks -> Writers]
      /\ ops[t] \in Seq(Ops) /\ Len(ops[t]) \in Nat /\ state[t] \in States /\ writer[t] \in Writers
      /\ pipe[t] \in Nat
  BY <1>1 DEF Types, RequestTypes, WorkerTypes, ChannelTypes, OtherTypes
<1>4. /\ state' \in [Tracks -> States] /\ \A u \in Tracks : u # t => state'[u] = state[u]
      /\ state'[t].gen = state[t].gen /\ state'[t].at = state[t].at
  BY <1>2, <1>3 DEF States, Places
<1>5. /\ writer' \in [Tracks -> Writers] /\ \A u \in Tracks : u # t => writer'[u] = writer[u]
  BY <1>2, <1>3 DEF Writers, NoWriter, NewWriter, OtherTypes
<1>50. ChannelTypes' /\ Shortens(t) /\ \A u \in Tracks : u # t => ops'[u] = ops[u]
  <2>1. worker' \in [Tracks -> {"none", "running", "exited"}]
    BY <1>2, <1>3 DEF ChannelTypes
  <2> QED BY <1>2, <1>3, <2>1, EmptiedTypes
<1>51. pipe' \in [Tracks -> Nat] /\ pipe'[t] \in {pipe[t], 0, state[t].gen}
  BY <1>2, <1>3 DEF OtherTypes, States
<1>6. Local(t)
  BY <1>2, <1>3, <1>4, <1>5, <1>50 DEF Local, ChannelTypes, OtherTypes, JoinTypes
<1>7. Counting' /\ active' \in Nat
  BY <1>1, <1>2, <1>4, <1>6, CountSame DEF Counted
<1>8. Types'
  <2>1. JoinTypes' /\ OtherTypes'
    BY <1>2, <1>3, <1>7, <1>51 DEF JoinTypes, OtherTypes
  <2> QED BY <1>2, <1>3, <1>4, <1>5, <1>50, <2>1 DEF Types, RequestTypes, WorkerTypes, WellCalled
<1>9. /\ Generations(t)' /\ Budget(t)'
      /\ HasType(ops'[t], "Close") => HasType(ops[t], "Close")
  BY <1>1, <1>4, <1>50, <1>51, <1>6, ChannelKept
<1>10. Lives(t)'
  BY <1>1, <1>2, <1>3, <1>4, <1>9 DEF Lives, Continues, ChannelTypes, Phases
<1>11. Piped(t)'
  BY <1>1, <1>2, <1>3, <1>4, <1>5 DEF Piped, Out, Continues, ChannelTypes, OtherTypes, Lives, Phases
<1>12. Noticed(t)'
  BY <1>1, <1>2, <1>3, <1>4, <1>5 DEF Noticed, Playing
<1>13. WillEnd'
  BY <1>1, <1>2, <1>4, <1>6, WillEndKept DEF Ending
<1>14. Joining'
  BY <1>1, <1>2, JoiningKept
<1> QED BY <1>1, <1>6, <1>7, <1>8, <1>9, <1>10, <1>11, <1>12, <1>13, <1>14, EachKept, PhasesKept
        DEF IInv

\* The writer of a worker that closes is drained.
LEMMA CloseDrainedKept ==
    ASSUME IInv, NEW t \in Tracks, CloseDrained(t) PROVE IInv'
<1>1. /\ Types /\ Phases /\ Each /\ Counting /\ WillEnd /\ Joining
      /\ Lives(t) /\ Piped(t) /\ Noticed(t)
  BY DEF IInv, Each
<1>2. /\ UNCHANGED <<request, built, closing, closer, toClose, provider, tpSender, call, room,
                     handled>>
      /\ UNCHANGED <<pipe, known, subLock, join, ended>>
      /\ worker[t] = "running" /\ state[t].at = "closing"
      /\ ops' = [ops EXCEPT ![t] = <<>>]
      /\ worker' = [worker EXCEPT ![t] = "exited"]
      /\ active' = active - 1
      /\ state' = Forget(t)
      /\ writer' = [writer EXCEPT ![t] = NoWriter]
  BY DEF CloseDrained, outside, closeVars, tpVars, At, Runs, Exits
<1>3. /\ request \in Plans /\ JoinTypes /\ ChannelTypes /\ OtherTypes /\ WellCalled
      /\ state \in [Tracks -> States] /\ writer \in [Tracks -> Writers]
      /\ ops[t] \in Seq(Ops) /\ Len(ops[t]) \in Nat /\ state[t] \in States /\ writer[t] \in Writers
      /\ pipe[t] \in Nat
  BY <1>1 DEF Types, RequestTypes, WorkerTypes, ChannelTypes, OtherTypes
<1>4. /\ state' \in [Tracks -> States] /\ \A u \in Tracks : u # t => state'[u] = state[u]
      /\ state'[t].gen = state[t].gen /\ state'[t].at = "idle"
  BY <1>2, <1>3 DEF States, Places, Forget
<1>5. /\ writer' \in [Tracks -> Writers] /\ \A u \in Tracks : u # t => writer'[u] = writer[u]
  BY <1>2, <1>3 DEF Writers, NoWriter, NewWriter, OtherTypes
<1>50. ChannelTypes' /\ Shortens(t) /\ \A u \in Tracks : u # t => ops'[u] = ops[u]
  <2>1. worker' \in [Tracks -> {"none", "running", "exited"}]
    BY <1>2, <1>3 DEF ChannelTypes
  <2> QED BY <1>2, <1>3, <2>1, EmptiedTypes
<1>51. pipe' \in [Tracks -> Nat] /\ pipe'[t] \in {pipe[t], 0, state[t].gen}
  BY <1>2, <1>3 DEF OtherTypes, States
<1>6. Local(t)
  BY <1>2, <1>3, <1>4, <1>5, <1>50 DEF Local, ChannelTypes, OtherTypes, JoinTypes
<1>7. Counting' /\ active' \in Nat /\ (active' # 0 => \E u \in Tracks : u # t /\ state'[u].at \in Counted)
  BY <1>1, <1>2, <1>4, <1>6, CountDown DEF Counted
<1>8. Types'
  <2>1. JoinTypes' /\ OtherTypes'
    BY <1>2, <1>3, <1>7, <1>51 DEF JoinTypes, OtherTypes
  <2> QED BY <1>2, <1>3, <1>4, <1>5, <1>50, <2>1 DEF Types, RequestTypes, WorkerTypes, WellCalled
<1>9. /\ Generations(t)' /\ Budget(t)'
      /\ HasType(ops'[t], "Close") => HasType(ops[t], "Close")
  BY <1>1, <1>4, <1>50, <1>51, <1>6, ChannelKept
<1>10. Lives(t)'
  BY <1>1, <1>2, <1>3, <1>4, <1>9 DEF Lives, Continues, ChannelTypes, Phases
<1>11. Piped(t)'
  BY <1>1, <1>2, <1>3, <1>4, <1>5 DEF Piped, Out, Continues, ChannelTypes, OtherTypes, Lives, Phases
<1>12. Noticed(t)'
  BY <1>1, <1>2, <1>3, <1>4, <1>5 DEF Noticed, Playing
<1>13. WillEnd'
  BY <1>1, <1>2, <1>4, <1>6, WillEndKept DEF Ending
<1>14. Joining'
  BY <1>1, <1>2, JoiningKept
<1> QED BY <1>1, <1>6, <1>7, <1>8, <1>9, <1>10, <1>11, <1>12, <1>13, <1>14, EachKept, PhasesKept
        DEF IInv

\* OpUnsubscribe.
LEMMA TakesUnsubscribeKept ==
    ASSUME IInv, NEW t \in Tracks, TakesUnsubscribe(t) PROVE IInv'
<1>1. /\ Types /\ Phases /\ Each /\ Counting /\ WillEnd /\ Joining
      /\ Lives(t) /\ Piped(t) /\ Noticed(t)
  BY DEF IInv, Each
<1>2. /\ UNCHANGED <<request, built, closing, closer, toClose, provider, tpSender, call, room,
                     handled>>
      /\ UNCHANGED <<writer, worker, pipe, known, subLock, join, ended, active>>
      /\ worker[t] = "running" /\ state[t].at = "active" /\ ops[t] # <<>>
      /\ ops' = [ops EXCEPT ![t] = Tail(@)]
      /\ Head(ops[t]).type = "Unsubscribe"
      /\ state' = [state EXCEPT ![t].at = "unsubscribed"]
  BY DEF TakesUnsubscribe, outside, closeVars, tpVars, At, Runs, Takes, Goes
<1>3. /\ request \in Plans /\ JoinTypes /\ ChannelTypes /\ OtherTypes /\ WellCalled
      /\ state \in [Tracks -> States] /\ writer \in [Tracks -> Writers]
      /\ ops[t] \in Seq(Ops) /\ Len(ops[t]) \in Nat /\ state[t] \in States /\ writer[t] \in Writers
      /\ pipe[t] \in Nat
  BY <1>1 DEF Types, RequestTypes, WorkerTypes, ChannelTypes, OtherTypes
<1>4. /\ state' \in [Tracks -> States] /\ \A u \in Tracks : u # t => state'[u] = state[u]
      /\ state'[t].gen = state[t].gen /\ state'[t].at = "unsubscribed"
  BY <1>2, <1>3 DEF States, Places
<1>5. /\ writer' \in [Tracks -> Writers] /\ \A u \in Tracks : u # t => writer'[u] = writer[u]
  BY <1>2, <1>3 DEF Writers, NoWriter, NewWriter, OtherTypes
<1>50. ChannelTypes' /\ Shortens(t) /\ \A u \in Tracks : u # t => ops'[u] = ops[u]
  <2>1. worker' \in [Tracks -> {"none", "running", "exited"}]
    BY <1>2, <1>3 DEF ChannelTypes
  <2> QED BY <1>2, <1>3, <2>1, TakenTypes
<1>51. pipe' \in [Tracks -> Nat] /\ pipe'[t] \in {pipe[t], 0, state[t].gen}
  BY <1>2, <1>3 DEF OtherTypes, States
<1>6. Local(t)
  BY <1>2, <1>3, <1>4, <1>5, <1>50 DEF Local, ChannelTypes, OtherTypes, JoinTypes
<1>7. Counting' /\ active' \in Nat
  BY <1>1, <1>2, <1>4, <1>6, CountSame DEF Counted
<1>8. Types'
  <2>1. JoinTypes' /\ OtherTypes'
    BY <1>2, <1>3, <1>7, <1>51 DEF JoinTypes, OtherTypes
  <2> QED BY <1>2, <1>3, <1>4, <1>5, <1>50, <2>1 DEF Types, RequestTypes, WorkerTypes, WellCalled
<1>9. /\ Generations(t)' /\ Budget(t)'
      /\ HasType(ops'[t], "Close") => HasType(ops[t], "Close")
  BY <1>1, <1>4, <1>50, <1>51, <1>6, ChannelKept
<1>10. Lives(t)'
  BY <1>1, <1>2, <1>3, <1>4, <1>9 DEF Lives, Continues, ChannelTypes, Phases
<1>11. Piped(t)'
  BY <1>1, <1>2, <1>3, <1>4, <1>5 DEF Piped, Out, Continues, ChannelTypes, OtherTypes, Lives, Phases
<1>12. Noticed(t)'
  BY <1>1, <1>2, <1>3, <1>4, <1>5 DEF Noticed, Playing
<1>13. WillEnd'
  BY <1>1, <1>2, <1>4, <1>6, WillEndKept DEF Ending
<1>14. Joining'
  BY <1>1, <1>2, JoiningKept
<1> QED BY <1>1, <1>6, <1>7, <1>8, <1>9, <1>10, <1>11, <1>12, <1>13, <1>14, EachKept, PhasesKept
        DEF IInv

\* startCleanup, when the source closes.
LEMMA UnsubscribeClosesKept ==
    ASSUME IInv, NEW t \in Tracks, UnsubscribeCloses(t) PROVE IInv'
<1>1. /\ Types /\ Phases /\ Each /\ Counting /\ WillEnd /\ Joining
      /\ Lives(t) /\ Piped(t) /\ Noticed(t)
  BY DEF IInv, Each
<1>2. /\ UNCHANGED <<request, built, closing, closer, toClose, provider, tpSender, call, room,
                     handled>>
      /\ UNCHANGED <<writer, worker, pipe, known, subLock, join, ended, ops, active>>
      /\ worker[t] = "running" /\ state[t].at = "unsubscribed"
      /\ state' = [state EXCEPT ![t].at = "unsubscribedDrain"]
  BY DEF UnsubscribeCloses, outside, closeVars, tpVars, At, Runs, Goes
<1>3. /\ request \in Plans /\ JoinTypes /\ ChannelTypes /\ OtherTypes /\ WellCalled
      /\ state \in [Tracks -> States] /\ writer \in [Tracks -> Writers]
      /\ ops[t] \in Seq(Ops) /\ Len(ops[t]) \in Nat /\ state[t] \in States /\ writer[t] \in Writers
      /\ pipe[t] \in Nat
  BY <1>1 DEF Types, RequestTypes, WorkerTypes, ChannelTypes, OtherTypes
<1>4. /\ state' \in [Tracks -> States] /\ \A u \in Tracks : u # t => state'[u] = state[u]
      /\ state'[t].gen = state[t].gen /\ state'[t].at = "unsubscribedDrain"
  BY <1>2, <1>3 DEF States, Places
<1>5. /\ writer' \in [Tracks -> Writers] /\ \A u \in Tracks : u # t => writer'[u] = writer[u]
  BY <1>2, <1>3 DEF Writers, NoWriter, NewWriter, OtherTypes
<1>50. ChannelTypes' /\ Shortens(t) /\ \A u \in Tracks : u # t => ops'[u] = ops[u]
  BY <1>2, <1>3 DEF ChannelTypes, Shortens
<1>51. pipe' \in [Tracks -> Nat] /\ pipe'[t] \in {pipe[t], 0, state[t].gen}
  BY <1>2, <1>3 DEF OtherTypes, States
<1>6. Local(t)
  BY <1>2, <1>3, <1>4, <1>5, <1>50 DEF Local, ChannelTypes, OtherTypes, JoinTypes
<1>7. Counting' /\ active' \in Nat
  BY <1>1, <1>2, <1>4, <1>6, CountSame DEF Counted
<1>8. Types'
  <2>1. JoinTypes' /\ OtherTypes'
    BY <1>2, <1>3, <1>7, <1>51 DEF JoinTypes, OtherTypes
  <2> QED BY <1>2, <1>3, <1>4, <1>5, <1>50, <2>1 DEF Types, RequestTypes, WorkerTypes, WellCalled
<1>9. /\ Generations(t)' /\ Budget(t)'
      /\ HasType(ops'[t], "Close") => HasType(ops[t], "Close")
  BY <1>1, <1>4, <1>50, <1>51, <1>6, ChannelKept
<1>10. Lives(t)'
  BY <1>1, <1>2, <1>3, <1>4, <1>9 DEF Lives, Continues, ChannelTypes, Phases
<1>11. Piped(t)'
  BY <1>1, <1>2, <1>3, <1>4, <1>5 DEF Piped, Out, Continues, ChannelTypes, OtherTypes, Lives, Phases
<1>12. Noticed(t)'
  BY <1>1, <1>2, <1>3, <1>4, <1>5 DEF Noticed, Playing
<1>13. WillEnd'
  BY <1>1, <1>2, <1>4, <1>6, WillEndKept DEF Ending
<1>14. Joining'
  BY <1>1, <1>2, JoiningKept
<1> QED BY <1>1, <1>6, <1>7, <1>8, <1>9, <1>10, <1>11, <1>12, <1>13, <1>14, EachKept, PhasesKept
        DEF IInv

\* OpFinished.
LEMMA TakesFinishedKept ==
    ASSUME IInv, NEW t \in Tracks, TakesFinished(t) PROVE IInv'
<1>1. /\ Types /\ Phases /\ Each /\ Counting /\ WillEnd /\ Joining
      /\ Lives(t) /\ Piped(t) /\ Noticed(t)
  BY DEF IInv, Each
<1>2. /\ UNCHANGED <<request, built, closing, closer, toClose, provider, tpSender, call, room,
                     handled>>
      /\ UNCHANGED <<writer, worker, pipe, known, subLock, join, ended>>
      /\ worker[t] = "running" /\ state[t].at = "active" /\ ops[t] # <<>>
      /\ ops' = [ops EXCEPT ![t] = Tail(@)]
      /\ active' = active - 1
      /\ state' = [state EXCEPT ![t].left = active - 1,
                              ![t].at = IF Continues /\ t \in Video THEN "removing" ELSE "draining"]
  BY DEF TakesFinished, outside, closeVars, tpVars, At, Runs, Takes, CleanupStarts
<1>3. /\ request \in Plans /\ JoinTypes /\ ChannelTypes /\ OtherTypes /\ WellCalled
      /\ state \in [Tracks -> States] /\ writer \in [Tracks -> Writers]
      /\ ops[t] \in Seq(Ops) /\ Len(ops[t]) \in Nat /\ state[t] \in States /\ writer[t] \in Writers
      /\ pipe[t] \in Nat
  BY <1>1 DEF Types, RequestTypes, WorkerTypes, ChannelTypes, OtherTypes
<1>4. /\ state' \in [Tracks -> States] /\ \A u \in Tracks : u # t => state'[u] = state[u]
      /\ state'[t].gen = state[t].gen /\ state'[t].at = (IF Continues /\ t \in Video THEN "removing" ELSE "draining") /\ state'[t].left = active - 1
  BY <1>2, <1>3, CleanupTypes DEF OtherTypes
<1>5. /\ writer' \in [Tracks -> Writers] /\ \A u \in Tracks : u # t => writer'[u] = writer[u]
  BY <1>2, <1>3 DEF Writers, NoWriter, NewWriter, OtherTypes
<1>50. ChannelTypes' /\ Shortens(t) /\ \A u \in Tracks : u # t => ops'[u] = ops[u]
  <2>1. worker' \in [Tracks -> {"none", "running", "exited"}]
    BY <1>2, <1>3 DEF ChannelTypes
  <2> QED BY <1>2, <1>3, <2>1, TakenTypes
<1>51. pipe' \in [Tracks -> Nat] /\ pipe'[t] \in {pipe[t], 0, state[t].gen}
  BY <1>2, <1>3 DEF OtherTypes, States
<1>6. Local(t)
  BY <1>2, <1>3, <1>4, <1>5, <1>50 DEF Local, ChannelTypes, OtherTypes, JoinTypes
<1>7. Counting' /\ active' \in Nat /\ (active' # 0 => \E u \in Tracks : u # t /\ state'[u].at \in Counted)
  BY <1>1, <1>2, <1>4, <1>6, CountDown DEF Counted
<1>8. Types'
  <2>1. JoinTypes' /\ OtherTypes'
    BY <1>2, <1>3, <1>7, <1>51 DEF JoinTypes, OtherTypes
  <2> QED BY <1>2, <1>3, <1>4, <1>5, <1>50, <2>1 DEF Types, RequestTypes, WorkerTypes, WellCalled
<1>9. /\ Generations(t)' /\ Budget(t)'
      /\ HasType(ops'[t], "Close") => HasType(ops[t], "Close")
  BY <1>1, <1>4, <1>50, <1>51, <1>6, ChannelKept
<1>10. Lives(t)'
  BY <1>1, <1>2, <1>3, <1>4, <1>9 DEF Lives, Continues, ChannelTypes, Phases
<1>11. Piped(t)'
  BY <1>1, <1>2, <1>3, <1>4, <1>5 DEF Piped, Out, Continues, ChannelTypes, OtherTypes, Lives, Phases
<1>12. Noticed(t)'
  BY <1>1, <1>2, <1>3, <1>4, <1>5 DEF Noticed, Playing
<1>13. WillEnd'
  BY <1>1, <1>2, <1>3, <1>4, <1>6, <1>7, CleanupEnds DEF OtherTypes
<1>14. Joining'
  BY <1>1, <1>2, JoiningKept
<1> QED BY <1>1, <1>6, <1>7, <1>8, <1>9, <1>10, <1>11, <1>12, <1>13, <1>14, EachKept, PhasesKept
        DEF IInv

\* The writer ended by itself.
LEMMA WriterEndedKept ==
    ASSUME IInv, NEW t \in Tracks, WriterEnded(t) PROVE IInv'
<1>1. /\ Types /\ Phases /\ Each /\ Counting /\ WillEnd /\ Joining
      /\ Lives(t) /\ Piped(t) /\ Noticed(t)
  BY DEF IInv, Each
<1>2. /\ UNCHANGED <<request, built, closing, closer, toClose, provider, tpSender, call, room,
                     handled>>
      /\ UNCHANGED <<writer, worker, pipe, known, subLock, join, ended, ops>>
      /\ worker[t] = "running" /\ state[t].at \in {"unsubscribed", "unsubscribedDrain"}
      /\ active' = active - 1
      /\ state' = [state EXCEPT ![t].left = active - 1,
                              ![t].at = IF Continues /\ t \in Video THEN "removing" ELSE "draining"]
  BY DEF WriterEnded, outside, closeVars, tpVars, At, Runs, CleanupStarts
<1>3. /\ request \in Plans /\ JoinTypes /\ ChannelTypes /\ OtherTypes /\ WellCalled
      /\ state \in [Tracks -> States] /\ writer \in [Tracks -> Writers]
      /\ ops[t] \in Seq(Ops) /\ Len(ops[t]) \in Nat /\ state[t] \in States /\ writer[t] \in Writers
      /\ pipe[t] \in Nat
  BY <1>1 DEF Types, RequestTypes, WorkerTypes, ChannelTypes, OtherTypes
<1>4. /\ state' \in [Tracks -> States] /\ \A u \in Tracks : u # t => state'[u] = state[u]
      /\ state'[t].gen = state[t].gen /\ state'[t].at = (IF Continues /\ t \in Video THEN "removing" ELSE "draining") /\ state'[t].left = active - 1
  BY <1>2, <1>3, CleanupTypes DEF OtherTypes
<1>5. /\ writer' \in [Tracks -> Writers] /\ \A u \in Tracks : u # t => writer'[u] = writer[u]
  BY <1>2, <1>3 DEF Writers, NoWriter, NewWriter, OtherTypes
<1>50. ChannelTypes' /\ Shortens(t) /\ \A u \in Tracks : u # t => ops'[u] = ops[u]
  BY <1>2, <1>3 DEF ChannelTypes, Shortens
<1>51. pipe' \in [Tracks -> Nat] /\ pipe'[t] \in {pipe[t], 0, state[t].gen}
  BY <1>2, <1>3 DEF OtherTypes, States
<1>6. Local(t)
  BY <1>2, <1>3, <1>4, <1>5, <1>50 DEF Local, ChannelTypes, OtherTypes, JoinTypes
<1>7. Counting' /\ active' \in Nat /\ (active' # 0 => \E u \in Tracks : u # t /\ state'[u].at \in Counted)
  BY <1>1, <1>2, <1>4, <1>6, CountDown DEF Counted
<1>8. Types'
  <2>1. JoinTypes' /\ OtherTypes'
    BY <1>2, <1>3, <1>7, <1>51 DEF JoinTypes, OtherTypes
  <2> QED BY <1>2, <1>3, <1>4, <1>5, <1>50, <2>1 DEF Types, RequestTypes, WorkerTypes, WellCalled
<1>9. /\ Generations(t)' /\ Budget(t)'
      /\ HasType(ops'[t], "Close") => HasType(ops[t], "Close")
  BY <1>1, <1>4, <1>50, <1>51, <1>6, ChannelKept
<1>10. Lives(t)'
  BY <1>1, <1>2, <1>3, <1>4, <1>9 DEF Lives, Continues, ChannelTypes, Phases
<1>11. Piped(t)'
  BY <1>1, <1>2, <1>3, <1>4, <1>5 DEF Piped, Out, Continues, ChannelTypes, OtherTypes, Lives, Phases
<1>12. Noticed(t)'
  BY <1>1, <1>2, <1>3, <1>4, <1>5 DEF Noticed, Playing
<1>13. WillEnd'
  BY <1>1, <1>2, <1>3, <1>4, <1>6, <1>7, CleanupEnds DEF OtherTypes
<1>14. Joining'
  BY <1>1, <1>2, JoiningKept
<1> QED BY <1>1, <1>6, <1>7, <1>8, <1>9, <1>10, <1>11, <1>12, <1>13, <1>14, EachKept, PhasesKept
        DEF IInv

\* doCleanup of an egress that continues, after the drain.
LEMMA ContinuingDrainedKept ==
    ASSUME IInv, NEW t \in Tracks, Drained(t), Continues PROVE IInv'
<1>1. /\ Types /\ Phases /\ Each /\ Counting /\ WillEnd /\ Joining
      /\ Lives(t) /\ Piped(t) /\ Noticed(t)
  BY DEF IInv, Each
<1>2. /\ UNCHANGED <<request, built, closing, closer, toClose, provider, tpSender, call, room,
                     handled>>
      /\ UNCHANGED <<writer, worker, pipe, known, subLock, join, ended, ops, active>>
      /\ worker[t] = "running" /\ state[t].at = "draining"
      /\ state' = [state EXCEPT ![t].at = "removing"]
  BY DEF Drained, outside, closeVars, tpVars, At, Runs, Goes
<1>3. /\ request \in Plans /\ JoinTypes /\ ChannelTypes /\ OtherTypes /\ WellCalled
      /\ state \in [Tracks -> States] /\ writer \in [Tracks -> Writers]
      /\ ops[t] \in Seq(Ops) /\ Len(ops[t]) \in Nat /\ state[t] \in States /\ writer[t] \in Writers
      /\ pipe[t] \in Nat
  BY <1>1 DEF Types, RequestTypes, WorkerTypes, ChannelTypes, OtherTypes
<1>4. /\ state' \in [Tracks -> States] /\ \A u \in Tracks : u # t => state'[u] = state[u]
      /\ state'[t].gen = state[t].gen /\ state'[t].at = "removing"
  BY <1>2, <1>3 DEF States, Places
<1>5. /\ writer' \in [Tracks -> Writers] /\ \A u \in Tracks : u # t => writer'[u] = writer[u]
  BY <1>2, <1>3 DEF Writers, NoWriter, NewWriter, OtherTypes
<1>50. ChannelTypes' /\ Shortens(t) /\ \A u \in Tracks : u # t => ops'[u] = ops[u]
  BY <1>2, <1>3 DEF ChannelTypes, Shortens
<1>51. pipe' \in [Tracks -> Nat] /\ pipe'[t] \in {pipe[t], 0, state[t].gen}
  BY <1>2, <1>3 DEF OtherTypes, States
<1>6. Local(t)
  BY <1>2, <1>3, <1>4, <1>5, <1>50 DEF Local, ChannelTypes, OtherTypes, JoinTypes
<1>7. Counting' /\ active' \in Nat
  BY <1>1, <1>2, <1>4, <1>6, CountSame DEF Counted
<1>8. Types'
  <2>1. JoinTypes' /\ OtherTypes'
    BY <1>2, <1>3, <1>7, <1>51 DEF JoinTypes, OtherTypes
  <2> QED BY <1>2, <1>3, <1>4, <1>5, <1>50, <2>1 DEF Types, RequestTypes, WorkerTypes, WellCalled
<1>9. /\ Generations(t)' /\ Budget(t)'
      /\ HasType(ops'[t], "Close") => HasType(ops[t], "Close")
  BY <1>1, <1>4, <1>50, <1>51, <1>6, ChannelKept
<1>10. Lives(t)'
  BY <1>1, <1>2, <1>3, <1>4, <1>9 DEF Lives, Continues, ChannelTypes, Phases
<1>11. Piped(t)'
  BY <1>1, <1>2, <1>3, <1>4, <1>5 DEF Piped, Out, Continues, ChannelTypes, OtherTypes, Lives, Phases
<1>12. Noticed(t)'
  BY <1>1, <1>2, <1>3, <1>4, <1>5 DEF Noticed, Playing
<1>13. WillEnd'
  BY <1>1, <1>2, <1>4, <1>6, WillEndKept DEF Ending
<1>14. Joining'
  BY <1>1, <1>2, JoiningKept
<1> QED BY <1>1, <1>6, <1>7, <1>8, <1>9, <1>10, <1>11, <1>12, <1>13, <1>14, EachKept, PhasesKept
        DEF IInv

\* doCleanup of another, after the drain.
LEMMA EndingDrainedKept ==
    ASSUME IInv, NEW t \in Tracks, Drained(t), ~Continues PROVE IInv'
<1>1. /\ Types /\ Phases /\ Each /\ Counting /\ WillEnd /\ Joining
      /\ Lives(t) /\ Piped(t) /\ Noticed(t)
  BY DEF IInv, Each
<1>2. /\ UNCHANGED <<request, built, closing, closer, toClose, provider, tpSender, call, room,
                     handled>>
      /\ UNCHANGED <<worker, pipe, known, subLock, join, ops, active>>
      /\ worker[t] = "running" /\ state[t].at = "draining"
      /\ state' = [Forget(t) EXCEPT ![t].left = 0]
      /\ writer' = [writer EXCEPT ![t] = NoWriter]
      /\ ended' = (ended \/ state[t].left = 0)
  BY DEF Drained, outside, closeVars, tpVars, At, Runs, Clean
<1>3. /\ request \in Plans /\ JoinTypes /\ ChannelTypes /\ OtherTypes /\ WellCalled
      /\ state \in [Tracks -> States] /\ writer \in [Tracks -> Writers]
      /\ ops[t] \in Seq(Ops) /\ Len(ops[t]) \in Nat /\ state[t] \in States /\ writer[t] \in Writers
      /\ pipe[t] \in Nat
  BY <1>1 DEF Types, RequestTypes, WorkerTypes, ChannelTypes, OtherTypes
<1>4. /\ state' \in [Tracks -> States] /\ \A u \in Tracks : u # t => state'[u] = state[u]
      /\ state'[t].gen = state[t].gen /\ state'[t].at = "idle"
  BY <1>2, <1>3, CleanTypes
<1>5. /\ writer' \in [Tracks -> Writers] /\ \A u \in Tracks : u # t => writer'[u] = writer[u]
  BY <1>2, <1>3 DEF Writers, NoWriter, NewWriter, OtherTypes
<1>50. ChannelTypes' /\ Shortens(t) /\ \A u \in Tracks : u # t => ops'[u] = ops[u]
  BY <1>2, <1>3 DEF ChannelTypes, Shortens
<1>51. pipe' \in [Tracks -> Nat] /\ pipe'[t] \in {pipe[t], 0, state[t].gen}
  BY <1>2, <1>3 DEF OtherTypes, States
<1>6. Local(t)
  BY <1>2, <1>3, <1>4, <1>5, <1>50 DEF Local, ChannelTypes, OtherTypes, JoinTypes
<1>7. Counting' /\ active' \in Nat
  BY <1>1, <1>2, <1>4, <1>6, CountSame DEF Counted
<1>8. Types'
  <2>1. JoinTypes' /\ OtherTypes'
    BY <1>2, <1>3, <1>7, <1>51 DEF JoinTypes, OtherTypes
  <2> QED BY <1>2, <1>3, <1>4, <1>5, <1>50, <2>1 DEF Types, RequestTypes, WorkerTypes, WellCalled
<1>9. /\ Generations(t)' /\ Budget(t)'
      /\ HasType(ops'[t], "Close") => HasType(ops[t], "Close")
  BY <1>1, <1>4, <1>50, <1>51, <1>6, ChannelKept
<1>10. Lives(t)'
  BY <1>1, <1>2, <1>3, <1>4, <1>9 DEF Lives, Continues, ChannelTypes, Phases
<1>11. Piped(t)'
  BY <1>1, <1>2, <1>3, <1>4, <1>5 DEF Piped, Out, Continues, ChannelTypes, OtherTypes, Lives, Phases
<1>12. Noticed(t)'
  BY <1>1, <1>2, <1>3, <1>4, <1>5 DEF Noticed, Playing
<1>13. WillEnd'
  BY <1>1, <1>2, <1>4, <1>6, WillEndKept DEF Ending
<1>14. Joining'
  BY <1>1, <1>2, JoiningKept
<1> QED BY <1>1, <1>6, <1>7, <1>8, <1>9, <1>10, <1>11, <1>12, <1>13, <1>14, EachKept, PhasesKept
        DEF IInv

\* OnTrackRemoved of a video.
LEMMA VideoRemovesKept ==
    ASSUME IInv, NEW t \in Tracks, Removes(t), t \in Video PROVE IInv'
<1>1. /\ Types /\ Phases /\ Each /\ Counting /\ WillEnd /\ Joining
      /\ Lives(t) /\ Piped(t) /\ Noticed(t)
  BY DEF IInv, Each
<1>2. /\ UNCHANGED <<request, built, closing, closer, toClose, provider, tpSender, call, room,
                     handled>>
      /\ UNCHANGED <<writer, worker, known, subLock, join, ended, ops, active>>
      /\ worker[t] = "running" /\ state[t].at = "removing" /\ built
      /\ pipe' = [pipe EXCEPT ![t] = 0]
      /\ state' = [state EXCEPT ![t].at = "removed"]
  BY DEF Removes, outside, closeVars, tpVars, At, Runs, Goes
<1>3. /\ request \in Plans /\ JoinTypes /\ ChannelTypes /\ OtherTypes /\ WellCalled
      /\ state \in [Tracks -> States] /\ writer \in [Tracks -> Writers]
      /\ ops[t] \in Seq(Ops) /\ Len(ops[t]) \in Nat /\ state[t] \in States /\ writer[t] \in Writers
      /\ pipe[t] \in Nat
  BY <1>1 DEF Types, RequestTypes, WorkerTypes, ChannelTypes, OtherTypes
<1>4. /\ state' \in [Tracks -> States] /\ \A u \in Tracks : u # t => state'[u] = state[u]
      /\ state'[t].gen = state[t].gen /\ state'[t].at = "removed"
  BY <1>2, <1>3 DEF States, Places
<1>5. /\ writer' \in [Tracks -> Writers] /\ \A u \in Tracks : u # t => writer'[u] = writer[u]
  BY <1>2, <1>3 DEF Writers, NoWriter, NewWriter, OtherTypes
<1>50. ChannelTypes' /\ Shortens(t) /\ \A u \in Tracks : u # t => ops'[u] = ops[u]
  BY <1>2, <1>3 DEF ChannelTypes, Shortens
<1>51. pipe' \in [Tracks -> Nat] /\ pipe'[t] \in {pipe[t], 0, state[t].gen}
  BY <1>2, <1>3 DEF OtherTypes, States
<1>6. Local(t)
  BY <1>2, <1>3, <1>4, <1>5, <1>50 DEF Local, ChannelTypes, OtherTypes, JoinTypes
<1>7. Counting' /\ active' \in Nat
  BY <1>1, <1>2, <1>4, <1>6, CountSame DEF Counted
<1>8. Types'
  <2>1. JoinTypes' /\ OtherTypes'
    BY <1>2, <1>3, <1>7, <1>51 DEF JoinTypes, OtherTypes
  <2> QED BY <1>2, <1>3, <1>4, <1>5, <1>50, <2>1 DEF Types, RequestTypes, WorkerTypes, WellCalled
<1>9. /\ Generations(t)' /\ Budget(t)'
      /\ HasType(ops'[t], "Close") => HasType(ops[t], "Close")
  BY <1>1, <1>4, <1>50, <1>51, <1>6, ChannelKept
<1>10. Lives(t)'
  BY <1>1, <1>2, <1>3, <1>4, <1>9 DEF Lives, Continues, ChannelTypes, Phases
<1>11. Piped(t)'
  BY <1>1, <1>2, <1>3, <1>4, <1>5 DEF Piped, Out, Continues, ChannelTypes, OtherTypes, Lives, Phases
<1>12. Noticed(t)'
  BY <1>1, <1>2, <1>3, <1>4, <1>5 DEF Noticed, Playing
<1>13. WillEnd'
  BY <1>1, <1>2, <1>4, <1>6, WillEndKept DEF Ending
<1>14. Joining'
  BY <1>1, <1>2, JoiningKept
<1> QED BY <1>1, <1>6, <1>7, <1>8, <1>9, <1>10, <1>11, <1>12, <1>13, <1>14, EachKept, PhasesKept
        DEF IInv

\* OnTrackRemoved of an audio track.
LEMMA AudioRemovesKept ==
    ASSUME IInv, NEW t \in Tracks, Removes(t), t \notin Video PROVE IInv'
<1>1. /\ Types /\ Phases /\ Each /\ Counting /\ WillEnd /\ Joining
      /\ Lives(t) /\ Piped(t) /\ Noticed(t)
  BY DEF IInv, Each
<1>2. /\ UNCHANGED <<request, built, closing, closer, toClose, provider, tpSender, call, room,
                     handled>>
      /\ UNCHANGED <<worker, known, subLock, join, ended, ops, active>>
      /\ worker[t] = "running" /\ state[t].at = "removing" /\ built
      /\ pipe' = [pipe EXCEPT ![t] = 0]
      /\ state' = [Forget(t) EXCEPT ![t].left = 0]
      /\ writer' = [writer EXCEPT ![t] = NoWriter]
  BY DEF Removes, outside, closeVars, tpVars, At, Runs, Clean
<1>3. /\ request \in Plans /\ JoinTypes /\ ChannelTypes /\ OtherTypes /\ WellCalled
      /\ state \in [Tracks -> States] /\ writer \in [Tracks -> Writers]
      /\ ops[t] \in Seq(Ops) /\ Len(ops[t]) \in Nat /\ state[t] \in States /\ writer[t] \in Writers
      /\ pipe[t] \in Nat
  BY <1>1 DEF Types, RequestTypes, WorkerTypes, ChannelTypes, OtherTypes
<1>4. /\ state' \in [Tracks -> States] /\ \A u \in Tracks : u # t => state'[u] = state[u]
      /\ state'[t].gen = state[t].gen /\ state'[t].at = "idle"
  BY <1>2, <1>3, CleanTypes
<1>5. /\ writer' \in [Tracks -> Writers] /\ \A u \in Tracks : u # t => writer'[u] = writer[u]
  BY <1>2, <1>3 DEF Writers, NoWriter, NewWriter, OtherTypes
<1>50. ChannelTypes' /\ Shortens(t) /\ \A u \in Tracks : u # t => ops'[u] = ops[u]
  BY <1>2, <1>3 DEF ChannelTypes, Shortens
<1>51. pipe' \in [Tracks -> Nat] /\ pipe'[t] \in {pipe[t], 0, state[t].gen}
  BY <1>2, <1>3 DEF OtherTypes, States
<1>6. Local(t)
  BY <1>2, <1>3, <1>4, <1>5, <1>50 DEF Local, ChannelTypes, OtherTypes, JoinTypes
<1>7. Counting' /\ active' \in Nat
  BY <1>1, <1>2, <1>4, <1>6, CountSame DEF Counted
<1>8. Types'
  <2>1. JoinTypes' /\ OtherTypes'
    BY <1>2, <1>3, <1>7, <1>51 DEF JoinTypes, OtherTypes
  <2> QED BY <1>2, <1>3, <1>4, <1>5, <1>50, <2>1 DEF Types, RequestTypes, WorkerTypes, WellCalled
<1>9. /\ Generations(t)' /\ Budget(t)'
      /\ HasType(ops'[t], "Close") => HasType(ops[t], "Close")
  BY <1>1, <1>4, <1>50, <1>51, <1>6, ChannelKept
<1>10. Lives(t)'
  BY <1>1, <1>2, <1>3, <1>4, <1>9 DEF Lives, Continues, ChannelTypes, Phases
<1>11. Piped(t)'
  BY <1>1, <1>2, <1>3, <1>4, <1>5 DEF Piped, Out, Continues, ChannelTypes, OtherTypes, Lives, Phases
<1>12. Noticed(t)'
  BY <1>1, <1>2, <1>3, <1>4, <1>5 DEF Noticed, Playing
<1>13. WillEnd'
  BY <1>1, <1>2, <1>4, <1>6, WillEndKept DEF Ending
<1>14. Joining'
  BY <1>1, <1>2, JoiningKept
<1> QED BY <1>1, <1>6, <1>7, <1>8, <1>9, <1>10, <1>11, <1>12, <1>13, <1>14, EachKept, PhasesKept
        DEF IInv

\* The writer of a video that was removed is drained.
LEMMA RemovedDrainedKept ==
    ASSUME IInv, NEW t \in Tracks, RemovedDrained(t) PROVE IInv'
<1>1. /\ Types /\ Phases /\ Each /\ Counting /\ WillEnd /\ Joining
      /\ Lives(t) /\ Piped(t) /\ Noticed(t)
  BY DEF IInv, Each
<1>2. /\ UNCHANGED <<request, built, closing, closer, toClose, provider, tpSender, call, room,
                     handled>>
      /\ UNCHANGED <<worker, pipe, known, subLock, join, ended, ops, active>>
      /\ worker[t] = "running" /\ state[t].at = "removed"
      /\ state' = [Forget(t) EXCEPT ![t].left = 0]
      /\ writer' = [writer EXCEPT ![t] = NoWriter]
  BY DEF RemovedDrained, outside, closeVars, tpVars, At, Runs, Clean
<1>3. /\ request \in Plans /\ JoinTypes /\ ChannelTypes /\ OtherTypes /\ WellCalled
      /\ state \in [Tracks -> States] /\ writer \in [Tracks -> Writers]
      /\ ops[t] \in Seq(Ops) /\ Len(ops[t]) \in Nat /\ state[t] \in States /\ writer[t] \in Writers
      /\ pipe[t] \in Nat
  BY <1>1 DEF Types, RequestTypes, WorkerTypes, ChannelTypes, OtherTypes
<1>4. /\ state' \in [Tracks -> States] /\ \A u \in Tracks : u # t => state'[u] = state[u]
      /\ state'[t].gen = state[t].gen /\ state'[t].at = "idle"
  BY <1>2, <1>3, CleanTypes
<1>5. /\ writer' \in [Tracks -> Writers] /\ \A u \in Tracks : u # t => writer'[u] = writer[u]
  BY <1>2, <1>3 DEF Writers, NoWriter, NewWriter, OtherTypes
<1>50. ChannelTypes' /\ Shortens(t) /\ \A u \in Tracks : u # t => ops'[u] = ops[u]
  BY <1>2, <1>3 DEF ChannelTypes, Shortens
<1>51. pipe' \in [Tracks -> Nat] /\ pipe'[t] \in {pipe[t], 0, state[t].gen}
  BY <1>2, <1>3 DEF OtherTypes, States
<1>6. Local(t)
  BY <1>2, <1>3, <1>4, <1>5, <1>50 DEF Local, ChannelTypes, OtherTypes, JoinTypes
<1>7. Counting' /\ active' \in Nat
  BY <1>1, <1>2, <1>4, <1>6, CountSame DEF Counted
<1>8. Types'
  <2>1. JoinTypes' /\ OtherTypes'
    BY <1>2, <1>3, <1>7, <1>51 DEF JoinTypes, OtherTypes
  <2> QED BY <1>2, <1>3, <1>4, <1>5, <1>50, <2>1 DEF Types, RequestTypes, WorkerTypes, WellCalled
<1>9. /\ Generations(t)' /\ Budget(t)'
      /\ HasType(ops'[t], "Close") => HasType(ops[t], "Close")
  BY <1>1, <1>4, <1>50, <1>51, <1>6, ChannelKept
<1>10. Lives(t)'
  BY <1>1, <1>2, <1>3, <1>4, <1>9 DEF Lives, Continues, ChannelTypes, Phases
<1>11. Piped(t)'
  BY <1>1, <1>2, <1>3, <1>4, <1>5 DEF Piped, Out, Continues, ChannelTypes, OtherTypes, Lives, Phases
<1>12. Noticed(t)'
  BY <1>1, <1>2, <1>3, <1>4, <1>5 DEF Noticed, Playing
<1>13. WillEnd'
  BY <1>1, <1>2, <1>4, <1>6, WillEndKept DEF Ending
<1>14. Joining'
  BY <1>1, <1>2, JoiningKept
<1> QED BY <1>1, <1>6, <1>7, <1>8, <1>9, <1>10, <1>11, <1>12, <1>13, <1>14, EachKept, PhasesKept
        DEF IInv

\* The track ended.
LEMMA WriterEndsKept ==
    ASSUME IInv, NEW t \in Tracks, WriterEnds(t) PROVE IInv'
<1>1. /\ Types /\ Phases /\ Each /\ Counting /\ WillEnd /\ Joining
      /\ Lives(t) /\ Piped(t) /\ Noticed(t)
  BY DEF IInv, Each
<1>2. /\ UNCHANGED <<request, built, closing, closer, toClose, provider, tpSender, call, room,
                     handled>>
      /\ UNCHANGED <<worker, known, subLock, join, ended, state, ops, active>>
      /\ writer[t].life = "live"
      /\ writer' = [writer EXCEPT ![t].life = "ending"]
      /\ pipe' = IF Continues /\ t \in Video THEN [pipe EXCEPT ![t] = 0] ELSE pipe
  BY DEF WriterEnds, outside, closeVars, tpVars, At, Runs
<1>3. /\ request \in Plans /\ JoinTypes /\ ChannelTypes /\ OtherTypes /\ WellCalled
      /\ state \in [Tracks -> States] /\ writer \in [Tracks -> Writers]
      /\ ops[t] \in Seq(Ops) /\ Len(ops[t]) \in Nat /\ state[t] \in States /\ writer[t] \in Writers
      /\ pipe[t] \in Nat
  BY <1>1 DEF Types, RequestTypes, WorkerTypes, ChannelTypes, OtherTypes
<1>4. /\ state' \in [Tracks -> States] /\ \A u \in Tracks : u # t => state'[u] = state[u]
      /\ state'[t].gen = state[t].gen /\ state'[t].at = state[t].at
  BY <1>2, <1>3 DEF States, Places
<1>5. /\ writer' \in [Tracks -> Writers] /\ \A u \in Tracks : u # t => writer'[u] = writer[u]
      /\ writer'[t].life # "live" /\ writer'[t].playing = writer[t].playing
      /\ writer'[t].clock = writer[t].clock
  BY <1>2, <1>3 DEF Writers, NoWriter, NewWriter, OtherTypes
<1>50. ChannelTypes' /\ Shortens(t) /\ \A u \in Tracks : u # t => ops'[u] = ops[u]
  BY <1>2, <1>3 DEF ChannelTypes, Shortens
<1>51. pipe' \in [Tracks -> Nat] /\ pipe'[t] \in {pipe[t], 0, state[t].gen}
  BY <1>2, <1>3 DEF OtherTypes, States
<1>6. Local(t)
  BY <1>2, <1>3, <1>4, <1>5, <1>50 DEF Local, ChannelTypes, OtherTypes, JoinTypes
<1>7. Counting' /\ active' \in Nat
  BY <1>1, <1>2, <1>4, <1>6, CountSame DEF Counted
<1>8. Types'
  <2>1. JoinTypes' /\ OtherTypes'
    BY <1>2, <1>3, <1>7, <1>51 DEF JoinTypes, OtherTypes
  <2> QED BY <1>2, <1>3, <1>4, <1>5, <1>50, <2>1 DEF Types, RequestTypes, WorkerTypes, WellCalled
<1>9. /\ Generations(t)' /\ Budget(t)'
      /\ HasType(ops'[t], "Close") => HasType(ops[t], "Close")
  BY <1>1, <1>4, <1>50, <1>51, <1>6, ChannelKept
<1>10. Lives(t)'
  BY <1>1, <1>2, <1>3, <1>4, <1>9 DEF Lives, Continues, ChannelTypes, Phases
<1>11. Piped(t)'
  BY <1>1, <1>2, <1>3, <1>4, <1>5 DEF Piped, Out, Continues, ChannelTypes, OtherTypes, Lives, Phases
<1>12. Noticed(t)'
  BY <1>1, <1>2, <1>3, <1>4, <1>5 DEF Noticed, Playing
<1>13. WillEnd'
  BY <1>1, <1>2, <1>4, <1>6, WillEndKept DEF Ending
<1>14. Joining'
  BY <1>1, <1>2, JoiningKept
<1> QED BY <1>1, <1>6, <1>7, <1>8, <1>9, <1>10, <1>11, <1>12, <1>13, <1>14, EachKept, PhasesKept
        DEF IInv

\* The writer finishes.
LEMMA WriterFinishesKept ==
    ASSUME IInv, NEW t \in Tracks, WriterFinishes(t) PROVE IInv'
<1>1. /\ Types /\ Phases /\ Each /\ Counting /\ WillEnd /\ Joining
      /\ Lives(t) /\ Piped(t) /\ Noticed(t)
  BY DEF IInv, Each
<1>2. /\ UNCHANGED <<request, built, closing, closer, toClose, provider, tpSender, call, room,
                     handled>>
      /\ UNCHANGED <<worker, pipe, known, subLock, join, ended, state, ops, active>>
      /\ writer' = [writer EXCEPT ![t].life = "finished"]
  BY DEF WriterFinishes, outside, closeVars, tpVars, At, Runs
<1>3. /\ request \in Plans /\ JoinTypes /\ ChannelTypes /\ OtherTypes /\ WellCalled
      /\ state \in [Tracks -> States] /\ writer \in [Tracks -> Writers]
      /\ ops[t] \in Seq(Ops) /\ Len(ops[t]) \in Nat /\ state[t] \in States /\ writer[t] \in Writers
      /\ pipe[t] \in Nat
  BY <1>1 DEF Types, RequestTypes, WorkerTypes, ChannelTypes, OtherTypes
<1>4. /\ state' \in [Tracks -> States] /\ \A u \in Tracks : u # t => state'[u] = state[u]
      /\ state'[t].gen = state[t].gen /\ state'[t].at = state[t].at
  BY <1>2, <1>3 DEF States, Places
<1>5. /\ writer' \in [Tracks -> Writers] /\ \A u \in Tracks : u # t => writer'[u] = writer[u]
      /\ writer'[t].life # "live" /\ writer'[t].playing = writer[t].playing
      /\ writer'[t].clock = writer[t].clock
  BY <1>2, <1>3 DEF Writers, NoWriter, NewWriter, OtherTypes
<1>50. ChannelTypes' /\ Shortens(t) /\ \A u \in Tracks : u # t => ops'[u] = ops[u]
  BY <1>2, <1>3 DEF ChannelTypes, Shortens
<1>51. pipe' \in [Tracks -> Nat] /\ pipe'[t] \in {pipe[t], 0, state[t].gen}
  BY <1>2, <1>3 DEF OtherTypes, States
<1>6. Local(t)
  BY <1>2, <1>3, <1>4, <1>5, <1>50 DEF Local, ChannelTypes, OtherTypes, JoinTypes
<1>7. Counting' /\ active' \in Nat
  BY <1>1, <1>2, <1>4, <1>6, CountSame DEF Counted
<1>8. Types'
  <2>1. JoinTypes' /\ OtherTypes'
    BY <1>2, <1>3, <1>7, <1>51 DEF JoinTypes, OtherTypes
  <2> QED BY <1>2, <1>3, <1>4, <1>5, <1>50, <2>1 DEF Types, RequestTypes, WorkerTypes, WellCalled
<1>9. /\ Generations(t)' /\ Budget(t)'
      /\ HasType(ops'[t], "Close") => HasType(ops[t], "Close")
  BY <1>1, <1>4, <1>50, <1>51, <1>6, ChannelKept
<1>10. Lives(t)'
  BY <1>1, <1>2, <1>3, <1>4, <1>9 DEF Lives, Continues, ChannelTypes, Phases
<1>11. Piped(t)'
  BY <1>1, <1>2, <1>3, <1>4, <1>5 DEF Piped, Out, Continues, ChannelTypes, OtherTypes, Lives, Phases
<1>12. Noticed(t)'
  BY <1>1, <1>2, <1>3, <1>4, <1>5 DEF Noticed, Playing
<1>13. WillEnd'
  BY <1>1, <1>2, <1>4, <1>6, WillEndKept DEF Ending
<1>14. Joining'
  BY <1>1, <1>2, JoiningKept
<1> QED BY <1>1, <1>6, <1>7, <1>8, <1>9, <1>10, <1>11, <1>12, <1>13, <1>14, EachKept, PhasesKept
        DEF IInv

(***************************************************************************)
(* The subscription.                                                       *)
(***************************************************************************)
\* A result is sent to joinRoom, or lost.
Sends(b) ==
    \/ join' = join
    \/ join.at = "await" /\ join' = [join EXCEPT !.results = Append(@, b)]

\* sendInitResult keeps the type of initResultChan.
LEMMA SendsTypes ==
    ASSUME JoinTypes, NEW b \in BOOLEAN, Sends(b)
    PROVE  /\ JoinTypes' /\ join'.at = join.at /\ join'.got = join.got /\ join'.cap = join.cap
           /\ \/ join' = join
              \/ /\ join.at = "await" /\ Len(join'.results) = Len(join.results) + 1
                 /\ join'.results[Len(join.results) + 1] = b
                 /\ \A i \in 1..Len(join.results) : join'.results[i] = join.results[i]
<1>1. join.results \in Seq(BOOLEAN)
  BY DEF JoinTypes
<1>2. /\ Append(join.results, b) \in Seq(BOOLEAN)
      /\ Len(Append(join.results, b)) = Len(join.results) + 1
      /\ Append(join.results, b)[Len(join.results) + 1] = b
      /\ \A i \in 1..Len(join.results) : Append(join.results, b)[i] = join.results[i]
  BY <1>1
<1>3. CASE join' = join
  BY <1>3 DEF JoinTypes
<1>4. CASE join.at = "await" /\ join' = [join EXCEPT !.results = Append(@, b)]
  <2>1. /\ join'.results = Append(join.results, b) /\ join'.at = join.at
        /\ join'.got = join.got /\ join'.cap = join.cap /\ JoinTypes'
    BY <1>2, <1>4 DEF JoinTypes
  <2> QED BY <1>2, <1>4, <2>1
<1> QED BY <1>3, <1>4 DEF Sends

\* Only selected tracks are known.
LEMMA KnownSelected ==
    ASSUME Types, Each PROVE known \subseteq Selected
<1> SUFFICES ASSUME NEW t \in known PROVE t \in Selected
  OBVIOUS
<1>1. t \in Tracks
  BY DEF Types, OtherTypes
<1>2. Generations(t) /\ Lives(t) /\ ops[t] \in Seq(Ops) /\ state[t].gen \in Nat /\ room[t].subs \in Nat
  BY <1>1 DEF Each, Types, WorkerTypes, ChannelTypes, OtherTypes, States
<1>3. Subscriptions(ops[t]) \in Nat /\ Asked(t) \in Nat
  BY <1>2, SubsFinite DEF Asked
<1>4. request.subs[t] \in Nat
  BY <1>1, SourceAssumption DEF Types, RequestTypes
<1>5. state[t].gen > 0
  BY <1>2 DEF Lives
<1> QED BY <1>1, <1>2, <1>3, <1>4, <1>5 DEF Generations, Selected

\* A set of tracks is finite.
LEMMA TracksFinite ==
    ASSUME NEW S \in SUBSET Tracks PROVE IsFiniteSet(S) /\ Cardinality(S) \in Nat
BY SourceAssumption, FS_Subset, FS_CardinalityType

\* A failure is not counted.
LEMMA RefusalJoins ==
    ASSUME JoinTypes, Joining, Sends(FALSE), UNCHANGED <<request, known, ended>> PROVE Joining'
<1>1. Exact' = Exact /\ Selected' = Selected
  BY DEF Exact, Selected
<1>2. CASE join' = join
  BY <1>2, JoiningKept
<1>3. CASE join' # join
  <2>1. /\ join'.at = "await" /\ join'.got = join.got /\ join'.cap = join.cap
        /\ join.at = "await" /\ Len(join'.results) = Len(join.results) + 1
        /\ ~join'.results[Len(join.results) + 1]
        /\ \A i \in 1..Len(join.results) : join'.results[i] = join.results[i]
    BY <1>3, SendsTypes
  <2>2. ASSUME ResultsCount PROVE ResultsCount'
    <3>0. Len(join.results) \in Nat
      BY DEF JoinTypes
    <3>1. ASSUME NEW i \in 1..Len(join'.results), \A j \in 1..i : join'.results[j]
          PROVE  join.got + i <= Cardinality(known)
      <4>1. i # Len(join.results) + 1
        BY <2>1, <3>1
      <4>2. i \in 1..Len(join.results)
        BY <2>1, <3>0, <3>1, <4>1
      <4>3. \A j \in 1..i : join.results[j]
        BY <2>1, <3>0, <3>1, <4>2
      <4> QED BY <2>2, <4>2, <4>3 DEF ResultsCount
    <3> QED BY <2>1, <2>2, <3>1 DEF ResultsCount
  <2> QED BY <1>1, <2>1, <2>2 DEF Joining
<1> QED BY <1>2, <1>3

\* A subscription is counted once for a track: the second of a track finds both tracks known
\* or the egress ended.
LEMMA ResultJoins ==
    ASSUME RequestsSelect, Types, Phases, Each, WillEnd, Joining, NEW t \in Tracks, Sends(TRUE),
           state[t].at = "creating", join.at # "done", ~closing,
           known' = known \cup {t}, t \in Selected, UNCHANGED <<request, ended>>
    PROVE  Joining'
<1>0. JoinTypes /\ known \subseteq Tracks /\ known \subseteq Selected
  BY KnownSelected DEF Types, OtherTypes
<1>1. Exact' = Exact /\ Selected' = Selected /\ Selected \subseteq Tracks
  BY DEF Exact, Selected
<1>2. IsFiniteSet(known) /\ Cardinality(known) \in Nat /\ IsFiniteSet(Selected) /\ Cardinality(Selected) \in Nat
  BY <1>0, <1>1, TracksFinite
<1>3. known = Selected => known' = Selected
  BY <1>0
<1>4. CASE known = Selected \/ ended \/ ~Exact
  BY <1>0, <1>1, <1>3, <1>4, SendsTypes DEF Joining
<1>5. CASE known # Selected /\ ~ended /\ Exact
  <2>1. join.at # "lock" /\ join.at # "join"
    BY <1>5 DEF Joining
  <2>2. CASE t \in known
    <3>1. PICK u \in Tracks : Ending(u)
      BY <1>5, <2>2 DEF WillEnd, Exact, Continues
    <3>2. u # t
      BY <3>1 DEF Ending
    <3>3. ~built /\ Piped(u) /\ Lives(u)
      BY DEF Phases, Each
    <3>4. u \in known
      BY <3>1, <3>3 DEF Ending, Piped, Lives, Out
    <3>5. Cardinality(Selected) <= 2
      BY <1>5 DEF RequestsSelect, Types, RequestTypes, Exact, Selected
    <3>6. {t, u} \subseteq Selected /\ IsFiniteSet({t}) /\ Cardinality({t}) = 1
      BY <1>0, <2>2, <3>4, FS_Singleton
    <3>7. PICK v \in Selected : v \notin known
      BY <1>0, <1>5
    <3> DEFINE A == {t}
               B == A \cup {u}
               C == B \cup {v}
    <3>8. u \notin A /\ v \notin B /\ C \in SUBSET Selected
      BY <2>2, <3>2, <3>4, <3>6, <3>7
    <3>9. IsFiniteSet(A) /\ Cardinality(A) = 1
      BY <3>6
    <3> HIDE DEF A
    <3>10. IsFiniteSet(B) /\ Cardinality(B) = 2
      BY <3>8, <3>9, FS_AddElement
    <3> HIDE DEF B
    <3>12. Cardinality(C) = 3
      <4>1. v \notin B /\ IsFiniteSet(B)
        BY <3>8, <3>10
      <4>2. Cardinality(B \cup {v}) = Cardinality(B) + 1
        BY <4>1, FS_AddElement
      <4> QED BY <3>10, <4>2
    <3> HIDE DEF C
    <3>11. 3 <= Cardinality(Selected)
      BY <1>2, <3>8, <3>12, FS_Subset
    <3> QED BY <1>2, <3>5, <3>11
  <2>3. CASE t \notin known
    <3>1. Cardinality(known') = Cardinality(known) + 1
      BY <1>2, <2>3, FS_AddElement
    <3>2. join'.at = join.at /\ join'.got = join.got /\ join'.cap = join.cap /\ join.got \in Nat
      BY <1>0, SendsTypes DEF JoinTypes
    <3>3. CASE join.at = "await"
      <4>1. join.cap = Cardinality(Selected) /\ ResultsCount
        BY <1>5, <3>3 DEF Joining
      <4>2. Len(join.results) \in Nat
        BY <1>0 DEF JoinTypes
      <4>3. ASSUME NEW i \in 1..Len(join'.results), \A j \in 1..i : join'.results[j]
            PROVE  join.got + i <= Cardinality(known')
        <5>0. /\ Len(join'.results) <= Len(join.results) + 1
              /\ \A j \in 1..Len(join.results) : join'.results[j] = join.results[j]
          <6>1. CASE join' = join
            BY <4>2, <6>1
          <6>2. CASE join' # join
            <7>1. /\ Len(join'.results) = Len(join.results) + 1
                  /\ \A j \in 1..Len(join.results) : join'.results[j] = join.results[j]
              BY <1>0, <6>2, SendsTypes
            <7> QED BY <4>2, <7>1
          <6> QED BY <6>1, <6>2
        <5>1. CASE i \in 1..Len(join.results)
          <6>1. \A j \in 1..i : join.results[j]
            BY <4>2, <4>3, <5>0, <5>1
          <6>2. join.got + i <= Cardinality(known)
            BY <4>1, <5>1, <6>1 DEF ResultsCount
          <6> QED BY <1>2, <3>1, <3>2, <5>1, <6>2
        <5>2. CASE i \notin 1..Len(join.results)
          <6>1. i = Len(join.results) + 1
            BY <4>2, <4>3, <5>0, <5>2
          <6>2. CASE Len(join.results) = 0
            BY <1>2, <3>1, <3>2, <4>1, <6>1, <6>2 DEF ResultsCount
          <6>3. CASE Len(join.results) # 0
            <7>1. Len(join.results) \in 1..Len(join.results)
              BY <4>2, <6>3
            <7>2. \A j \in 1..Len(join.results) : join.results[j]
              BY <4>2, <4>3, <5>0, <6>1
            <7>3. join.got + Len(join.results) <= Cardinality(known)
              BY <4>1, <7>1, <7>2 DEF ResultsCount
            <7> QED BY <1>2, <3>1, <3>2, <4>2, <6>1, <7>3
          <6> QED BY <6>2, <6>3
        <5> QED BY <5>1, <5>2
      <4>4. join.got <= Cardinality(known')
        BY <1>2, <3>1, <3>2, <4>1 DEF ResultsCount
      <4>5. ResultsCount'
        BY <3>2, <4>3, <4>4 DEF ResultsCount
      <4> QED BY <1>1, <3>2, <3>3, <4>1, <4>5 DEF Joining
    <3>4. CASE join.at # "await"
      BY <1>1, <2>1, <3>2, <3>4 DEF Joining
    <3> QED BY <3>3, <3>4
  <2> QED BY <2>2, <2>3
<1> QED BY <1>4, <1>5

\* A worker that left idle is of a selected track.
LEMMA Begun ==
    ASSUME Types, Each, NEW t \in Tracks, state[t].at # "idle" PROVE t \in Selected
<1>2. Generations(t) /\ Lives(t) /\ ops[t] \in Seq(Ops) /\ state[t].gen \in Nat /\ room[t].subs \in Nat
  BY DEF Each, Types, WorkerTypes, ChannelTypes, OtherTypes, States
<1>3. Subscriptions(ops[t]) \in Nat /\ Asked(t) \in Nat
  BY <1>2, SubsFinite DEF Asked
<1>4. request.subs[t] \in Nat
  BY SourceAssumption DEF Types, RequestTypes
<1>5. state[t].gen > 0
  BY <1>2 DEF Lives
<1> QED BY <1>2, <1>3, <1>4, <1>5 DEF Generations, Selected

\* The request cannot take the track.
LEMMA SubscribeFailsKept ==
    ASSUME IInv, NEW t \in Tracks, SubscribeFails(t) PROVE IInv'
<1>1. /\ Types /\ Phases /\ Each /\ Counting /\ WillEnd /\ Joining
      /\ Lives(t) /\ Piped(t) /\ Noticed(t)
  BY DEF IInv, Each
<1>2. /\ UNCHANGED <<request, built, closing, closer, toClose, provider, tpSender, call, room,
                     handled>>
      /\ UNCHANGED <<writer, worker, pipe, known, ended, ops, active>>
      /\ worker[t] = "running" /\ state[t].at = "creating"
      /\ subLock' = subLock \ {t}
      /\ Sends(FALSE)
      /\ state' = Forget(t)
  BY DEF SubscribeFails, outside, closeVars, tpVars, At, Runs, Sends, SendResult, AwaitsResults
<1>3. /\ request \in Plans /\ JoinTypes /\ ChannelTypes /\ OtherTypes /\ WellCalled
      /\ state \in [Tracks -> States] /\ writer \in [Tracks -> Writers]
      /\ ops[t] \in Seq(Ops) /\ Len(ops[t]) \in Nat /\ state[t] \in States /\ writer[t] \in Writers
      /\ pipe[t] \in Nat
  BY <1>1 DEF Types, RequestTypes, WorkerTypes, ChannelTypes, OtherTypes
<1>30. JoinTypes' /\ join'.at = join.at
  BY <1>2, <1>3, SendsTypes
<1>4. /\ state' \in [Tracks -> States] /\ \A u \in Tracks : u # t => state'[u] = state[u]
      /\ state'[t].gen = state[t].gen /\ state'[t].at = "idle"
  BY <1>2, <1>3, ForgetTypes
<1>5. /\ writer' \in [Tracks -> Writers] /\ \A u \in Tracks : u # t => writer'[u] = writer[u]
  BY <1>2, <1>3 DEF Writers, NoWriter, NewWriter, OtherTypes
<1>50. ChannelTypes' /\ Shortens(t) /\ \A u \in Tracks : u # t => ops'[u] = ops[u]
  BY <1>2, <1>3 DEF ChannelTypes, Shortens
<1>51. pipe' \in [Tracks -> Nat] /\ pipe'[t] \in {pipe[t], 0, state[t].gen}
  BY <1>2, <1>3 DEF OtherTypes, States
<1>6. Local(t)
  BY <1>2, <1>3, <1>30, <1>4, <1>5, <1>50 DEF Local, ChannelTypes, OtherTypes, JoinTypes
<1>7. Counting' /\ active' \in Nat
  BY <1>1, <1>2, <1>4, <1>6, CountSame DEF Counted
<1>8. Types'
  <2>1. JoinTypes' /\ OtherTypes'
    BY <1>2, <1>3, <1>30, <1>7, <1>51 DEF OtherTypes
  <2> QED BY <1>2, <1>3, <1>4, <1>5, <1>50, <2>1 DEF Types, RequestTypes, WorkerTypes, WellCalled
<1>9. /\ Generations(t)' /\ Budget(t)'
      /\ HasType(ops'[t], "Close") => HasType(ops[t], "Close")
  BY <1>1, <1>4, <1>50, <1>51, <1>6, ChannelKept
<1>10. Lives(t)'
  BY <1>1, <1>2, <1>3, <1>4, <1>30, <1>9 DEF Lives, Continues, ChannelTypes, Phases
<1>11. Piped(t)'
  BY <1>1, <1>2, <1>3, <1>30, <1>4, <1>5 DEF Piped, Out, Continues, ChannelTypes, OtherTypes, Lives, Phases
<1>12. Noticed(t)'
  BY <1>1, <1>2, <1>3, <1>4, <1>5 DEF Noticed, Playing, Phases
<1>13. WillEnd'
  BY <1>1, <1>2, <1>4, <1>6, <1>30, WillEndKept DEF Ending
<1>14. Joining'
  BY <1>1, <1>2, <1>3, RefusalJoins
<1> QED BY <1>1, <1>6, <1>7, <1>8, <1>9, <1>10, <1>11, <1>12, <1>13, <1>14, EachKept, PhasesKept
        DEF IInv

\* The source closed meanwhile.
LEMMA OrphanCreatedKept ==
    ASSUME IInv, NEW t \in Tracks, WriterCreated(t), closing PROVE IInv'
<1>1. /\ Types /\ Phases /\ Each /\ Counting /\ WillEnd /\ Joining
      /\ Lives(t) /\ Piped(t) /\ Noticed(t)
  BY DEF IInv, Each
<1>2. /\ UNCHANGED <<request, built, closing, closer, toClose, provider, tpSender, call, room,
                     handled>>
      /\ UNCHANGED <<worker, pipe, known, join, ended, ops, active>>
      /\ worker[t] = "running" /\ state[t].at = "creating" /\ closing
      /\ subLock' = subLock \ {t}
      /\ state' = [state EXCEPT ![t].at = "orphan"]
      /\ writer' = [writer EXCEPT ![t] = NewWriter]
  BY DEF WriterCreated, outside, closeVars, tpVars, At, Runs, Goes
<1>3. /\ request \in Plans /\ JoinTypes /\ ChannelTypes /\ OtherTypes /\ WellCalled
      /\ state \in [Tracks -> States] /\ writer \in [Tracks -> Writers]
      /\ ops[t] \in Seq(Ops) /\ Len(ops[t]) \in Nat /\ state[t] \in States /\ writer[t] \in Writers
      /\ pipe[t] \in Nat
  BY <1>1 DEF Types, RequestTypes, WorkerTypes, ChannelTypes, OtherTypes
<1>4. /\ state' \in [Tracks -> States] /\ \A u \in Tracks : u # t => state'[u] = state[u]
      /\ state'[t].gen = state[t].gen /\ state'[t].at = "orphan"
  BY <1>2, <1>3 DEF States, Places
<1>5. /\ writer' \in [Tracks -> Writers] /\ \A u \in Tracks : u # t => writer'[u] = writer[u]
      /\ writer'[t].clock = provider
  BY <1>2, <1>3 DEF Writers, NoWriter, NewWriter, OtherTypes
<1>50. ChannelTypes' /\ Shortens(t) /\ \A u \in Tracks : u # t => ops'[u] = ops[u]
  BY <1>2, <1>3 DEF ChannelTypes, Shortens
<1>51. pipe' \in [Tracks -> Nat] /\ pipe'[t] \in {pipe[t], 0, state[t].gen}
  BY <1>2, <1>3 DEF OtherTypes, States
<1>6. Local(t)
  BY <1>2, <1>3, <1>4, <1>5, <1>50 DEF Local, ChannelTypes, OtherTypes, JoinTypes
<1>7. Counting' /\ active' \in Nat
  BY <1>1, <1>2, <1>4, <1>6, CountSame DEF Counted
<1>8. Types'
  <2>1. JoinTypes' /\ OtherTypes'
    BY <1>2, <1>3, <1>7, <1>51 DEF JoinTypes, OtherTypes
  <2> QED BY <1>2, <1>3, <1>4, <1>5, <1>50, <2>1 DEF Types, RequestTypes, WorkerTypes, WellCalled
<1>9. /\ Generations(t)' /\ Budget(t)'
      /\ HasType(ops'[t], "Close") => HasType(ops[t], "Close")
  BY <1>1, <1>4, <1>50, <1>51, <1>6, ChannelKept
<1>10. Lives(t)'
  BY <1>1, <1>2, <1>3, <1>4, <1>9 DEF Lives, Continues, ChannelTypes, Phases
<1>11. Piped(t)'
  BY <1>1, <1>2, <1>3, <1>4, <1>5 DEF Piped, Out, Continues, ChannelTypes, OtherTypes, Lives, Phases
<1>12. Noticed(t)'
  BY <1>1, <1>2, <1>3, <1>4, <1>5 DEF Noticed, Playing, Phases
<1>13. WillEnd'
  BY <1>1, <1>2, <1>4, <1>6, WillEndKept DEF Ending
<1>14. Joining'
  BY <1>1, <1>2, JoiningKept
<1> QED BY <1>1, <1>6, <1>7, <1>8, <1>9, <1>10, <1>11, <1>12, <1>13, <1>14, EachKept, PhasesKept
        DEF IInv

\* A track that comes after the initialization.
LEMMA LateCreatedKept ==
    ASSUME IInv, NEW t \in Tracks, WriterCreated(t), ~closing, state[t].postInit PROVE IInv'
<1>1. /\ Types /\ Phases /\ Each /\ Counting /\ WillEnd /\ Joining
      /\ Lives(t) /\ Piped(t) /\ Noticed(t)
  BY DEF IInv, Each
<1>2. /\ UNCHANGED <<request, built, closing, closer, toClose, provider, tpSender, call, room,
                     handled>>
      /\ UNCHANGED <<worker, pipe, known, join, ended, ops, active>>
      /\ worker[t] = "running" /\ state[t].at = "creating" /\ ~closing
      /\ subLock' = subLock \ {t}
      /\ state' = [state EXCEPT ![t].at = "linking"]
      /\ writer' = [writer EXCEPT ![t] = NewWriter]
      /\ join.at = "done"
  BY DEF WriterCreated, outside, closeVars, tpVars, At, Runs, Goes, SendResult, AwaitsResults, IInv, Each, Lives
<1>3. /\ request \in Plans /\ JoinTypes /\ ChannelTypes /\ OtherTypes /\ WellCalled
      /\ state \in [Tracks -> States] /\ writer \in [Tracks -> Writers]
      /\ ops[t] \in Seq(Ops) /\ Len(ops[t]) \in Nat /\ state[t] \in States /\ writer[t] \in Writers
      /\ pipe[t] \in Nat
  BY <1>1 DEF Types, RequestTypes, WorkerTypes, ChannelTypes, OtherTypes
<1>4. /\ state' \in [Tracks -> States] /\ \A u \in Tracks : u # t => state'[u] = state[u]
      /\ state'[t].gen = state[t].gen /\ state'[t].at = "linking"
  BY <1>2, <1>3 DEF States, Places
<1>5. /\ writer' \in [Tracks -> Writers] /\ \A u \in Tracks : u # t => writer'[u] = writer[u]
      /\ writer'[t].clock = provider
  BY <1>2, <1>3 DEF Writers, NoWriter, NewWriter, OtherTypes
<1>50. ChannelTypes' /\ Shortens(t) /\ \A u \in Tracks : u # t => ops'[u] = ops[u]
  BY <1>2, <1>3 DEF ChannelTypes, Shortens
<1>51. pipe' \in [Tracks -> Nat] /\ pipe'[t] \in {pipe[t], 0, state[t].gen}
  BY <1>2, <1>3 DEF OtherTypes, States
<1>6. Local(t)
  BY <1>2, <1>3, <1>4, <1>5, <1>50 DEF Local, ChannelTypes, OtherTypes, JoinTypes
<1>7. Counting' /\ active' \in Nat
  BY <1>1, <1>2, <1>4, <1>6, CountSame DEF Counted
<1>8. Types'
  <2>1. JoinTypes' /\ OtherTypes'
    BY <1>2, <1>3, <1>7, <1>51 DEF JoinTypes, OtherTypes
  <2> QED BY <1>2, <1>3, <1>4, <1>5, <1>50, <2>1 DEF Types, RequestTypes, WorkerTypes, WellCalled
<1>9. /\ Generations(t)' /\ Budget(t)'
      /\ HasType(ops'[t], "Close") => HasType(ops[t], "Close")
  BY <1>1, <1>4, <1>50, <1>51, <1>6, ChannelKept
<1>10. Lives(t)'
  BY <1>1, <1>2, <1>3, <1>4, <1>9 DEF Lives, Continues, ChannelTypes, Phases
<1>11. Piped(t)'
  BY <1>1, <1>2, <1>3, <1>4, <1>5 DEF Piped, Out, Continues, ChannelTypes, OtherTypes, Lives, Phases
<1>12. Noticed(t)'
  BY <1>1, <1>2, <1>3, <1>4, <1>5 DEF Noticed, Playing, Phases
<1>13. WillEnd'
  BY <1>1, <1>2, <1>4, <1>6, WillEndKept DEF Ending
<1>14. Joining'
  BY <1>1, <1>2, JoiningKept
<1> QED BY <1>1, <1>6, <1>7, <1>8, <1>9, <1>10, <1>11, <1>12, <1>13, <1>14, EachKept, PhasesKept
        DEF IInv

\* A track that comes before the initialization ends.
LEMMA EarlyCreatedKept ==
    ASSUME IInv, NEW t \in Tracks, WriterCreated(t), ~closing, ~state[t].postInit, RequestsSelect PROVE IInv'
<1>1. /\ Types /\ Phases /\ Each /\ Counting /\ WillEnd /\ Joining
      /\ Lives(t) /\ Piped(t) /\ Noticed(t)
  BY DEF IInv, Each
<1>2. /\ UNCHANGED <<request, built, closing, closer, toClose, provider, tpSender, call, room,
                     handled>>
      /\ UNCHANGED <<worker, pipe, ended, ops, active>>
      /\ worker[t] = "running" /\ state[t].at = "creating" /\ ~closing
      /\ subLock' = subLock \ {t}
      /\ state' = [state EXCEPT ![t].at = "activating"]
      /\ writer' = [writer EXCEPT ![t] = NewWriter]
      /\ known' = known \cup {t}
      /\ Sends(TRUE)
      /\ join.at # "done"
  BY DEF WriterCreated, outside, closeVars, tpVars, At, Runs, Goes, Sends, SendResult, AwaitsResults, IInv, Each, Lives
<1>3. /\ request \in Plans /\ JoinTypes /\ ChannelTypes /\ OtherTypes /\ WellCalled
      /\ state \in [Tracks -> States] /\ writer \in [Tracks -> Writers]
      /\ ops[t] \in Seq(Ops) /\ Len(ops[t]) \in Nat /\ state[t] \in States /\ writer[t] \in Writers
      /\ pipe[t] \in Nat
  BY <1>1 DEF Types, RequestTypes, WorkerTypes, ChannelTypes, OtherTypes
<1>30. JoinTypes' /\ join'.at = join.at
  BY <1>2, <1>3, SendsTypes
<1>4. /\ state' \in [Tracks -> States] /\ \A u \in Tracks : u # t => state'[u] = state[u]
      /\ state'[t].gen = state[t].gen /\ state'[t].at = "activating"
  BY <1>2, <1>3 DEF States, Places
<1>5. /\ writer' \in [Tracks -> Writers] /\ \A u \in Tracks : u # t => writer'[u] = writer[u]
      /\ writer'[t].clock = provider
  BY <1>2, <1>3 DEF Writers, NoWriter, NewWriter, OtherTypes
<1>50. ChannelTypes' /\ Shortens(t) /\ \A u \in Tracks : u # t => ops'[u] = ops[u]
  BY <1>2, <1>3 DEF ChannelTypes, Shortens
<1>51. pipe' \in [Tracks -> Nat] /\ pipe'[t] \in {pipe[t], 0, state[t].gen}
  BY <1>2, <1>3 DEF OtherTypes, States
<1>6. Local(t)
  BY <1>2, <1>3, <1>30, <1>4, <1>5, <1>50 DEF Local, ChannelTypes, OtherTypes, JoinTypes
<1>7. Counting' /\ active' \in Nat
  BY <1>1, <1>2, <1>4, <1>6, CountSame DEF Counted
<1>8. Types'
  <2>1. JoinTypes' /\ OtherTypes'
    BY <1>2, <1>3, <1>30, <1>7, <1>51 DEF OtherTypes
  <2> QED BY <1>2, <1>3, <1>4, <1>5, <1>50, <2>1 DEF Types, RequestTypes, WorkerTypes, WellCalled
<1>9. /\ Generations(t)' /\ Budget(t)'
      /\ HasType(ops'[t], "Close") => HasType(ops[t], "Close")
  BY <1>1, <1>4, <1>50, <1>51, <1>6, ChannelKept
<1>10. Lives(t)'
  BY <1>1, <1>2, <1>3, <1>4, <1>30, <1>9 DEF Lives, Continues, ChannelTypes, Phases
<1>11. Piped(t)'
  BY <1>1, <1>2, <1>3, <1>30, <1>4, <1>5 DEF Piped, Out, Continues, ChannelTypes, OtherTypes, Lives, Phases
<1>12. Noticed(t)'
  BY <1>1, <1>2, <1>3, <1>4, <1>5 DEF Noticed, Playing, Phases
<1>13. WillEnd'
  BY <1>1, <1>2, <1>4, <1>6, <1>30, WillEndKept DEF Ending
<1>14. Joining'
  <2>1. t \in Selected
    BY <1>1, <1>2, Begun
  <2> QED BY <1>1, <1>2, <2>1, ResultJoins
<1> QED BY <1>1, <1>6, <1>7, <1>8, <1>9, <1>10, <1>11, <1>12, <1>13, <1>14, EachKept, PhasesKept
        DEF IInv

\* The state of a worker that starts a subscription.
LEMMA StartTypes ==
    ASSUME state \in [Tracks -> States], NEW t \in Tracks, NEW p \in BOOLEAN, NEW ch \in BOOLEAN,
           state' = [state EXCEPT ![t].at = "creating", ![t].postInit = p, ![t].ch = ch, ![t].gen = @ + 1]
    PROVE  /\ state' \in [Tracks -> States] /\ \A u \in Tracks : u # t => state'[u] = state[u]
           /\ state'[t].gen = state[t].gen + 1 /\ state'[t].at = "creating"
           /\ state'[t].postInit = p
<1> DEFINE new == [state[t] EXCEPT !.at = "creating", !.postInit = p, !.ch = ch, !.gen = @ + 1]
<1>1. state' = [state EXCEPT ![t] = new]
  OBVIOUS
<1>2. state[t] \in States
  OBVIOUS
<1>3. new.at = "creating" /\ new.postInit = p /\ new.gen = state[t].gen + 1
  BY <1>2 DEF States
<1>4. new \in States
  BY <1>2 DEF States, Places
<1> HIDE DEF new
<1>5. state'[t] = new
  BY <1>1
<1>6. state' \in [Tracks -> States]
  BY <1>1, <1>4
<1>7. \A u \in Tracks : u # t => state'[u] = state[u]
  BY <1>1
<1> QED BY <1>3, <1>5, <1>6, <1>7

\* handleSubscribe: a new generation of the track.
LEMMA SubscribeStartsKept ==
    ASSUME IInv, NEW t \in Tracks, SubscribeStarts(t) PROVE IInv'
<1>1. /\ Types /\ Phases /\ Each /\ Counting /\ WillEnd /\ Joining
      /\ Lives(t) /\ Piped(t) /\ Noticed(t) /\ Generations(t) /\ Budget(t)
  BY DEF IInv, Each
<1>2. /\ UNCHANGED <<request, built, closing, closer, toClose, provider, tpSender, call, room,
                     handled>>
      /\ UNCHANGED <<writer, worker, pipe, known, join, ended, active>>
      /\ worker[t] = "running" /\ state[t].at = "idle" /\ ops[t] # <<>>
      /\ Head(ops[t]).type = "Subscribe"
      /\ ops' = [ops EXCEPT ![t] = Tail(@)]
      /\ subLock' = subLock \cup {t}
      /\ state' = [state EXCEPT ![t].at = "creating", ![t].postInit = join.at = "done",
                                ![t].ch = Head(ops[t]).ch, ![t].gen = @ + 1]
  BY DEF SubscribeStarts, Takes, outside, closeVars, tpVars, At, Runs
<1>3. /\ request \in Plans /\ JoinTypes /\ ChannelTypes /\ OtherTypes /\ WellCalled
      /\ state \in [Tracks -> States] /\ writer \in [Tracks -> Writers]
      /\ ops[t] \in Seq(Ops) /\ Len(ops[t]) \in Nat /\ state[t] \in States /\ writer[t] \in Writers
      /\ pipe[t] \in Nat /\ state[t].gen \in Nat /\ room[t].subs \in Nat /\ handled[t] \subseteq Nat
  BY <1>1 DEF Types, RequestTypes, WorkerTypes, ChannelTypes, OtherTypes, States
<1>4. /\ Tail(ops[t]) \in Seq(Ops) /\ Len(Tail(ops[t])) = Len(ops[t]) - 1
      /\ ops'[t] = Tail(ops[t]) /\ Head(ops[t]) \in Ops
      /\ HasType(Tail(ops[t]), "Close") => HasType(ops[t], "Close")
      /\ Subscriptions(ops[t]) = Subscriptions(Tail(ops[t])) + 1
  BY <1>2, <1>3, Taken DEF ChannelTypes
<1>5. Head(ops[t]).ch \in BOOLEAN
  BY <1>2, <1>4 DEF Ops
<1>6. /\ state' \in [Tracks -> States] /\ \A u \in Tracks : u # t => state'[u] = state[u]
      /\ state'[t].gen = state[t].gen + 1 /\ state'[t].at = "creating"
      /\ state'[t].postInit <=> join.at = "done"
  BY <1>2, <1>3, <1>5, StartTypes
<1>7. ChannelTypes' /\ \A u \in Tracks : u # t => ops'[u] = ops[u]
  <2>1. worker' \in [Tracks -> {"none", "running", "exited"}]
    BY <1>2, <1>3 DEF ChannelTypes
  <2> QED BY <1>2, <1>3, <2>1, TakenTypes
<1>8. Local(t)
  BY <1>2, <1>3, <1>6, <1>7 DEF Local, OtherTypes
<1>9. Counting' /\ active' \in Nat
  BY <1>1, <1>2, <1>6, <1>8, CountSame DEF Counted
<1>10. Types'
  <2>1. OtherTypes'
    BY <1>2, <1>3, <1>9 DEF OtherTypes
  <2> QED BY <1>2, <1>3, <1>6, <1>7, <2>1 DEF Types, RequestTypes, WorkerTypes, WellCalled, JoinTypes
<1>11. Generations(t)'
  <2>1. Subscriptions(ops'[t]) \in Nat /\ Subscriptions(ops[t]) = Subscriptions(ops'[t]) + 1
    BY <1>4, SubsFinite
  <2>2. Asked(t) \in Nat /\ Asked(t)' = Asked(t)
    BY <1>2 DEF Asked
  <2>3. state'[t].gen + Subscriptions(ops'[t]) + Asked(t)' <= room'[t].subs
    <3> DEFINE n == Subscriptions(ops'[t])
               g == state[t].gen
    <3>1. g + (n + 1) + Asked(t) <= room[t].subs /\ g \in Nat /\ n \in Nat /\ room[t].subs \in Nat
      BY <1>1, <1>3, <2>1 DEF Generations
    <3> HIDE DEF n, g
    <3>2. (g + 1) + n + Asked(t) <= room[t].subs
      BY <2>2, <3>1
    <3> QED BY <1>2, <1>6, <2>2, <3>2 DEF n, g
  <2>4. handled'[t] \subseteq 1..state'[t].gen /\ pipe'[t] <= state'[t].gen
    BY <1>1, <1>2, <1>3, <1>6 DEF Generations
  <2> QED BY <1>1, <1>2, <2>3, <2>4 DEF Generations
<1>12. Budget(t)'
  <2>1. Happened(t)' = Happened(t) /\ Happened(t) \in Int
    BY <1>1, <1>8, HappenedType DEF Happened, Local
  <2>2. /\ One(call[t].at = "submit") \in Nat
        /\ One(call[Bus].at = "submit" /\ call[Bus].track = t) \in Nat
        /\ One(call[t].at = "submit")' = One(call[t].at = "submit")
        /\ One(call[Bus].at = "submit" /\ call[Bus].track = t)'
             = One(call[Bus].at = "submit" /\ call[Bus].track = t)
    BY <1>2 DEF One
  <2>3. Len(ops'[t]) = Len(ops[t]) - 1
    BY <1>4
  <2> QED BY <1>1, <1>3, <2>1, <2>2, <2>3 DEF Budget, Waiting
<1>13. Lives(t)'
  BY <1>1, <1>2, <1>3, <1>4, <1>6 DEF Lives
<1>14. Piped(t)'
  BY <1>1, <1>2, <1>3, <1>6 DEF Piped, Out, Continues
<1>15. Noticed(t)'
  BY <1>1, <1>2, <1>3, <1>6 DEF Noticed, Generations
<1>16. WillEnd'
  BY <1>1, <1>2, <1>8, WillEndKept DEF Ending
<1>17. Joining'
  BY <1>1, <1>2, JoiningKept
<1> QED BY <1>1, <1>8, <1>9, <1>10, <1>11, <1>12, <1>13, <1>14, <1>15, <1>16, <1>17, EachKept,
           PhasesKept DEF IInv

(***************************************************************************)
(* joinRoom.                                                               *)
(***************************************************************************)
notJoin == <<request, subLock, known, built, pipe, worker, ops, state, writer, active, closeVars,
             tpVars, call, room, ended, handled>>

\* joinRoom changes what the workers see only when it is done, and then none is creating.
LEMMA JoinMoves ==
    ASSUME IInv, UNCHANGED notJoin, JoinTypes', join.at = "done" => join'.at = "done",
           join'.at = "done" => join.at = "done" \/ subLock = {}, Joining'
    PROVE  IInv'
<1>1. Types /\ Phases /\ Each /\ Counting /\ WillEnd
  BY DEF IInv
<1>2. UNCHANGED <<request, subLock, known, built, pipe, worker, ops, state, writer, active, closing,
                  closer, toClose, provider, tpSender, call, room, ended, handled>>
  BY DEF notJoin, closeVars, tpVars
<1>3. Types'
  BY <1>1, <1>2 DEF Types, RequestTypes, WorkerTypes, ChannelTypes, OtherTypes, WellCalled
<1>4. Phases'
  BY <1>1, <1>2 DEF Phases
<1>5. ASSUME NEW t \in Tracks PROVE Generations(t)' /\ Budget(t)' /\ Lives(t)' /\ Piped(t)' /\ Noticed(t)'
  <2>1. Generations(t) /\ Budget(t) /\ Lives(t) /\ Piped(t) /\ Noticed(t)
    BY <1>1 DEF Each
  <2>2. Generations(t)' /\ Budget(t)'
    BY <1>2, <2>1 DEF Generations, Asked, Budget, Waiting, Happened, One
  <2>3. Lives(t)'
    BY <1>2, <2>1 DEF Lives, Continues
  <2>4. Piped(t)' /\ Noticed(t)'
    BY <1>2, <2>1 DEF Piped, Continues, Noticed, Playing
  <2> QED BY <2>2, <2>3, <2>4
<1>6. Counting' /\ WillEnd'
  BY <1>1, <1>2 DEF Counting, WillEnd, Continues, Ending
<1> QED BY <1>3, <1>4, <1>5, <1>6 DEF IInv, Each

\* awaitExpected counts the published tracks.
LEMMA StartsAwaitingKept == ASSUME IInv, StartsAwaiting PROVE IInv'
<1>1. JoinTypes /\ Joining /\ Types
  BY DEF IInv, Types
<1>2. PICK n \in 0..Cardinality(Selected) :
         join' = [join EXCEPT !.at = IF n = 0 THEN "lock" ELSE "await", !.cap = n]
  BY DEF StartsAwaiting
<1>3. join.at = "join" /\ UNCHANGED notJoin
  BY DEF StartsAwaiting, notJoin
<1>4. n \in Nat
  <2>1. Selected \in SUBSET Tracks
    BY DEF Selected
  <2>2. Cardinality(Selected) \in Nat
    BY <2>1, TracksFinite
  <2> QED BY <2>2
<1>5. JoinTypes' /\ join'.at \in {"lock", "await"}
  BY <1>1, <1>2, <1>4 DEF JoinTypes
<1>6. Joining'
  <2>1. ~Exact
    BY <1>1, <1>3 DEF Joining
  <2>2. Exact' = Exact
    BY <1>3 DEF notJoin, Exact
  <2> QED BY <2>1, <2>2 DEF Joining
<1> QED BY <1>3, <1>5, <1>6, JoinMoves

\* joinRoom reads no more results.
LEMMA JoinGoesTypes ==
    ASSUME NEW place \in {"failed", "lock"}, join' = JoinGoes(place)
    PROVE  JoinTypes' /\ join'.at = place
BY DEF JoinGoes, JoinTypes

\* The results that wait.
LEMMA ResultTaken ==
    ASSUME NEW s \in Seq(BOOLEAN), s # <<>>
    PROVE  /\ Len(s) \in Nat /\ Len(s) # 0 /\ Head(s) = s[1] /\ Head(s) \in BOOLEAN
           /\ Tail(s) \in Seq(BOOLEAN) /\ Len(Tail(s)) = Len(s) - 1
           /\ \A i \in 1..Len(Tail(s)) : Tail(s)[i] = s[i + 1]
           /\ 1 \in 1..Len(s) /\ (Head(s) => \A j \in 1..1 : s[j])
<1>1. Len(s) \in Nat /\ Len(s) # 0 /\ Head(s) = s[1]
  OBVIOUS
<1>2. Tail(s) \in Seq(BOOLEAN) /\ Len(Tail(s)) = Len(s) - 1
  OBVIOUS
<1>3. \A i \in 1..Len(Tail(s)) : Tail(s)[i] = s[i + 1]
  OBVIOUS
<1>4. 1 \in 1..Len(s) /\ \A j \in 1..1 : j = 1
  BY <1>1
<1>5. s[1] \in BOOLEAN
  BY <1>4
<1> QED BY <1>1, <1>2, <1>3, <1>4, <1>5

\* joinRoom takes a result.
LEMMA ReceivesResultKept == ASSUME IInv, ReceivesResult PROVE IInv'
<1>1. JoinTypes /\ Joining /\ Types /\ Each
  BY DEF IInv, Types
<1>2. /\ join.at = "await" /\ join.results # <<>> /\ UNCHANGED notJoin
      /\ join' = IF ~Head(join.results) THEN JoinGoes("failed")
                 ELSE IF join.got + 1 = join.cap THEN JoinGoes("lock")
                 ELSE [join EXCEPT !.results = Tail(@), !.got = @ + 1]
  BY DEF ReceivesResult, AwaitsResults, notJoin
<1>3. Exact' = Exact /\ Selected' = Selected /\ known' = known /\ ended' = ended
  BY <1>2 DEF notJoin, Exact, Selected
<1>0. join.results \in Seq(BOOLEAN) /\ join.got \in Nat /\ join.cap \in Nat
  BY <1>1 DEF JoinTypes
<1>4. /\ Len(join.results) \in Nat /\ Len(join.results) # 0
      /\ Head(join.results) = join.results[1] /\ Head(join.results) \in BOOLEAN
      /\ Tail(join.results) \in Seq(BOOLEAN) /\ Len(Tail(join.results)) = Len(join.results) - 1
      /\ \A i \in 1..Len(Tail(join.results)) : Tail(join.results)[i] = join.results[i + 1]
      /\ 1 \in 1..Len(join.results) /\ (Head(join.results) => \A j \in 1..1 : join.results[j])
  BY <1>0, <1>2, ResultTaken
<1>5. CASE ~Head(join.results)
  <2>1. JoinTypes' /\ join'.at = "failed"
    BY <1>2, <1>5, JoinGoesTypes
  <2>2. Joining'
    BY <2>1 DEF Joining
  <2> QED BY <1>2, <2>1, <2>2, JoinMoves
<1>6. CASE Head(join.results) /\ join.got + 1 = join.cap
  <2>1. JoinTypes' /\ join'.at = "lock"
    BY <1>2, <1>6, JoinGoesTypes
  <2>2. ASSUME Exact PROVE known = Selected \/ ended
    <3> SUFFICES ASSUME ResultsCount PROVE known = Selected
      BY <1>1, <1>2, <2>2 DEF Joining
    <3>1. join.cap = Cardinality(Selected)
      BY <1>1, <1>2, <2>2 DEF Joining
    <3>2. 1 \in 1..Len(join.results) /\ \A j \in 1..1 : join.results[j]
      BY <1>4, <1>6
    <3>3. join.got + 1 <= Cardinality(known)
      BY <3>2 DEF ResultsCount
    <3>4. known \subseteq Selected /\ Selected \in SUBSET Tracks
      BY <1>1, KnownSelected DEF Selected
    <3>5. IsFiniteSet(Selected)
      BY <3>4, TracksFinite
    <3>6. Cardinality(known) = Cardinality(Selected)
      <4>1. /\ Cardinality(known) <= Cardinality(Selected)
            /\ Cardinality(known) \in Nat /\ Cardinality(Selected) \in Nat
        BY <3>4, <3>5, FS_Subset, FS_CardinalityType
      <4>2. join.got + 1 = Cardinality(Selected)
        BY <1>6, <3>1
      <4> QED BY <3>3, <4>1, <4>2
    <3> QED BY <3>4, <3>5, <3>6, FS_Subset
  <2>3. Joining'
    BY <1>3, <2>1, <2>2 DEF Joining
  <2> QED BY <1>2, <2>1, <2>3, JoinMoves
<1>7. CASE Head(join.results) /\ join.got + 1 # join.cap
  <2>1. join' = [join EXCEPT !.results = Tail(@), !.got = @ + 1]
    BY <1>2, <1>7
  <2>2. /\ Tail(join.results) \in Seq(BOOLEAN) /\ Len(Tail(join.results)) = Len(join.results) - 1
        /\ \A i \in 1..Len(Tail(join.results)) : Tail(join.results)[i] = join.results[i + 1]
    BY <1>4
  <2> DEFINE rest == Tail(join.results)
  <2>20. join' = [join EXCEPT !.results = rest, !.got = join.got + 1] /\ rest \in Seq(BOOLEAN)
    BY <2>1, <2>2
  <2>21. join.got + 1 \in Nat
    BY <1>0
  <2> HIDE DEF rest
  <2>22. /\ JoinTypes' /\ join'.at = "await" /\ join'.results = rest
         /\ join'.got = join.got + 1 /\ join'.cap = join.cap
    BY <1>1, <1>2, <2>20, <2>21 DEF JoinTypes
  <2>3. /\ JoinTypes' /\ join'.at = "await" /\ join'.results = Tail(join.results)
        /\ join'.got = join.got + 1 /\ join'.cap = join.cap
    BY <2>22 DEF rest
  <2>4. ASSUME ResultsCount PROVE ResultsCount'
    <3>0. Cardinality(known) \in Nat
      BY <1>1, TracksFinite DEF Types, OtherTypes
    <3>1. join.got + 1 <= Cardinality(known)
      <4>1. 1 \in 1..Len(join.results) /\ \A j \in 1..1 : join.results[j]
        BY <1>4, <1>7
      <4> QED BY <2>4, <4>1 DEF ResultsCount
    <3>2. ASSUME NEW i \in 1..Len(join'.results), \A j \in 1..i : join'.results[j]
          PROVE  join'.got + i <= Cardinality(known)
      <4>0. Len(join'.results) = Len(join.results) - 1 /\ Len(join.results) \in Nat
        BY <1>4, <2>2, <2>3
      <4>1. i \in Nat /\ i + 1 \in 1..Len(join.results) /\ i \in 1..(Len(join.results) - 1)
        BY <3>2, <4>0
      <4>2. ASSUME NEW j \in 1..(i + 1) PROVE join.results[j]
        <5>1. CASE j = 1
          BY <1>4, <1>7, <5>1
        <5>2. CASE j # 1
          <6>0. Len(Tail(join.results)) = Len(join.results) - 1
            BY <2>2
          <6>1. j - 1 \in 1..i /\ j - 1 \in 1..Len(Tail(join.results)) /\ (j - 1) + 1 = j
            BY <4>0, <4>1, <4>2, <5>2, <6>0
          <6>2. join'.results[j - 1]
            BY <3>2, <6>1
          <6>3. join'.results[j - 1] = join.results[j]
            BY <2>2, <2>3, <6>1
          <6> QED BY <6>2, <6>3
        <5> QED BY <5>1, <5>2
      <4>3. join.got + (i + 1) <= Cardinality(known)
        BY <2>4, <4>1, <4>2 DEF ResultsCount
      <4> QED BY <1>0, <2>3, <3>0, <4>1, <4>3
    <3> QED BY <1>3, <2>3, <3>1, <3>2 DEF ResultsCount
  <2>5. Joining'
    BY <1>1, <1>2, <1>3, <2>3, <2>4 DEF Joining
  <2> QED BY <1>2, <2>3, <2>5, JoinMoves
<1> QED BY <1>4, <1>5, <1>6, <1>7

\* joinRoom waited long enough.
LEMMA AwaitTimesOutKept == ASSUME IInv, AwaitTimesOut PROVE IInv'
<1>1. join.at = "await" /\ UNCHANGED notJoin /\ join' = JoinGoes(IF Exact THEN "failed" ELSE "lock")
  BY DEF AwaitTimesOut, AwaitsResults, notJoin
<1>2. Exact' = Exact
  BY <1>1 DEF notJoin, Exact
<1>3. JoinTypes' /\ join'.at = IF Exact THEN "failed" ELSE "lock"
  BY <1>1, JoinGoesTypes
<1>4. Joining'
  BY <1>2, <1>3 DEF Joining
<1> QED BY <1>1, <1>3, <1>4, JoinMoves

\* completeInit, once no subscription is under way.
LEMMA CompletesInitKept == ASSUME IInv, CompletesInit PROVE IInv'
<1>1. JoinTypes /\ Joining
  BY DEF IInv, Types
<1>2. join.at = "lock" /\ subLock = {} /\ UNCHANGED notJoin /\ join' = [join EXCEPT !.at = "done"]
  BY DEF CompletesInit, notJoin
<1>3. JoinTypes' /\ join'.at = "done"
  BY <1>1, <1>2 DEF JoinTypes
<1>4. Joining'
  BY <1>1, <1>2, <1>3 DEF Joining, notJoin, Exact, Selected
<1> QED BY <1>2, <1>3, <1>4, JoinMoves

\* The build takes what the subscriptions before it have left.
LEMMA BuildsPipelineKept == ASSUME IInv, BuildsPipeline PROVE IInv'
<1>1. Types /\ Phases /\ Each /\ Counting /\ WillEnd /\ Joining
  BY DEF IInv
<1>2. /\ UNCHANGED <<request, join, subLock, known, worker, ops, state, writer, active, closing,
                     closer, toClose, provider, tpSender, call, room, ended, handled>>
      /\ join.at = "done" /\ ~built /\ built' = TRUE
      /\ pipe' = [t \in Tracks |-> IF t \in known THEN state[t].gen ELSE 0]
  BY DEF BuildsPipeline, closeVars, tpVars
<1>3. \A t \in Tracks : state[t].gen \in Nat
  BY <1>1 DEF Types, WorkerTypes, States
<1>4. pipe' \in [Tracks -> Nat] /\ built' \in BOOLEAN
  BY <1>2, <1>3
<1>5. Types'
  BY <1>1, <1>2, <1>4 DEF Types, RequestTypes, JoinTypes, WorkerTypes, ChannelTypes, OtherTypes, WellCalled
<1>6. Phases'
  BY <1>1, <1>2 DEF Phases
<1>7. ASSUME NEW t \in Tracks PROVE Generations(t)' /\ Budget(t)' /\ Lives(t)' /\ Piped(t)' /\ Noticed(t)'
  <2>1. Generations(t) /\ Budget(t) /\ Lives(t) /\ Piped(t) /\ Noticed(t)
    BY <1>1 DEF Each
  <2>2. pipe'[t] = (IF t \in known THEN state[t].gen ELSE 0) /\ pipe'[t] <= state[t].gen
    BY <1>2, <1>3
  <2>3. Generations(t)' /\ Budget(t)'
    BY <1>2, <2>1, <2>2 DEF Generations, Asked, Budget, Waiting, Happened, One
  <2>4. Lives(t)' /\ Noticed(t)'
    BY <1>2, <2>1 DEF Lives, Continues, Noticed, Playing
  <2>5. Piped(t)'
    BY <1>2, <2>1, <2>2 DEF Piped, Continues, Out
  <2> QED BY <2>3, <2>4, <2>5
<1>8. Counting' /\ WillEnd' /\ Joining'
  BY <1>1, <1>2, JoiningKept DEF Counting, WillEnd, Continues, Ending
<1> QED BY <1>5, <1>6, <1>7, <1>8 DEF IInv, Each

(***************************************************************************)
(* submitOp, and who calls it.                                             *)
(***************************************************************************)
\* A call that starts.
LEMMA SubmitsCalls ==
    ASSUME WellCalled, NEW c \in Callers, NEW t \in Tracks, NEW op \in Ops, op.type # "Close",
           c # Bus => c = t, c = Bus => op.type # "Subscribe", Submits(c, t, op)
    PROVE  /\ WellCalled' /\ \A d \in Callers : d # c => call'[d] = call[d]
           /\ call[c] = NoCall
           /\ closing => call'[c] = NoCall
           /\ ~closing => call'[c] = [at |-> "submit", track |-> t, op |-> op]
<1>1. DOMAIN call = Callers /\ call[c].at = "idle"
  BY DEF WellCalled, Submits
<1>2. call' = [call EXCEPT ![c] = IF closing THEN NoCall ELSE [at |-> "submit", track |-> t, op |-> op]]
  BY DEF Submits
<1>3. /\ \A d \in Callers : d # c => call'[d] = call[d]
      /\ DOMAIN call' = Callers
      /\ closing => call'[c] = NoCall
      /\ ~closing => call'[c] = [at |-> "submit", track |-> t, op |-> op]
  BY <1>1, <1>2
<1>4. call[c] = NoCall
  BY <1>1 DEF WellCalled
<1>5. WellCalled'
  BY <1>3 DEF WellCalled
<1> QED BY <1>3, <1>4, <1>5

\* What the room and the bus change.
LEMMA CallsMove ==
    ASSUME IInv, UNCHANGED <<request, join, subLock, known, built, pipe, worker, ops, state, writer,
                             active, closing, closer, toClose, provider, tpSender, ended>>,
           room' \in [Tracks -> [subs : Nat, held : BOOLEAN, failed : BOOLEAN]],
           handled' \in [Tracks -> SUBSET Nat], WellCalled',
           \A u \in Tracks : Generations(u)' /\ Budget(u)' /\ Noticed(u)'
    PROVE  IInv'
<1>1. Types /\ Phases /\ Each /\ Counting /\ WillEnd /\ Joining
  BY DEF IInv
<1>2. Types'
  BY <1>1 DEF Types, RequestTypes, JoinTypes, WorkerTypes, ChannelTypes, OtherTypes
<1>3. Phases' /\ Counting' /\ WillEnd' /\ Joining'
  BY <1>1, JoiningKept DEF Phases, Counting, WillEnd, Continues, Ending
<1>4. ASSUME NEW u \in Tracks PROVE Lives(u)' /\ Piped(u)'
  <2>1. Lives(u) /\ Piped(u)
    BY <1>1 DEF Each
  <2> QED BY <2>1 DEF Lives, Piped, Continues
<1> QED BY <1>2, <1>3, <1>4 DEF IInv, Each

\* The bus goroutine is no callback of a track.
LEMMA BusIsNoTrack == Bus \in Callers /\ \A t \in Tracks : t \in Callers /\ t # Bus
BY SourceAssumption DEF Bus, Callers

\* What a caller that is idle has.
LEMMA NoCallFacts == NoCall.at = "idle" /\ NoCall.op.type = "none" /\ NoCall.track = Bus
BY DEF NoCall

\* The numbers of an invariant.
LEMMA Numbers ==
    ASSUME Types, Each, NEW t \in Tracks
    PROVE  /\ Len(ops[t]) \in Nat /\ Subscriptions(ops[t]) \in Nat /\ Asked(t) \in {0, 1}
           /\ state[t].gen \in Nat /\ room[t].subs \in Nat /\ request.subs[t] \in Nat
           /\ Cardinality(handled[t]) \in Nat /\ Cardinality(handled[t]) <= state[t].gen
           /\ IsFiniteSet(handled[t]) /\ pipe[t] \in Nat /\ ops[t] \in Seq(Ops)
<1>1. /\ ops[t] \in Seq(Ops) /\ state[t].gen \in Nat /\ room[t].subs \in Nat /\ pipe[t] \in Nat
  BY DEF Types, WorkerTypes, ChannelTypes, OtherTypes, States
<1>2. request.subs[t] \in Nat
  BY SourceAssumption DEF Types, RequestTypes
<1>3. handled[t] \in SUBSET (1..state[t].gen)
  BY DEF Each, Generations
<1>4. IsFiniteSet(handled[t]) /\ Cardinality(handled[t]) \in Nat /\ Cardinality(handled[t]) <= state[t].gen
  BY <1>1, <1>3, HandledFinite
<1>5. Asked(t) \in {0, 1}
  BY DEF Asked
<1> QED BY <1>1, <1>2, <1>4, <1>5, SubsFinite

\* onTrackSubscribed.
LEMMA TrackSubscribedKept ==
    ASSUME IInv, NEW t \in Tracks, TrackSubscribed(t) PROVE IInv'
<1>1. Types /\ Each /\ WellCalled /\ room \in [Tracks -> [subs : Nat, held : BOOLEAN, failed : BOOLEAN]]
  BY DEF IInv, Types, OtherTypes
<1>2. /\ UNCHANGED <<request, join, subLock, known, built, pipe, worker, ops, state, writer,
                     active, closing, closer, toClose, provider, tpSender, ended, handled>>
      /\ ~room[t].held /\ room[t].subs < request.subs[t]
      /\ room' = [room EXCEPT ![t].held = TRUE, ![t].subs = @ + 1]
      /\ \/ call[t].at = "idle" /\ UNCHANGED call
         \/ Submits(t, t, [type |-> "Subscribe", ch |-> AwaitsResults])
  BY DEF TrackSubscribed, closeVars, tpVars
<1>3. t \in Callers /\ t # Bus /\ Bus \in Callers
  BY BusIsNoTrack
<1>4. /\ WellCalled' /\ \A d \in Callers : d # t => call'[d] = call[d]
      /\ call[t] = NoCall
  <2>1. CASE call[t].at = "idle" /\ UNCHANGED call
    BY <1>1, <1>3, <2>1 DEF WellCalled
  <2>2. CASE Submits(t, t, [type |-> "Subscribe", ch |-> AwaitsResults])
    <3>1. AwaitsResults \in BOOLEAN
      BY DEF AwaitsResults
    <3>2. [type |-> "Subscribe", ch |-> AwaitsResults] \in Ops
      BY <3>1 DEF Ops
    <3> QED BY <1>1, <1>3, <2>2, <3>2, SubmitsCalls
  <2> QED BY <1>2, <2>1, <2>2
<1>5. /\ room' \in [Tracks -> [subs : Nat, held : BOOLEAN, failed : BOOLEAN]]
      /\ room'[t].subs = room[t].subs + 1 /\ room'[t].held = TRUE /\ room'[t].failed = room[t].failed
      /\ \A u \in Tracks : u # t => room'[u] = room[u]
  BY <1>1, <1>2
<1>6. ASSUME NEW u \in Tracks PROVE Generations(u)' /\ Budget(u)' /\ Noticed(u)'
  <2>1. Generations(u) /\ Budget(u) /\ Noticed(u)
    BY <1>1 DEF Each
  <2>2. Noticed(u)'
    BY <1>2, <1>3, <1>4, <2>1 DEF Noticed, Playing
  <2>3. CASE u # t
    <3>1. u \in Callers /\ call'[u] = call[u] /\ call'[Bus] = call[Bus]
      BY <1>3, <1>4, <2>3, BusIsNoTrack
    <3>2. Generations(u)'
      BY <1>2, <1>5, <2>1, <2>3, <3>1 DEF Generations, Asked
    <3>3. Budget(u)'
      BY <1>2, <1>5, <2>1, <2>3, <3>1 DEF Budget, Waiting, Happened, One
    <3> QED BY <2>2, <3>2, <3>3
  <2>4. CASE u = t
    <3>0. /\ Len(ops[t]) \in Nat /\ Subscriptions(ops[t]) \in Nat /\ Cardinality(handled[t]) \in Nat
          /\ state[t].gen \in Nat /\ room[t].subs \in Nat /\ request.subs[t] \in Nat
      BY <1>1, Numbers
    <3>1. Asked(t) = 0 /\ Asked(t)' \in {0, 1}
      BY <1>4, NoCallFacts DEF Asked
    <3>2. Generations(t)'
      BY <1>2, <1>5, <2>1, <2>4, <3>0, <3>1 DEF Generations
    <3>3. One(call[t].at = "submit") = 0 /\ One(call[t].at = "submit")' \in {0, 1}
      BY <1>4, NoCallFacts DEF One
    <3>4. One(room[t].held) = 0 /\ One(room[t].held)' = 1 /\ One(room[t].failed)' = One(room[t].failed)
      BY <1>2, <1>5 DEF One
    <3> DEFINE a == One(call[t].at = "submit")
               b == One(call[Bus].at = "submit" /\ call[Bus].track = t)
               f == One(room[t].failed)
               d == One(tpSender = "done")
               k == One(closer \in {"send", "closed"} /\ t \notin toClose)
    <3>5. b \in Nat /\ d \in Nat /\ k \in Nat /\ f \in Nat
      BY DEF One
    <3>6. b' = b /\ d' = d /\ k' = k /\ f' = f
      BY <1>2, <1>3, <1>4, <3>4 DEF One
    <3>7. Len(ops[t]) + 0 + b <= 2 * room[t].subs - 0 + Cardinality(handled[t]) + f + d + k
      BY <2>1, <2>4, <3>3, <3>4 DEF Budget, Waiting, Happened
    <3>8. Waiting(t)' = Len(ops[t]) + a' + b /\ a' \in {0, 1}
      BY <1>2, <3>3, <3>6 DEF Waiting
    <3>9. Happened(t)' = 2 * (room[t].subs + 1) - 1 + Cardinality(handled[t]) + f + d + k
      BY <1>2, <1>5, <3>4, <3>6 DEF Happened
    <3> DEFINE l == Len(ops[t])
               s == room[t].subs
               h == Cardinality(handled[t])
    <3>13. /\ l \in Nat /\ s \in Nat /\ h \in Nat /\ b \in Nat /\ f \in Nat /\ d \in Nat /\ k \in Nat
           /\ l + 0 + b <= 2 * s - 0 + h + f + d + k
      BY <3>0, <3>5, <3>7
    <3>14. PICK x \in {0, 1} : x = a'
      BY <3>8
    <3> HIDE DEF a, b, f, d, k, l, s, h
    <3>15. l + x + b <= 2 * (s + 1) - 1 + h + f + d + k
      BY <3>13
    <3>10. Len(ops[t]) + a' + b <= 2 * (room[t].subs + 1) - 1 + Cardinality(handled[t]) + f + d + k
      BY <3>14, <3>15 DEF l, s, h
    <3>12. Waiting(t)' <= Happened(t)'
      BY <3>8, <3>9, <3>10
    <3> QED BY <2>2, <2>4, <3>2, <3>12 DEF Budget
  <2> QED BY <2>3, <2>4
<1> QED BY <1>1, <1>2, <1>4, <1>5, <1>6, CallsMove DEF Types, OtherTypes

\* The parts of a budget.
PartA(t) == One(call[t].at = "submit")
PartB(t) == One(call[Bus].at = "submit" /\ call[Bus].track = t)
PartE(t) == One(room[t].held)
PartF(t) == One(room[t].failed)
PartD == One(tpSender = "done")
PartK(t) == One(closer \in {"send", "closed"} /\ t \notin toClose)

\* The budget of a track as a sum of numbers.
LEMMA BudgetParts ==
    ASSUME Types, Each, NEW t \in Tracks
    PROVE  /\ Len(ops[t]) \in Nat /\ room[t].subs \in Nat /\ Cardinality(handled[t]) \in Nat
           /\ PartA(t) \in Nat /\ PartB(t) \in Nat /\ PartE(t) \in Nat
           /\ PartF(t) \in Nat /\ PartD \in Nat /\ PartK(t) \in Nat
           /\ Len(ops[t]) + PartA(t) + PartB(t)
                <= 2 * room[t].subs - PartE(t) + Cardinality(handled[t]) + PartF(t) + PartD + PartK(t)
<1>1. Budget(t)
  BY DEF Each
<1>2. /\ PartA(t) \in {0, 1} /\ PartB(t) \in {0, 1} /\ PartE(t) \in {0, 1}
      /\ PartF(t) \in {0, 1} /\ PartD \in {0, 1} /\ PartK(t) \in {0, 1}
  BY DEF PartA, PartB, PartE, PartF, PartD, PartK, One
<1> QED BY <1>1, <1>2, Numbers DEF Budget, Waiting, Happened, PartA, PartB, PartE, PartF, PartD, PartK

\* onTrackUnsubscribed.
LEMMA TrackUnsubscribedKept ==
    ASSUME IInv, NEW t \in Tracks, TrackUnsubscribed(t) PROVE IInv'
<1>1. Types /\ Each /\ WellCalled /\ room \in [Tracks -> [subs : Nat, held : BOOLEAN, failed : BOOLEAN]]
  BY DEF IInv, Types, OtherTypes
<1>2. /\ UNCHANGED <<request, join, subLock, known, built, pipe, worker, ops, state, writer,
                     active, closing, closer, toClose, provider, tpSender, ended, handled>>
      /\ room[t].held
      /\ room' = [room EXCEPT ![t].held = FALSE]
      /\ \/ call[t].at = "idle" /\ UNCHANGED call
         \/ Submits(t, t, [type |-> "Unsubscribe"])
  BY DEF TrackUnsubscribed, closeVars, tpVars
<1>3. t \in Callers /\ t # Bus /\ Bus \in Callers
  BY BusIsNoTrack
<1>4. /\ WellCalled' /\ \A d \in Callers : d # t => call'[d] = call[d]
      /\ call[t] = NoCall /\ call'[t].op.type # "Subscribe"
  <2>1. CASE call[t].at = "idle" /\ UNCHANGED call
    <3>1. call[t] = NoCall
      BY <1>1, <1>3, <2>1 DEF WellCalled
    <3> QED BY <1>1, <2>1, <3>1, NoCallFacts DEF WellCalled
  <2>2. CASE Submits(t, t, [type |-> "Unsubscribe"])
    <3>2. [type |-> "Unsubscribe"] \in Ops
      BY DEF Ops
    <3>3. /\ WellCalled' /\ \A d \in Callers : d # t => call'[d] = call[d]
          /\ call[t] = NoCall
          /\ \/ call'[t] = NoCall
             \/ call'[t] = [at |-> "submit", track |-> t, op |-> [type |-> "Unsubscribe"]]
      BY <1>1, <1>3, <2>2, <3>2, SubmitsCalls
    <3> QED BY <3>3, NoCallFacts
  <2> QED BY <1>2, <2>1, <2>2
<1>5. /\ room' \in [Tracks -> [subs : Nat, held : BOOLEAN, failed : BOOLEAN]]
      /\ room'[t].subs = room[t].subs /\ room'[t].held = FALSE /\ room'[t].failed = room[t].failed
      /\ \A u \in Tracks : u # t => room'[u] = room[u]
  BY <1>1, <1>2
<1>6. ASSUME NEW u \in Tracks PROVE Generations(u)' /\ Budget(u)' /\ Noticed(u)'
  <2>1. Generations(u) /\ Budget(u) /\ Noticed(u)
    BY <1>1 DEF Each
  <2>2. Noticed(u)'
    BY <1>2, <1>3, <1>4, <2>1 DEF Noticed, Playing
  <2>3. CASE u # t
    <3>1. u \in Callers /\ call'[u] = call[u] /\ call'[Bus] = call[Bus]
      BY <1>3, <1>4, <2>3, BusIsNoTrack
    <3>2. Generations(u)'
      BY <1>2, <1>5, <2>1, <2>3, <3>1 DEF Generations, Asked
    <3>3. Budget(u)'
      BY <1>2, <1>5, <2>1, <2>3, <3>1 DEF Budget, Waiting, Happened, One
    <3> QED BY <2>2, <3>2, <3>3
  <2>4. CASE u = t
    <3>1. Asked(t) = 0 /\ Asked(t)' = 0
      BY <1>4, NoCallFacts DEF Asked
    <3>2. Generations(t)'
      BY <1>2, <1>5, <2>1, <2>4, <3>1 DEF Generations
    <3>3. PartA(t) = 0 /\ PartA(t)' \in {0, 1} /\ PartE(t) = 1 /\ PartE(t)' = 0
      BY <1>2, <1>4, <1>5, NoCallFacts DEF PartA, PartE, One
    <3>4. PartB(t)' = PartB(t) /\ PartF(t)' = PartF(t) /\ PartD' = PartD /\ PartK(t)' = PartK(t)
      BY <1>2, <1>3, <1>4, <1>5 DEF PartB, PartF, PartD, PartK
    <3>50. /\ Len(ops[t]) \in Nat /\ room[t].subs \in Nat /\ Cardinality(handled[t]) \in Nat
          /\ PartA(t) \in Nat /\ PartB(t) \in Nat /\ PartE(t) \in Nat
          /\ PartF(t) \in Nat /\ PartD \in Nat /\ PartK(t) \in Nat
          /\ Len(ops[t]) + PartA(t) + PartB(t)
                <= 2 * room[t].subs - PartE(t) + Cardinality(handled[t]) + PartF(t) + PartD + PartK(t)
      BY <1>1, BudgetParts
    <3>51. Len(ops[t]) + 0 + PartB(t)
             <= 2 * room[t].subs - 1 + Cardinality(handled[t]) + PartF(t) + PartD + PartK(t)
      BY <3>3, <3>50
    <3>52. PICK x \in {0, 1} : x = PartA(t)'
      BY <3>3
    <3> DEFINE l == Len(ops[t])
               s == room[t].subs
               h == Cardinality(handled[t])
               b == PartB(t)
               f == PartF(t)
               d == PartD
               k == PartK(t)
    <3>53. /\ l \in Nat /\ s \in Nat /\ h \in Nat /\ b \in Nat /\ f \in Nat /\ d \in Nat /\ k \in Nat
          /\ l + 0 + b <= 2 * s - 1 + h + f + d + k
      BY <3>50, <3>51
    <3> HIDE DEF l, s, h, b, f, d, k
    <3>54. l + x + b <= 2 * s - 0 + h + f + d + k
      BY <3>53
    <3>5. Len(ops[t]) + x + PartB(t)
             <= 2 * room[t].subs - 0 + Cardinality(handled[t]) + PartF(t) + PartD + PartK(t)
      BY <3>54 DEF l, s, h, b, f, d, k
    <3>6. Budget(t)'
      BY <1>2, <1>5, <3>3, <3>4, <3>5, <3>52 DEF Budget, Waiting, Happened, PartA, PartB, PartE, PartF, PartD, PartK
    <3> QED BY <2>2, <2>4, <3>2, <3>6
  <2> QED BY <2>3, <2>4
<1> QED BY <1>1, <1>2, <1>4, <1>5, <1>6, CallsMove DEF Types, OtherTypes

\* Playing.
LEMMA BusPlayingKept ==
    ASSUME IInv, NEW t \in Tracks, BusPlaying(t) PROVE IInv'
<1>1. /\ Types /\ Each /\ WellCalled /\ handled \in [Tracks -> SUBSET Nat]
      /\ Generations(t) /\ Budget(t) /\ Noticed(t)
  BY DEF IInv, Types, OtherTypes, Each
<1>2. /\ UNCHANGED <<request, join, subLock, known, built, pipe, worker, ops, state, writer,
                     active, closing, closer, toClose, provider, tpSender, ended, room>>
      /\ Submits(Bus, t, Playing(t))
  BY DEF BusPlaying, closeVars, tpVars, Playing
<1>3. PICK g \in 1..state[t].gen \ handled[t] :
         Linked(t, g) /\ handled' = [handled EXCEPT ![t] = @ \cup {g}]
  BY DEF BusPlaying
<1>4. t # Bus /\ Bus \in Callers /\ state[t].gen \in Nat
  BY <1>1, BusIsNoTrack, Numbers
<1>5. Playing(t) \in Ops /\ Playing(t).type = "Playing"
  BY <1>4 DEF Ops, Playing
<1>6. /\ WellCalled' /\ \A d \in Callers : d # Bus => call'[d] = call[d]
      /\ call[Bus] = NoCall
      /\ closing => call'[Bus] = NoCall
      /\ ~closing => call'[Bus] = [at |-> "submit", track |-> t, op |-> Playing(t)]
  BY <1>1, <1>2, <1>4, <1>5, SubmitsCalls
<1>7. /\ handled' \in [Tracks -> SUBSET Nat] /\ handled'[t] = handled[t] \cup {g}
      /\ \A u \in Tracks : u # t => handled'[u] = handled[u]
  BY <1>1, <1>3, <1>4
<1>8. Cardinality(handled'[t]) = Cardinality(handled[t]) + 1
  BY <1>1, <1>3, <1>7, Numbers, FS_AddElement
<1>9. ASSUME NEW u \in Tracks PROVE Generations(u)' /\ Budget(u)' /\ Noticed(u)'
  <2>1. Generations(u) /\ Budget(u) /\ Noticed(u)
    BY <1>1 DEF Each
  <2>2. u \in Callers /\ u # Bus /\ call'[u] = call[u]
    BY <1>6, BusIsNoTrack
  <2>3. CASE u # t
    <3>1. Generations(u)'
      BY <1>2, <1>7, <2>1, <2>2, <2>3 DEF Generations, Asked
    <3>2. (call[Bus].at = "submit" /\ call[Bus].track = u)' = (call[Bus].at = "submit" /\ call[Bus].track = u)
      BY <1>6, <2>2, <2>3, NoCallFacts
    <3>3. Budget(u)'
      BY <1>2, <1>7, <2>1, <2>2, <2>3, <3>2 DEF Budget, Waiting, Happened, One
    <3>4. Noticed(u)'
      BY <1>2, <1>6, <1>7, <2>1, <2>3, NoCallFacts DEF Noticed, Playing
    <3> QED BY <3>1, <3>3, <3>4
  <2>4. CASE u = t
    <3>1. Generations(t)'
      BY <1>1, <1>2, <1>3, <1>7, <2>2, <2>4 DEF Generations, Asked
    <3>2. /\ PartB(t) = 0 /\ PartB(t)' \in {0, 1} /\ PartA(t)' = PartA(t) /\ PartE(t)' = PartE(t)
          /\ PartF(t)' = PartF(t) /\ PartD' = PartD /\ PartK(t)' = PartK(t)
      BY <1>2, <1>6, <2>2, <2>4, NoCallFacts DEF PartA, PartB, PartE, PartF, PartD, PartK, One
    <3>30. /\ Len(ops[t]) \in Nat /\ room[t].subs \in Nat /\ Cardinality(handled[t]) \in Nat
          /\ PartA(t) \in Nat /\ PartB(t) \in Nat /\ PartE(t) \in Nat
          /\ PartF(t) \in Nat /\ PartD \in Nat /\ PartK(t) \in Nat
          /\ Len(ops[t]) + PartA(t) + PartB(t)
                <= 2 * room[t].subs - PartE(t) + Cardinality(handled[t]) + PartF(t) + PartD + PartK(t)
      BY <1>1, BudgetParts
    <3>31. Len(ops[t]) + PartA(t) + 0
             <= 2 * room[t].subs - PartE(t) + Cardinality(handled[t]) + PartF(t) + PartD + PartK(t)
      BY <3>2, <3>30
    <3>32. PICK x \in {0, 1} : x = PartB(t)'
      BY <3>2
    <3> DEFINE l == Len(ops[t])
               s == room[t].subs
               h == Cardinality(handled[t])
               a == PartA(t)
               e == PartE(t)
               f == PartF(t)
               d == PartD
               k == PartK(t)
    <3>33. /\ l \in Nat /\ s \in Nat /\ h \in Nat /\ a \in Nat /\ e \in Nat /\ f \in Nat /\ d \in Nat /\ k \in Nat
          /\ l + a + 0 <= 2 * s - e + h + f + d + k
      BY <3>30, <3>31
    <3> HIDE DEF l, s, h, a, e, f, d, k
    <3>34. l + a + x <= 2 * s - e + (h + 1) + f + d + k
      BY <3>33
    <3>3. Len(ops[t]) + PartA(t) + x
             <= 2 * room[t].subs - PartE(t) + (Cardinality(handled[t]) + 1) + PartF(t) + PartD + PartK(t)
      BY <3>34 DEF l, s, h, a, e, f, d, k
    <3>4. Budget(t)'
      BY <1>2, <1>8, <3>2, <3>3, <3>32 DEF Budget, Waiting, Happened, PartA, PartB, PartE, PartF, PartD, PartK
    <3>5. Noticed(t)'
      BY <1>1, <1>2, <1>3, <1>4, <1>6, <1>7 DEF Noticed, Playing, Linked
    <3> QED BY <2>4, <3>1, <3>4, <3>5
  <2> QED BY <2>3, <2>4
<1> QED BY <1>1, <1>2, <1>6, <1>7, <1>9, CallsMove DEF Types, OtherTypes

\* StreamStopped.
LEMMA BusStreamStoppedKept ==
    ASSUME IInv, NEW t \in Tracks, BusStreamStopped(t) PROVE IInv'
<1>1. /\ Types /\ Each /\ WellCalled
      /\ room \in [Tracks -> [subs : Nat, held : BOOLEAN, failed : BOOLEAN]]
  BY DEF IInv, Types, OtherTypes
<1>2. /\ UNCHANGED <<request, join, subLock, known, built, pipe, worker, ops, state, writer,
                     active, closing, closer, toClose, provider, tpSender, ended, handled>>
      /\ Submits(Bus, t, [type |-> "Finished"])
      /\ ~room[t].failed /\ room' = [room EXCEPT ![t].failed = TRUE]
  BY DEF BusStreamStopped, closeVars, tpVars
<1>3. t # Bus /\ Bus \in Callers /\ [type |-> "Finished"] \in Ops
  BY BusIsNoTrack DEF Ops
<1>4. /\ WellCalled' /\ \A d \in Callers : d # Bus => call'[d] = call[d]
      /\ call[Bus] = NoCall
      /\ \/ call'[Bus] = NoCall
         \/ call'[Bus] = [at |-> "submit", track |-> t, op |-> [type |-> "Finished"]]
  BY <1>1, <1>2, <1>3, SubmitsCalls
<1>5. /\ room' \in [Tracks -> [subs : Nat, held : BOOLEAN, failed : BOOLEAN]]
      /\ room'[t].subs = room[t].subs /\ room'[t].held = room[t].held /\ room'[t].failed = TRUE
      /\ \A u \in Tracks : u # t => room'[u] = room[u]
  BY <1>1, <1>2
<1>6. ASSUME NEW u \in Tracks PROVE Generations(u)' /\ Budget(u)' /\ Noticed(u)'
  <2>1. Generations(u) /\ Budget(u) /\ Noticed(u)
    BY <1>1 DEF Each
  <2>2. u \in Callers /\ u # Bus /\ call'[u] = call[u]
    BY <1>4, BusIsNoTrack
  <2>3. Generations(u)'
    BY <1>2, <1>5, <2>1, <2>2 DEF Generations, Asked
  <2>4. Noticed(u)'
    BY <1>2, <1>4, <2>1, NoCallFacts DEF Noticed, Playing
  <2>5. CASE u # t
    <3>1. (call[Bus].at = "submit" /\ call[Bus].track = u)' = (call[Bus].at = "submit" /\ call[Bus].track = u)
      BY <1>4, <2>2, <2>5, NoCallFacts
    <3>2. Budget(u)'
      BY <1>2, <1>5, <2>1, <2>2, <2>5, <3>1 DEF Budget, Waiting, Happened, One
    <3> QED BY <2>3, <2>4, <3>2
  <2>6. CASE u = t
    <3>1. /\ PartB(t) = 0 /\ PartB(t)' \in {0, 1} /\ PartA(t)' = PartA(t) /\ PartE(t)' = PartE(t)
          /\ PartF(t) = 0 /\ PartF(t)' = 1 /\ PartD' = PartD /\ PartK(t)' = PartK(t)
      BY <1>2, <1>4, <1>5, <2>2, <2>6, NoCallFacts DEF PartA, PartB, PartE, PartF, PartD, PartK, One
    <3>20. /\ Len(ops[t]) \in Nat /\ room[t].subs \in Nat /\ Cardinality(handled[t]) \in Nat
          /\ PartA(t) \in Nat /\ PartB(t) \in Nat /\ PartE(t) \in Nat
          /\ PartF(t) \in Nat /\ PartD \in Nat /\ PartK(t) \in Nat
          /\ Len(ops[t]) + PartA(t) + PartB(t)
                <= 2 * room[t].subs - PartE(t) + Cardinality(handled[t]) + PartF(t) + PartD + PartK(t)
      BY <1>1, BudgetParts
    <3>21. Len(ops[t]) + PartA(t) + 0
             <= 2 * room[t].subs - PartE(t) + Cardinality(handled[t]) + 0 + PartD + PartK(t)
      BY <3>1, <3>20
    <3>22. PICK x \in {0, 1} : x = PartB(t)'
      BY <3>1
    <3> DEFINE l == Len(ops[t])
               s == room[t].subs
               h == Cardinality(handled[t])
               a == PartA(t)
               e == PartE(t)
               d == PartD
               k == PartK(t)
    <3>23. /\ l \in Nat /\ s \in Nat /\ h \in Nat /\ a \in Nat /\ e \in Nat /\ d \in Nat /\ k \in Nat
          /\ l + a + 0 <= 2 * s - e + h + 0 + d + k
      BY <3>20, <3>21
    <3> HIDE DEF l, s, h, a, e, d, k
    <3>24. l + a + x <= 2 * s - e + h + 1 + d + k
      BY <3>23
    <3>2. Len(ops[t]) + PartA(t) + x
             <= 2 * room[t].subs - PartE(t) + Cardinality(handled[t]) + 1 + PartD + PartK(t)
      BY <3>24 DEF l, s, h, a, e, d, k
    <3>3. Budget(t)'
      BY <1>2, <1>5, <3>1, <3>2, <3>22 DEF Budget, Waiting, Happened, PartA, PartB, PartE, PartF, PartD, PartK
    <3> QED BY <2>3, <2>4, <2>6, <3>3
  <2> QED BY <2>5, <2>6
<1> QED BY <1>1, <1>2, <1>4, <1>5, <1>6, CallsMove DEF Types, OtherTypes

(***************************************************************************)
(* The channels: submitOp sends, SetTimeProvider, CloseWriters.            *)
(***************************************************************************)
\* What the channels, the provider and the close change.
LEMMA ChannelsMove ==
    ASSUME IInv, UNCHANGED <<request, join, subLock, known, built, pipe, state, writer, active,
                             room, ended, handled>>,
           closing => closing', ChannelTypes', WellCalled', toClose' \subseteq Tracks,
           closing' \in BOOLEAN, provider' \in BOOLEAN,
           closer' \in {"idle", "snapshot", "send", "closed"}, tpSender' \in {"idle", "send", "done"},
           Phases',
           \A u \in Tracks : Generations(u)' /\ Budget(u)' /\ Lives(u)' /\ Piped(u)' /\ Noticed(u)'
    PROVE  IInv'
<1>1. Types /\ Phases /\ Each /\ Counting /\ WillEnd /\ Joining
  BY DEF IInv
<1>2. WorkerTypes'
  BY <1>1 DEF Types, WorkerTypes
<1>20. OtherTypes'
  BY <1>1 DEF Types, OtherTypes
<1>21. RequestTypes' /\ JoinTypes'
  BY <1>1 DEF Types, RequestTypes, JoinTypes
<1>3. Counting' /\ WillEnd' /\ Joining'
  BY <1>1, JoiningKept DEF Counting, WillEnd, Continues, Ending
<1> QED BY <1>2, <1>20, <1>21, <1>3 DEF IInv, Types, Each

\* What does not depend on a channel or a call.
LEMMA StateStands ==
    ASSUME Each, NEW u \in Tracks,
           UNCHANGED <<request, join, subLock, known, built, pipe, state, writer, room, handled>>,
           worker'[u] = worker[u], closing => closing', HasType(ops'[u], "Close") => closing'
    PROVE  Lives(u)' /\ Piped(u)'
<1>1. Lives(u) /\ Piped(u)
  BY DEF Each
<1>2. Lives(u)'
  BY <1>1 DEF Lives, Continues
<1>3. Piped(u)'
  BY <1>1 DEF Piped, Continues
<1> QED BY <1>2, <1>3

\* A call that ends.
LEMMA CallEnds ==
    ASSUME WellCalled, NEW c \in Callers, call[c].at = "submit", call' = [call EXCEPT ![c] = NoCall]
    PROVE  /\ WellCalled' /\ call'[c] = NoCall /\ \A d \in Callers : d # c => call'[d] = call[d]
           /\ \E t \in Tracks : \E op \in Ops :
                 /\ call[c] = [at |-> "submit", track |-> t, op |-> op]
                 /\ op.type # "Close"
                 /\ c # Bus => c = t
                 /\ c = Bus => op.type # "Subscribe"
<1>1. DOMAIN call = Callers
  BY DEF WellCalled
<1>2. /\ DOMAIN call' = Callers /\ call'[c] = NoCall /\ \A d \in Callers : d # c => call'[d] = call[d]
  BY <1>1
<1>3. WellCalled'
  BY <1>2 DEF WellCalled
<1>4. call[c] # NoCall
  BY NoCallFacts
<1> QED BY <1>2, <1>3, <1>4 DEF WellCalled

\* submitOp finds no worker that takes the operation.
LEMMA DroppedKept ==
    ASSUME IInv, NEW c \in Callers, call[c].at = "submit", worker[call[c].track] # "running",
           UNCHANGED <<request, join, subLock, known, built, pipe, worker, ops, state, writer, active,
                       closing, closer, toClose, provider, tpSender, room, ended, handled>>,
           call' = [call EXCEPT ![c] = NoCall]
    PROVE  IInv'
<1>1. Types /\ Phases /\ Each /\ WellCalled
  BY DEF IInv, Types
<1>2. PICK t \in Tracks, op \in Ops :
         /\ call[c] = [at |-> "submit", track |-> t, op |-> op]
         /\ op.type # "Close"
         /\ c # Bus => c = t
         /\ c = Bus => op.type # "Subscribe"
  BY <1>1, CallEnds
<1>3. WellCalled' /\ call'[c] = NoCall /\ \A d \in Callers : d # c => call'[d] = call[d]
  BY <1>1, CallEnds
<1>4. ASSUME NEW u \in Tracks
      PROVE  Generations(u)' /\ Budget(u)' /\ Lives(u)' /\ Piped(u)' /\ Noticed(u)'
  <2>1. Generations(u) /\ Budget(u) /\ Lives(u) /\ Noticed(u)
    BY <1>1 DEF Each
  <2>2. u \in Callers /\ Bus \in Callers /\ u # Bus
    BY BusIsNoTrack
  <2>3. Lives(u)' /\ Piped(u)'
    BY <1>1, <2>1, StateStands DEF Lives
  <2>4. Noticed(u)'
    <3>1. CASE c # Bus
      BY <1>3, <2>1, <2>2, <3>1 DEF Noticed, Playing
    <3>2. CASE c = Bus /\ t # u
      <4>1. call[Bus].track = t
        BY <1>2, <3>2
      <4> QED BY <2>1, <3>2, <4>1 DEF Noticed, Playing
    <3>3. CASE c = Bus /\ t = u
      <4>1. worker[u] # "running"
        BY <1>2, <3>3
      <4>2. state[u].at = "idle"
        BY <2>1, <4>1 DEF Lives
      <4> QED BY <4>2 DEF Noticed
    <3> QED BY <3>1, <3>2, <3>3
  <2>5. /\ Len(ops[u]) \in Nat /\ room[u].subs \in Nat /\ Cardinality(handled[u]) \in Nat
        /\ Subscriptions(ops[u]) \in Nat /\ state[u].gen \in Nat /\ Asked(u) \in {0, 1}
    BY <1>1, Numbers
  <2>6. Asked(u)' = Asked(u) \/ Asked(u)' = 0
    BY <1>3, <2>2, NoCallFacts DEF Asked
  <2>7. Generations(u)'
    BY <2>1, <2>5, <2>6 DEF Generations
  <2>8. /\ PartA(u) \in Nat /\ PartB(u) \in Nat /\ PartA(u)' \in Nat /\ PartB(u)' \in Nat
        /\ PartA(u)' <= PartA(u) /\ PartB(u)' <= PartB(u)
    BY <1>3, <2>2, NoCallFacts DEF PartA, PartB, One
  <2>9. Happened(u)' = Happened(u) /\ Happened(u) \in Int
    BY <1>1, HappenedType DEF Happened
  <2>10. Budget(u)'
    <3> DEFINE l == Len(ops[u])
               a == PartA(u)
               b == PartB(u)
    <3>1. Waiting(u) = l + a + b /\ Waiting(u) <= Happened(u)
      BY <2>1 DEF Budget, Waiting, PartA, PartB
    <3>2. PICK x \in Nat, y \in Nat : x = PartA(u)' /\ y = PartB(u)'
      BY <2>8
    <3>3. Waiting(u)' = l + x + y
      BY <3>2 DEF Waiting, PartA, PartB
    <3>4. l \in Nat /\ a \in Nat /\ b \in Nat /\ x <= a /\ y <= b
      BY <2>5, <2>8, <3>2
    <3> HIDE DEF l, a, b
    <3>50. l + x + y <= l + a + b /\ l + x + y \in Int /\ l + a + b \in Int
      BY <3>4
    <3>5. Waiting(u)' <= Waiting(u) /\ Waiting(u) \in Int /\ Waiting(u)' \in Int
      BY <3>1, <3>3, <3>50
    <3>6. Waiting(u)' <= Happened(u)
      BY <2>9, <3>1, <3>5
    <3> QED BY <2>9, <3>6 DEF Budget
  <2> QED BY <2>3, <2>4, <2>7, <2>10
<1> QED BY <1>1, <1>3, <1>4, ChannelsMove DEF Types, OtherTypes, WorkerTypes, ChannelTypes, Phases

\* An operation moves from a call to the channel.
LEMMA BudgetMoves ==
    ASSUME NEW l \in Nat, NEW a \in Nat, NEW b \in Nat, NEW x \in Nat, NEW y \in Nat, NEW h \in Int,
           l + a + b <= h, x + y + 1 = a + b
    PROVE  (l + 1) + x + y <= h
OBVIOUS

\* submitOp sends: the operation is in the channel and no longer on its way.
LEMMA SentKept ==
    ASSUME IInv, NEW c \in Callers, call[c].at = "submit", worker[call[c].track] # "exited",
           Len(ops[call[c].track]) < OpCap,
           worker' = [worker EXCEPT ![call[c].track] = "running"],
           ops' = [ops EXCEPT ![call[c].track] = Append(@, call[c].op)],
           UNCHANGED <<request, join, subLock, known, built, pipe, state, writer, active,
                       closing, closer, toClose, provider, tpSender, room, ended, handled>>,
           call' = [call EXCEPT ![c] = NoCall]
    PROVE  IInv'
<1>1. Types /\ Phases /\ Each /\ WellCalled /\ ChannelTypes
  BY DEF IInv, Types, WorkerTypes
<1>2. PICK t \in Tracks, op \in Ops :
         /\ call[c] = [at |-> "submit", track |-> t, op |-> op]
         /\ op.type # "Close"
         /\ c # Bus => c = t
         /\ c = Bus => op.type # "Subscribe"
  BY <1>1, CallEnds
<1>3. WellCalled' /\ call'[c] = NoCall /\ \A d \in Callers : d # c => call'[d] = call[d]
  BY <1>1, CallEnds
<1>4. call[c].track = t /\ call[c].op = op /\ call[c].at = "submit"
  BY <1>2
<1>5. /\ ops[t] \in Seq(Ops) /\ Len(ops[t]) \in Nat /\ Len(ops[t]) < OpCap
      /\ worker[t] # "exited" /\ OpCap \in Nat
  BY <1>1, <1>4, Numbers, SourceAssumption
<1>6. /\ Append(ops[t], op) \in Seq(Ops) /\ Len(Append(ops[t], op)) = Len(ops[t]) + 1
      /\ \A o : Has(Append(ops[t], op), o) <=> Has(ops[t], o) \/ o = op
      /\ \A type : HasType(Append(ops[t], op), type) <=> HasType(ops[t], type) \/ op.type = type
      /\ Subscriptions(Append(ops[t], op)) = Subscriptions(ops[t]) + (IF op.type = "Subscribe" THEN 1 ELSE 0)
  BY <1>5, Appended
<1>7. /\ worker' = [worker EXCEPT ![t] = "running"]
      /\ ops' = [ops EXCEPT ![t] = Append(ops[t], op)]
  BY <1>4
<1>8. /\ worker'[t] = "running" /\ ops'[t] = Append(ops[t], op)
      /\ \A u \in Tracks : u # t => worker'[u] = worker[u] /\ ops'[u] = ops[u]
  BY <1>1, <1>7 DEF ChannelTypes
<1>9. ChannelTypes'
  <2>1. worker' \in [Tracks -> {"none", "running", "exited"}]
    BY <1>1, <1>7 DEF ChannelTypes
  <2>2. ops' \in [Tracks -> Seq(Ops)]
    BY <1>1, <1>6, <1>7 DEF ChannelTypes
  <2>3. \A u \in Tracks : Len(ops'[u]) <= OpCap
    BY <1>1, <1>5, <1>6, <1>8 DEF ChannelTypes
  <2> QED BY <2>1, <2>2, <2>3 DEF ChannelTypes
<1>10. ASSUME NEW u \in Tracks, u # t
       PROVE  Generations(u)' /\ Budget(u)' /\ Lives(u)' /\ Piped(u)' /\ Noticed(u)'
  <2>1. Generations(u) /\ Budget(u) /\ Lives(u) /\ Noticed(u)
    BY <1>1 DEF Each
  <2>2. u \in Callers /\ Bus \in Callers /\ u # Bus /\ ops'[u] = ops[u] /\ worker'[u] = worker[u]
    BY <1>8, <1>10, BusIsNoTrack
  <2>3. call'[u] = call[u]
    BY <1>2, <1>3, <1>10, <2>2
  <2>4. Lives(u)' /\ Piped(u)'
    BY <1>1, <2>1, <2>2, StateStands DEF Lives
  <2>5. Generations(u)'
    BY <2>1, <2>2, <2>3 DEF Generations, Asked
  <2>6. \A o : call[Bus] = [at |-> "submit", track |-> u, op |-> o] => call'[Bus] = call[Bus]
    BY <1>3, <1>4, <1>10, <2>2
  <2>7. Noticed(u)'
    BY <2>1, <2>2, <2>6 DEF Noticed, Playing
  <2>8. (call[Bus].at = "submit" /\ call[Bus].track = u)' = (call[Bus].at = "submit" /\ call[Bus].track = u)
    BY <1>3, <1>4, <1>10, <2>2, NoCallFacts
  <2>9. Budget(u)'
    BY <2>1, <2>2, <2>3, <2>8 DEF Budget, Waiting, Happened, One
  <2> QED BY <2>4, <2>5, <2>7, <2>9
<1>11. Generations(t)' /\ Budget(t)' /\ Lives(t)' /\ Piped(t)' /\ Noticed(t)'
  <2>1. Generations(t) /\ Budget(t) /\ Lives(t) /\ Piped(t) /\ Noticed(t)
    BY <1>1 DEF Each
  <2>2. t \in Callers /\ Bus \in Callers /\ t # Bus
    BY BusIsNoTrack
  <2>3. /\ Len(ops[t]) \in Nat /\ room[t].subs \in Nat /\ Subscriptions(ops[t]) \in Nat
        /\ state[t].gen \in Nat /\ Asked(t) \in {0, 1}
    BY <1>1, Numbers
  <2>4. Lives(t)'
    <3>1. HasType(ops'[t], "Close") => closing
      BY <1>2, <1>6, <1>8, <2>1 DEF Lives
    <3> QED BY <1>8, <2>1, <3>1 DEF Lives, Continues
  <2>5. Piped(t)'
    BY <1>5, <1>8, <2>1 DEF Piped, Continues
  <2>6. Noticed(t)'
    <3>1. call[Bus] = [at |-> "submit", track |-> t, op |-> Playing(t)]
             => call'[Bus] = call[Bus] \/ op = Playing(t)
      BY <1>3, <1>4, <2>2
    <3>2. Playing(t)' = Playing(t)
      BY DEF Playing
    <3>3. /\ Has(ops[t], Playing(t)) \/ op = Playing(t) => Has(ops'[t], Playing(t))
          /\ HasType(ops[t], "SetTimeProvider") => HasType(ops'[t], "SetTimeProvider")
      BY <1>6, <1>8
    <3> QED BY <2>1, <3>1, <3>2, <3>3 DEF Noticed
  <2>7. Generations(t)'
    <3>1. CASE op.type = "Subscribe"
      <4>1. c = t /\ Asked(t) = 1 /\ Asked(t)' = 0
        BY <1>2, <1>3, <1>4, <3>1, NoCallFacts DEF Asked
      <4>2. Subscriptions(ops'[t]) = Subscriptions(ops[t]) + 1
        BY <1>6, <1>8, <3>1
      <4> QED BY <2>1, <2>3, <4>1, <4>2 DEF Generations
    <3>2. CASE op.type # "Subscribe"
      <4>1. Asked(t)' = Asked(t) \/ Asked(t)' = 0
        BY <1>3, <2>2, NoCallFacts DEF Asked
      <4>2. Subscriptions(ops'[t]) = Subscriptions(ops[t])
        BY <1>6, <1>8, <2>3, <3>2
      <4> QED BY <2>1, <2>3, <4>1, <4>2 DEF Generations
    <3> QED BY <3>1, <3>2
  <2>8. Budget(t)'
    <3>1. Happened(t)' = Happened(t) /\ Happened(t) \in Int
      BY <1>1, HappenedType DEF Happened
    <3>2. PartA(t) \in Nat /\ PartB(t) \in Nat /\ PartA(t)' \in Nat /\ PartB(t)' \in Nat
      BY DEF PartA, PartB, One
    <3>3. PartA(t)' + PartB(t)' + 1 = PartA(t) + PartB(t)
      <4>1. CASE c = Bus
        <5>1. PartA(t)' = PartA(t)
          BY <1>3, <2>2, <4>1 DEF PartA
        <5>2. PartB(t) = 1 /\ PartB(t)' = 0
          BY <1>3, <1>4, <4>1, NoCallFacts DEF PartB, One
        <5> QED BY <3>2, <5>1, <5>2
      <4>2. CASE c = t
        <5>1. PartA(t) = 1 /\ PartA(t)' = 0
          BY <1>3, <1>4, <4>2, NoCallFacts DEF PartA, One
        <5>2. PartB(t)' = PartB(t)
          BY <1>3, <2>2, <4>2 DEF PartB
        <5> QED BY <3>2, <5>1, <5>2
      <4> QED BY <1>2, <4>1, <4>2
    <3>4. Len(ops[t]) + PartA(t) + PartB(t) <= Happened(t)
      BY <2>1 DEF Budget, Waiting, PartA, PartB
    <3>5. PICK x \in Nat, y \in Nat : x = PartA(t)' /\ y = PartB(t)'
      BY <3>2
    <3>6. (Len(ops[t]) + 1) + x + y <= Happened(t)
      BY <2>3, <3>1, <3>2, <3>3, <3>4, <3>5, BudgetMoves
    <3>7. Waiting(t)' = (Len(ops[t]) + 1) + x + y
      BY <1>6, <1>8, <3>5 DEF Waiting, PartA, PartB
    <3> QED BY <3>1, <3>6, <3>7 DEF Budget
  <2> QED BY <2>4, <2>5, <2>6, <2>7, <2>8
<1>12. \A u \in Tracks : Generations(u)' /\ Budget(u)' /\ Lives(u)' /\ Piped(u)' /\ Noticed(u)'
  BY <1>10, <1>11
<1> QED BY <1>1, <1>3, <1>9, <1>12, ChannelsMove DEF Types, OtherTypes, Phases

\* Either way, submitOp keeps the invariant.
LEMMA SendsOpKept ==
    ASSUME IInv, NEW c \in Callers, SendsOp(c) PROVE IInv'
<1>1. Types /\ WellCalled /\ worker \in [Tracks -> {"none", "running", "exited"}]
  BY DEF IInv, Types, WorkerTypes, ChannelTypes
<1>2. /\ call[c].at = "submit" /\ call' = [call EXCEPT ![c] = NoCall]
      /\ UNCHANGED <<request, join, subLock, known, built, pipe, state, writer, active,
                     closing, closer, toClose, provider, tpSender, room, ended, handled>>
  BY DEF SendsOp, closeVars, tpVars
<1>3. \/ worker[call[c].track] # "running" /\ UNCHANGED <<worker, ops>>
      \/ /\ worker[call[c].track] # "exited" /\ Len(ops[call[c].track]) < OpCap
         /\ worker' = [worker EXCEPT ![call[c].track] = "running"]
         /\ ops' = [ops EXCEPT ![call[c].track] = Append(@, call[c].op)]
  BY DEF SendsOp
<1> QED BY <1>2, <1>3, DroppedKept, SentKept

\* SetTimeProvider stores the provider.
LEMMA StoresProviderKept ==
    ASSUME IInv, StoresProvider PROVE IInv'
<1>1. Types /\ Phases /\ Each
  BY DEF IInv
<1>2. /\ tpSender = "idle" /\ provider' = TRUE /\ tpSender' = "send"
      /\ UNCHANGED <<request, join, subLock, known, built, pipe, worker, ops, state, writer, active,
                     closing, closer, toClose, call, room, ended, handled>>
  BY DEF StoresProvider, closeVars
<1>3. ChannelTypes' /\ WellCalled'
  BY <1>1, <1>2 DEF Types, WorkerTypes, ChannelTypes, WellCalled
<1>4. Phases'
  BY <1>1, <1>2 DEF Phases
<1>5. ASSUME NEW u \in Tracks
      PROVE  Generations(u)' /\ Budget(u)' /\ Lives(u)' /\ Piped(u)' /\ Noticed(u)'
  <2>1. Generations(u) /\ Budget(u) /\ Lives(u) /\ Noticed(u)
    BY <1>1 DEF Each
  <2>2. Lives(u)' /\ Piped(u)'
    BY <1>1, <1>2, <2>1, StateStands DEF Lives
  <2>3. Generations(u)' /\ Noticed(u)'
    BY <1>2, <2>1 DEF Generations, Asked, Noticed, Playing
  <2>4. One(tpSender = "done")' = One(tpSender = "done")
    BY <1>2 DEF One
  <2>5. Budget(u)'
    BY <1>2, <2>1, <2>4 DEF Budget, Waiting, Happened
  <2> QED BY <2>2, <2>3, <2>5
<1>6. provider' \in BOOLEAN
  BY <1>2
<1>7. /\ toClose' \subseteq Tracks /\ closing' \in BOOLEAN
      /\ closer' \in {"idle", "snapshot", "send", "closed"} /\ tpSender' \in {"idle", "send", "done"}
  BY <1>1, <1>2 DEF Types, OtherTypes
<1> QED BY <1>1, <1>2, <1>3, <1>4, <1>5, <1>6, <1>7, ChannelsMove

\* Before SetTimeProvider has sent, every channel has room: what was submitted for a track is
\* less than it takes.
LEMMA ChannelHasRoom ==
    ASSUME ChannelsSuffice, Types, Each, tpSender # "done", NEW t \in Tracks
    PROVE  Len(ops[t]) < OpCap
<1>1. /\ Len(ops[t]) \in Nat /\ room[t].subs \in Nat /\ Cardinality(handled[t]) \in Nat
      /\ state[t].gen \in Nat /\ request.subs[t] \in Nat /\ Subscriptions(ops[t]) \in Nat
      /\ Asked(t) \in {0, 1} /\ Cardinality(handled[t]) <= state[t].gen
  BY Numbers
<1>2. state[t].gen <= room[t].subs /\ room[t].subs <= request.subs[t]
  BY <1>1 DEF Each, Generations
<1>3. 3 * request.subs[t] + 2 < OpCap /\ OpCap \in Nat
  BY SourceAssumption DEF ChannelsSuffice, Types, RequestTypes
<1>4. /\ PartA(t) \in {0, 1} /\ PartB(t) \in {0, 1} /\ PartE(t) \in {0, 1}
      /\ PartF(t) \in {0, 1} /\ PartD = 0 /\ PartK(t) \in {0, 1}
  BY DEF PartA, PartB, PartE, PartF, PartD, PartK, One
<1>5. Len(ops[t]) + PartA(t) + PartB(t)
        <= 2 * room[t].subs - PartE(t) + Cardinality(handled[t]) + PartF(t) + PartD + PartK(t)
  BY BudgetParts
<1>6. Len(ops[t]) + PartA(t) + PartB(t)
        <= 2 * room[t].subs - PartE(t) + Cardinality(handled[t]) + PartF(t) + 0 + PartK(t)
  BY <1>4, <1>5
<1>7. PartA(t) \in Nat /\ PartB(t) \in Nat /\ PartE(t) \in Nat
  BY <1>4
<1> DEFINE l == Len(ops[t])
           s == room[t].subs
           h == Cardinality(handled[t])
           a == PartA(t)
           b == PartB(t)
           e == PartE(t)
           f == PartF(t)
           k == PartK(t)
           n == request.subs[t]
<1>8. /\ l \in Nat /\ s \in Nat /\ h \in Nat /\ a \in Nat /\ b \in Nat /\ e \in Nat /\ n \in Nat
      /\ f \in {0, 1} /\ k \in {0, 1} /\ h <= n /\ s <= n /\ 3 * n + 2 < OpCap /\ OpCap \in Nat
  <2>1. Cardinality(handled[t]) <= request.subs[t]
    BY <1>1, <1>2
  <2>2. l \in Nat /\ s \in Nat /\ h \in Nat /\ n \in Nat /\ h <= n /\ s <= n
    BY <1>1, <1>2, <2>1
  <2> QED BY <1>3, <1>4, <1>7, <2>2
<1>9. l + a + b <= 2 * s - e + h + f + 0 + k
  BY <1>6
<1> HIDE DEF l, s, h, a, b, e, f, k, n
<1>10. l <= 2 * s + h + 2
  BY <1>8, <1>9
<1>11. l < OpCap
  BY <1>8, <1>10
<1> QED BY <1>11 DEF l

\* SetTimeProvider tells the workers.
LEMMA SendsProviderKept ==
    ASSUME ChannelsSuffice, IInv, SendsProvider PROVE IInv'
<1>1. Types /\ Phases /\ Each /\ ChannelTypes
  BY DEF IInv, Types, WorkerTypes
<1> DEFINE told == [type |-> "SetTimeProvider"]
<1>2. /\ tpSender = "send" /\ tpSender' = "done"
      /\ ops' = [t \in Tracks |-> IF ToldProvider(t) THEN Append(ops[t], told) ELSE ops[t]]
      /\ UNCHANGED <<request, join, subLock, known, built, pipe, worker, state, writer, active,
                     closing, closer, toClose, provider, call, room, ended, handled>>
  BY DEF SendsProvider, closeVars
<1>3. told \in Ops /\ told.type = "SetTimeProvider"
  BY DEF Ops
<1> HIDE DEF told
<1>4. ASSUME NEW u \in Tracks
      PROVE  /\ ops'[u] \in Seq(Ops) /\ Len(ops'[u]) <= OpCap
             /\ \E x \in {0, 1} : Len(ops'[u]) = Len(ops[u]) + x
             /\ \A o : Has(ops[u], o) => Has(ops'[u], o)
             /\ HasType(ops'[u], "Close") => HasType(ops[u], "Close")
             /\ Subscriptions(ops'[u]) = Subscriptions(ops[u])
             /\ worker[u] = "running" => HasType(ops'[u], "SetTimeProvider")
  <2>1. /\ ops[u] \in Seq(Ops) /\ Len(ops[u]) \in Nat /\ OpCap \in Nat /\ Len(ops[u]) <= OpCap
        /\ Subscriptions(ops[u]) \in Nat
    BY <1>1, Numbers, SourceAssumption DEF ChannelTypes
  <2>2. Len(ops[u]) < OpCap
    BY <1>1, <1>2, ChannelHasRoom
  <2>3. CASE worker[u] = "running"
    <3>1. ops'[u] = Append(ops[u], told)
      BY <1>2, <2>2, <2>3 DEF ToldProvider, Runs
    <3>2. /\ Append(ops[u], told) \in Seq(Ops) /\ Len(Append(ops[u], told)) = Len(ops[u]) + 1
          /\ \A o : Has(Append(ops[u], told), o) <=> Has(ops[u], o) \/ o = told
          /\ \A type : HasType(Append(ops[u], told), type) <=> HasType(ops[u], type) \/ told.type = type
          /\ Subscriptions(Append(ops[u], told)) = Subscriptions(ops[u]) + (IF told.type = "Subscribe" THEN 1 ELSE 0)
      BY <1>3, <2>1, Appended
    <3>3. Subscriptions(ops'[u]) = Subscriptions(ops[u])
      BY <1>3, <2>1, <3>1, <3>2
    <3> QED BY <1>3, <2>1, <2>2, <3>1, <3>2, <3>3
  <2>4. CASE worker[u] # "running"
    <3>1. ops'[u] = ops[u]
      BY <1>2, <2>4 DEF ToldProvider, Runs
    <3> QED BY <2>1, <2>4, <3>1
  <2> QED BY <2>3, <2>4
<1>5. ChannelTypes'
  <2>1. ops' \in [Tracks -> Seq(Ops)]
    BY <1>2, <1>4
  <2> QED BY <1>1, <1>2, <1>4, <2>1 DEF ChannelTypes
<1>6. WellCalled' /\ Phases'
  BY <1>1, <1>2 DEF Types, WellCalled, Phases
<1>7. ASSUME NEW u \in Tracks
      PROVE  Generations(u)' /\ Budget(u)' /\ Lives(u)' /\ Piped(u)' /\ Noticed(u)'
  <2>1. Generations(u) /\ Budget(u) /\ Lives(u) /\ Noticed(u)
    BY <1>1 DEF Each
  <2>2. Lives(u)' /\ Piped(u)'
    BY <1>1, <1>2, <1>4, <2>1, StateStands DEF Lives
  <2>3. Generations(u)'
    BY <1>2, <1>4, <2>1 DEF Generations, Asked
  <2>4. Noticed(u)'
    <3>1. state[u].at # "idle" => HasType(ops'[u], "SetTimeProvider")
      BY <1>4, <2>1 DEF Lives
    <3>2. Has(ops[u], Playing(u)) => Has(ops'[u], Playing(u))
      BY <1>4
    <3>3. Playing(u)' = Playing(u)
      BY <1>2 DEF Playing
    <3> QED BY <1>2, <2>1, <3>1, <3>2, <3>3 DEF Noticed
  <2>5. Budget(u)'
    <3>1. /\ Len(ops[u]) \in Nat /\ room[u].subs \in Nat /\ Cardinality(handled[u]) \in Nat
          /\ PartA(u) \in Nat /\ PartB(u) \in Nat /\ PartE(u) \in Nat
          /\ PartF(u) \in Nat /\ PartK(u) \in Nat
      BY <1>1, BudgetParts
    <3>2. PartD = 0 /\ PartD' = 1
      BY <1>2 DEF PartD, One
    <3>3. Len(ops[u]) + PartA(u) + PartB(u)
            <= 2 * room[u].subs - PartE(u) + Cardinality(handled[u]) + PartF(u) + PartD + PartK(u)
      BY <1>1, BudgetParts
    <3>4. Len(ops[u]) + PartA(u) + PartB(u)
            <= 2 * room[u].subs - PartE(u) + Cardinality(handled[u]) + PartF(u) + 0 + PartK(u)
      BY <3>2, <3>3
    <3>5. PICK x \in {0, 1} : Len(ops'[u]) = Len(ops[u]) + x
      BY <1>4
    <3> DEFINE l == Len(ops[u])
               s == room[u].subs
               h == Cardinality(handled[u])
               a == PartA(u)
               b == PartB(u)
               e == PartE(u)
               f == PartF(u)
               k == PartK(u)
    <3>8. /\ l \in Nat /\ s \in Nat /\ h \in Nat /\ a \in Nat /\ b \in Nat /\ e \in Nat /\ f \in Nat /\ k \in Nat
          /\ l + a + b <= 2 * s - e + h + f + 0 + k
      BY <3>1, <3>4
    <3> HIDE DEF l, s, h, a, b, e, f, k
    <3>9. (l + x) + a + b <= 2 * s - e + h + f + 1 + k
      BY <3>8
    <3>6. (Len(ops[u]) + x) + PartA(u) + PartB(u)
            <= 2 * room[u].subs - PartE(u) + Cardinality(handled[u]) + PartF(u) + 1 + PartK(u)
      BY <3>9 DEF l, s, h, a, b, e, f, k
    <3>7. PartA(u)' = PartA(u) /\ PartB(u)' = PartB(u) /\ PartE(u)' = PartE(u) /\ PartF(u)' = PartF(u) /\ PartK(u)' = PartK(u)
      BY <1>2 DEF PartA, PartB, PartE, PartF, PartK
    <3> QED BY <1>2, <3>2, <3>5, <3>6, <3>7 DEF Budget, Waiting, Happened, PartA, PartB, PartE, PartF, PartD, PartK
  <2> QED BY <2>2, <2>3, <2>4, <2>5
<1>8. /\ toClose' \subseteq Tracks /\ closing' \in BOOLEAN /\ provider' \in BOOLEAN
      /\ closer' \in {"idle", "snapshot", "send", "closed"} /\ tpSender' \in {"idle", "send", "done"}
  BY <1>1, <1>2 DEF Types, OtherTypes
<1> QED BY <1>1, <1>2, <1>5, <1>6, <1>7, <1>8, ChannelsMove

\* CloseWriters: closing is set, the workers are copied, each is told.
LEMMA CloseStartsKept ==
    ASSUME IInv, CloseStarts PROVE IInv'
<1>1. Types /\ Phases /\ Each /\ Counting /\ Joining
  BY DEF IInv
<1>2. /\ closer = "idle" /\ built /\ closing' = TRUE /\ closer' = "snapshot"
      /\ UNCHANGED <<request, join, subLock, known, built, pipe, worker, ops, state, writer, active,
                     toClose, provider, tpSender, call, room, ended, handled>>
  BY DEF CloseStarts, tpVars
<1>3. ChannelTypes' /\ WellCalled'
  BY <1>1, <1>2 DEF Types, WorkerTypes, ChannelTypes, WellCalled
<1>4. Phases'
  BY <1>1, <1>2 DEF Phases
<1>5. ASSUME NEW u \in Tracks
      PROVE  Generations(u)' /\ Budget(u)' /\ Lives(u)' /\ Piped(u)' /\ Noticed(u)'
  <2>1. Generations(u) /\ Budget(u) /\ Noticed(u)
    BY <1>1 DEF Each
  <2>2. Lives(u)' /\ Piped(u)'
    BY <1>1, <1>2, StateStands
  <2>3. Generations(u)'
    BY <1>2, <2>1 DEF Generations, Asked
  <2>4. Noticed(u)'
    BY <1>2, <2>1 DEF Noticed
  <2>5. One(closer \in {"send", "closed"} /\ u \notin toClose)' = One(closer \in {"send", "closed"} /\ u \notin toClose)
    BY <1>2 DEF One
  <2>6. Budget(u)'
    BY <1>2, <2>1, <2>5 DEF Budget, Waiting, Happened
  <2> QED BY <2>2, <2>3, <2>4, <2>6
<1>6. closing' \in BOOLEAN
  BY <1>2
<1>7. /\ toClose' \subseteq Tracks /\ provider' \in BOOLEAN
      /\ closer' \in {"idle", "snapshot", "send", "closed"} /\ tpSender' \in {"idle", "send", "done"}
  BY <1>1, <1>2 DEF Types, OtherTypes
<1> QED BY <1>1, <1>2, <1>3, <1>4, <1>5, <1>6, <1>7, ChannelsMove

\* What CloseWriters counts pays for what it sends.
LEMMA CloseBudget ==
    ASSUME Types, Each, NEW u \in Tracks, UNCHANGED <<room, handled, tpSender, call>>,
           NEW x \in Nat, Len(ops'[u]) = Len(ops[u]) + x, x + PartK(u) <= PartK(u)'
    PROVE  Budget(u)'
<1>1. /\ Len(ops[u]) \in Nat /\ room[u].subs \in Nat /\ Cardinality(handled[u]) \in Nat
      /\ PartA(u) \in Nat /\ PartB(u) \in Nat /\ PartE(u) \in Nat
      /\ PartF(u) \in Nat /\ PartD \in Nat /\ PartK(u) \in Nat
      /\ Len(ops[u]) + PartA(u) + PartB(u)
            <= 2 * room[u].subs - PartE(u) + Cardinality(handled[u]) + PartF(u) + PartD + PartK(u)
  BY BudgetParts
<1>2. PICK y \in Nat : y = PartK(u)'
  BY DEF PartK, One
<1>20. x + PartK(u) <= y
  BY <1>2
<1> DEFINE l == Len(ops[u])
           s == room[u].subs
           h == Cardinality(handled[u])
           a == PartA(u)
           b == PartB(u)
           e == PartE(u)
           f == PartF(u)
           d == PartD
           k == PartK(u)
<1>21. /\ l \in Nat /\ s \in Nat /\ h \in Nat /\ a \in Nat /\ b \in Nat /\ e \in Nat /\ f \in Nat
       /\ d \in Nat /\ k \in Nat /\ l + a + b <= 2 * s - e + h + f + d + k /\ x + k <= y
  BY <1>1, <1>20
<1> HIDE DEF l, s, h, a, b, e, f, d, k
<1>22. (l + x) + a + b <= 2 * s - e + h + f + d + y
  BY <1>21
<1>3. (Len(ops[u]) + x) + PartA(u) + PartB(u)
        <= 2 * room[u].subs - PartE(u) + Cardinality(handled[u]) + PartF(u) + PartD + y
  BY <1>22 DEF l, s, h, a, b, e, f, d
<1>4. PartA(u)' = PartA(u) /\ PartB(u)' = PartB(u) /\ PartE(u)' = PartE(u) /\ PartF(u)' = PartF(u) /\ PartD' = PartD
  BY DEF PartA, PartB, PartE, PartF, PartD
<1> QED BY <1>2, <1>3, <1>4 DEF Budget, Waiting, Happened, PartA, PartB, PartE, PartF, PartD, PartK

\* CloseWriters copies the workers, and has told them all.
LEMMA CloseMovesKept ==
    ASSUME IInv, CloseSnapshots \/ Closed PROVE IInv'
<1>1. Types /\ Phases /\ Each
  BY DEF IInv
<1>2. /\ UNCHANGED <<request, join, subLock, known, built, pipe, worker, ops, state, writer, active,
                     closing, provider, tpSender, call, room, ended, handled>>
      /\ toClose' \subseteq Tracks /\ closer' \in {"send", "closed"} /\ closer # "idle"
      /\ closer = "snapshot" \/ (closer = "send" /\ toClose' = toClose)
  BY <1>1 DEF CloseSnapshots, Closed, tpVars, Types, OtherTypes
<1>3. ChannelTypes' /\ WellCalled'
  BY <1>1, <1>2 DEF Types, WorkerTypes, ChannelTypes, WellCalled
<1>4. Phases'
  BY <1>1, <1>2 DEF Phases
<1>5. ASSUME NEW u \in Tracks
      PROVE  Generations(u)' /\ Budget(u)' /\ Lives(u)' /\ Piped(u)' /\ Noticed(u)'
  <2>1. Generations(u) /\ Budget(u) /\ Lives(u) /\ Noticed(u)
    BY <1>1 DEF Each
  <2>2. Lives(u)' /\ Piped(u)'
    BY <1>1, <1>2, <2>1, StateStands DEF Lives
  <2>3. Generations(u)' /\ Noticed(u)'
    BY <1>2, <2>1 DEF Generations, Asked, Noticed, Playing
  <2>4. 0 + PartK(u) <= PartK(u)'
    BY <1>2 DEF PartK, One
  <2>5. Len(ops'[u]) = Len(ops[u]) + 0
    BY <1>1, <1>2, Numbers
  <2>6. Budget(u)'
    BY <1>1, <1>2, <2>4, <2>5, CloseBudget
  <2> QED BY <2>2, <2>3, <2>6
<1>6. /\ closing' \in BOOLEAN /\ provider' \in BOOLEAN /\ tpSender' \in {"idle", "send", "done"}
  BY <1>1, <1>2 DEF Types, OtherTypes
<1> QED BY <1>1, <1>2, <1>3, <1>4, <1>5, <1>6, ChannelsMove

\* CloseWriters tells a worker.
LEMMA CloseSendsKept ==
    ASSUME IInv, NEW t \in Tracks, CloseSends(t) PROVE IInv'
<1>1. Types /\ Phases /\ Each /\ ChannelTypes
  BY DEF IInv, Types, WorkerTypes
<1> DEFINE op == [type |-> "Close"]
<1>2. /\ UNCHANGED <<request, join, subLock, known, built, pipe, worker, state, writer, active,
                     closing, closer, provider, tpSender, call, room, ended, handled>>
      /\ closer = "send" /\ t \in toClose /\ Len(ops[t]) < OpCap
      /\ toClose' = toClose \ {t} /\ ops' = [ops EXCEPT ![t] = Append(ops[t], op)]
  BY DEF CloseSends, tpVars
<1>20. closing
  BY <1>1, <1>2 DEF Phases
<1>3. op \in Ops /\ op.type = "Close"
  BY DEF Ops
<1> HIDE DEF op
<1>4. ops[t] \in Seq(Ops) /\ Len(ops[t]) \in Nat /\ OpCap \in Nat /\ Subscriptions(ops[t]) \in Nat
  BY <1>1, Numbers, SourceAssumption
<1>5. /\ Append(ops[t], op) \in Seq(Ops) /\ Len(Append(ops[t], op)) = Len(ops[t]) + 1
      /\ \A o : Has(Append(ops[t], op), o) <=> Has(ops[t], o) \/ o = op
      /\ \A type : HasType(Append(ops[t], op), type) <=> HasType(ops[t], type) \/ op.type = type
      /\ Subscriptions(Append(ops[t], op)) = Subscriptions(ops[t]) + (IF op.type = "Subscribe" THEN 1 ELSE 0)
  BY <1>3, <1>4, Appended
<1>6. ops'[t] = Append(ops[t], op) /\ \A u \in Tracks : u # t => ops'[u] = ops[u]
  BY <1>1, <1>2 DEF ChannelTypes
<1>7. ChannelTypes'
  <2>1. ops' \in [Tracks -> Seq(Ops)]
    BY <1>1, <1>2, <1>5 DEF ChannelTypes
  <2>2. \A u \in Tracks : Len(ops'[u]) <= OpCap
    BY <1>1, <1>2, <1>4, <1>5, <1>6 DEF ChannelTypes
  <2> QED BY <1>1, <1>2, <2>1, <2>2 DEF ChannelTypes
<1>8. WellCalled' /\ Phases'
  BY <1>1, <1>2 DEF Types, WellCalled, Phases
<1>9. ASSUME NEW u \in Tracks
      PROVE  Generations(u)' /\ Budget(u)' /\ Lives(u)' /\ Piped(u)' /\ Noticed(u)'
  <2>1. Generations(u) /\ Budget(u) /\ Lives(u) /\ Noticed(u)
    BY <1>1 DEF Each
  <2>2. Lives(u)' /\ Piped(u)'
    BY <1>1, <1>2, <1>20, StateStands
  <2>3. /\ Subscriptions(ops'[u]) = Subscriptions(ops[u])
        /\ Has(ops[u], Playing(u)) => Has(ops'[u], Playing(u))
        /\ HasType(ops[u], "SetTimeProvider") => HasType(ops'[u], "SetTimeProvider")
    <3>1. CASE u = t
      <4>1. Subscriptions(ops'[t]) = Subscriptions(ops[t])
        BY <1>3, <1>4, <1>5, <1>6
      <4> QED BY <1>5, <1>6, <3>1, <4>1
    <3>2. CASE u # t
      BY <1>6, <3>2
    <3> QED BY <3>1, <3>2
  <2>4. Generations(u)'
    BY <1>2, <2>1, <2>3 DEF Generations, Asked
  <2>5. Noticed(u)'
    BY <1>2, <1>20, <2>1, <2>3 DEF Noticed
  <2>6. Budget(u)'
    <3>1. CASE u = t
      <4>1. 1 + PartK(t) <= PartK(t)'
        BY <1>2 DEF PartK, One
      <4>2. Len(ops'[t]) = Len(ops[t]) + 1
        BY <1>5, <1>6
      <4> QED BY <1>1, <1>2, <3>1, <4>1, <4>2, CloseBudget
    <3>2. CASE u # t
      <4>1. 0 + PartK(u) <= PartK(u)'
        BY <1>2, <3>2 DEF PartK, One
      <4>2. Len(ops'[u]) = Len(ops[u]) + 0
        BY <1>1, <1>6, <3>2, Numbers
      <4> QED BY <1>1, <1>2, <4>1, <4>2, CloseBudget
    <3> QED BY <3>1, <3>2
  <2> QED BY <2>2, <2>4, <2>5, <2>6
<1>10. /\ closing' \in BOOLEAN /\ provider' \in BOOLEAN /\ tpSender' \in {"idle", "send", "done"}
       /\ toClose' \subseteq Tracks /\ closer' \in {"idle", "snapshot", "send", "closed"}
  BY <1>1, <1>2 DEF Types, OtherTypes
<1> QED BY <1>1, <1>2, <1>7, <1>8, <1>9, <1>10, ChannelsMove

(***************************************************************************)
(* The invariant.                                                          *)
(***************************************************************************)
\* A source that was just created.
LEMMA InitTypes == ASSUME Init PROVE Types
<1>1. Cardinality(Selected) \in Nat
  <2>1. Selected \in SUBSET Tracks
    BY DEF Selected
  <2> QED BY <2>1, TracksFinite
<1>2. JoinTypes
  BY <1>1 DEF Init, JoinTypes
<1>3. IdleState \in States /\ NoWriter \in Writers
  BY DEF IdleState, NoWriter, States, Writers, Places
<1>4. <<>> \in Seq(Ops) /\ Len(<<>>) = 0 /\ OpCap \in Nat
  BY SourceAssumption
<1>5. WorkerTypes
  <2>1. worker \in [Tracks -> {"none", "running", "exited"}]
    BY DEF Init
  <2>2. ops \in [Tracks -> Seq(Ops)]
    BY <1>4 DEF Init
  <2>3. \A t \in Tracks : Len(ops[t]) <= OpCap
    BY <1>4 DEF Init
  <2>4. state \in [Tracks -> States]
    BY <1>3 DEF Init
  <2>5. writer \in [Tracks -> Writers]
    BY <1>3 DEF Init
  <2> QED BY <2>1, <2>2, <2>3, <2>4, <2>5 DEF WorkerTypes, ChannelTypes
<1>6. OtherTypes
  <2>1. subLock \subseteq Tracks /\ known \subseteq Tracks /\ toClose \subseteq Tracks
    BY DEF Init
  <2>2. pipe \in [Tracks -> Nat] /\ active \in Nat
    BY DEF Init
  <2>3. [subs |-> 0, held |-> FALSE, failed |-> FALSE] \in [subs : Nat, held : BOOLEAN, failed : BOOLEAN]
    OBVIOUS
  <2>4. room \in [Tracks -> [subs : Nat, held : BOOLEAN, failed : BOOLEAN]]
    BY <2>3 DEF Init
  <2>5. handled \in [Tracks -> SUBSET Nat]
    BY DEF Init
  <2>6. built \in BOOLEAN /\ closing \in BOOLEAN /\ provider \in BOOLEAN /\ ended \in BOOLEAN
    BY DEF Init
  <2>7. closer \in {"idle", "snapshot", "send", "closed"} /\ tpSender \in {"idle", "send", "done"}
    BY DEF Init
  <2> QED BY <2>1, <2>2, <2>4, <2>5, <2>6, <2>7 DEF OtherTypes
<1>7. WellCalled
  BY DEF Init, WellCalled
<1> QED BY <1>2, <1>5, <1>6, <1>7 DEF Init, Types, RequestTypes

\* It satisfies the invariant.
LEMMA InitInv == ASSUME Init PROVE IInv
<1>1. Types
  BY InitTypes
<1>2. Phases
  BY DEF Init, Phases
<1>3. ASSUME NEW t \in Tracks PROVE Generations(t) /\ Budget(t) /\ Lives(t) /\ Piped(t) /\ Noticed(t)
  <2>1. /\ state[t].at = "idle" /\ state[t].gen = 0 /\ ops[t] = <<>> /\ worker[t] = "none"
        /\ pipe[t] = 0 /\ handled[t] = {} /\ known = {} /\ ~built /\ tpSender = "idle"
        /\ closer = "idle"
        /\ room[t].subs = 0 /\ ~room[t].held /\ ~room[t].failed
    BY DEF Init, IdleState
  <2>2. call[t] = NoCall /\ call[Bus] = NoCall
    BY BusIsNoTrack DEF Init
  <2>3. Len(ops[t]) = 0 /\ ~HasType(ops[t], "Close") /\ Subscriptions(ops[t]) = 0
    <3>1. <<>> \in Seq(Ops) /\ Len(<<>>) = 0 /\ ~HasType(<<>>, "Close") /\ SubsAt(<<>>) = {}
      BY DEF HasType, SubsAt
    <3>2. Subscriptions(<<>>) = 0
      BY <3>1, SubsFinite, FS_EmptySet
    <3> QED BY <2>1, <3>1, <3>2
  <2>4. request.subs[t] \in Nat
    BY SourceAssumption DEF Init
  <2>5. Asked(t) = 0
    BY <2>2, NoCallFacts DEF Asked
  <2>6. Generations(t)
    BY <2>1, <2>3, <2>4, <2>5 DEF Generations
  <2>7. /\ One(call[t].at = "submit") = 0
        /\ One(call[Bus].at = "submit" /\ call[Bus].track = t) = 0
    BY <2>2, NoCallFacts DEF One
  <2>8. /\ One(room[t].held) = 0 /\ One(room[t].failed) = 0 /\ One(tpSender = "done") = 0
        /\ One(closer \in {"send", "closed"} /\ t \notin toClose) = 0
    BY <2>1 DEF One
  <2>9. Cardinality(handled[t]) = 0
    BY <2>1, FS_EmptySet
  <2>10. Waiting(t) = 0
    BY <2>3, <2>7 DEF Waiting
  <2>11. Happened(t) = 0
    BY <2>1, <2>8, <2>9 DEF Happened
  <2>12. Budget(t)
    BY <2>10, <2>11 DEF Budget
  <2>13. Lives(t) /\ Piped(t) /\ Noticed(t)
    BY <2>1, <2>3 DEF Lives, Piped, Noticed, Out
  <2> QED BY <2>6, <2>12, <2>13
<1>4. Counting
  <2>1. \A t \in Tracks : state[t].at = "idle"
    BY DEF Init, IdleState
  <2>2. {t \in Tracks : state[t].at \in Counted} = {}
    BY <2>1 DEF Counted
  <2> QED BY <2>2, FS_EmptySet DEF Init, Counting
<1>5. WillEnd
  BY DEF Init, WillEnd
<1>6. Joining
  <2>1. join.got = 0 /\ Len(join.results) = 0 /\ known = {} /\ Cardinality(known) = 0
    BY FS_EmptySet DEF Init
  <2>2. ResultsCount
    BY <2>1 DEF ResultsCount
  <2>3. Exact => join.at = "await" /\ join.cap = Cardinality(Selected)
    BY DEF Init
  <2> QED BY <2>2, <2>3 DEF Joining
<1> QED BY <1>1, <1>2, <1>3, <1>4, <1>5, <1>6 DEF IInv, Each

\* Nothing happens.
LEMMA Stuttering == ASSUME IInv, UNCHANGED vars PROVE IInv'
<1>1. Types /\ Phases /\ Each /\ Counting /\ WillEnd /\ Joining
  BY DEF IInv
<1>2. UNCHANGED <<request, join, subLock, known, built, pipe, worker, ops, state, writer, active,
                  closing, closer, toClose, provider, tpSender, call, room, ended, handled>>
  BY DEF vars, closeVars, tpVars
<1>3. WellCalled'
  BY <1>1, <1>2 DEF Types, WellCalled
<1>4. /\ room' \in [Tracks -> [subs : Nat, held : BOOLEAN, failed : BOOLEAN]]
      /\ handled' \in [Tracks -> SUBSET Nat]
  BY <1>1, <1>2 DEF Types, OtherTypes
<1>5. ASSUME NEW u \in Tracks PROVE Generations(u)' /\ Budget(u)' /\ Noticed(u)'
  <2>1. Generations(u) /\ Budget(u) /\ Noticed(u)
    BY <1>1 DEF Each
  <2> QED BY <1>2, <2>1 DEF Generations, Asked, Budget, Waiting, Happened, Noticed, Playing
<1> QED BY <1>2, <1>3, <1>4, <1>5, CallsMove

\* The steps of a worker, together.
LEMMA WorkerStepKept ==
    ASSUME RequestsSelect, IInv, NEW t \in Tracks, WorkerStep(t) PROVE IInv'
<1>1. CASE WriterCreated(t)
  BY <1>1, OrphanCreatedKept, LateCreatedKept, EarlyCreatedKept
<1>2. CASE TakesClose(t)
  BY <1>2, ActiveTakesCloseKept, IdleTakesCloseKept
<1>3. CASE Drained(t)
  BY <1>3, ContinuingDrainedKept, EndingDrainedKept
<1>4. CASE Removes(t)
  BY <1>4, VideoRemovesKept, AudioRemovesKept
<1>5. CASE Drops(t) \/ SubscribeStarts(t) \/ SubscribeFails(t) \/ OrphanDrained(t)
  BY <1>5, DropsKept, SubscribeStartsKept, SubscribeFailsKept, OrphanDrainedKept
<1>6. CASE Links(t) \/ Activates(t) \/ TakesPlaying(t) \/ TakesProvider(t)
  BY <1>6, LinksKept, ActivatesKept, TakesPlayingKept, TakesProviderKept
<1>7. CASE CloseDrained(t) \/ TakesUnsubscribe(t) \/ UnsubscribeCloses(t)
  BY <1>7, CloseDrainedKept, TakesUnsubscribeKept, UnsubscribeClosesKept
<1>8. CASE TakesFinished(t) \/ WriterEnded(t) \/ RemovedDrained(t)
  BY <1>8, TakesFinishedKept, WriterEndedKept, RemovedDrainedKept
<1> QED BY <1>1, <1>2, <1>3, <1>4, <1>5, <1>6, <1>7, <1>8 DEF WorkerStep

\* Every step keeps the invariant.
LEMMA NextKept ==
    ASSUME ChannelsSuffice, RequestsSelect, IInv, Next PROVE IInv'
<1>1. CASE JoinStep
  BY <1>1, StartsAwaitingKept, ReceivesResultKept, AwaitTimesOutKept, CompletesInitKept,
     BuildsPipelineKept DEF JoinStep
<1>2. CASE CloseStarts \/ CloseStep
  BY <1>2, CloseStartsKept, CloseMovesKept, CloseSendsKept DEF CloseStep
<1>3. CASE StoresProvider \/ SendsProvider
  BY <1>3, StoresProviderKept, SendsProviderKept
<1>4. ASSUME NEW t \in Tracks,
             RoomStep(t) \/ BusStep(t) \/ WorkerStep(t) \/ WriterEnds(t) \/ WriterFinishes(t)
      PROVE  IInv'
  BY <1>4, TrackSubscribedKept, TrackUnsubscribedKept, BusPlayingKept, BusStreamStoppedKept,
     WorkerStepKept, WriterEndsKept, WriterFinishesKept DEF RoomStep, BusStep
<1>5. ASSUME NEW c \in Callers, SendsOp(c) PROVE IInv'
  BY <1>5, SendsOpKept
<1> QED BY <1>1, <1>2, <1>3, <1>4, <1>5 DEF Next

(***************************************************************************)
(* The theorems.                                                           *)
(***************************************************************************)
\* The types the runs check.
LEMMA InvTypes == ASSUME IInv PROVE TypeOK
<1>1. Types /\ Each /\ Counting
  BY DEF IInv
<1>2. ASSUME NEW t \in Tracks PROVE pipe[t] \in 0..request.subs[t]
  <2>1. /\ Subscriptions(ops[t]) \in Nat /\ Asked(t) \in {0, 1} /\ state[t].gen \in Nat
        /\ room[t].subs \in Nat /\ request.subs[t] \in Nat /\ pipe[t] \in Nat
    BY <1>1, Numbers
  <2>2. Generations(t)
    BY <1>1 DEF Each
  <2> QED BY <2>1, <2>2 DEF Generations
<1>3. active \in 0..Cardinality(Tracks)
  <2>1. Cardinality(Tracks) \in Nat
    BY SourceAssumption, FS_CardinalityType
  <2>2. active = Cardinality(CountedSet)
    BY <1>1 DEF Counting, CountedSet
  <2> QED BY <2>1, <2>2, CountedFinite
<1>4. join.at \in {"join", "await", "lock", "done", "failed"}
  BY <1>1 DEF Types, JoinTypes
<1> QED BY <1>1, <1>2, <1>3, <1>4 DEF TypeOK, Types, RequestTypes, WorkerTypes, ChannelTypes, OtherTypes

\* The pipeline follows the tracks.
LEMMA InvPipeline == ASSUME IInv PROVE PipelineFollowsTracks
<1> SUFFICES ASSUME built, NEW t \in Tracks
             PROVE  /\ At(t, "active") /\ writer[t].life = "live" => pipe[t] = state[t].gen
                    /\ Continues /\ At(t, "idle") => pipe[t] = 0
  BY DEF PipelineFollowsTracks
<1>1. Piped(t)
  BY DEF IInv, Each
<1> QED BY <1>1 DEF Piped, At, Runs, Out

\* The notices arrive.
LEMMA InvNotices == ASSUME IInv PROVE NoticesArrive
<1> SUFFICES ASSUME NEW t \in Tracks, At(t, "active"), ~closing
             PROVE  /\ state[t].gen \in handled[t] /\ ~Queued(t, "Playing") => writer[t].playing
                    /\ tpSender = "done" /\ ~Queued(t, "SetTimeProvider") => writer[t].clock
  BY DEF NoticesArrive
<1>1. Noticed(t) /\ state[t].at = "active" /\ Bus \in Callers
  BY BusIsNoTrack DEF IInv, Each, At
<1>2. Playing(t).type = "Playing"
  BY DEF Playing
<1>3. Has(ops[t], Playing(t)) => Queued(t, "Playing")
  BY <1>2 DEF Has, Queued
<1>4. call[Bus] = [at |-> "submit", track |-> t, op |-> Playing(t)] => Queued(t, "Playing")
  BY <1>1, <1>2 DEF Queued
<1>5. HasType(ops[t], "SetTimeProvider") => Queued(t, "SetTimeProvider")
  BY DEF HasType, Queued
<1> QED BY <1>1, <1>3, <1>4, <1>5 DEF Noticed

\* The tracks decide: the start waits for all of them, the last one ends.
LEMMA InvDecides == ASSUME RequestsSelect, IInv PROVE TracksDecide
<1>1. Types /\ Each /\ WillEnd /\ Joining
  BY DEF IInv
<1>2. StartsComplete
  BY <1>1 DEF StartsComplete, Joining
<1>3. AllGoneEnds
  <2> SUFFICES ASSUME ~Continues, ~closing, known = Selected, ~ended,
                      \A t \in Selected : At(t, "idle") /\ ops[t] = <<>>
               PROVE  FALSE
    BY DEF AllGoneEnds
  <2>1. Selected # {}
    BY <1>1 DEF RequestsSelect, Selected, Continues, Types, RequestTypes
  <2>2. PICK u \in Tracks : Ending(u)
    BY <1>1, <2>1 DEF WillEnd
  <2>3. state[u].at # "idle"
    BY <2>2 DEF Ending
  <2>6. u \in Selected
    BY <1>1, <2>3, Begun
  <2> QED BY <2>3, <2>6 DEF At
<1> QED BY <1>2, <1>3 DEF TracksDecide

\* The inductive invariant of a source whose channels suffice.
THEOREM SourceInvariant ==
    ASSUME ChannelsSuffice, RequestsSelect PROVE Spec => []IInv
<1>1. Init => IInv
  BY InitInv
<1>2. IInv /\ [Next]_vars => IInv'
  BY NextKept, Stuttering
<1> QED BY <1>1, <1>2, PTL DEF Spec

\* The pipeline holds the appsrc of every active writer that lives, nothing is left of a track
\* that is gone, and no notice is lost on the way to a writer, however the callbacks of the
\* room, the bus, the close and the workers interleave.
THEOREM SourceFollowsTracks ==
    ASSUME ChannelsSuffice, RequestsSelect PROVE Spec => []TracksFollowed
<1>1. IInv => TracksFollowed
  BY InvTypes, InvPipeline, InvNotices DEF TracksFollowed
<1> QED BY <1>1, SourceInvariant, PTL

\* An egress of given tracks starts with all of them, and ends with the last of them.
THEOREM SourceTracksDecide ==
    ASSUME ChannelsSuffice, RequestsSelect PROVE Spec => []TracksDecide
<1>1. IInv => TracksDecide
  BY InvDecides
<1> QED BY <1>1, SourceInvariant, PTL
=============================================================================
