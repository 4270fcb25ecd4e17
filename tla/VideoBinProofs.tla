---------------------------- MODULE VideoBinProofs ----------------------------
(***************************************************************************)
(* Proofs about VideoBin, for any tracks, any number of pads and any plans *)
(* of egresses.                                                            *)
(*                                                                         *)
(* What a layout computes plays no part: a cell is any cell.  What matters *)
(* is who owns a name.  A pad has its name from when the worker builds the *)
(* track's bin until the bin is detached, and between the two the name     *)
(* leaves the track, the pads, the selector and the screen one by one.     *)
(*                                                                         *)
(* What a layout computes is proved apart, about LayoutManager and         *)
(* Pipeline: for any canvas and any number of tracks the cells do not      *)
(* overlap, a picture of any size fits its cell, and a page keeps the      *)
(* tracks that matter through every event.                                 *)
(*                                                                         *)
(* Of Pipeline, for any requests: a retry keeps the files of the attempts  *)
(* before it, and what is accepted can be built.                           *)
(***************************************************************************)
EXTENDS VideoBin, Pipeline, FiniteSetTheorems, SequenceTheorems, WellFoundedInduction, TLAPS

\* The places of a worker: it adds a pad and has it, or it takes out a pad it has forgotten.
Adding == {"bin", "visible", "place", "apply"}
Removing == {"hide", "unplace", "reapply", "unbin"}

\* The names a track has or its worker still deals with.
Owns(t) == {names[t], worker[t].name} \ {None}

Types ==
    /\ plan \in Plans
    /\ worker = [t \in Tracks |-> worker[t]]
    /\ names \in [Tracks -> Names \cup {None}]
    /\ eos \in [Names \cup {Filler} -> {"no", "leaving", "marked", "passing", "done"}]
    /\ alpha = [n \in Names |-> alpha[n]] /\ wanted = [n \in Names |-> wanted[n]]
    /\ nextID \in 1..(MaxNames + 1)

\* What the worker of a track does agrees with the name of the track.
WorkerAgrees(t) ==
    /\ worker[t].pc \in {"idle", "pad", "forget"} \cup Adding \cup Removing
    /\ worker[t].name \in Names \cup {None}
    /\ worker[t].pc \in {"idle", "forget"} => worker[t].name = None
    /\ worker[t].pc = "forget" => names[t] # None
    /\ worker[t].pc \in {"pad"} \cup Removing => names[t] = None /\ worker[t].name # None
    /\ worker[t].pc \in Adding => names[t] # None /\ names[t] = worker[t].name

\* The names given so far.
Given == 1..(nextID - 1)

\* A name is given once: it belongs to one track, and to none once its bin is to be detached.
NamesApart ==
    /\ \A t \in Tracks : Owns(t) \subseteq Given
    /\ parting \cup detached \subseteq Given
    /\ \A t, u \in Tracks : t # u => Owns(t) \cap Owns(u) = {}
    /\ \A t \in Tracks : Owns(t) \cap (parting \cup detached) = {}

\* The pads are those of the names.
PadsNamed == pads = {names[t] : t \in Tracks} \ {None}

\* A composited egress has no selection.
SelectionFollows ==
    /\ SelectedIsThere
    /\ Compositing => selected = Filler /\ pending = None

\* An EOS is held once it arrived, the filler's comes with the end, and a live track that is
\* over has left the selector before its EOS gets there.
EOSFollows ==
    /\ \A n \in held : n \in Names \cup {Filler} /\ eos[n] = "done"
    /\ eos[Filler] # "no" => ending /\ ~Running
    /\ Mode = "live" /\ Running =>
          \A n \in Names : eos[n] \in {"passing", "done"} => selected # n
    /\ NoEarlyEOS

\* A pad that is not there yet is shown, as its layout will want.
FreshShown ==
    \A n \in Names :
        n >= nextID \/ (\E t \in Tracks : worker[t].pc = "pad" /\ worker[t].name = n)
            => alpha[n] = 1 /\ wanted[n] = 1

\* What is muted is there, and the alphas are as PictureAgrees says.
AlphaFollows == muted \subseteq pads /\ FreshShown /\ AlphaAgrees

WorkersAgree == \A t \in Tracks : WorkerAgrees(t)

NamesFollow == Types /\ WorkersAgree /\ NamesApart /\ PadsNamed

IInv == NamesFollow /\ SelectionFollows /\ EOSFollows /\ AlphaFollows

-----------------------------------------------------------------------------
(* The steps, as what they do to the parts of the invariant *)

\* The names differ from the filler's and from none.
LEMMA NamesDiffer ==
    /\ Names \subseteq Nat /\ Filler \notin Names /\ None \notin Names /\ None # Filler
    /\ \A n \in Names : n >= 1 /\ n <= MaxNames
BY BoundsAssumption DEF Names, Filler, None

\* Before the first track there is nothing but the filler.
LEMMA Initially == Init => IInv
<1> SUFFICES ASSUME Init PROVE IInv
  OBVIOUS
<1> USE DEF Init
<1>1. \A t \in Tracks : worker[t] = Idle /\ names[t] = None
  OBVIOUS
<1>2. Idle.pc = "idle" /\ Idle.name = None
  BY DEF Idle
<1>3. Types
  BY NamesDiffer, BoundsAssumption DEF Types
<1>4. WorkersAgree
  BY <1>1, <1>2 DEF WorkersAgree, WorkerAgrees, Adding, Removing
<1>5. \A t \in Tracks : Owns(t) = {}
  BY <1>1, <1>2 DEF Owns
<1>6. NamesApart
  BY <1>5 DEF NamesApart, Given
<1>7. PadsNamed
  BY <1>1 DEF PadsNamed
<1>8. SelectionFollows
  BY DEF SelectionFollows, SelectedIsThere
<1>9. EOSFollows
  BY NamesDiffer DEF EOSFollows, NoEarlyEOS, Running
<1>10. FreshShown
  BY DEF FreshShown
<1>11. AlphaAgrees
  BY <1>1, <1>2 DEF AlphaAgrees
<1> QED BY <1>3, <1>4, <1>6, <1>7, <1>8, <1>9, <1>10, <1>11
           DEF IInv, NamesFollow, AlphaFollows

\* A worker's step moves that worker only.
LEMMA WorkerMoves ==
    ASSUME Types, NEW t \in Tracks, NEW from, NEW to, Worker(t, from, to)
    PROVE  /\ worker[t].pc = from /\ ~failed
           /\ worker'[t] = to /\ \A u \in Tracks \ {t} : worker'[u] = worker[u]
           /\ worker' = [u \in Tracks |-> worker'[u]]
           /\ UNCHANGED <<plan, state, ending, writer, room, mutes, updates>>
BY DEF Worker, Types

\* Showing or hiding a track changes neither names nor pads, and the selector only gets the
\* filler or, in an egress that is not live, a pad that is there.
LEMMA VisibleSelects ==
    ASSUME NEW n, NEW visible, setTrackVisible(n, visible)
    PROVE  \/ KeepsSelection /\ pending' = pending
           \/ ~Compositing /\ n \in pads /\ setSelectorPadLocked(n)
           \/ ~Compositing /\ Leaves(n)
BY DEF setTrackVisible

-----------------------------------------------------------------------------
(* Who owns a name *)

\* Names stay apart when no track gets one.
LEMMA NamesKept ==
    ASSUME Types, Types', NamesApart, nextID' >= nextID,
           \A t \in Tracks : Owns(t)' \subseteq Owns(t),
           (parting \cup detached)' \subseteq parting \cup detached
    PROVE  NamesApart'
<1>1. Given \subseteq Given'
  BY BoundsAssumption DEF Types, Given
<1> QED BY <1>1 DEF NamesApart

\* A name that was given is a name, and the next one is not given yet.
LEMMA GivenAreNames ==
    ASSUME Types
    PROVE  /\ Given \subseteq Names /\ nextID \notin Given
           /\ nextID <= MaxNames => nextID \in Names /\ nextID # None
BY BoundsAssumption DEF Types, Given, Names, None

\* A step that touches no name, worker or pad.
LEMMA NamesUntouched ==
    ASSUME NamesFollow, UNCHANGED <<plan, worker, names, pads, parting, detached, nextID>>,
           Types'
    PROVE  NamesFollow'
BY DEF NamesFollow, WorkersAgree, WorkerAgrees, NamesApart, Given, Owns, PadsNamed

\* A worker that goes on with the name it has.
LEMMA WorkerGoesOn ==
    ASSUME NamesFollow, Types', NEW t \in Tracks, NEW from, NEW to, Worker(t, from, to),
           UNCHANGED <<names, pads, parting, detached, nextID>>,
           Owns(t)' \subseteq Owns(t), WorkerAgrees(t)'
    PROVE  NamesFollow'
<1> USE DEF NamesFollow
<1>1. \A u \in Tracks \ {t} : worker'[u] = worker[u]
  BY WorkerMoves
<1>2. \A u \in Tracks : Owns(u)' \subseteq Owns(u)
  BY <1>1 DEF Owns
<1>3. NamesApart'
  <2>1. nextID' >= nextID
    BY BoundsAssumption DEF Types
  <2> QED BY <1>2, <2>1, NamesKept
<1>4. WorkersAgree'
  BY <1>1 DEF WorkersAgree, WorkerAgrees
<1>5. PadsNamed'
  BY DEF PadsNamed
<1> QED BY <1>3, <1>4, <1>5

\* The worker that builds a track's bin takes the next name.
LEMMA AddStartsNames ==
    ASSUME NamesFollow, Types', NEW t \in Tracks, AddStarts(t)
    PROVE  NamesFollow'
<1> USE DEF NamesFollow
<1>1. /\ names[t] = None /\ nextID' = nextID + 1
      /\ UNCHANGED <<names, pads, parting, detached>>
      /\ worker'[t] \in {At("pad", nextID), Idle}
      /\ worker[t].pc = "idle" /\ \A u \in Tracks \ {t} : worker'[u] = worker[u]
  BY WorkerMoves DEF AddStarts
<1>2. nextID \in Names /\ nextID # None
  BY GivenAreNames, BoundsAssumption DEF AddStarts, Types
<1>3. WorkerAgrees(t)'
  BY <1>1, <1>2 DEF WorkerAgrees, Adding, Removing, At, Idle
<1>4. WorkersAgree'
  BY <1>1, <1>3 DEF WorkersAgree, WorkerAgrees
<1>5. PadsNamed'
  BY <1>1 DEF PadsNamed
<1>6. NamesApart'
  <2>1. Owns(t)' \subseteq {nextID}
    BY <1>1 DEF Owns, At, Idle
  <2>2. \A u \in Tracks \ {t} : Owns(u)' = Owns(u)
    BY <1>1 DEF Owns
  <2>3. nextID \notin Given /\ Given' = Given \cup {nextID}
    BY <1>1, BoundsAssumption DEF Types, Given
  <2> QED BY <1>1, <2>1, <2>2, <2>3 DEF NamesApart
<1> QED BY <1>4, <1>5, <1>6

\* The pad makes the worker's name the track's.
LEMMA createSrcPadNames ==
    ASSUME NamesFollow, Types', NEW t \in Tracks, createSrcPad(t)
    PROVE  NamesFollow'
<1> USE DEF NamesFollow
<1> DEFINE n == worker[t].name
<1>1. /\ names' = [names EXCEPT ![t] = n] /\ pads' = pads \cup {n}
      /\ UNCHANGED <<parting, detached, nextID>>
      /\ worker'[t] = At("bin", n)
      /\ worker[t].pc = "pad" /\ \A u \in Tracks \ {t} : worker'[u] = worker[u]
  BY WorkerMoves DEF createSrcPad
<1>2. names[t] = None /\ n # None /\ n \in Names
  BY <1>1 DEF WorkersAgree, WorkerAgrees
<1>3. /\ names'[t] = n /\ \A u \in Tracks \ {t} : names'[u] = names[u]
      /\ worker'[t].pc = "bin" /\ worker'[t].name = n
  BY <1>1 DEF Types, At
<1> HIDE DEF n
<1>4. WorkersAgree'
  BY <1>1, <1>2, <1>3 DEF WorkersAgree, WorkerAgrees, Adding, Removing
<1>5. PadsNamed'
  BY <1>1, <1>2, <1>3 DEF PadsNamed
<1>6. NamesApart'
  <2>1. Owns(t) = {n}
    BY <1>2 DEF Owns, n
  <2>2. Owns(t)' = {n}
    BY <1>2, <1>3 DEF Owns
  <2>3. \A u \in Tracks : Owns(u)' = Owns(u)
    BY <1>1, <1>3, <2>1, <2>2 DEF Owns
  <2>4. nextID' >= nextID
    BY <1>1, BoundsAssumption DEF Types
  <2> QED BY <1>1, <2>3, <2>4, NamesKept
<1> QED BY <1>4, <1>5, <1>6

\* The track's name goes back to the worker, and its pad is no longer there.
LEMMA RemoveForgetsNames ==
    ASSUME NamesFollow, Types', NEW t \in Tracks, RemoveForgets(t)
    PROVE  NamesFollow'
<1> USE DEF NamesFollow
<1> DEFINE n == names[t]
<1>1. /\ names' = [names EXCEPT ![t] = None] /\ pads' = pads \ {n}
      /\ UNCHANGED <<parting, detached, nextID>>
      /\ worker'[t] \in {At("hide", n), At("unbin", n)}
      /\ worker[t].pc = "forget" /\ \A u \in Tracks \ {t} : worker'[u] = worker[u]
  BY WorkerMoves DEF RemoveForgets
<1>2. worker[t].name = None /\ n # None /\ n \in Names
  BY <1>1 DEF WorkersAgree, WorkerAgrees, Types
<1>3. /\ names'[t] = None /\ \A u \in Tracks \ {t} : names'[u] = names[u]
      /\ worker'[t].pc \in {"hide", "unbin"} /\ worker'[t].name = n
  BY <1>1 DEF Types, At
<1>4. \A u \in Tracks \ {t} : names[u] # n
  BY <1>2 DEF NamesApart, Owns
<1>5. PadsNamed'
  BY <1>1, <1>2, <1>3, <1>4 DEF PadsNamed
<1>6. Owns(t) = {n}
  BY <1>2 DEF Owns
<1> HIDE DEF n
<1>7. WorkersAgree'
  BY <1>1, <1>2, <1>3 DEF WorkersAgree, WorkerAgrees, Adding, Removing
<1>8. NamesApart'
  <2>1. Owns(t)' = {n}
    BY <1>2, <1>3 DEF Owns
  <2>2. \A u \in Tracks : Owns(u)' = Owns(u)
    BY <1>1, <1>3, <1>6, <2>1 DEF Owns
  <2>3. nextID' >= nextID
    BY <1>1, BoundsAssumption DEF Types
  <2> QED BY <1>1, <2>2, <2>3, NamesKept
<1> QED BY <1>5, <1>7, <1>8

\* The worker hands the name to the bin that is to be detached.
LEMMA RemoveSourceBinNames ==
    ASSUME NamesFollow, Types', NEW t \in Tracks, RemoveSourceBin(t)
    PROVE  NamesFollow'
<1> USE DEF NamesFollow
<1> DEFINE n == worker[t].name
<1>1. /\ UNCHANGED <<names, pads, detached, nextID>>
      /\ parting' \subseteq parting \cup {n}
      /\ worker'[t] = Idle
      /\ worker[t].pc = "unbin" /\ \A u \in Tracks \ {t} : worker'[u] = worker[u]
  BY WorkerMoves DEF RemoveSourceBin
<1>2. names[t] = None /\ n # None /\ n \in Owns(t)
  BY <1>1 DEF WorkersAgree, WorkerAgrees, Removing, Owns
<1>3. worker'[t].pc = "idle" /\ worker'[t].name = None
  BY <1>1 DEF Idle
<1>4. WorkersAgree'
  BY <1>1, <1>2, <1>3 DEF WorkersAgree, WorkerAgrees, Adding, Removing
<1>5. PadsNamed'
  BY <1>1 DEF PadsNamed
<1>6. NamesApart'
  <2>1. Owns(t)' = {}
    BY <1>1, <1>2, <1>3 DEF Owns
  <2>2. \A u \in Tracks \ {t} : Owns(u)' = Owns(u) /\ n \notin Owns(u)
    BY <1>1, <1>2 DEF Owns, NamesApart
  <2>3. Given' = Given /\ n \in Given
    BY <1>1, <1>2 DEF Given, NamesApart
  <2> HIDE DEF n
  <2> QED BY <1>1, <2>1, <2>2, <2>3 DEF NamesApart
<1> QED BY <1>4, <1>5, <1>6

\* Detaching a bin moves its name from one list to the other.
LEMMA DetachNames ==
    ASSUME NamesFollow, Types', NEW n \in Names, DetachesSourceBin(n)
    PROVE  NamesFollow'
<1> USE DEF NamesFollow
<1>1. /\ UNCHANGED <<plan, worker, names, pads, nextID>>
      /\ (parting \cup detached)' \subseteq parting \cup detached
  BY DEF DetachesSourceBin
<1>2. NamesApart'
  <2>1. \A t \in Tracks : Owns(t)' = Owns(t)
    BY <1>1 DEF Owns
  <2>2. nextID' >= nextID
    BY <1>1, BoundsAssumption DEF Types
  <2> QED BY <1>1, <2>1, <2>2, NamesKept
<1> QED BY <1>1, <1>2 DEF WorkersAgree, WorkerAgrees, PadsNamed

\* Showing a track, and applying a layout, keep the alphas.
LEMMA AlphaTypes ==
    ASSUME Types
    PROVE  /\ \A n, visible : setTrackVisible(n, visible) => alpha' = [m \in Names |-> alpha'[m]]
           /\ \A cells : Applies(cells) => /\ alpha' = [m \in Names |-> alpha'[m]]
                                           /\ wanted' = [m \in Names |-> wanted'[m]]
<1>1. ASSUME NEW n, NEW visible, setTrackVisible(n, visible)
      PROVE  alpha' = [m \in Names |-> alpha'[m]]
  <2>1. \/ alpha' = alpha
        \/ \E a : alpha' = [alpha EXCEPT ![n] = a]
    BY <1>1 DEF setTrackVisible
  <2> QED BY <2>1 DEF Types
<1>2. ASSUME NEW cells, Applies(cells)
      PROVE  alpha' = [m \in Names |-> alpha'[m]] /\ wanted' = [m \in Names |-> wanted'[m]]
  BY <1>2 DEF Applies
<1> QED BY <1>1, <1>2

\* A worker's step keeps the types.
LEMMA WorkerTypes ==
    ASSUME Types, WorkersAgree, NEW t \in Tracks, t \in plan.tracks, WorkerStep(t)
    PROVE  Types'
<1>1. worker' = [u \in Tracks |-> worker'[u]] /\ plan' = plan
  BY WorkerMoves DEF WorkerStep, AddStarts, createSrcPad, AddSourceBin, AddVisible, AddToLayout,
     AddApplies, RemoveStarts, RemoveForgets, RemoveHides, RemoveFromLayout, RemoveApplies,
     RemoveSourceBin
<1>2. eos' = eos
  BY DEF WorkerStep, AddStarts, createSrcPad, AddSourceBin, AddVisible, AddToLayout,
     AddApplies, RemoveStarts, RemoveForgets, RemoveHides, RemoveFromLayout, RemoveApplies,
     RemoveSourceBin
<1>3. nextID' \in 1..(MaxNames + 1)
  <2>1. CASE AddStarts(t)
    <3>1. nextID <= plan.names /\ nextID' = nextID + 1 /\ plan.names \in 0..MaxNames
      BY <2>1, BoundsAssumption DEF AddStarts, Types
    <3> QED BY <3>1, BoundsAssumption DEF Types
  <2>2. CASE ~AddStarts(t)
    <3>1. nextID' = nextID
      BY <2>2 DEF WorkerStep, createSrcPad, AddSourceBin, AddVisible, AddToLayout,
         AddApplies, RemoveStarts, RemoveForgets, RemoveHides, RemoveFromLayout, RemoveApplies,
         RemoveSourceBin
    <3> QED BY <3>1 DEF Types
  <2> QED BY <2>1, <2>2
<1>4. /\ alpha' = [m \in Names |-> alpha'[m]] /\ wanted' = [m \in Names |-> wanted'[m]]
  <2>1. CASE AddVisible(t)
    BY <2>1, AlphaTypes DEF AddVisible, Types
  <2>2. CASE AddApplies(t) \/ RemoveApplies(t)
    BY <2>2, AlphaTypes DEF AddApplies, RemoveApplies
  <2>3. CASE RemoveHides(t)
    BY <2>3 DEF RemoveHides, Types
  <2>4. CASE \/ AddStarts(t) \/ createSrcPad(t) \/ AddSourceBin(t) \/ AddToLayout(t)
             \/ RemoveStarts(t) \/ RemoveForgets(t) \/ RemoveFromLayout(t) \/ RemoveSourceBin(t)
    <3>1. alpha' = alpha /\ wanted' = wanted
      BY <2>4 DEF AddStarts, createSrcPad, AddSourceBin, AddToLayout,
         RemoveStarts, RemoveForgets, RemoveFromLayout, RemoveSourceBin
    <3> QED BY <3>1 DEF Types
  <2> QED BY <2>1, <2>2, <2>3, <2>4 DEF WorkerStep
<1>5. names' \in [Tracks -> Names \cup {None}]
  <2>1. CASE createSrcPad(t)
    BY <2>1 DEF createSrcPad, Types, WorkersAgree, WorkerAgrees
  <2>2. CASE RemoveForgets(t)
    BY <2>2 DEF RemoveForgets, Types
  <2>3. CASE ~createSrcPad(t) /\ ~RemoveForgets(t)
    <3>1. names' = names
      BY <2>3 DEF WorkerStep, AddStarts, AddSourceBin, AddVisible, AddToLayout,
         AddApplies, RemoveStarts, RemoveHides, RemoveFromLayout, RemoveApplies,
         RemoveSourceBin
    <3> QED BY <3>1 DEF Types
  <2> QED BY <2>1, <2>2, <2>3
<1> QED BY <1>1, <1>2, <1>3, <1>4, <1>5 DEF Types

\* The steps of other actors leave the names alone.
LEMMA OthersTypes ==
    ASSUME Types, \/ \E t \in Tracks : MuteApplies(t)
                  \/ \E t \in Tracks, visible \in BOOLEAN : MuteLooksUp(t, visible)
                  \/ SpeakersChange \/ SpeakersApply
                  \/ \E n \in Names : Frame(n) \/ TrackEOS(n) \/ onTrackEOS(n)
                  \/ \E n \in Names \cup {Filler} : SelectorEOS(n)
                  \/ SendEOS \/ SendEOSMarks \/ SendEOSPushes
                  \/ UNCHANGED vars
    PROVE  Types' /\ UNCHANGED <<plan, worker, names, pads, parting, detached, nextID>>
<1>1. CASE \E t \in Tracks : MuteApplies(t)
  BY <1>1, AlphaTypes DEF MuteApplies, Types
<1>2. CASE \E t \in Tracks, visible \in BOOLEAN : MuteLooksUp(t, visible)
  BY <1>2 DEF MuteLooksUp, barVars, Types
<1>3. CASE SpeakersChange
  BY <1>3 DEF SpeakersChange, Types
<1>4. CASE SpeakersApply
  BY <1>4, AlphaTypes DEF SpeakersApply, Types
<1>5. ASSUME NEW n \in Names, Frame(n) \/ TrackEOS(n) \/ onTrackEOS(n)
      PROVE  Types' /\ UNCHANGED <<plan, worker, names, pads, parting, detached, nextID>>
  <2>1. UNCHANGED <<plan, worker, names, pads, parting, detached, nextID, alpha, wanted>>
    BY <1>5 DEF Frame, TrackEOS, onTrackEOS
  <2>2. eos' \in [Names \cup {Filler} -> {"no", "leaving", "marked", "passing", "done"}]
    BY <1>5 DEF Frame, TrackEOS, onTrackEOS, Types
  <2> QED BY <2>1, <2>2 DEF Types
<1>6. ASSUME NEW n \in Names \cup {Filler}, SelectorEOS(n)
      PROVE  Types' /\ UNCHANGED <<plan, worker, names, pads, parting, detached, nextID>>
  BY <1>6 DEF SelectorEOS, Types
<1>7. CASE SendEOS
  BY <1>7 DEF SendEOS, Types
<1>8. CASE SendEOSMarks
  BY <1>8 DEF SendEOSMarks, Types
<1>9. CASE SendEOSPushes
  BY <1>9 DEF SendEOSPushes, Types
<1>10. CASE UNCHANGED vars
  BY <1>10 DEF vars, Types
<1> QED BY <1>1, <1>2, <1>3, <1>4, <1>5, <1>6, <1>7, <1>8, <1>9, <1>10

\* The worker's other steps go on with the name.
LEMMA WorkerNames ==
    ASSUME NamesFollow, Types', NEW t \in Tracks, WorkerStep(t)
    PROVE  NamesFollow'
<1> DEFINE n == worker[t].name
<1>1. CASE AddStarts(t)
  BY <1>1, AddStartsNames
<1>2. CASE createSrcPad(t)
  BY <1>2, createSrcPadNames
<1>3. CASE RemoveForgets(t)
  BY <1>3, RemoveForgetsNames
<1>4. CASE RemoveSourceBin(t)
  BY <1>4, RemoveSourceBinNames
<1>5. ASSUME NEW from \in {"bin", "visible", "place", "apply"}, NEW to,
             Worker(t, from, to), to.pc \in Adding \cup {"idle"},
             to.name = IF to.pc = "idle" THEN None ELSE n,
             UNCHANGED <<names, pads, parting, detached, nextID>>
      PROVE  NamesFollow'
  <2>1. worker[t].pc = from /\ worker'[t] = to
    BY <1>5, WorkerMoves DEF NamesFollow
  <2>2. names[t] = n /\ n # None /\ n \in Names
    BY <2>1 DEF NamesFollow, WorkersAgree, WorkerAgrees, Adding
  <2>3. WorkerAgrees(t)'
    BY <1>5, <2>1, <2>2 DEF WorkerAgrees, Adding, Removing
  <2>4. Owns(t)' \subseteq Owns(t)
    BY <1>5, <2>1, <2>2 DEF Owns
  <2> QED BY <1>5, <2>3, <2>4, WorkerGoesOn
<1>6. ASSUME NEW from \in {"hide", "unplace", "reapply"}, NEW to,
             Worker(t, from, to), to.pc \in Removing, to.name = n,
             UNCHANGED <<names, pads, parting, detached, nextID>>
      PROVE  NamesFollow'
  <2>1. worker[t].pc = from /\ worker'[t] = to
    BY <1>6, WorkerMoves DEF NamesFollow
  <2>2. names[t] = None /\ n # None /\ n \in Names
    BY <2>1 DEF NamesFollow, WorkersAgree, WorkerAgrees, Removing
  <2>3. WorkerAgrees(t)'
    BY <1>6, <2>1, <2>2 DEF WorkerAgrees, Adding, Removing
  <2>4. Owns(t)' \subseteq Owns(t)
    BY <1>6, <2>1, <2>2 DEF Owns
  <2> QED BY <1>6, <2>3, <2>4, WorkerGoesOn
<1>7. CASE AddSourceBin(t)
  BY <1>5, <1>7 DEF AddSourceBin, At, Adding
<1>8. CASE AddVisible(t)
  <2> DEFINE to == IF Compositing THEN At("place", n) ELSE Idle
  <2>1. Worker(t, "visible", to) /\ UNCHANGED <<names, pads, parting, detached, nextID>>
    BY <1>8 DEF AddVisible
  <2>2. to.pc \in Adding \cup {"idle"} /\ to.name = IF to.pc = "idle" THEN None ELSE n
    BY DEF At, Idle, Adding
  <2> HIDE DEF to
  <2> QED BY <1>5, <2>1, <2>2
<1>9. CASE AddToLayout(t)
  BY <1>5, <1>9 DEF AddToLayout, At, Adding
<1>10. CASE AddApplies(t)
  BY <1>5, <1>10 DEF AddApplies, Idle
<1>11. CASE RemoveStarts(t)
  <2>1. /\ names[t] # None /\ UNCHANGED <<names, pads, parting, detached, nextID>>
        /\ Worker(t, "idle", At("forget", None))
    BY <1>11 DEF RemoveStarts
  <2>2. worker[t].pc = "idle" /\ worker'[t] = At("forget", None)
    BY <2>1, WorkerMoves DEF NamesFollow
  <2>3. WorkerAgrees(t)'
    BY <2>1, <2>2 DEF WorkerAgrees, Adding, Removing, At
  <2>4. Owns(t)' \subseteq Owns(t)
    BY <2>1, <2>2 DEF Owns, At
  <2> QED BY <2>1, <2>3, <2>4, WorkerGoesOn
<1>12. CASE RemoveHides(t)
  BY <1>6, <1>12 DEF RemoveHides, At, Removing
<1>13. CASE RemoveFromLayout(t)
  BY <1>6, <1>13 DEF RemoveFromLayout, At, Removing
<1>14. CASE RemoveApplies(t)
  BY <1>6, <1>14 DEF RemoveApplies, At, Removing
<1> QED BY <1>1, <1>2, <1>3, <1>4, <1>7, <1>8, <1>9, <1>10, <1>11, <1>12, <1>13,
           <1>14 DEF WorkerStep

\* The steps by who takes them.
LEMMA NextSplits ==
    ASSUME plan \in Plans, Next
    PROVE  \/ \E t \in Tracks : t \in plan.tracks /\ WorkerStep(t)
           \/ \E n \in Names : DetachesSourceBin(n)
           \/ \E t \in Tracks : MuteApplies(t)
           \/ \E t \in Tracks, visible \in BOOLEAN : MuteLooksUp(t, visible)
           \/ SpeakersChange \/ SpeakersApply
           \/ \E n \in Names : Frame(n) \/ TrackEOS(n) \/ onTrackEOS(n)
           \/ \E n \in Names \cup {Filler} : SelectorEOS(n)
           \/ SendEOS \/ SendEOSMarks \/ SendEOSPushes
BY BoundsAssumption DEF Next

\* Who owns a name follows every step.
LEMMA NamesStep ==
    ASSUME NamesFollow, Next \/ UNCHANGED vars
    PROVE  NamesFollow'
<1>0. Types /\ WorkersAgree /\ plan \in Plans
  BY DEF NamesFollow, Types
<1>1. ASSUME NEW t \in Tracks, t \in plan.tracks, WorkerStep(t) PROVE NamesFollow'
  BY <1>0, <1>1, WorkerTypes, WorkerNames
<1>2. ASSUME NEW n \in Names, DetachesSourceBin(n) PROVE NamesFollow'
  <2>1. Types'
    BY <1>0, <1>2 DEF DetachesSourceBin, Types
  <2> QED BY <1>2, <2>1, DetachNames
<1>3. CASE \/ \E t \in Tracks : MuteApplies(t)
           \/ \E t \in Tracks, visible \in BOOLEAN : MuteLooksUp(t, visible)
           \/ SpeakersChange \/ SpeakersApply
           \/ \E n \in Names : Frame(n) \/ TrackEOS(n) \/ onTrackEOS(n)
           \/ \E n \in Names \cup {Filler} : SelectorEOS(n)
           \/ SendEOS \/ SendEOSMarks \/ SendEOSPushes
           \/ UNCHANGED vars
  <2>1. Types' /\ UNCHANGED <<plan, worker, names, pads, parting, detached, nextID>>
    BY <1>0, <1>3, OthersTypes
  <2> QED BY <2>1, NamesUntouched
<1> QED BY <1>0, <1>1, <1>2, <1>3, NextSplits

-----------------------------------------------------------------------------
(* What the selector has *)

\* A pad that is there is not to be detached.
LEMMA PadsOwned ==
    ASSUME NamesFollow, NEW n \in pads
    PROVE  n \in Names /\ n \notin parting \cup detached /\ n # None /\ n # Filler
<1>1. PICK t \in Tracks : names[t] = n /\ n # None
  BY DEF NamesFollow, PadsNamed
<1>2. n \in Owns(t)
  BY <1>1 DEF Owns
<1> QED BY <1>1, <1>2, NamesDiffer DEF NamesFollow, NamesApart, Types

\* What each step does to the selection.
LEMMA WorkerSelects ==
    ASSUME NEW t \in Tracks, WorkerStep(t)
    PROVE  /\ plan' = plan /\ UNCHANGED <<eos, state, ending, detached>>
           /\ \/ KeepsSelection /\ pending' = pending /\ pads \subseteq pads'
              \/ /\ \E n \in pads : setSelectorPadLocked(n)
                 /\ ~Compositing /\ pads' = pads
              \/ /\ ~Compositing /\ (\E n : Leaves(n)) /\ pads' = pads
              \/ RemoveForgets(t) /\ Leaves(names[t]) /\ pads' = pads \ {names[t]}
<1>1. CASE AddVisible(t)
  <2>1. setTrackVisible(worker[t].name, TRUE) /\ pads' = pads
        /\ UNCHANGED <<plan, eos, state, ending, detached>>
    BY <1>1 DEF AddVisible, Worker
  <2> QED BY <2>1, VisibleSelects
<1>2. CASE RemoveForgets(t)
  BY <1>2 DEF RemoveForgets, Forgets, Worker
<1>3. CASE createSrcPad(t)
  BY <1>3 DEF createSrcPad, Worker
<1>4. CASE \/ AddStarts(t) \/ AddSourceBin(t) \/ AddToLayout(t) \/ AddApplies(t)
           \/ RemoveStarts(t) \/ RemoveHides(t) \/ RemoveFromLayout(t) \/ RemoveApplies(t)
           \/ RemoveSourceBin(t)
  BY <1>4 DEF AddStarts, AddSourceBin, AddToLayout, AddApplies, RemoveStarts, RemoveHides,
     RemoveFromLayout, RemoveApplies, RemoveSourceBin, Worker
<1> QED BY <1>1, <1>2, <1>3, <1>4 DEF WorkerStep

\* The selection follows every step.
LEMMA SelectionStep ==
    ASSUME NamesFollow, SelectionFollows, Next \/ UNCHANGED vars
    PROVE  SelectionFollows'
<1> USE DEF SelectionFollows, SelectedIsThere
<1>0. plan \in Plans
  BY DEF NamesFollow, Types
<1>1. ASSUME KeepsSelection, pending' = pending, plan' = plan, pads \subseteq pads',
             detached' = detached
      PROVE  SelectionFollows'
  BY <1>1 DEF KeepsSelection, Compositing, Mode
<1>2. ASSUME NEW n \in pads, setSelectorPadLocked(n), ~Compositing, plan' = plan, pads' = pads,
             detached' = detached
      PROVE  SelectionFollows'
  <2>1. n \notin detached
    BY PadsOwned
  <2>2. ~Compositing'
    BY <1>2 DEF Compositing, Mode
  <2>3. selected' \in {selected, n} /\ pending' \in {pending, n}
    BY <1>2 DEF setSelectorPadLocked, Activates, KeepsSelection
  <2> QED BY <1>2, <2>1, <2>2, <2>3
<1>3. ASSUME NEW n, Leaves(n), plan' = plan, pads' = pads, detached' = detached
      PROVE  SelectionFollows'
  <2>1. selected' \in {selected, Filler} /\ pending' \in {pending, None}
    BY <1>3 DEF Leaves, Activates, KeepsSelection
  <2>2. Compositing' = Compositing
    BY <1>3 DEF Compositing, Mode
  <2> QED BY <1>3, <2>1, <2>2
<1>4. ASSUME NEW t \in Tracks, WorkerStep(t) PROVE SelectionFollows'
  <2>1. CASE KeepsSelection /\ pending' = pending /\ pads \subseteq pads'
    BY <1>1, <1>4, <2>1, WorkerSelects
  <2>2. CASE (\E n \in pads : setSelectorPadLocked(n)) /\ ~Compositing /\ pads' = pads
    BY <1>2, <1>4, <2>2, WorkerSelects
  <2>3. CASE ~Compositing /\ (\E n : Leaves(n)) /\ pads' = pads
    BY <1>3, <1>4, <2>3, WorkerSelects
  <2>4. CASE RemoveForgets(t) /\ Leaves(names[t]) /\ pads' = pads \ {names[t]}
    <3> DEFINE n == names[t]
    <3>1. plan' = plan /\ detached' = detached
      BY <1>4, WorkerSelects
    <3>2. pending' \in {pending, None} /\ (pending' = n => n = None)
      BY <2>4 DEF Leaves
    <3>3. selected' \in {selected, Filler} /\ (selected' = n => n = Filler)
      BY <2>4 DEF Leaves, Activates, KeepsSelection
    <3>4. Compositing' = Compositing
      BY <3>1 DEF Compositing, Mode
    <3> QED BY <2>4, <3>1, <3>2, <3>3, <3>4
  <2> QED BY <1>4, <2>1, <2>2, <2>3, <2>4, WorkerSelects
<1>5. ASSUME NEW n \in Names, DetachesSourceBin(n) PROVE SelectionFollows'
  <2>1. UNCHANGED <<plan, pads, selected,
  pending>> /\ detached' = detached \cup {n} /\ n \in parting
    BY <1>5 DEF DetachesSourceBin
  <2>2. n \notin pads
    BY <2>1, PadsOwned
  <2>3. Compositing' = Compositing
    BY <2>1 DEF Compositing, Mode
  <2> QED BY <2>1, <2>2, <2>3
<1>6. ASSUME NEW t \in Tracks, MuteApplies(t) PROVE SelectionFollows'
  <2>1. UNCHANGED <<plan, pads, detached>> /\ setTrackVisible(writer[t].name,
  writer[t].pc = "show")
    BY <1>6 DEF MuteApplies
  <2> QED BY <1>1, <1>2, <1>3, <2>1, VisibleSelects
<1>7. ASSUME NEW n \in Names, Frame(n) PROVE SelectionFollows'
  <2>1. UNCHANGED <<plan, pads, detached>> /\ pending = n /\ selected' = n /\ pending' = None
    BY <1>7 DEF Frame, TakesHandover, Activates
  <2>2. n \in pads /\ ~Compositing
    BY <2>1, NamesDiffer
  <2>3. n \notin detached /\ ~Compositing'
    BY <2>1, <2>2, PadsOwned DEF Compositing, Mode
  <2> QED BY <2>1, <2>2, <2>3
<1>8. ASSUME NEW n \in Names, onTrackEOS(n) PROVE SelectionFollows'
  <2>1. UNCHANGED <<plan, pads, detached>> /\ Leaves(n)
    BY <1>8 DEF onTrackEOS, StepsAside
  <2> QED BY <1>3, <2>1
<1>9. ASSUME UNCHANGED <<selected, pending, plan, pads, detached>> PROVE SelectionFollows'
  BY <1>9 DEF Compositing, Mode
<1>10. CASE \/ \E t \in Tracks, visible \in BOOLEAN : MuteLooksUp(t, visible)
            \/ SpeakersChange \/ SpeakersApply \/ (\E n \in Names : TrackEOS(n))
            \/ \E n \in Names \cup {Filler} : SelectorEOS(n)
            \/ SendEOS \/ SendEOSMarks \/ SendEOSPushes \/ UNCHANGED vars
  <2>1. UNCHANGED <<selected, pending, plan, pads, detached>>
    BY <1>10 DEF MuteLooksUp, barVars, SpeakersChange, SpeakersApply, TrackEOS, SelectorEOS,
       SendEOS, SendEOSMarks, SendEOSPushes, vars
  <2> QED BY <1>9, <2>1
<1> QED BY <1>0, <1>4, <1>5, <1>6, <1>7, <1>8, <1>10, NextSplits

-----------------------------------------------------------------------------
(* What reaches the output *)

\* What the selector holds and lets out follows every step.
LEMMA EOSStep ==
    ASSUME NamesFollow, SelectionFollows, EOSFollows, Next \/ UNCHANGED vars
    PROVE  EOSFollows'
<1> USE DEF EOSFollows, NoEarlyEOS, Running, Mode
<1>0. /\ plan \in Plans
      /\ eos \in [Names \cup {Filler} -> {"no", "leaving", "marked", "passing", "done"}]
  BY DEF NamesFollow, Types
<1>1. ASSUME UNCHANGED <<plan, state, ending, eos, held, out, selected>> PROVE EOSFollows'
  BY <1>1
<1>2. ASSUME NEW n \in pads, setSelectorPadLocked(n), UNCHANGED <<plan, state, ending, eos>>
      PROVE  EOSFollows'
  <2>1. n # Filler
    BY PadsOwned
  <2>2. CASE Mode = "nonlive"
    BY <1>2, <2>1, <2>2 DEF setSelectorPadLocked, Activates
  <2>3. CASE Mode # "nonlive"
    BY <1>1, <1>2, <2>1, <2>3 DEF setSelectorPadLocked, KeepsSelection
  <2> QED BY <2>2, <2>3
<1>3. ASSUME NEW n, Leaves(n), UNCHANGED <<plan, state, ending, eos>>
      PROVE  EOSFollows'
  <2>1. CASE KeepsSelection
    BY <1>1, <1>3, <2>1 DEF KeepsSelection
  <2>2. CASE Activates(Filler)
    <3>1. held' \subseteq held /\ selected' = Filler
      BY <2>2 DEF Activates
    <3>2. out' = "eos" => out = "eos" \/ ~Running
      BY <2>2 DEF Activates
    <3> QED BY <1>3, <3>1, <3>2, NamesDiffer
  <2> QED BY <1>3, <2>1, <2>2 DEF Leaves
<1>4. ASSUME NEW t \in Tracks, WorkerStep(t) PROVE EOSFollows'
  <2>1. UNCHANGED <<plan, eos, state, ending>>
    BY <1>4, WorkerSelects
  <2>2. CASE KeepsSelection
    BY <1>1, <2>1, <2>2 DEF KeepsSelection
  <2>3. CASE \E n \in pads : setSelectorPadLocked(n)
    BY <1>2, <2>1, <2>3
  <2>4. CASE \E n : Leaves(n)
    BY <1>3, <2>1, <2>4
  <2> QED BY <1>4, <2>2, <2>3, <2>4, WorkerSelects
<1>5. ASSUME NEW t \in Tracks, MuteApplies(t) PROVE EOSFollows'
  <2>1. /\ UNCHANGED <<plan, state, ending, eos>>
        /\ setTrackVisible(writer[t].name, writer[t].pc = "show")
    BY <1>5 DEF MuteApplies
  <2>2. CASE KeepsSelection
    BY <1>1, <2>1, <2>2 DEF KeepsSelection
  <2> QED BY <1>2, <1>3, <2>1, <2>2, VisibleSelects
<1>6. ASSUME NEW n \in Names, Frame(n) PROVE EOSFollows'
  <2>1. /\ UNCHANGED <<plan, state, ending, eos>> /\ eos[n] = "no"
        /\ selected' = n /\ out' = (IF n \in held THEN "eos" ELSE out) /\ held' = held \ {n}
    BY <1>6 DEF Frame, Activates
  <2>2. n \notin held
    BY <2>1
  <2> QED BY <2>1, <2>2
<1>7. ASSUME NEW n \in Names, TrackEOS(n) PROVE EOSFollows'
  <2>1. /\ UNCHANGED <<plan, state, ending, held, out, selected>> /\ eos[n] = "no"
        /\ eos' = [eos EXCEPT ![n] = IF Running THEN "leaving" ELSE "passing"]
    BY <1>7 DEF TrackEOS
  <2>2. /\ eos'[n] = (IF Running THEN "leaving" ELSE "passing")
        /\ \A m \in (Names \cup {Filler}) \ {n} : eos'[m] = eos[m]
    BY <1>0, <2>1
  <2>3. n \notin held /\ n # Filler
    BY <2>1, NamesDiffer
  <2> QED BY <2>1, <2>2, <2>3
<1>8. ASSUME NEW n \in Names, onTrackEOS(n) PROVE EOSFollows'
  <2>1. /\ UNCHANGED <<plan, state, ending>> /\ eos[n] = "leaving" /\ Leaves(n)
        /\ eos' = [eos EXCEPT ![n] = "passing"]
    BY <1>8 DEF onTrackEOS, StepsAside
  <2>2. eos'[n] = "passing" /\ \A m \in (Names \cup {Filler}) \ {n} : eos'[m] = eos[m]
    BY <1>0, <2>1
  <2>3. n \notin held /\ n # Filler
    BY <2>1, NamesDiffer
  <2>4. held' \subseteq held
    BY <2>1 DEF Leaves, Activates, KeepsSelection
  <2>5. selected' \in {selected, Filler} /\ (Mode = "live" => selected' # n)
    BY <2>1, <2>3 DEF Leaves, Activates, KeepsSelection, Compositing
  <2>6. out' = "eos" => out = "eos" \/ ~Running
    BY <2>1 DEF Leaves, Activates, KeepsSelection
  <2> QED BY <2>1, <2>2, <2>3, <2>4, <2>5, <2>6, NamesDiffer
<1>9. ASSUME NEW n \in Names \cup {Filler}, SelectorEOS(n) PROVE EOSFollows'
  <2>1. /\ UNCHANGED <<plan, state, ending, selected>> /\ eos[n] = "passing"
        /\ eos' = [eos EXCEPT ![n] = "done"]
        /\ held' \subseteq held \cup {n}
        /\ out' = "eos" => out = "eos" \/ selected = n
    BY <1>9 DEF SelectorEOS
  <2>2. eos'[n] = "done" /\ \A m \in (Names \cup {Filler}) \ {n} : eos'[m] = eos[m]
    BY <1>0, <2>1
  <2> QED BY <2>1, <2>2, NamesDiffer
<1>10. CASE SendEOS
  BY <1>10 DEF SendEOS
<1>11. CASE SendEOSMarks \/ SendEOSPushes
  <2>1. /\ UNCHANGED <<plan, state, held, out, selected>> /\ ~Running /\ ending'
        /\ eos[Filler] \in {"no", "marked"}
        /\ \E v : eos' = [eos EXCEPT ![Filler] = v]
    BY <1>11 DEF SendEOSMarks, SendEOSPushes, markEnding
  <2>2. \A m \in Names : eos'[m] = eos[m]
    BY <1>0, <2>1, NamesDiffer
  <2>3. Filler \notin held
    BY <2>1
  <2> QED BY <2>1, <2>2, <2>3
<1>12. CASE \/ \E t \in Tracks, visible \in BOOLEAN : MuteLooksUp(t, visible)
            \/ SpeakersChange \/ SpeakersApply \/ UNCHANGED vars
            \/ \E n \in Names : DetachesSourceBin(n)
  <2>1. UNCHANGED <<plan, state, ending, eos, held, out, selected>>
    BY <1>12 DEF MuteLooksUp, barVars, SpeakersChange, SpeakersApply, DetachesSourceBin, vars
  <2> QED BY <1>1, <2>1
<1> QED BY <1>0, <1>4, <1>5, <1>6, <1>7, <1>8, <1>9, <1>10, <1>11, <1>12, NextSplits

-----------------------------------------------------------------------------
(* What is shown *)

\* The names whose pads are not there yet.
Fresh ==
    {n \in Names : n >= nextID \/ \E t \in Tracks : worker[t].pc = "pad" /\ worker[t].name = n}

\* The names a composited egress has taken off the screen.
OffScreen == {"unplace", "reapply", "unbin"}
Gone == {n \in Names : \/ n \in parting \cup detached
                       \/ \E t \in Tracks : worker[t].pc \in OffScreen /\ worker[t].name = n}

\* The alpha of a name that is shown as wanted unless it is muted.
AsWanted(n) == alpha[n] = IF n \in muted THEN 0 ELSE wanted[n]

\* AlphaFollows, by the names.
AlphaByName ==
    /\ muted \subseteq pads
    /\ \A n \in Fresh : alpha[n] = 1 /\ wanted[n] = 1
    /\ Compositing => /\ \A n \in pads : AsWanted(n)
                      /\ \A n \in Gone : alpha[n] = 0

\* The two say the same.
LEMMA AlphaFollowsIs == NamesFollow => (AlphaFollows <=> AlphaByName)
<1> SUFFICES ASSUME NamesFollow PROVE AlphaFollows <=> AlphaByName
  OBVIOUS
<1>1. FreshShown <=> \A n \in Fresh : alpha[n] = 1 /\ wanted[n] = 1
  BY DEF FreshShown, Fresh
<1>2. \A n \in parting \cup detached : n \in Names
  BY GivenAreNames DEF NamesFollow, NamesApart
<1>3. \A t \in Tracks : worker[t].pc \in OffScreen => worker[t].name \in Names
  BY DEF NamesFollow, WorkersAgree, WorkerAgrees, OffScreen, Removing
<1>4. (\A n \in Gone : alpha[n] = 0) <=>
        /\ \A t \in Tracks : worker[t].pc \in {"unplace", "reapply", "unbin"}
                                => alpha[worker[t].name] = 0
        /\ \A n \in parting \cup detached : alpha[n] = 0
  BY <1>2, <1>3 DEF Gone, OffScreen
<1>5. AlphaAgrees <=> (Compositing => /\ \A n \in pads : AsWanted(n)
                                      /\ \A n \in Gone : alpha[n] = 0)
  BY <1>4 DEF AlphaAgrees, AsWanted
<1> QED BY <1>1, <1>5 DEF AlphaFollows, AlphaByName

\* The same of the state after a step.
LEMMA AlphaFollowsNext == (NamesFollow => (AlphaFollows <=> AlphaByName))'
BY AlphaFollowsIs, PTL

\* A pad that is there is neither fresh nor gone.
LEMMA PadsShown ==
    ASSUME NamesFollow, NEW n \in pads
    PROVE  /\ n \in Names /\ n \notin Fresh /\ n \notin Gone
           /\ \A t \in Tracks : worker[t].pc \in Removing \cup {"pad"} => worker[t].name # n
<1>1. PICK t \in Tracks : names[t] = n /\ n # None
  BY DEF NamesFollow, PadsNamed
<1>2. n \in Owns(t)
  BY <1>1 DEF Owns
<1>3. n \in Names /\ n \notin parting \cup detached
  BY PadsOwned
<1>4. ~(n >= nextID)
  BY <1>2, BoundsAssumption DEF NamesFollow, NamesApart, Given, Types
<1>5. ASSUME NEW u \in Tracks, worker[u].pc \in Removing \cup {"pad"} PROVE worker[u].name # n
  <2>1. names[u] = None /\ worker[u].name # None
    BY <1>5 DEF NamesFollow, WorkersAgree, WorkerAgrees
  <2>2. u # t /\ worker[u].name \in Owns(u)
    BY <1>1, <2>1 DEF Owns
  <2> QED BY <1>2, <2>2 DEF NamesFollow, NamesApart
<1> QED BY <1>3, <1>4, <1>5 DEF Fresh, Gone, OffScreen, Removing

\* A name a worker takes out is not fresh.
LEMMA RemovedNotFresh ==
    ASSUME NamesFollow, NEW t \in Tracks, worker[t].pc \in Removing
    PROVE  worker[t].name \in Names /\ worker[t].name \notin Fresh
<1> DEFINE n == worker[t].name
<1>1. n \in Names /\ n # None /\ n \in Owns(t)
  BY DEF NamesFollow, WorkersAgree, WorkerAgrees, Owns
<1>2. ~(n >= nextID)
  BY <1>1, BoundsAssumption DEF NamesFollow, NamesApart, Given, Types
<1>3. ASSUME NEW u \in Tracks, worker[u].pc = "pad" PROVE worker[u].name # n
  <2>1. worker[u].name # None
    BY <1>3 DEF NamesFollow, WorkersAgree, WorkerAgrees
  <2>2. u # t /\ worker[u].name \in Owns(u)
    BY <1>3, <2>1 DEF Owns, Removing
  <2> QED BY <1>1, <2>2 DEF NamesFollow, NamesApart
<1> HIDE DEF n
<1> QED BY <1>1, <1>2, <1>3 DEF Fresh, n

\* A step that only takes pads, or moves names along.
LEMMA AlphaKept ==
    ASSUME NamesFollow, NamesFollow', AlphaFollows,
           UNCHANGED <<plan, alpha, wanted>>, pads' \subseteq pads, muted' = muted \cap pads',
           Fresh' \subseteq Fresh, Compositing => Gone' \subseteq Gone
    PROVE  AlphaFollows'
<1>1. Compositing' = Compositing
  BY DEF Compositing, Mode
<1>2. \A n \in pads' : AsWanted(n) => AsWanted(n)'
  BY DEF AsWanted
<1>3. /\ muted \subseteq pads
      /\ \A n \in Fresh : alpha[n] = 1 /\ wanted[n] = 1
      /\ Compositing => /\ \A n \in pads : AsWanted(n)
                        /\ \A n \in Gone : alpha[n] = 0
  BY AlphaFollowsIs DEF AlphaByName
<1>4. /\ muted' \subseteq pads'
      /\ \A n \in Fresh' : alpha'[n] = 1 /\ wanted'[n] = 1
      /\ Compositing' => /\ \A n \in pads' : AsWanted(n)'
                         /\ \A n \in Gone' : alpha'[n] = 0
  <2> HIDE DEF AsWanted, Fresh, Gone, Compositing
  <2> QED BY <1>1, <1>2, <1>3
<1> QED BY <1>4, AlphaFollowsNext DEF AlphaByName

\* A step that changes the alphas of pads that are there, and leaves each as it is wanted.
LEMMA AlphaShown ==
    ASSUME NamesFollow, NamesFollow', AlphaFollows, UNCHANGED <<plan, pads>>,
           \A n \in Names \ pads : alpha'[n] = alpha[n] /\ wanted'[n] = wanted[n],
           muted' \subseteq pads, Compositing => \A n \in pads : AsWanted(n)',
           Fresh' \subseteq Fresh, Gone' \subseteq Gone
    PROVE  AlphaFollows'
<1>1. Compositing' = Compositing
  BY DEF Compositing, Mode
<1>2. /\ muted \subseteq pads
      /\ \A n \in Fresh : alpha[n] = 1 /\ wanted[n] = 1
      /\ Compositing => /\ \A n \in pads : AsWanted(n)
                        /\ \A n \in Gone : alpha[n] = 0
  BY AlphaFollowsIs DEF AlphaByName
<1>3. \A n \in Fresh \cup Gone : n \in Names \ pads
  BY PadsShown DEF Fresh, Gone
<1>4. /\ muted' \subseteq pads'
      /\ \A n \in Fresh' : alpha'[n] = 1 /\ wanted'[n] = 1
      /\ Compositing' => /\ \A n \in pads' : AsWanted(n)'
                         /\ \A n \in Gone' : alpha'[n] = 0
  <2> HIDE DEF AsWanted, Fresh, Gone, Compositing
  <2> QED BY <1>1, <1>2, <1>3
<1> QED BY <1>4, AlphaFollowsNext DEF AlphaByName

\* Showing or hiding a track that is there leaves it as it is wanted.
LEMMA VisibleShows ==
    ASSUME NamesFollow, AlphaFollows, NEW n, NEW visible \in BOOLEAN, setTrackVisible(n, visible),
           UNCHANGED <<pads, wanted>>
    PROVE  /\ \A m \in Names \ pads : alpha'[m] = alpha[m]
           /\ muted' \subseteq pads
           /\ Compositing => \A m \in pads : AsWanted(m)'
<1>0. muted \subseteq pads /\ (Compositing => \A m \in pads : AsWanted(m))
  BY AlphaFollowsIs DEF AlphaByName
<1>1. CASE Compositing /\ n \in pads
  <2>1. /\ alpha' = [alpha EXCEPT ![n] = IF visible THEN wanted[n] ELSE 0]
        /\ muted' = IF visible THEN muted \ {n} ELSE muted \cup {n}
    BY <1>1 DEF setTrackVisible
  <2>2. n \in Names
    BY <1>1, PadsOwned
  <2>3. /\ alpha'[n] = IF visible THEN wanted[n] ELSE 0
        /\ \A m \in Names \ {n} : alpha'[m] = alpha[m]
    BY <2>1, <2>2 DEF NamesFollow, Types
  <2>4. ASSUME NEW m \in pads PROVE AsWanted(m)'
    <3>1. m \in Names /\ AsWanted(m)
      BY <1>0, <1>1, PadsOwned
    <3>2. CASE m = n
      BY <2>1, <2>3, <3>2 DEF AsWanted
    <3>3. CASE m # n
      BY <2>1, <2>3, <3>1, <3>3 DEF AsWanted
    <3> QED BY <3>2, <3>3
  <2> QED BY <1>0, <1>1, <2>1, <2>3, <2>4
<1>2. CASE ~(Compositing /\ n \in pads)
  <2>1. UNCHANGED <<alpha, muted>>
    BY <1>2 DEF setTrackVisible
  <2> QED BY <1>0, <2>1 DEF AsWanted
<1> QED BY <1>1, <1>2

\* A layout that is applied changes only pads that are there, and hides the muted.
LEMMA AppliesShows ==
    ASSUME NamesFollow, AlphaFollows, NEW cells, Applies(cells), UNCHANGED <<pads, muted>>
    PROVE  /\ \A m \in Names \ pads : alpha'[m] = alpha[m] /\ wanted'[m] = wanted[m]
           /\ Compositing => \A m \in pads : AsWanted(m)'
<1> DEFINE alphaOf(n) == {cells[i].alpha : i \in {j \in 1..Len(cells) :
                            names[cells[j].track] = n /\ n \in pads}}
<1>0. Compositing => \A m \in pads : AsWanted(m)
  BY AlphaFollowsIs DEF AlphaByName
<1>1. \A m \in Names : /\ alphaOf(m) = {} => alpha'[m] = alpha[m] /\ wanted'[m] = wanted[m]
                       /\ alphaOf(m) # {} => alpha'[m] = ShownAlpha(m, wanted'[m])
  BY DEF Applies
<1>2. \A m \in Names \ pads : alphaOf(m) = {}
  OBVIOUS
<1> HIDE DEF alphaOf
<1>3. ASSUME Compositing, NEW m \in pads PROVE AsWanted(m)'
  <2>1. m \in Names /\ AsWanted(m)
    BY <1>0, <1>3, PadsOwned
  <2> QED BY <1>1, <2>1 DEF AsWanted, ShownAlpha
<1> QED BY <1>1, <1>2, <1>3

\* The worker's steps that leave the alphas: it moves on, and the names with it.
LEMMA WorkerKeepsAlpha ==
    ASSUME NamesFollow, NamesFollow', AlphaFollows, NEW t \in Tracks,
           \/ AddStarts(t) \/ AddSourceBin(t) \/ AddToLayout(t) \/ RemoveStarts(t)
           \/ RemoveForgets(t) \/ RemoveFromLayout(t) \/ RemoveSourceBin(t)
    PROVE  AlphaFollows'
<1>0. Types /\ nextID \in Nat
  BY BoundsAssumption DEF NamesFollow, Types
<1>1. UNCHANGED <<plan, alpha, wanted>>
  BY DEF AddStarts, AddSourceBin, AddToLayout, RemoveStarts, RemoveForgets, RemoveFromLayout,
     RemoveSourceBin, Worker
<1>2. pads' \subseteq pads /\ muted' = muted \cap pads'
  <2>1. muted \subseteq pads
    BY DEF AlphaFollows
  <2>2. CASE RemoveForgets(t)
    BY <2>1, <2>2 DEF RemoveForgets
  <2>3. CASE ~RemoveForgets(t)
    <3>1. UNCHANGED <<pads, muted>>
      BY <2>3 DEF AddStarts, AddSourceBin, AddToLayout, RemoveStarts, RemoveFromLayout,
         RemoveSourceBin
    <3> QED BY <2>1, <3>1
  <2> QED BY <2>2, <2>3
<1>3. \A u \in Tracks \ {t} : worker'[u] = worker[u]
  BY <1>0, WorkerMoves DEF AddStarts, AddSourceBin, AddToLayout, RemoveStarts, RemoveForgets,
     RemoveFromLayout, RemoveSourceBin
<1>4. CASE AddStarts(t)
  <2>1. /\ nextID' = nextID + 1 /\ UNCHANGED <<parting, detached>>
        /\ worker'[t] \in {At("pad", nextID), Idle} /\ worker[t].pc = "idle"
    BY <1>0, <1>4, WorkerMoves DEF AddStarts
  <2>2. worker'[t].pc = "pad" => worker'[t].name = nextID
    BY <2>1 DEF At, Idle
  <2>3. worker'[t].pc \notin OffScreen
    BY <2>1 DEF At, Idle, OffScreen
  <2>4. Fresh' \subseteq Fresh
    <3>1. \A n \in Names : n >= nextID + 1 => n >= nextID
      BY <1>0, NamesDiffer
    <3>2. nextID >= nextID
      BY <1>0
    <3> QED BY <1>3, <2>1, <2>2, <3>1, <3>2 DEF Fresh
  <2>5. Gone' \subseteq Gone
    BY <1>3, <2>1, <2>3 DEF Gone
  <2> QED BY <1>1, <1>2, <2>4, <2>5, AlphaKept
<1>5. CASE AddSourceBin(t) \/ AddToLayout(t) \/ RemoveStarts(t)
  <2>1. /\ UNCHANGED <<nextID, parting, detached>>
        /\ worker'[t].pc \in {"visible", "apply", "forget"}
    <3>1. CASE AddSourceBin(t)
      BY <1>0, <3>1, WorkerMoves DEF AddSourceBin, At
    <3>2. CASE AddToLayout(t)
      BY <1>0, <3>2, WorkerMoves DEF AddToLayout, At
    <3>3. CASE RemoveStarts(t)
      BY <1>0, <3>3, WorkerMoves DEF RemoveStarts, At
    <3> QED BY <1>5, <3>1, <3>2, <3>3
  <2>2. Fresh' \subseteq Fresh
    BY <1>3, <2>1 DEF Fresh
  <2>3. Gone' \subseteq Gone
    BY <1>3, <2>1 DEF Gone, OffScreen
  <2> QED BY <1>1, <1>2, <2>2, <2>3, AlphaKept
<1>6. CASE RemoveForgets(t)
  <2>1. /\ UNCHANGED <<nextID, parting, detached>>
        /\ worker'[t].pc = IF Compositing THEN "hide" ELSE "unbin"
    BY <1>0, <1>6, WorkerMoves DEF RemoveForgets, At
  <2>2. Fresh' \subseteq Fresh
    BY <1>3, <2>1 DEF Fresh
  <2>3. Compositing => Gone' \subseteq Gone
    BY <1>3, <2>1 DEF Gone, OffScreen
  <2> QED BY <1>1, <1>2, <2>2, <2>3, AlphaKept
<1>7. CASE RemoveFromLayout(t)
  <2>1. /\ UNCHANGED <<nextID, parting, detached>>
        /\ worker[t].pc = "unplace" /\ worker'[t].pc = "reapply"
        /\ worker'[t].name = worker[t].name
    BY <1>0, <1>7, WorkerMoves DEF RemoveFromLayout, At
  <2>2. Fresh' \subseteq Fresh
    BY <1>3, <2>1 DEF Fresh
  <2>3. Gone' \subseteq Gone
    BY <1>3, <2>1 DEF Gone, OffScreen
  <2> QED BY <1>1, <1>2, <2>2, <2>3, AlphaKept
<1>8. CASE RemoveSourceBin(t)
  <2>1. /\ UNCHANGED <<nextID, detached>> /\ parting' \subseteq parting \cup {worker[t].name}
        /\ worker[t].pc = "unbin" /\ worker'[t].pc = "idle"
    BY <1>0, <1>8, WorkerMoves DEF RemoveSourceBin, Idle
  <2>2. Fresh' \subseteq Fresh
    BY <1>3, <2>1 DEF Fresh
  <2>3. Gone' \subseteq Gone
    BY <1>3, <2>1 DEF Gone, OffScreen
  <2> QED BY <1>1, <1>2, <2>2, <2>3, AlphaKept
<1> QED BY <1>4, <1>5, <1>6, <1>7, <1>8

\* A pad that is added is shown as its layout will want it.
LEMMA createSrcPadAlpha ==
    ASSUME NamesFollow, NamesFollow', AlphaFollows, NEW t \in Tracks, createSrcPad(t)
    PROVE  AlphaFollows'
<1> DEFINE n == worker[t].name
<1>0. AlphaByName
  BY AlphaFollowsIs
<1>1. /\ UNCHANGED <<plan, alpha, wanted, muted, nextID, parting, detached>>
      /\ pads' = pads \cup {n}
      /\ worker[t].pc = "pad" /\ worker'[t].pc = "bin"
      /\ \A u \in Tracks \ {t} : worker'[u] = worker[u]
  BY WorkerMoves DEF createSrcPad, NamesFollow, At
<1>2. n \in Names /\ n # None
  BY <1>1 DEF NamesFollow, WorkersAgree, WorkerAgrees
<1>3. n \in Fresh
  BY <1>1, <1>2 DEF Fresh
<1>4. n \notin pads
  BY <1>3, PadsShown
<1>5. alpha[n] = 1 /\ wanted[n] = 1 /\ n \notin muted
  BY <1>0, <1>3, <1>4 DEF AlphaByName
<1>6. Fresh' \subseteq Fresh
  BY <1>1 DEF Fresh
<1>7. Gone' \subseteq Gone
  BY <1>1 DEF Gone, OffScreen
<1>8. \A m \in pads' : Compositing => AsWanted(m)'
  BY <1>0, <1>1, <1>5 DEF AlphaByName, AsWanted
<1>9. Compositing' = Compositing
  BY <1>1 DEF Compositing, Mode
<1>10. muted' \subseteq pads'
  BY <1>0, <1>1 DEF AlphaByName
<1>11. AlphaByName'
  BY <1>0, <1>1, <1>6, <1>7, <1>8, <1>9, <1>10 DEF AlphaByName
<1> QED BY <1>11, AlphaFollowsNext

\* A track that is removed is hidden.
LEMMA RemoveHidesAlpha ==
    ASSUME NamesFollow, NamesFollow', AlphaFollows, NEW t \in Tracks, RemoveHides(t)
    PROVE  AlphaFollows'
<1> DEFINE n == worker[t].name
<1>0. AlphaByName
  BY AlphaFollowsIs
<1>1. /\ UNCHANGED <<plan, wanted, muted, nextID, parting, detached, pads>>
      /\ alpha' = [alpha EXCEPT ![n] = 0]
      /\ worker[t].pc = "hide" /\ worker'[t].pc = "unplace" /\ worker'[t].name = n
      /\ \A u \in Tracks \ {t} : worker'[u] = worker[u]
  BY WorkerMoves DEF RemoveHides, NamesFollow, At
<1>2. n \in Names /\ n \notin Fresh
  BY <1>1, RemovedNotFresh DEF Removing
<1>3. n \notin pads
  BY <1>1, PadsShown DEF Removing
<1>4. alpha'[n] = 0 /\ \A m \in Names \ {n} : alpha'[m] = alpha[m]
  BY <1>1, <1>2 DEF NamesFollow, Types
<1>5. Fresh' \subseteq Fresh
  BY <1>1 DEF Fresh
<1>6. Gone' \subseteq Gone \cup {n}
  BY <1>1 DEF Gone, OffScreen
<1>7. \A m \in pads : m \in Names /\ m # n
  BY <1>3, PadsOwned
<1>8. \A m \in pads' : Compositing => AsWanted(m)'
  BY <1>0, <1>1, <1>4, <1>7 DEF AlphaByName, AsWanted
<1>9. Compositing' = Compositing
  BY <1>1 DEF Compositing, Mode
<1>10. \A m \in Fresh \cup Gone : m \in Names
  BY DEF Fresh, Gone
<1> HIDE DEF n
<1>11. AlphaByName'
  BY <1>0, <1>1, <1>2, <1>4, <1>5, <1>6, <1>8, <1>9, <1>10 DEF AlphaByName
<1> QED BY <1>11, AlphaFollowsNext

\* What is shown follows every step.
LEMMA AlphaStep ==
    ASSUME NamesFollow, NamesFollow', AlphaFollows, Next \/ UNCHANGED vars
    PROVE  AlphaFollows'
<1>0. Types /\ plan \in Plans /\ muted \subseteq pads
  BY DEF NamesFollow, Types, AlphaFollows
<1>1. ASSUME NEW t \in Tracks, AddVisible(t) PROVE AlphaFollows'
  <2>1. /\ UNCHANGED <<plan, wanted, nextID, parting, detached, pads>>
        /\ setTrackVisible(worker[t].name, TRUE)
        /\ worker'[t].pc \in {"place", "idle"} /\ \A u \in Tracks \ {t} : worker'[u] = worker[u]
    <3> DEFINE to == IF Compositing THEN At("place", worker[t].name) ELSE Idle
    <3>1. to.pc \in {"place", "idle"}
      BY DEF At, Idle
    <3>2. Worker(t, "visible", to)
      BY <1>1 DEF AddVisible
    <3> HIDE DEF to
    <3>3. worker'[t] = to /\ plan' = plan /\ \A u \in Tracks \ {t} : worker'[u] = worker[u]
      BY <1>0, <3>2, WorkerMoves
    <3> QED BY <1>1, <3>1, <3>3 DEF AddVisible
  <2>2. /\ \A m \in Names \ pads : alpha'[m] = alpha[m]
        /\ muted' \subseteq pads /\ (Compositing => \A m \in pads : AsWanted(m)')
    BY <2>1, VisibleShows
  <2>3. Fresh' \subseteq Fresh
    BY <2>1 DEF Fresh
  <2>4. Gone' \subseteq Gone
    BY <2>1 DEF Gone, OffScreen
  <2> QED BY <2>1, <2>2, <2>3, <2>4, AlphaShown
<1>2. ASSUME NEW t \in Tracks, AddApplies(t) \/ RemoveApplies(t) PROVE AlphaFollows'
  <2>1. /\ UNCHANGED <<plan, muted, nextID, parting, detached, pads>>
        /\ Applies(worker[t].cells)
        /\ \A u \in Tracks \ {t} : worker'[u] = worker[u]
    BY <1>0, <1>2, WorkerMoves DEF AddApplies, RemoveApplies
  <2>2. \/ worker'[t].pc = "idle"
        \/ worker[t].pc = "reapply" /\ worker'[t].pc = "unbin" /\ worker'[t].name = worker[t].name
    BY <1>0, <1>2, WorkerMoves DEF AddApplies, RemoveApplies, At, Idle
  <2>3. /\ \A m \in Names \ pads : alpha'[m] = alpha[m] /\ wanted'[m] = wanted[m]
        /\ Compositing => \A m \in pads : AsWanted(m)'
    BY <2>1, AppliesShows
  <2>4. Fresh' \subseteq Fresh
    BY <2>1, <2>2 DEF Fresh
  <2>5. Gone' \subseteq Gone
    BY <2>1, <2>2 DEF Gone, OffScreen
  <2> QED BY <1>0, <2>1, <2>3, <2>4, <2>5, AlphaShown
<1>3. ASSUME NEW t \in Tracks, WorkerStep(t) PROVE AlphaFollows'
  BY <1>1, <1>2, <1>3, WorkerKeepsAlpha, createSrcPadAlpha, RemoveHidesAlpha DEF WorkerStep
<1>4. ASSUME UNCHANGED <<plan, worker, nextID>>, (parting \cup detached)' = parting \cup detached
      PROVE  Fresh' = Fresh /\ Gone' = Gone
  BY <1>4 DEF Fresh, Gone
<1>5. ASSUME NEW t \in Tracks, MuteApplies(t) PROVE AlphaFollows'
  <2>1. /\ UNCHANGED <<plan, wanted, nextID, parting, detached, pads, worker>>
        /\ setTrackVisible(writer[t].name, writer[t].pc = "show")
    BY <1>5 DEF MuteApplies
  <2>2. /\ \A m \in Names \ pads : alpha'[m] = alpha[m]
        /\ muted' \subseteq pads /\ (Compositing => \A m \in pads : AsWanted(m)')
    BY <2>1, VisibleShows
  <2> QED BY <1>4, <2>1, <2>2, AlphaShown
<1>6. CASE SpeakersApply
  <2>1. /\ UNCHANGED <<plan, muted, nextID, parting, detached, pads, worker>>
        /\ Applies(room.cells)
    BY <1>6 DEF SpeakersApply
  <2>2. /\ \A m \in Names \ pads : alpha'[m] = alpha[m] /\ wanted'[m] = wanted[m]
        /\ Compositing => \A m \in pads : AsWanted(m)'
    BY <2>1, AppliesShows
  <2> QED BY <1>0, <1>4, <2>1, <2>2, AlphaShown
<1>7. CASE \/ \E n \in Names : DetachesSourceBin(n)
           \/ \E t \in Tracks, visible \in BOOLEAN : MuteLooksUp(t, visible)
           \/ SpeakersChange \/ SendEOS \/ SendEOSMarks \/ SendEOSPushes
           \/ \E n \in Names : Frame(n) \/ TrackEOS(n) \/ onTrackEOS(n)
           \/ \E n \in Names \cup {Filler} : SelectorEOS(n)
           \/ UNCHANGED vars
  <2>1. /\ UNCHANGED <<plan, wanted, alpha, muted, nextID, pads, worker>>
        /\ (parting \cup detached)' = parting \cup detached
    BY <1>7 DEF DetachesSourceBin, MuteLooksUp, barVars, SpeakersChange, SendEOS, SendEOSMarks,
       SendEOSPushes, Frame, TrackEOS, onTrackEOS, SelectorEOS, vars
  <2>2. muted' = muted \cap pads'
    BY <1>0, <2>1
  <2> QED BY <1>4, <2>1, <2>2, AlphaKept
<1> QED BY <1>0, <1>3, <1>5, <1>6, <1>7, NextSplits

-----------------------------------------------------------------------------
(* The theorems *)

\* The invariant is inductive.
LEMMA Inductive == IInv /\ [Next]_vars => IInv'
<1> SUFFICES ASSUME IInv, Next \/ UNCHANGED vars PROVE IInv'
  BY DEF vars
<1>1. NamesFollow /\ SelectionFollows /\ EOSFollows /\ AlphaFollows
  BY DEF IInv
<1>2. NamesFollow'
  BY <1>1, NamesStep
<1>3. SelectionFollows'
  BY <1>1, SelectionStep
<1>4. EOSFollows'
  BY <1>1, EOSStep
<1>5. AlphaFollows'
  BY <1>1, <1>2, AlphaStep
<1> QED BY <1>2, <1>3, <1>4, <1>5 DEF IInv

\* The invariant holds of every egress.
THEOREM InvariantHolds == Spec => []IInv
BY Initially, Inductive, PTL DEF Spec

\* Whatever tracks are added, muted, removed or over, and in whatever order their workers,
\* writers and streaming threads run, the output of a live egress does not end while the
\* egress runs (setSelectorPadLocked, onTrackEOS, onTrackRemoved).
THEOREM VideoNoEarlyEOS == Spec => []NoEarlyEOS
<1>1. IInv => NoEarlyEOS
  BY DEF IInv, EOSFollows
<1> QED BY <1>1, InvariantHolds, PTL

\* The selector has the filler or a pad that is there, and a composited track is shown as its
\* layout wants unless it is muted or gone, however stale the name a writer looked up or the
\* cells a callback computed (onTrackMuted, applyLayout, onTrackRemoved).
THEOREM VideoPictureAgrees == Spec => []PictureAgrees
<1>1. IInv => PictureAgrees
  BY DEF IInv, SelectionFollows, AlphaFollows, PictureAgrees
<1> QED BY <1>1, InvariantHolds, PTL

\* Once the filler's EOS exists no track takes the selector of a live egress (markEnding,
\* the handover probe).
THEOREM VideoNoTrackBehindEOS == Spec => NoTrackBehindEOS
<1>1. ASSUME IInv, Next, Mode = "live", eos[Filler] \in {"passing", "done"}
      PROVE  selected' \in {selected, Filler}
  <2>1. NamesFollow /\ plan \in Plans /\ ending
    BY <1>1 DEF IInv, EOSFollows, NamesFollow, Types
  <2>2. ASSUME NEW n \in pads, setSelectorPadLocked(n) PROVE selected' = selected
    <3>1. n # Filler
      BY <2>1, PadsOwned
    <3> QED BY <1>1, <2>2, <3>1 DEF setSelectorPadLocked, KeepsSelection
  <2>3. ASSUME NEW n, Leaves(n) PROVE selected' \in {selected, Filler}
    BY <2>3 DEF Leaves, Activates, KeepsSelection
  <2>4. ASSUME NEW t \in Tracks, WorkerStep(t) PROVE selected' \in {selected, Filler}
    <3>1. CASE KeepsSelection
      BY <3>1 DEF KeepsSelection
    <3> QED BY <2>2, <2>3, <2>4, <3>1, WorkerSelects
  <2>5. ASSUME NEW t \in Tracks, MuteApplies(t) PROVE selected' \in {selected, Filler}
    <3>1. setTrackVisible(writer[t].name, writer[t].pc = "show")
      BY <2>5 DEF MuteApplies
    <3>2. CASE KeepsSelection
      BY <3>2 DEF KeepsSelection
    <3> QED BY <2>2, <2>3, <3>1, <3>2, VisibleSelects
  <2>6. ASSUME NEW n \in Names, onTrackEOS(n) PROVE selected' \in {selected, Filler}
    BY <2>3, <2>6 DEF onTrackEOS, StepsAside
  <2>7. ~ \E n \in Names : Frame(n)
    BY <2>1 DEF Frame, TakesHandover
  <2>8. CASE \/ \E n \in Names : DetachesSourceBin(n)
             \/ \E t \in Tracks, visible \in BOOLEAN : MuteLooksUp(t, visible)
             \/ SpeakersChange \/ SpeakersApply \/ SendEOS \/ SendEOSMarks \/ SendEOSPushes
             \/ \E n \in Names : TrackEOS(n)
             \/ \E n \in Names \cup {Filler} : SelectorEOS(n)
    BY <2>8 DEF DetachesSourceBin, MuteLooksUp, barVars, SpeakersChange, SpeakersApply, SendEOS,
       SendEOSMarks, SendEOSPushes, TrackEOS, SelectorEOS
  <2> QED BY <1>1, <2>1, <2>4, <2>5, <2>6, <2>7, <2>8, NextSplits
<1>2. IInv /\ [Next]_vars
        => [Mode = "live" /\ eos[Filler] \in {"passing", "done"}
              => selected' \in {selected, Filler}]_vars
  BY <1>1
<1> QED BY <1>2, InvariantHolds, PTL DEF Spec, NoTrackBehindEOS

-----------------------------------------------------------------------------
(***************************************************************************)
(* The layout (LayoutManager): facts about rounding first.                 *)
(***************************************************************************)
\* Multiplication by a natural number keeps the order.
LEMMA TimesMonotone ==
    ASSUME NEW a \in Int, NEW b \in Int, NEW k \in Nat, a <= b  PROVE a * k <= b * k
OBVIOUS

\* What \div rounds.
LEMMA DivRounds ==
    ASSUME NEW n \in Nat, NEW d \in Nat \ {0}
    PROVE  /\ n \div d \in Nat
           /\ d * (n \div d) <= n /\ n < d * (n \div d) + d
OBVIOUS

\* Two bounds on a quotient.
LEMMA DivBelow ==
    ASSUME NEW n \in Nat, NEW d \in Nat \ {0}, NEW m \in Nat, n <= d * m
    PROVE  n \div d <= m
<1> DEFINE q == n \div d
<1>1. q \in Nat /\ d * q <= n  BY DivRounds
<1> HIDE DEF q
<1>2. SUFFICES ASSUME q >= m + 1  PROVE FALSE
  BY <1>1 DEF q
<1>3. (m + 1) * d <= q * d
  BY <1>1, <1>2, TimesMonotone
<1>4. QED  BY <1>1, <1>3

LEMMA DivAbove ==
    ASSUME NEW n \in Nat, NEW d \in Nat \ {0}, d <= n
    PROVE  n \div d >= 1
<1> DEFINE q == n \div d
<1>1. q \in Nat /\ n < d * q + d  BY DivRounds
<1> HIDE DEF q
<1>2. SUFFICES ASSUME q = 0  PROVE FALSE
  BY <1>1 DEF q
<1>3. QED  BY <1>1, <1>2

-----------------------------------------------------------------------------
(***************************************************************************)
(* A picture in its cell (fitInsideCellLocked, setCoverCropLocked).        *)
(***************************************************************************)
HasSize(r) == r.w \in Nat \ {0} /\ r.h \in Nat \ {0}

\* The cell is not so flat, nor so narrow, that nothing of the picture is kept in it.
CropRemains(src, cell) == cell.w <= src.w * cell.h /\ cell.h <= src.h * cell.w

\* One side is kept and the other is scaled down with it, to one pixel at least.
LEMMA ScaledSide ==
    ASSUME NEW a \in Nat \ {0}, NEW b \in Nat \ {0}, NEW c \in Nat \ {0}, NEW d \in Nat \ {0},
           b * c <= a * d
    PROVE  LET s == Larger(1, (b * c) \div a)
           IN  s \in 1..d /\ a * s - b * c < a /\ b * c - a * s < a
<1> DEFINE n == b * c
           q == n \div a
           s == Larger(1, q)
<1>1. n \in Nat
  OBVIOUS
<1>2. n <= a * d
  OBVIOUS
<1> HIDE DEF n
<1>3. q \in Nat /\ a * q <= n /\ n < a * q + a /\ q <= d
  BY <1>1, <1>2, DivRounds, DivBelow
<1>4. n >= 1
  BY DEF n
<1> HIDE DEF q
<1>5. CASE q >= 1
  <2>1. s = q
    BY <1>3, <1>5 DEF Larger
  <2>2. QED
    BY <1>1, <1>3, <1>5, <2>1 DEF n, q
<1>6. CASE q = 0
  <2>1. s = 1
    BY <1>6 DEF Larger
  <2>2. n < a
    BY <1>3, <1>6
  <2>3. QED
    BY <1>1, <1>4, <2>1, <2>2 DEF n, q
<1>7. QED  BY <1>3, <1>5, <1>6

\* One side is kept and of the other what covers the cell.
LEMMA CroppedSide ==
    ASSUME NEW a \in Nat \ {0}, NEW b \in Nat \ {0}, NEW c \in Nat \ {0}, NEW d \in Nat \ {0},
           b * c <= a * d, a <= b * c
    PROVE  LET s == (b * c) \div a
           IN  s \in 1..d /\ b * c - s * a < a /\ s * a <= b * c
<1> DEFINE n == b * c
           q == n \div a
<1>1. n \in Nat
  OBVIOUS
<1>2. n <= a * d /\ a <= n
  OBVIOUS
<1> HIDE DEF n
<1>3. q \in Nat /\ a * q <= n /\ n < a * q + a /\ q <= d /\ q >= 1
  BY <1>1, <1>2, DivRounds, DivBelow, DivAbove
<1> HIDE DEF q
<1>4. q \in 1..d /\ n - q * a < a /\ q * a <= n
  BY <1>1, <1>3
<1>5. QED  BY <1>4 DEF n, q

\* The picture is shown whole.
LEMMA WholePictureFits ==
    ASSUME NEW src, NEW cell, HasSize(src), HasSize(cell)
    PROVE  LET size == FitInside(src, cell)
           IN  /\ size.w \in 1..cell.w /\ size.h \in 1..cell.h
               /\ size.w = cell.w \/ size.h = cell.h
               /\ \/ /\ src.w * size.h - src.h * size.w < src.w
                     /\ src.h * size.w - src.w * size.h < src.w
                  \/ /\ src.w * size.h - src.h * size.w < src.h
                     /\ src.h * size.w - src.w * size.h < src.h
<1> DEFINE a == src.w  b == src.h  c == cell.w  d == cell.h
           wide == Larger(1, (b * c) \div a)
           high == Larger(1, (a * d) \div b)
           size == FitInside(src, cell)
<1>1. a \in Nat \ {0} /\ b \in Nat \ {0} /\ c \in Nat \ {0} /\ d \in Nat \ {0}
  BY DEF HasSize
<1>2. CASE a * d > b * c
  <2>1. size.w = c /\ size.h = wide
    BY <1>2 DEF FitInside
  <2>2. wide \in 1..d /\ a * wide - b * c < a /\ b * c - a * wide < a
    <3> HIDE DEF a, b, c, d
    <3>1. b * c <= a * d
      BY <1>1, <1>2
    <3> QED  BY <1>1, <3>1, ScaledSide
  <2> HIDE DEF a, b, c, d, size, wide
  <2>3. c \in 1..c
    BY <1>1
  <2>4. QED  BY <1>1, <2>1, <2>2, <2>3 DEF a, b, c, d, size
<1>3. CASE ~(a * d > b * c)
  <2>1. size.w = high /\ size.h = d
    BY <1>3 DEF FitInside
  <2>2. high \in 1..c /\ b * high - a * d < b /\ a * d - b * high < b
    <3> HIDE DEF a, b, c, d
    <3>1. a * d <= b * c
      BY <1>1, <1>3
    <3> QED  BY <1>1, <3>1, ScaledSide
  <2> HIDE DEF a, b, c, d, size, high
  <2>3. d \in 1..d
    BY <1>1
  <2>4. QED  BY <1>1, <2>1, <2>2, <2>3 DEF a, b, c, d, size
<1>4. QED  BY <1>2, <1>3

\* The picture covers its cell.
LEMMA CroppedPictureFits ==
    ASSUME NEW src, NEW cell, HasSize(src), HasSize(cell), CropRemains(src, cell)
    PROVE  LET kept == CoverCrop(src, cell)
           IN  /\ kept.w \in 1..src.w /\ kept.h \in 1..src.h
               /\ \/ /\ kept.w * cell.h - kept.h * cell.w < cell.w
                     /\ kept.h * cell.w - kept.w * cell.h < cell.w
                  \/ /\ kept.w * cell.h - kept.h * cell.w < cell.h
                     /\ kept.h * cell.w - kept.w * cell.h < cell.h
<1> DEFINE a == src.w  b == src.h  c == cell.w  d == cell.h
           low == (a * d) \div c
           slim == (b * c) \div d
           kept == CoverCrop(src, cell)
<1>1. a \in Nat \ {0} /\ b \in Nat \ {0} /\ c \in Nat \ {0} /\ d \in Nat \ {0}
  BY DEF HasSize
<1>2. c <= a * d /\ d <= b * c
  BY DEF CropRemains
<1>3. CASE c * b > d * a
  <2>1. kept.w = a /\ kept.h = low
    BY <1>3 DEF CoverCrop
  <2>2. low \in 1..b /\ a * d - low * c < c /\ low * c <= a * d
    <3> HIDE DEF a, b, c, d
    <3>1. a * d <= c * b
      BY <1>1, <1>3
    <3> QED  BY <1>1, <1>2, <3>1, CroppedSide
  <2> HIDE DEF a, b, c, d, kept, low
  <2>3. a \in 1..a
    BY <1>1
  <2>4. low * c - a * d < c
    BY <1>1, <2>2
  <2>5. QED  BY <1>1, <2>1, <2>2, <2>3, <2>4 DEF a, b, c, d, kept
<1>4. CASE ~(c * b > d * a)
  <2>1. kept.w = slim /\ kept.h = b
    BY <1>4 DEF CoverCrop
  <2>2. slim \in 1..a /\ b * c - slim * d < d /\ slim * d <= b * c
    <3> HIDE DEF a, b, c, d
    <3>1. b * c <= d * a
      BY <1>1, <1>4
    <3> QED  BY <1>1, <1>2, <3>1, CroppedSide
  <2> HIDE DEF a, b, c, d, kept, slim
  <2>3. b \in 1..b
    BY <1>1
  <2>4. slim * d - b * c < d
    BY <1>1, <2>2
  <2>5. QED  BY <1>1, <2>1, <2>2, <2>3, <2>4 DEF a, b, c, d, kept
<1>5. QED  BY <1>3, <1>4

(***************************************************************************)
(* A picture of any size fits a cell of any size (setCellTargetLocked):    *)
(* what is kept of it lies in it, what is shown of it lies in the cell and *)
(* touches it in one dimension at least, and it is distorted by less than  *)
(* the rounding of one pixel.                                              *)
(***************************************************************************)
THEOREM PictureFits ==
    ASSUME NEW src, NEW cell, NEW screenShare \in BOOLEAN, HasSize(src), HasSize(cell),
           CropRemains(src, cell)
    PROVE  WellFitted(src, cell, screenShare)
<1> DEFINE fit == FitInside(src, cell)
           crop == CoverCrop(src, cell)
<1>1. src.w \in Nat \ {0} /\ src.h \in Nat \ {0} /\ cell.w \in Nat \ {0} /\ cell.h \in Nat \ {0}
  BY DEF HasSize
<1>2. CASE screenShare \/ src.h > src.w
  <2>1. CellTarget(src, cell, screenShare) = [kept |-> src, size |-> fit]
    BY <1>2 DEF CellTarget
  <2>2. /\ fit.w \in 1..cell.w /\ fit.h \in 1..cell.h
        /\ fit.w = cell.w \/ fit.h = cell.h
        /\ \/ /\ src.w * fit.h - src.h * fit.w < src.w
              /\ src.h * fit.w - src.w * fit.h < src.w
           \/ /\ src.w * fit.h - src.h * fit.w < src.h
              /\ src.h * fit.w - src.w * fit.h < src.h
    BY WholePictureFits
  <2> HIDE DEF fit
  <2> DEFINE skew == src.w * fit.h - src.h * fit.w
             most == Larger(Larger(src.w, src.h), Larger(fit.w, fit.h))
  <2>3. fit.w \in Nat /\ fit.h \in Nat
    BY <1>1, <2>2
  <2>4. most \in Nat /\ most >= src.w /\ most >= src.h
    BY <1>1, <2>3 DEF Larger
  <2>5. skew \in Int /\ -skew = src.h * fit.w - src.w * fit.h
    BY <1>1, <2>3
  <2>6. skew < most /\ -skew < most
    <3> HIDE DEF most
    <3> QED  BY <1>1, <2>2, <2>3, <2>4, <2>5
  <2>7. src.w \in 1..src.w /\ src.h \in 1..src.h
    BY <1>1
  <2>8. QED  BY <2>1, <2>2, <2>6, <2>7 DEF WellFitted
<1>3. CASE ~(screenShare \/ src.h > src.w)
  <2>1. CellTarget(src, cell, screenShare)
          = [kept |-> crop, size |-> [w |-> cell.w, h |-> cell.h]]
    BY <1>3 DEF CellTarget
  <2>2. /\ crop.w \in 1..src.w /\ crop.h \in 1..src.h
        /\ \/ /\ crop.w * cell.h - crop.h * cell.w < cell.w
              /\ crop.h * cell.w - crop.w * cell.h < cell.w
           \/ /\ crop.w * cell.h - crop.h * cell.w < cell.h
              /\ crop.h * cell.w - crop.w * cell.h < cell.h
    BY CroppedPictureFits
  <2> HIDE DEF crop
  <2> DEFINE skew == crop.w * cell.h - crop.h * cell.w
             most == Larger(Larger(crop.w, crop.h), Larger(cell.w, cell.h))
  <2>3. crop.w \in Nat /\ crop.h \in Nat
    BY <1>1, <2>2
  <2>4. most \in Nat /\ most >= cell.w /\ most >= cell.h
    BY <1>1, <2>3 DEF Larger
  <2>5. skew \in Int /\ -skew = crop.h * cell.w - crop.w * cell.h
    BY <1>1, <2>3
  <2>6. skew < most /\ -skew < most
    <3> HIDE DEF most
    <3> QED  BY <1>1, <2>2, <2>3, <2>4, <2>5
  <2>7. cell.w \in 1..cell.w /\ cell.h \in 1..cell.h
    BY <1>1
  <2>8. QED  BY <2>1, <2>2, <2>6, <2>7 DEF WellFitted
<1>4. QED  BY <1>2, <1>3

-----------------------------------------------------------------------------
(***************************************************************************)
(* The cells of a layout (calculateGridLayout, calculateSpeakerLayout,     *)
(* calculateSingleSpeakerLayout).                                          *)
(***************************************************************************)
\* What % leaves.
LEMMA ModRounds ==
    ASSUME NEW n \in Nat, NEW d \in Nat \ {0}
    PROVE  n % d \in 0..(d - 1) /\ n = d * (n \div d) + (n % d)
OBVIOUS

\* n places of one length with a gap around each, along a side that has room for them.
LEMMA Places ==
    ASSUME NEW side \in Nat, NEW n \in Nat \ {0}, 9 * n + 8 <= side
    PROVE  LET len == (side - 2 * gridGap - (n - 1) * gridGap) \div n
           IN  /\ len \in Nat /\ len >= 1
               /\ \A k \in 0..(n - 1) :
                     /\ gridGap + k * (len + gridGap) \in Nat
                     /\ gridGap + k * (len + gridGap) + len <= side
               /\ \A j, k \in 0..(n - 1) :
                     j < k => gridGap + j * (len + gridGap) + len <= gridGap + k * (len + gridGap)
<1> DEFINE rest == side - 2 * gridGap - (n - 1) * gridGap
           len == rest \div n
           step == len + gridGap
<1>1. gridGap = 8  BY DEF gridGap
<1>2. rest \in Nat /\ n <= rest /\ rest = side - 8 - n * 8
  BY <1>1
<1> HIDE DEF rest
<1>3. len \in Nat /\ n * len <= rest /\ len >= 1
  BY <1>2, DivRounds, DivAbove
<1> HIDE DEF len
<1>4. step \in Nat /\ step = len + 8
  BY <1>1, <1>3
<1> HIDE DEF step
<1>5. n * step <= side - 8
  BY <1>2, <1>3, <1>4
<1>6. ASSUME NEW k \in 0..(n - 1)
      PROVE  gridGap + k * step \in Nat /\ gridGap + k * step + len <= side
  <2>1. (k + 1) * step <= n * step
    BY <1>4, TimesMonotone
  <2>2. k * step \in Nat /\ (k + 1) * step = k * step + step
    BY <1>4
  <2> DEFINE x == k * step
             y == n * step
  <2>3. x \in Nat /\ y \in Nat /\ x + step <= y /\ y <= side - 8
    BY <1>4, <1>5, <2>1, <2>2
  <2> HIDE DEF x, y
  <2>4. QED  BY <1>1, <1>3, <1>4, <2>3 DEF x
<1>7. ASSUME NEW j \in 0..(n - 1), NEW k \in 0..(n - 1), j < k
      PROVE  gridGap + j * step + len <= gridGap + k * step
  <2>1. (j + 1) * step <= k * step
    BY <1>4, <1>7, TimesMonotone
  <2>2. j * step \in Nat /\ (j + 1) * step = j * step + step /\ k * step \in Nat
    BY <1>4
  <2> DEFINE x == j * step
             y == k * step
  <2>3. x \in Nat /\ y \in Nat /\ x + step <= y
    BY <2>1, <2>2
  <2> HIDE DEF x, y
  <2>4. QED  BY <1>1, <1>3, <1>4, <2>3 DEF x, y
<1>8. QED  BY <1>3, <1>6, <1>7 DEF len, rest, step

\* The canvas holds a pixel of every cell and the gaps between them.
HasRoom(L) ==
    /\ L.width \in Nat /\ L.height \in Nat /\ L.width >= 30 /\ L.height >= 17
    /\ L.layout \notin {"speaker", "single-speaker"} =>
          /\ 9 * gridColumns(L, Len(L.tracks)) + 8 <= L.width
          /\ 9 * GridRows(L, Len(L.tracks)) + 8 <= L.height

LEMMA GridColumnsType ==
    ASSUME NEW L, NEW n \in Nat, L.width \in Nat
    PROVE  gridColumns(L, n) \in Nat \ {0}
BY DEF gridColumns

\* The column and the row of the ith track, and the track they are of.
LEMMA GridPlaces ==
    ASSUME NEW n \in Nat \ {0}, NEW cols \in Nat \ {0}, NEW i \in 1..n
    PROVE  LET rows == (n + cols - 1) \div cols
           IN  /\ rows \in Nat \ {0}
               /\ (i - 1) % cols \in 0..(cols - 1) /\ (i - 1) \div cols \in 0..(rows - 1)
               /\ i = cols * ((i - 1) \div cols) + ((i - 1) % cols) + 1
<1> DEFINE rows == (n + cols - 1) \div cols
           row == (i - 1) \div cols
           col == (i - 1) % cols
<1>1. rows \in Nat /\ n + cols - 1 < cols * rows + cols
  BY DivRounds
<1>2. i - 1 \in Nat
  OBVIOUS
<1>3. row \in Nat /\ cols * row <= i - 1
  BY <1>2, DivRounds
<1>4. col \in 0..(cols - 1) /\ i - 1 = cols * row + col
  BY <1>2, ModRounds
<1> HIDE DEF rows, row, col
<1>5. row < rows
  <2>1. SUFFICES ASSUME rows <= row  PROVE FALSE
    BY <1>1, <1>3
  <2>2. rows * cols <= row * cols
    BY <1>1, <1>3, <2>1, TimesMonotone
  <2> DEFINE x == cols * rows
             y == cols * row
  <2>3. x \in Nat /\ y \in Nat /\ x <= y /\ n + cols - 1 < x + cols /\ y <= i - 1
    BY <1>1, <1>3, <2>2
  <2> HIDE DEF x, y
  <2>4. QED  BY <2>3
<1>6. i = cols * row + col + 1
  <2> DEFINE y == cols * row
  <2>1. y \in Int /\ i - 1 = y + col
    BY <1>3, <1>4
  <2> HIDE DEF y
  <2>2. i = y + col + 1
    BY <1>4, <2>1
  <2>3. QED  BY <2>2 DEF y
<1>7. rows \in Nat \ {0} /\ row \in 0..(rows - 1)
  BY <1>1, <1>3, <1>5
<1>8. QED  BY <1>4, <1>6, <1>7 DEF rows, row, col

\* Cells of the tracks of an order show the tracks of that order.
LEMMA SameTracks ==
    ASSUME NEW n, NEW cells, NEW order, \A i \in 1..n : cells[i].track = order[i]
    PROVE  {cells[i].track : i \in 1..n} = {order[i] : i \in 1..n}
BY Zenon

\* The cells of a grid of two tracks or more.
LEMMA GridWellPlaced ==
    ASSUME NEW L, HasRoom(L), L.layout \notin {"speaker", "single-speaker"},
           L.tracks \in Seq(Tracks), Len(L.tracks) > 1
    PROVE  WellPlaced(L, calculateGridLayout(L))
<1> DEFINE n == Len(L.tracks)
           cols == gridColumns(L, n)
           rows == GridRows(L, n)
           w == (L.width - 2 * gridGap - (cols - 1) * gridGap) \div cols
           h == (L.height - 2 * gridGap - (rows - 1) * gridGap) \div rows
           X(k) == gridGap + k * (w + gridGap)
           Y(k) == gridGap + k * (h + gridGap)
           cells == [i \in 1..n |->
                       Cell(L.tracks[i], X((i - 1) % cols), Y((i - 1) \div cols), w, h)]
<1>1. n \in Nat \ {0} /\ n # 1
  <2>1. n \in Nat /\ n > 1
    OBVIOUS
  <2> HIDE DEF n
  <2>2. QED  BY <2>1
<1>2. calculateGridLayout(L) = cells
  BY <1>1 DEF calculateGridLayout
<1>3. L.width \in Nat /\ L.height \in Nat /\ 9 * cols + 8 <= L.width /\ 9 * rows + 8 <= L.height
  BY DEF HasRoom
<1>4. cols \in Nat \ {0}
  BY <1>1, <1>3, GridColumnsType
<1>5. rows = (n + cols - 1) \div cols
  BY DEF GridRows
<1> HIDE DEF cols, rows, n
<1>6. ASSUME NEW i \in 1..n
      PROVE  /\ rows \in Nat \ {0}
             /\ (i - 1) % cols \in 0..(cols - 1) /\ (i - 1) \div cols \in 0..(rows - 1)
             /\ i = cols * ((i - 1) \div cols) + ((i - 1) % cols) + 1
  BY <1>1, <1>4, <1>5, GridPlaces
<1>7. rows \in Nat \ {0}
  <2>1. 1 \in 1..n
    BY <1>1
  <2>2. QED  BY <1>6, <2>1
<1>8. /\ w \in Nat /\ w >= 1
      /\ \A k \in 0..(cols - 1) : X(k) \in Nat /\ X(k) + w <= L.width
      /\ \A j, k \in 0..(cols - 1) : j < k => X(j) + w <= X(k)
  BY <1>3, <1>4, Places
<1>9. /\ h \in Nat /\ h >= 1
      /\ \A k \in 0..(rows - 1) : Y(k) \in Nat /\ Y(k) + h <= L.height
      /\ \A j, k \in 0..(rows - 1) : j < k => Y(j) + h <= Y(k)
  BY <1>3, <1>7, Places
<1> HIDE DEF w, h, X, Y
<1>10. \A i \in 1..n : /\ cells[i].track = L.tracks[i] /\ cells[i].alpha = 1
                       /\ cells[i].x = X((i - 1) % cols) /\ cells[i].y = Y((i - 1) \div cols)
                       /\ cells[i].w = w /\ cells[i].h = h
  BY DEF Cell
<1>11. Len(cells) = n /\ DOMAIN cells = 1..n
  BY <1>1
<1> HIDE DEF cells
<1>12. Shown(cells) = 1..n
  BY <1>10, <1>11 DEF Shown
<1>13. {cells[i].track : i \in 1..Len(cells)} = ToSet(L.tracks)
  <2>1. DOMAIN L.tracks = 1..n
    BY DEF n
  <2>2. ToSet(L.tracks) = {L.tracks[i] : i \in 1..n}
    BY <2>1 DEF ToSet
  <2>3. {cells[i].track : i \in 1..n} = {L.tracks[i] : i \in 1..n}
    BY <1>10, SameTracks
  <2>4. QED  BY <1>11, <2>2, <2>3
<1>14. ASSUME NEW i \in 1..n
       PROVE  Inside(L, cells[i]) /\ cells[i].w > 0 /\ cells[i].h > 0
  <2>1. /\ X((i - 1) % cols) \in Nat /\ X((i - 1) % cols) + w <= L.width
        /\ Y((i - 1) \div cols) \in Nat /\ Y((i - 1) \div cols) + h <= L.height
    BY <1>6, <1>8, <1>9
  <2>2. /\ cells[i].x = X((i - 1) % cols) /\ cells[i].y = Y((i - 1) \div cols)
        /\ cells[i].w = w /\ cells[i].h = h
    BY <1>10
  <2> DEFINE x == X((i - 1) % cols)
             y == Y((i - 1) \div cols)
  <2>3. x \in Nat /\ x + w <= L.width /\ y \in Nat /\ y + h <= L.height
    BY <2>1
  <2>4. cells[i].x = x /\ cells[i].y = y
    BY <2>2
  <2> HIDE DEF x, y
  <2>5. QED  BY <1>8, <1>9, <2>2, <2>3, <2>4 DEF Inside
<1>15. ASSUME NEW i \in 1..n, NEW j \in 1..n, i # j  PROVE Apart(cells[i], cells[j])
  <2> DEFINE a == (i - 1) % cols  c == (i - 1) \div cols
             b == (j - 1) % cols  d == (j - 1) \div cols
  <2>1. /\ a \in 0..(cols - 1) /\ b \in 0..(cols - 1)
        /\ c \in 0..(rows - 1) /\ d \in 0..(rows - 1)
        /\ i = cols * c + a + 1 /\ j = cols * d + b + 1
    BY <1>6
  <2>2. /\ cells[i].x = X(a) /\ cells[i].y = Y(c) /\ cells[i].w = w /\ cells[i].h = h
        /\ cells[j].x = X(b) /\ cells[j].y = Y(d) /\ cells[j].w = w /\ cells[j].h = h
    BY <1>10
  <2> HIDE DEF a, b, c, d
  <2>3. a # b \/ c # d
    BY <1>15, <2>1
  <2>4. a < b \/ b < a \/ c < d \/ d < c
    BY <1>4, <1>7, <2>1, <2>3
  <2>5. X(a) + w <= X(b) \/ X(b) + w <= X(a) \/ Y(c) + h <= Y(d) \/ Y(d) + h <= Y(c)
    BY <1>8, <1>9, <2>1, <2>4
  <2>6. QED  BY <2>2, <2>5 DEF Apart
<1>16. cells # <<>> => Shown(cells) # {}
  <2>1. 1 \in 1..n
    BY <1>1
  <2>2. QED  BY <1>12, <2>1
<1>17. WellPlaced(L, cells)
  BY <1>11, <1>12, <1>13, <1>14, <1>15, <1>16 DEF WellPlaced, n
<1>18. QED  BY <1>2, <1>17

\* The whole canvas is one cell; every other track is hidden.
LEMMA OneShown ==
    ASSUME NEW L, HasRoom(L), NEW order \in Seq(Tracks), NEW cells,
           Len(order) > 0, Len(order) = Len(L.tracks), ToSet(order) = ToSet(L.tracks),
           cells = [i \in 1..Len(order) |->
                      IF i = 1 THEN FullCanvas(L, order[1]) ELSE Hidden(order[i])]
    PROVE  WellPlaced(L, cells)
<1> DEFINE n == Len(order)
<1>1. n \in Nat \ {0} /\ 1 \in 1..n
  OBVIOUS
<1>2. \A i \in 1..n : cells[i].track = order[i]
  BY DEF FullCanvas, Cell, Hidden
<1>3. /\ cells[1].alpha = 1 /\ cells[1].x = 0 /\ cells[1].y = 0
      /\ cells[1].w = L.width /\ cells[1].h = L.height
  BY <1>1 DEF FullCanvas, Cell
<1>4. \A i \in 1..n : i # 1 => cells[i].alpha = 0
  BY DEF Hidden
<1>5. Len(cells) = n
  BY <1>1
<1> HIDE DEF n
<1>6. Shown(cells) = {1}
  <2>1. ASSUME NEW i \in 1..n  PROVE cells[i].alpha = 1 <=> i = 1
    <3>1. CASE i = 1
      BY <1>3, <3>1
    <3>2. CASE i # 1
      <4>1. cells[i].alpha = 0
        BY <1>4, <3>2
      <4>2. QED  BY <3>2, <4>1
    <3>3. QED  BY <3>1, <3>2
  <2>2. QED  BY <1>1, <1>5, <2>1 DEF Shown
<1>7. {cells[i].track : i \in 1..Len(cells)} = ToSet(L.tracks)
  <2>1. DOMAIN order = 1..n
    BY DEF n
  <2>2. {order[i] : i \in 1..n} = ToSet(L.tracks)
    BY <2>1 DEF ToSet
  <2>3. {cells[i].track : i \in 1..n} = {order[i] : i \in 1..n}
    <3>1. \A t : (\E i \in 1..n : cells[i].track = t) <=> (\E i \in 1..n : order[i] = t)
      BY <1>2
    <3>2. QED  BY <3>1, Zenon
  <2>4. QED  BY <1>5, <2>2, <2>3
<1>8. Inside(L, cells[1]) /\ cells[1].w > 0 /\ cells[1].h > 0
  BY <1>3 DEF Inside, HasRoom
<1>9. QED  BY <1>5, <1>6, <1>7, <1>8 DEF WellPlaced, n

\* The carousel has room for its tiles.
LEMMA TilesFit ==
    ASSUME NEW high \in Nat, NEW span \in Nat, high >= 17, span >= 130
    PROVE  LET tiles == Larger((high - 16 + span \div 2) \div span, 1)
           IN  tiles \in Nat \ {0} /\ 9 * tiles + 8 <= high
<1> DEFINE half == span \div 2
           n == high - 16 + half
           q == n \div span
           tiles == Larger(q, 1)
<1>1. half \in Nat /\ 2 * half <= span
  OBVIOUS
<1> HIDE DEF half
<1>2. n \in Nat /\ n = high - 16 + half
  BY <1>1
<1> HIDE DEF n
<1>3. q \in Nat /\ span * q <= n
  BY <1>2, DivRounds
<1> HIDE DEF q
<1>4. CASE q <= 1
  <2>1. tiles = 1
    BY <1>3, <1>4 DEF Larger
  <2>2. QED  BY <2>1 DEF q, n, half
<1>5. CASE q > 1
  <2>1. tiles = q
    BY <1>3, <1>5 DEF Larger
  <2>2. 130 * (2 * q - 1) <= span * (2 * q - 1)
    BY <1>3, <1>5, TimesMonotone
  <2> DEFINE x == span * q
  <2>3. span * (2 * q - 1) = 2 * x - span /\ x \in Nat
    BY <1>3
  <2> HIDE DEF x
  <2>4. 130 * (2 * q - 1) <= 2 * x - span
    BY <2>2, <2>3
  <2>5. x <= n
    BY <1>3 DEF x
  <2>6. 9 * q + 8 <= high
    BY <1>1, <1>2, <1>3, <1>5, <2>3, <2>4, <2>5
  <2>7. QED  BY <1>3, <1>5, <2>1, <2>6 DEF q, n, half
<1>6. QED  BY <1>3, <1>4, <1>5

\* The columns and the tiles of the speaker layout.
LEMMA SpeakerColumns ==
    ASSUME NEW L, HasRoom(L)
    PROVE  LET tiles == maxCarouselTiles(L)
               stageW == L.width - 3 * gridGap - CarouselWidth(L)
           IN  /\ CarouselWidth(L) \in Nat /\ CarouselWidth(L) >= 1
               /\ stageW \in Nat /\ stageW >= 1
               /\ tiles \in Nat \ {0} /\ 9 * tiles + 8 <= L.height
<1> DEFINE cw == CarouselWidth(L)
           span == Larger((cw * 6) \div 10, 130)
<1>1. L.width \in Nat /\ L.height \in Nat /\ L.width >= 30 /\ L.height >= 17
  BY DEF HasRoom
<1>2. cw = (L.width - 24) \div 6
  BY DEF CarouselWidth, gridGap, totalFr
<1>3. cw \in Nat /\ cw >= 1 /\ 6 * cw <= L.width - 24
  BY <1>1, <1>2
<1> HIDE DEF cw
<1>4. L.width - 24 - cw \in Nat /\ L.width - 24 - cw >= 1
  BY <1>1, <1>3
<1>5. span \in Nat /\ span >= 130
  BY <1>3 DEF Larger
<1>6. maxCarouselTiles(L) = Larger((L.height - 16 + span \div 2) \div span, 1)
  BY DEF maxCarouselTiles, cw, gridGap, minCarouselTileHeight
<1> HIDE DEF span
<1>7. maxCarouselTiles(L) \in Nat \ {0} /\ 9 * maxCarouselTiles(L) + 8 <= L.height
  BY <1>1, <1>5, <1>6, TilesFit
<1>8. QED  BY <1>3, <1>4, <1>7 DEF cw, gridGap

\* displayOrder and tracks hold the same tracks, so orderedTracks has each of them once.
Reordered(L) ==
    /\ orderedTracks(L) \in Seq(Tracks)
    /\ Len(orderedTracks(L)) = Len(L.tracks) /\ ToSet(orderedTracks(L)) = ToSet(L.tracks)

\* The stage and the carousel of two tracks or more.
LEMMA SpeakerWellPlaced ==
    ASSUME NEW L, HasRoom(L), Reordered(L), Len(L.tracks) > 1
    PROVE  WellPlaced(L, calculateSpeakerLayout(L))
<1> DEFINE order == orderedTracks(L)
           n == Len(order)
           cw == CarouselWidth(L)
           stageW == L.width - 3 * gridGap - cw
           tiles == maxCarouselTiles(L)
           th == ThumbHeight(L)
           visible == Smaller(tiles, n - 1)
           Y(k) == gridGap + k * (th + gridGap)
           cells == [i \in 1..n |->
                      CASE i = 1 -> Cell(order[1], 2 * gridGap + cw, gridGap,
                                         stageW, L.height - 2 * gridGap)
                        [] i \in 2..(visible + 1) -> Cell(order[i], gridGap, Y(i - 2), cw, th)
                        [] OTHER -> Hidden(order[i])]
<1>1. n \in Nat \ {0} /\ n > 1 /\ n # 1
  <2>1. n \in Nat /\ n > 1
    BY DEF Reordered
  <2> HIDE DEF n
  <2>2. QED  BY <2>1
<1>2. calculateSpeakerLayout(L) = cells
  <2>1. Len(orderedTracks(L)) # 1
    BY <1>1
  <2>2. QED  BY <2>1, Zenon DEF calculateSpeakerLayout
<1>3. /\ cw \in Nat /\ cw >= 1 /\ stageW \in Nat /\ stageW >= 1 /\ stageW = L.width - 24 - cw
      /\ tiles \in Nat \ {0} /\ 9 * tiles + 8 <= L.height /\ L.width \in Nat /\ L.height \in Nat
  BY SpeakerColumns DEF gridGap, HasRoom
<1>4. th = (L.height - 2 * gridGap - (tiles - 1) * gridGap) \div tiles
  BY <1>3 DEF ThumbHeight, gridGap
<1> HIDE DEF th, tiles, cw, stageW
<1>5. /\ th \in Nat /\ th >= 1
      /\ \A k \in 0..(tiles - 1) : Y(k) \in Nat /\ Y(k) + th <= L.height
      /\ \A j, k \in 0..(tiles - 1) : j < k => Y(j) + th <= Y(k)
  BY <1>3, <1>4, Places
<1> HIDE DEF Y, n, order
<1>6. visible \in Nat /\ visible <= tiles /\ visible + 1 <= n
  BY <1>1, <1>3 DEF Smaller
<1> HIDE DEF visible
<1>7. 1 \in 1..n /\ gridGap = 8
  BY <1>1 DEF gridGap
<1>8. /\ cells[1].track = order[1] /\ cells[1].alpha = 1 /\ cells[1].x = 16 + cw /\ cells[1].y = 8
      /\ cells[1].w = stageW /\ cells[1].h = L.height - 16
  BY <1>7 DEF Cell
<1>9. ASSUME NEW i \in 2..(visible + 1)
      PROVE  /\ cells[i].track = order[i] /\ cells[i].alpha = 1
             /\ cells[i].x = 8 /\ cells[i].y = Y(i - 2)
             /\ cells[i].w = cw /\ cells[i].h = th
  <2>1. i \in 1..n /\ i # 1
    BY <1>1, <1>6
  <2>2. QED  BY <1>7, <1>9, <2>1 DEF Cell
<1>10. ASSUME NEW i \in 1..n, i # 1, i \notin 2..(visible + 1)
       PROVE  cells[i].track = order[i] /\ cells[i].alpha = 0
  BY <1>10 DEF Hidden
<1>11. Len(cells) = n
  BY <1>1
<1> HIDE DEF cells
<1>12. \A i \in 1..n : cells[i].track = order[i]
  BY <1>8, <1>9, <1>10
<1>13. {cells[i].track : i \in 1..Len(cells)} = ToSet(L.tracks)
  <2>1. DOMAIN order = 1..n
    BY DEF n, order, Reordered
  <2>2. {order[i] : i \in 1..n} = ToSet(L.tracks)
    BY <2>1 DEF ToSet, Reordered, order
  <2>3. {cells[i].track : i \in 1..n} = {order[i] : i \in 1..n}
    BY <1>12, Zenon
  <2>4. QED  BY <1>11, <2>2, <2>3
<1>14. ASSUME NEW i \in Shown(cells)  PROVE i = 1 \/ i \in 2..(visible + 1)
  <2>1. i \in 1..n /\ cells[i].alpha = 1
    BY <1>11 DEF Shown
  <2>2. SUFFICES ASSUME i # 1, i \notin 2..(visible + 1)  PROVE FALSE
    OBVIOUS
  <2>3. cells[i].alpha = 0
    BY <1>10, <2>1, <2>2
  <2>4. QED  BY <2>1, <2>3
<1>15. Inside(L, cells[1]) /\ cells[1].w > 0 /\ cells[1].h > 0
  <2> DEFINE W == L.width
             H == L.height
  <2>1. /\ 16 + cw >= 0 /\ 16 + cw + stageW <= W /\ 8 + (H - 16) <= H /\ H - 16 > 0
        /\ stageW > 0
    <3>1. W \in Nat /\ H \in Nat /\ stageW = W - 24 - cw /\ 9 * tiles + 8 <= H
      BY <1>3
    <3> HIDE DEF W, H
    <3>2. QED  BY <1>3, <3>1
  <2>2. QED  BY <1>8, <2>1 DEF Inside
<1>16. ASSUME NEW i \in 2..(visible + 1)
       PROVE  Inside(L, cells[i]) /\ cells[i].w > 0 /\ cells[i].h > 0
  <2>1. i - 2 \in 0..(tiles - 1)
    BY <1>3, <1>6
  <2> DEFINE y == Y(i - 2)
  <2>2. y \in Nat /\ y + th <= L.height
    BY <1>5, <2>1
  <2>3. cells[i].x = 8 /\ cells[i].y = y /\ cells[i].w = cw /\ cells[i].h = th
    BY <1>9
  <2> HIDE DEF y
  <2>4. QED  BY <1>3, <1>5, <2>2, <2>3 DEF Inside
<1>17. ASSUME NEW i \in 2..(visible + 1)
       PROVE  Apart(cells[1], cells[i]) /\ Apart(cells[i], cells[1])
  <2>1. 8 + cw <= 16 + cw
    BY <1>3
  <2>2. cells[1].x = 16 + cw /\ cells[i].x = 8 /\ cells[i].w = cw
    BY <1>8, <1>9
  <2>3. QED  BY <2>1, <2>2 DEF Apart
<1>18. ASSUME NEW i \in 2..(visible + 1), NEW j \in 2..(visible + 1), i # j
       PROVE  Apart(cells[i], cells[j])
  <2>1. i - 2 \in 0..(tiles - 1) /\ j - 2 \in 0..(tiles - 1) /\ (i - 2 < j - 2 \/ j - 2 < i - 2)
    BY <1>3, <1>6, <1>18
  <2>2. Y(i - 2) + th <= Y(j - 2) \/ Y(j - 2) + th <= Y(i - 2)
    BY <1>5, <2>1
  <2>3. cells[i].y = Y(i - 2) /\ cells[i].h = th /\ cells[j].y = Y(j - 2) /\ cells[j].h = th
    BY <1>9
  <2>4. QED  BY <2>2, <2>3 DEF Apart
<1>19. 1 \in Shown(cells)
  BY <1>7, <1>8, <1>11 DEF Shown
<1>20. ASSUME NEW i \in Shown(cells)
       PROVE  /\ Inside(L, cells[i]) /\ cells[i].w > 0 /\ cells[i].h > 0
              /\ \A j \in Shown(cells) \ {i} : Apart(cells[i], cells[j])
  <2>1. Inside(L, cells[i]) /\ cells[i].w > 0 /\ cells[i].h > 0
    BY <1>14, <1>15, <1>16
  <2>2. ASSUME NEW j \in Shown(cells) \ {i}  PROVE Apart(cells[i], cells[j])
    <3>1. i = 1 \/ i \in 2..(visible + 1)
      BY <1>14
    <3>2. j = 1 \/ j \in 2..(visible + 1)
      BY <1>14
    <3>3. QED  BY <1>17, <1>18, <2>2, <3>1, <3>2
  <2>3. QED  BY <2>1, <2>2
<1>21. Len(cells) = Len(L.tracks)
  BY <1>11 DEF n, order, Reordered
<1>22. WellPlaced(L, cells)
  BY <1>13, <1>19, <1>20, <1>21 DEF WellPlaced
<1>23. QED  BY <1>2, <1>22

(***************************************************************************)
(* For any number of tracks and any canvas with room for them, in every    *)
(* layout: every track has one cell, the cells that are shown lie on the   *)
(* canvas, have an area and do not overlap, and something is shown         *)
(* (recalculate).                                                          *)
(***************************************************************************)
THEOREM LayoutPlacesAll ==
    ASSUME NEW L, L.tracks \in Seq(Tracks), HasRoom(L), Reordered(L)
    PROVE  WellPlaced(L, recalculate(L))
<1> DEFINE n == Len(L.tracks)
           Alone(order) ==
               [i \in 1..Len(order) |->
                   IF i = 1 THEN FullCanvas(L, order[1]) ELSE Hidden(order[i])]
<1>1. n \in Nat
  OBVIOUS
<1>2. CASE n = 0
  <2>1. L.tracks = <<>>
    BY <1>2
  <2>2. recalculate(L) = <<>>
    BY <2>1 DEF recalculate
  <2>3. WellPlaced(L, <<>>)
    BY <2>1 DEF WellPlaced, Shown, ToSet
  <2>4. QED  BY <2>2, <2>3
<1>3. CASE L.layout = "single-speaker" /\ n > 0
  <2>1. recalculate(L) = Alone(orderedTracks(L))
    BY <1>3 DEF recalculate, calculateSingleSpeakerLayout
  <2>2. orderedTracks(L) \in Seq(Tracks) /\ Len(orderedTracks(L)) > 0
    BY <1>3 DEF Reordered
  <2>3. QED  BY <2>1, <2>2, OneShown DEF Reordered
<1>4. CASE L.layout = "speaker" /\ n > 0
  <2>1. recalculate(L) = calculateSpeakerLayout(L)
    BY <1>4 DEF recalculate
  <2>2. CASE n > 1
    BY <2>1, <2>2, SpeakerWellPlaced
  <2>3. CASE n = 1
    <3>1. Len(orderedTracks(L)) = 1 /\ orderedTracks(L) \in Seq(Tracks)
      BY <2>3 DEF Reordered
    <3>2. calculateSpeakerLayout(L) = << FullCanvas(L, orderedTracks(L)[1]) >>
      BY <3>1 DEF calculateSpeakerLayout
    <3>3. << FullCanvas(L, orderedTracks(L)[1]) >> = Alone(orderedTracks(L))
      <4> DEFINE t == orderedTracks(L)
      <4>1. Len(t) = 1
        BY <3>1
      <4> HIDE DEF t
      <4>2. << FullCanvas(L, t[1]) >> = Alone(t)
        BY <4>1
      <4>3. QED  BY <4>2 DEF t
    <3>4. WellPlaced(L, Alone(orderedTracks(L)))
      <4>1. Len(orderedTracks(L)) > 0
        BY <3>1
      <4>2. QED  BY <3>1, <4>1, OneShown DEF Reordered
    <3> HIDE DEF Alone
    <3>5. QED  BY <2>1, <3>2, <3>3, <3>4, Zenon
  <2> HIDE DEF n
  <2>4. QED  BY <1>1, <1>4, <2>2, <2>3
<1>5. CASE L.layout \notin {"speaker", "single-speaker"} /\ n > 0
  <2>1. recalculate(L) = calculateGridLayout(L)
    BY <1>5 DEF recalculate
  <2>2. CASE n > 1
    BY <1>5, <2>1, <2>2, GridWellPlaced
  <2>3. CASE n = 1
    <3>1. calculateGridLayout(L) = << FullCanvas(L, L.tracks[1]) >>
      BY <2>3 DEF calculateGridLayout
    <3>2. << FullCanvas(L, L.tracks[1]) >> = Alone(L.tracks)
      BY <2>3
    <3>3. WellPlaced(L, Alone(L.tracks))
      <4>1. Len(L.tracks) > 0
        BY <2>3
      <4>2. QED  BY <4>1, OneShown
    <3> HIDE DEF Alone
    <3>4. QED  BY <2>1, <3>1, <3>2, <3>3, Zenon
  <2> HIDE DEF n
  <2>4. QED  BY <1>1, <1>5, <2>2, <2>3
<1> HIDE DEF n
<1>6. QED  BY <1>1, <1>2, <1>3, <1>4, <1>5
-----------------------------------------------------------------------------
(***************************************************************************)
(* The files of a request that is asked for again (Pipeline).  Update      *)
(* names the media files of the outputs one by one; what the other         *)
(* operators do to the configuration is of no concern here, except that    *)
(* they name no file and do not take back a refusal (Keeps).               *)
(***************************************************************************)
\* What a request and an output are made of.
LEMMA RequestIs ==
    ASSUME NEW r \in Requests
    PROVE  /\ r.type \in RequestTypes /\ r.outputs \in Seq(AnOutput)
           /\ r.type = "track" => r.outputs # <<>>
           /\ r.type = "participant" => r.audio /\ r.video
           /\ r.audio \in BOOLEAN /\ r.video \in BOOLEAN /\ r.base \in BOOLEAN
           /\ r.width \in Nat /\ r.height \in Nat
           /\ r.encoding \in {"", "passthrough"} \cup AllOutputAudioCodecs
           /\ r.pick \in {"", "track", "participant", "videos"}
           /\ r.routes \in Seq({"all", "track", "kind", "left", "excluded"})
<1>1. r \in ARequest
  BY PipelineAssumption
<1>2. QED  BY <1>1 DEF ARequest

LEMMA OutputIs ==
    ASSUME NEW o \in AnOutput
    PROVE  /\ o.kind \in {"file", "stream", "segments", "images"}
           /\ o.path \in PathForms /\ o.playlist \in PathForms
           /\ o.kind = "file" => o.format \in {"unknown", "mp4", "ogg", "mp3", "mcap"}
           /\ o.kind = "stream" => o.protocol \in {"default", "rtmp", "srt", "websocket"}
           /\ o.scheme \in {"", "rtmp", "srt", "ws"}
BY DEF AnOutput

\* A configuration has the fields that it begins with.
Fields ==
    {"ok", "templateSDK", "type", "source", "audio", "transcoding", "audioOut", "video",
     "decoding", "encoding", "videoIn", "videoOut", "passthrough", "compositing", "file",
     "segments", "stream", "websocket", "images", "count", "files"}

IsConf(p) == p = [f \in Fields |-> p[f]]

\* What most operators do: they name no file, and do not take back a refusal.
Keeps(p, q) == IsConf(q) /\ q.files = p.files /\ (q.ok => p.ok)

LEMMA KeepsOn ==
    ASSUME NEW p, NEW q, NEW s, Keeps(p, q), Keeps(q, s)  PROVE Keeps(p, s)
BY DEF Keeps

LEMMA KeepsItself ==
    ASSUME NEW p, IsConf(p)  PROVE Keeps(p, p)
BY DEF Keeps

LEMMA RequiresKeeps ==
    ASSUME NEW p, IsConf(p), NEW c
    PROVE  Keeps(p, Requires(p, c)) /\ (Requires(p, c).ok => c)
BY DEF Keeps, IsConf, Fields, Requires

LEMMA NewIsConf ==
    ASSUME NEW s
    PROVE  /\ IsConf(NewPipelineConfig(s)) /\ NewPipelineConfig(s).files = {}
           /\ IsConf(Fails(NewPipelineConfig(s))) /\ Fails(NewPipelineConfig(s)).files = {}
BY DEF IsConf, Fields, NewPipelineConfig, Fails

LEMMA RenderedKeeps ==
    ASSUME NEW p, IsConf(p), NEW r  PROVE Keeps(p, Rendered(p, r))
<1> DEFINE q == [p EXCEPT !.audio = r.audio, !.transcoding = r.audio,
                          !.video = r.video, !.decoding = r.video,
                          !.videoIn = IF r.video THEN "rawvideo" ELSE @]
<1>1. Keeps(p, q)
  BY DEF Keeps, IsConf, Fields
<1>2. Rendered(p, r) = Requires(q, r.audio \/ r.video)
  BY DEF Rendered
<1> HIDE DEF q
<1>3. QED  BY <1>1, <1>2, RequiresKeeps, KeepsOn DEF Keeps

LEMMA ApplyTemplateKeeps ==
    ASSUME NEW p, IsConf(p), NEW r  PROVE Keeps(p, ApplyTemplate(p, r))
<1> DEFINE q == [p EXCEPT !.source = TemplateSource(p, r),
                          !.compositing = UsesTemplateSDKCompositing(p.templateSDK, r) /\ r.video]
<1>1. Keeps(p, q)
  BY DEF Keeps, IsConf, Fields
<1>2. ApplyTemplate(p, r) = Rendered(q, r)
  BY DEF ApplyTemplate
<1> HIDE DEF q
<1>3. QED  BY <1>1, <1>2, RenderedKeeps, KeepsOn DEF Keeps

LEMMA ApplyWebKeeps ==
    ASSUME NEW p, IsConf(p), NEW r  PROVE Keeps(p, ApplyWeb(p, r))
<1> DEFINE q == [p EXCEPT !.source = "web"]
<1>1. Keeps(p, q)
  BY DEF Keeps, IsConf, Fields
<1>2. ApplyWeb(p, r) = Rendered(q, r)
  BY DEF ApplyWeb
<1> HIDE DEF q
<1>3. QED  BY <1>1, <1>2, RenderedKeeps, KeepsOn DEF Keeps

LEMMA ApplyTracksKeeps ==
    ASSUME NEW p, IsConf(p), NEW r  PROVE Keeps(p, ApplyTracks(p, r))
<1> DEFINE q == [p EXCEPT !.source = "sdk", !.audio = r.audio, !.transcoding = r.audio,
                          !.video = r.video, !.decoding = r.video]
<1>1. Keeps(p, q)
  BY DEF Keeps, IsConf, Fields
<1>2. ApplyTracks(p, r) = Requires(q, r.audio \/ r.video)
  BY DEF ApplyTracks
<1> HIDE DEF q
<1>3. QED  BY <1>1, <1>2, RequiresKeeps, KeepsOn DEF Keeps

LEMMA ApplyMediaKeeps ==
    ASSUME NEW p, IsConf(p), NEW r  PROVE Keeps(p, ApplyMedia(p, r))
<1> DEFINE seen == [p EXCEPT !.source = "sdk", !.video = r.pick # "",
                             !.decoding = \/ r.pick = "track" /\ ~p.passthrough
                                          \/ r.pick = "participant"]
           audible == [seen EXCEPT !.audio = TRUE, !.transcoding = ~seen.passthrough]
           heard == applyMediaAudio(seen, r.routes)
<1>1. Keeps(p, seen)
  BY DEF Keeps, IsConf, Fields
<1>2. ApplyMedia(p, r) = Requires(heard, heard.audio \/ heard.video)
  BY DEF ApplyMedia
<1>3. heard = IF r.routes = <<>> THEN seen ELSE Requires(audible, Captures(r.routes))
  BY DEF applyMediaAudio
<1> HIDE DEF seen, heard
<1>4. Keeps(seen, audible)
  BY <1>1 DEF Keeps, IsConf, Fields
<1> HIDE DEF audible
<1>5. Keeps(seen, heard)
  <2>1. CASE r.routes = <<>>
    BY <1>1, <1>3, <2>1, KeepsItself DEF Keeps
  <2>2. CASE r.routes # <<>>
    BY <1>3, <1>4, <2>2, RequiresKeeps, KeepsOn DEF Keeps
  <2>3. QED  BY <2>1, <2>2
<1>6. Keeps(heard, ApplyMedia(p, r))
  BY <1>2, <1>5, RequiresKeeps DEF Keeps
<1>7. QED  BY <1>1, <1>5, <1>6, KeepsOn

LEMMA applyEncodingKeeps ==
    ASSUME NEW p, IsConf(p), NEW r  PROVE Keeps(p, applyEncoding(p, r))
<1> DEFINE q == [p EXCEPT !.passthrough = TRUE]
           s == [p EXCEPT !.audioOut = r.encoding]
           c == r.width >= 16 /\ r.height >= 16 /\ r.width % 2 = 0 /\ r.height % 2 = 0
<1>1. Keeps(p, q) /\ Keeps(p, s)
  BY DEF Keeps, IsConf, Fields
<1>2. applyEncoding(p, r) = IF r.encoding = "passthrough" THEN q ELSE Requires(s, c)
  BY DEF applyEncoding
<1> HIDE DEF q, s, c
<1>3. QED  BY <1>1, <1>2, RequiresKeeps, KeepsOn DEF Keeps

LEMMA applyPassthroughKeeps ==
    ASSUME NEW p, IsConf(p), NEW r  PROVE Keeps(p, applyPassthrough(p, r))
<1> DEFINE q == [p EXCEPT !.passthrough = FALSE]
           mcap == \E o \in ToSet(r.outputs) : o.kind = "file" /\ o.format = "mcap"
<1>1. Keeps(p, q)
  BY DEF Keeps, IsConf, Fields
<1>2. applyPassthrough(p, r) = IF ~p.passthrough THEN p
                               ELSE IF mcap THEN q ELSE Requires(p, validatePassthrough(r))
  BY DEF applyPassthrough
<1> HIDE DEF q, mcap
<1>3. QED  BY <1>1, <1>2, RequiresKeeps, KeepsItself DEF Keeps

LEMMA ApplySourceKeeps ==
    ASSUME NEW p, IsConf(p), NEW r, r.type \in RequestTypes  PROVE Keeps(p, ApplySource(p, r))
<1> DEFINE e == applyEncoding(p, r)
           e2 == applyPassthrough(e, r)
           track == [p EXCEPT !.source = "sdk", !.passthrough = TRUE]
<1>1. Keeps(p, track)
  BY DEF Keeps, IsConf, Fields
<1>2. Keeps(p, e) /\ Keeps(p, e2)
  BY applyEncodingKeeps, applyPassthroughKeeps, KeepsOn DEF Keeps
<1>3. Keeps(p, applyEncoding(ApplyTemplate(p, r), r)) /\ Keeps(p, applyEncoding(ApplyWeb(p, r), r))
      /\ Keeps(p, applyEncoding(ApplyTracks(p, r), r))
  BY ApplyTemplateKeeps, ApplyWebKeeps, ApplyTracksKeeps, applyEncodingKeeps, KeepsOn DEF Keeps
<1>4. Keeps(p, ApplyTemplate(e2, r)) /\ Keeps(p, ApplyWeb(e2, r)) /\ Keeps(p, ApplyMedia(e2, r))
  BY <1>2, ApplyTemplateKeeps, ApplyWebKeeps, ApplyMediaKeeps, KeepsOn DEF Keeps
<1>5. ApplySource(p, r) \in {applyEncoding(ApplyTemplate(p, r), r), applyEncoding(ApplyWeb(p, r), r),
            applyEncoding(ApplyTracks(p, r), r), track, ApplyTemplate(e2, r), ApplyWeb(e2, r),
            ApplyMedia(e2, r)}
  BY DEF ApplySource, RequestTypes, V2
<1>6. QED  BY <1>1, <1>3, <1>4, <1>5, Zenon

\* The names of the media files an operator adds are names of an output it was given, and
\* it refuses an output that may not be retried.
NamesFrom(q, a) ==
    \A name \in q.files : \E o \in AnOutput :
        name \in MediaNames(o, a) /\ (q.ok => Retryable(o, a))

LEMMA KeepsNames ==
    ASSUME NEW p, NEW q, NEW a, Keeps(p, q), NamesFrom(p, a)  PROVE NamesFrom(q, a)
BY DEF Keeps, NamesFrom

LEMMA AddFileKeeps ==
    ASSUME NEW p, IsConf(p), NEW o  PROVE Keeps(p, AddFile(p, o))
<1> DEFINE q == [p EXCEPT !.file = o.format, !.count = @ + 1, !.encoding = Encodes(p)]
<1>1. Keeps(p, q)
  BY DEF Keeps, IsConf, Fields
<1>2. AddFile(p, o) = Requires(q, p.file = NoOutput)
  BY DEF AddFile
<1> HIDE DEF q
<1>3. QED  BY <1>1, <1>2, RequiresKeeps, KeepsOn DEF Keeps

LEMMA AddSegmentsKeeps ==
    ASSUME NEW p, IsConf(p), NEW o  PROVE Keeps(p, AddSegments(p, o))
<1> DEFINE q == [p EXCEPT !.segments = "hls", !.count = @ + 1, !.encoding = Encodes(p)]
<1>1. Keeps(p, q)
  BY DEF Keeps, IsConf, Fields
<1>2. AddSegments(p, o) = Requires(q, p.segments = NoOutput)
  BY DEF AddSegments
<1> HIDE DEF q
<1>3. QED  BY <1>1, <1>2, RequiresKeeps, KeepsOn DEF Keeps

LEMMA AddImagesKeeps ==
    ASSUME NEW p, IsConf(p), NEW o  PROVE Keeps(p, AddImages(p, o))
<1> DEFINE q == [p EXCEPT !.images = @ + 1, !.count = @ + 1]
<1>1. Keeps(p, q)
  BY DEF Keeps, IsConf, Fields
<1>2. AddImages(p, o) = Requires(q, p.video)
  BY DEF AddImages
<1> HIDE DEF q
<1>3. QED  BY <1>1, <1>2, RequiresKeeps, KeepsOn DEF Keeps

LEMMA getStreamConfigKeeps ==
    ASSUME NEW p, IsConf(p), NEW type  PROVE Keeps(p, getStreamConfig(p, type))
<1>1. Keeps(p, [p EXCEPT !.audioOut = "aac", !.videoOut = "h264"])
      /\ Keeps(p, [p EXCEPT !.audioOut = "raw"])
  BY DEF Keeps, IsConf, Fields
<1>2. getStreamConfig(p, type) \in {[p EXCEPT !.audioOut = "aac", !.videoOut = "h264"],
                                    [p EXCEPT !.audioOut = "raw"], p}
  BY DEF getStreamConfig
<1>3. QED  BY <1>1, <1>2, KeepsItself, Zenon

LEMMA AddStreamKeeps ==
    ASSUME NEW p, IsConf(p), NEW o  PROVE Keeps(p, AddStream(p, o))
<1> DEFINE type == StreamType(p, o)
           ws == IsV2(p) /\ type = "raw"
           silent == [p EXCEPT !.video = FALSE, !.decoding = FALSE]
           quiet == IF ws /\ p.video /\ p.audio THEN silent ELSE p
           sent == getStreamConfig(quiet, type)
           added == [sent EXCEPT
                        !.websocket = IF ws THEN type ELSE @,
                        !.stream = IF ws THEN @ ELSE type,
                        !.count = IF o.scheme = "" THEN @ ELSE @ + 1,
                        !.encoding = Encodes(quiet)]
           c == /\ type # "invalid" /\ ValidateUrl(o, type)
                /\ p.stream = NoOutput /\ p.websocket = NoOutput
<1>1. AddStream(p, o) = Requires(added, c)
  BY DEF AddStream
<1>2. Keeps(p, silent)
  BY DEF Keeps, IsConf, Fields
<1>3. Keeps(p, quiet)
  <2> HIDE DEF silent, ws
  <2>1. QED  BY <1>2, KeepsItself
<1> HIDE DEF quiet, ws, type, c
<1>4. Keeps(p, sent)
  BY <1>3, getStreamConfigKeeps, KeepsOn DEF Keeps
<1> HIDE DEF sent
<1>5. Keeps(sent, added)
  BY <1>4 DEF Keeps, IsConf, Fields
<1> HIDE DEF added
<1>6. QED  BY <1>1, <1>4, <1>5, RequiresKeeps, KeepsOn DEF Keeps

LEMMA AddOutputNames ==
    ASSUME NEW p, IsConf(p), NEW o \in AnOutput, NEW a, NamesFrom(p, a)
    PROVE  IsConf(AddOutput(p, o, a)) /\ NamesFrom(AddOutput(p, o, a), a)
<1> DEFINE added == CASE o.kind = "file"     -> AddFile(p, o)
                      [] o.kind = "stream"   -> AddStream(p, o)
                      [] o.kind = "segments" -> AddSegments(p, o)
                      [] o.kind = "images"   -> AddImages(p, o)
           named == [added EXCEPT !.files = @ \cup MediaNames(o, a)]
<1>1. AddOutput(p, o, a) = Requires(named, Retryable(o, a))
  BY DEF AddOutput
<1>2. added \in {AddFile(p, o), AddStream(p, o), AddSegments(p, o), AddImages(p, o)}
  BY OutputIs
<1> HIDE DEF added
<1>3. Keeps(p, added)
  BY <1>2, AddFileKeeps, AddStreamKeeps, AddSegmentsKeeps, AddImagesKeeps, Zenon
<1>4. IsConf(named) /\ named.files = p.files \cup MediaNames(o, a) /\ (named.ok => p.ok)
  BY <1>3 DEF Keeps, IsConf, Fields
<1> HIDE DEF named
<1>5. Keeps(named, AddOutput(p, o, a)) /\ (AddOutput(p, o, a).ok => Retryable(o, a))
  BY <1>1, <1>4, RequiresKeeps
<1>6. NamesFrom(AddOutput(p, o, a), a)
  <2> DEFINE q == AddOutput(p, o, a)
  <2>1. q.files = p.files \cup MediaNames(o, a) /\ (q.ok => p.ok) /\ (q.ok => Retryable(o, a))
    BY <1>4, <1>5 DEF Keeps
  <2> HIDE DEF q
  <2>2. ASSUME NEW name \in q.files
        PROVE  \E x \in AnOutput : name \in MediaNames(x, a) /\ (q.ok => Retryable(x, a))
    <3>1. CASE name \in p.files
      <4>1. PICK x \in AnOutput : name \in MediaNames(x, a) /\ (p.ok => Retryable(x, a))
        BY <3>1 DEF NamesFrom
      <4>2. QED  BY <2>1, <4>1
    <3>2. CASE name \in MediaNames(o, a)
      BY <2>1, <3>2
    <3>3. QED  BY <2>1, <2>2, <3>1, <3>2
  <2>3. NamesFrom(q, a)
    BY <2>2 DEF NamesFrom
  <2>4. QED  BY <2>3 DEF q
<1>7. QED  BY <1>5, <1>6 DEF Keeps

\* Induction over the subsets of a finite set: a set of them that holds every one whose
\* smaller neighbours it holds, holds all.
LEMMA BySmaller ==
    ASSUME NEW S, IsFiniteSet(S), NEW P,
           \A T \in SUBSET S : (\A x \in T : T \ {x} \in P) => T \in P
    PROVE  \A T \in SUBSET S : T \in P
<1> DEFINE B == {T \in SUBSET S : T \notin P}
<1>1. SUFFICES ASSUME B # {} PROVE FALSE
  OBVIOUS
<1>2. B \subseteq FiniteSubsetsOf(S)
  BY FS_Subset DEF FiniteSubsetsOf
<1>3. PICK T \in B : \A U \in B : <<U, T>> \notin StrictSubsetOrdering(S)
  BY <1>1, <1>2, FS_StrictSubsetOrderingWellFounded, WFMin
<1>4. ASSUME NEW x \in T PROVE T \ {x} \in P
  <2>1. T \ {x} \in SUBSET S /\ T \in SUBSET S /\ T \ {x} # T
    OBVIOUS
  <2>2. <<T \ {x}, T>> \in StrictSubsetOrdering(S)
    <3> DEFINE U == T \ {x}
    <3>1. U \subseteq T /\ U # T /\ U \in SUBSET S /\ T \in SUBSET S
      BY <2>1
    <3> HIDE DEF U
    <3>2. <<U, T>> \in StrictSubsetOrdering(S)
      BY <3>1 DEF StrictSubsetOrdering
    <3> QED BY <3>2 DEF U
  <2>3. T \ {x} \notin B
    BY <1>3, <2>2
  <2> QED BY <2>1, <2>3
<1>5. QED
  BY <1>3, <1>4

\* A finite set of naturals that is not empty has a largest element.
LEMMA MaxIn ==
    ASSUME NEW n \in Nat, NEW s \in SUBSET (1..n), s # {}
    PROVE  Max(s) \in s
<1> DEFINE P == {T \in SUBSET (1..n) : T # {} => \E x \in T : \A y \in T : x >= y}
<1>1. ASSUME NEW T \in SUBSET (1..n), \A x \in T : T \ {x} \in P  PROVE T \in P
  <2>1. SUFFICES ASSUME T # {}  PROVE \E x \in T : \A y \in T : x >= y
    OBVIOUS
  <2>2. PICK z \in T : TRUE
    BY <2>1
  <2>3. T \ {z} \in P
    BY <1>1
  <2>4. CASE T \ {z} = {}
    <3>1. \A y \in T : y = z
      BY <2>4
    <3>2. QED  BY <2>2, <3>1
  <2>5. CASE T \ {z} # {}
    <3>1. PICK x \in T \ {z} : \A y \in T \ {z} : x >= y
      BY <2>3, <2>5
    <3>2. x \in Int /\ z \in Int /\ \A y \in T : y \in Int
      OBVIOUS
    <3>3. CASE x >= z
      BY <3>1, <3>2, <3>3
    <3>4. CASE ~(x >= z)
      <4>1. \A y \in T : z >= y
        BY <3>1, <3>2, <3>4
      <4>2. QED  BY <4>1
    <3>5. QED  BY <3>3, <3>4
  <2>6. QED  BY <2>4, <2>5
<1>2. IsFiniteSet(1..n)
  BY FS_Interval
<1> HIDE DEF P
<1>3. s \in P
  BY <1>1, <1>2, BySmaller
<1>4. PICK x \in s : \A y \in s : x >= y
  BY <1>3 DEF P
<1>5. QED  BY <1>4 DEF Max

\* What one element adds to a fold, for the folds of the model: an output is added
\* (updateOutputs), a track is kept (OnlyIn) or takes its place (stabilize).
Step(how, with, x, y) ==
    CASE how = "add"   -> AddOutput(x, y, with)
      [] how = "keep"  -> IF y \in with THEN Append(x, y) ELSE x
      [] how = "place" -> TakesPlace(x, with, y)

\* The recursive function behind a FoldLeft, with one more turn for each set of indices.
Turn(iter, how, with, base, seq, s) ==
    IF s = {} THEN base ELSE Step(how, with, iter[s \ {Max(s)}], seq[Max(s)])

Folded(how, with, base, seq) ==
    CHOOSE iter : iter = [s \in SUBSET (DOMAIN seq) |-> Turn(iter, how, with, base, seq, s)]

LEMMA FoldIsAdding ==
    ASSUME NEW p, NEW outs, NEW a
    PROVE  FoldLeft(LAMBDA q, o : AddOutput(q, o, a), p, outs) = Folded("add", a, p, outs)[DOMAIN outs]
BY DEF FoldLeft, MapThenFoldSet, Folded, Turn, Step

LEMMA FoldIsKeeping ==
    ASSUME NEW seq, NEW S
    PROVE  OnlyIn(seq, S) = Folded("keep", S, <<>>, seq)[DOMAIN seq]
BY DEF OnlyIn, FoldLeft, MapThenFoldSet, Folded, Turn, Step

LEMMA FoldIsPlacing ==
    ASSUME NEW current, NEW onPage
    PROVE  FoldLeft(LAMBDA order, t : TakesPlace(order, onPage, t), current, onPage)
               = Folded("place", onPage, current, onPage)[DOMAIN onPage]
BY DEF FoldLeft, MapThenFoldSet, Folded, Turn, Step

\* A part of it, on the sets with at most n elements.
Upto(S, n) == {s \in SUBSET S : Cardinality(s) <= n}
IsPart(g, how, with, base, seq, n) ==
    g = [s \in Upto(DOMAIN seq, n) |-> Turn(g, how, with, base, seq, s)]

LEMMA PartGrows ==
    ASSUME NEW how, NEW with, NEW base, NEW E, NEW seq \in Seq(E), NEW n \in Nat, NEW g, IsPart(g, how, with, base, seq, n)
    PROVE  \E h : IsPart(h, how, with, base, seq, n + 1)
<1> DEFINE S == DOMAIN seq
           h == [s \in Upto(S, n + 1) |-> Turn(g, how, with, base, seq, s)]
<1>0. S = 1..Len(seq) /\ Len(seq) \in Nat /\ IsFiniteSet(S)
  BY LenProperties, FS_Interval
<1> HIDE DEF S
<1>1. \A s \in Upto(S, n) : g[s] = Turn(g, how, with, base, seq, s)
  BY DEF IsPart, S
<1>2. ASSUME NEW s \in Upto(S, n + 1), s # {}
      PROVE  s \ {Max(s)} \in Upto(S, n)
  <2>1. s \in SUBSET S /\ IsFiniteSet(s) /\ Cardinality(s) <= n + 1 /\ Cardinality(s) \in Nat
    BY <1>0, FS_Subset, FS_CardinalityType DEF Upto
  <2>2. Max(s) \in s
    BY <1>0, <1>2, <2>1, MaxIn
  <2>3. Cardinality(s \ {Max(s)}) = Cardinality(s) - 1
    BY <2>1, <2>2, FS_RemoveElement
  <2> QED BY <2>1, <2>3 DEF Upto
<1>3. \A s \in Upto(S, n) : s \in Upto(S, n + 1)
  <2>1. ASSUME NEW s \in SUBSET S, Cardinality(s) <= n PROVE Cardinality(s) <= n + 1
    <3>1. Cardinality(s) \in Nat
      BY <1>0, FS_Subset, FS_CardinalityType
    <3> QED BY <2>1, <3>1
  <2> QED BY <2>1 DEF Upto
<1>4. \A s \in Upto(S, n) : h[s] = g[s]
  BY <1>1, <1>3
<1>5. \A s \in Upto(S, n + 1) : h[s] = Turn(h, how, with, base, seq, s)
  BY <1>2, <1>4 DEF Turn
<1>6. h = [s \in Upto(S, n + 1) |-> Turn(h, how, with, base, seq, s)]
  BY <1>5
<1> HIDE DEF h
<1> QED BY <1>6 DEF IsPart, S

LEMMA PartExists ==
    ASSUME NEW how, NEW with, NEW base, NEW E, NEW seq \in Seq(E)
    PROVE  \E g : IsPart(g, how, with, base, seq, Cardinality(DOMAIN seq))
<1> DEFINE S == DOMAIN seq
           P == {T \in SUBSET S : \E g : IsPart(g, how, with, base, seq, Cardinality(T))}
<1>0. IsFiniteSet(S)
  BY LenProperties, FS_Interval
<1> HIDE DEF S
<1>1. ASSUME NEW T \in SUBSET S, \A x \in T : T \ {x} \in P PROVE T \in P
  <2>1. CASE T = {}
    <3> DEFINE z == [s \in Upto(S, 0) |-> base]
    <3>1. \A s \in Upto(S, 0) : s = {}
      <4> SUFFICES ASSUME NEW s \in SUBSET S, Cardinality(s) <= 0 PROVE s = {}
        BY DEF Upto
      <4>1. IsFiniteSet(s) /\ Cardinality(s) \in Nat
        BY <1>0, FS_Subset, FS_CardinalityType
      <4>2. Cardinality(s) = 0
        BY <4>1
      <4> QED BY <4>1, <4>2, FS_EmptySet
    <3>2. IsPart(z, how, with, base, seq, 0)
      BY <3>1 DEF IsPart, Turn, S
    <3> HIDE DEF z
    <3>3. Cardinality(T) = 0
      BY <2>1, FS_EmptySet
    <3> QED BY <3>2, <3>3
  <2>2. CASE T # {}
    <3>1. PICK x \in T : T \ {x} \in P
      BY <1>1, <2>2
    <3>2. PICK g : IsPart(g, how, with, base, seq, Cardinality(T \ {x}))
      BY <3>1
    <3>3. IsFiniteSet(T) /\ IsFiniteSet(T \ {x})
      BY <1>0, FS_Subset
    <3>4. Cardinality(T \ {x}) \in Nat /\ Cardinality(T) \in Nat
      BY <3>3, FS_CardinalityType
    <3>5. Cardinality(T) = Cardinality(T \ {x}) + 1
      BY <3>3, <3>4, FS_RemoveElement
    <3>6. \E h : IsPart(h, how, with, base, seq, Cardinality(T))
      BY <3>2, <3>4, <3>5, PartGrows
    <3> QED BY <3>6
  <2> QED BY <2>1, <2>2
<1>2. S \in P
  <2> HIDE DEF P
  <2> QED BY <1>0, <1>1, BySmaller, S \in SUBSET S
<1> QED BY <1>2 DEF S

LEMMA FoldTurns ==
    ASSUME NEW how, NEW with, NEW base, NEW E, NEW seq \in Seq(E)
    PROVE  \A s \in SUBSET (DOMAIN seq) : Folded(how, with, base, seq)[s] = Turn(Folded(how, with, base, seq), how, with, base, seq, s)
<1>1. PICK g : IsPart(g, how, with, base, seq, Cardinality(DOMAIN seq))
  BY PartExists
<1>2. Upto(DOMAIN seq, Cardinality(DOMAIN seq)) = SUBSET (DOMAIN seq)
  <2>1. IsFiniteSet(DOMAIN seq)
    BY LenProperties, FS_Interval
  <2> QED BY <2>1, FS_Subset DEF Upto
<1>3. g = [s \in SUBSET (DOMAIN seq) |-> Turn(g, how, with, base, seq, s)]
  BY <1>1, <1>2 DEF IsPart
<1> DEFINE f == Folded(how, with, base, seq)
<1>4. f = [s \in SUBSET (DOMAIN seq) |-> Turn(f, how, with, base, seq, s)]
  BY <1>3 DEF Folded
<1> HIDE DEF f
<1>5. \A s \in SUBSET (DOMAIN seq) : f[s] = Turn(f, how, with, base, seq, s)
  BY <1>4
<1> QED BY <1>5 DEF f

\* Adding outputs one by one.
LEMMA AddingNames ==
    ASSUME NEW p, IsConf(p), NEW a, NamesFrom(p, a), NEW outs \in Seq(AnOutput)
    PROVE  LET q == FoldLeft(LAMBDA x, o : AddOutput(x, o, a), p, outs)
           IN IsConf(q) /\ NamesFrom(q, a)
<1> DEFINE S == DOMAIN outs
           f == Folded("add", a, p, outs)
           P == {T \in SUBSET S : IsConf(f[T]) /\ NamesFrom(f[T], a)}
<1>0. S = 1..Len(outs) /\ Len(outs) \in Nat /\ IsFiniteSet(S)
  BY LenProperties, FS_Interval
<1>1. \A T \in SUBSET S : f[T] = Turn(f, "add", a, p, outs, T)
  BY FoldTurns, Zenon
<1> HIDE DEF S, f
<1>2. ASSUME NEW T \in SUBSET S, \A x \in T : T \ {x} \in P  PROVE T \in P
  <2>1. CASE T = {}
    <3>1. f[T] = p
      BY <1>1, <2>1 DEF Turn
    <3>2. QED  BY <3>1
  <2>2. CASE T # {}
    <3>1. Max(T) \in T
      BY <1>0, <2>2, MaxIn
    <3> DEFINE q == f[T \ {Max(T)}]
               o == outs[Max(T)]
    <3>2. f[T] = AddOutput(q, o, a)
      BY <1>1, <2>2 DEF Turn, Step
    <3>3. IsConf(q) /\ NamesFrom(q, a)
      BY <1>2, <3>1
    <3>4. o \in AnOutput
      BY <1>0, <3>1, ElementOfSeq
    <3> HIDE DEF q, o
    <3>5. IsConf(f[T]) /\ NamesFrom(f[T], a)
      BY <3>2, <3>3, <3>4, AddOutputNames
    <3>6. QED  BY <3>5
  <2>3. QED  BY <2>1, <2>2
<1>3. S \in P
  <2>1. \A T \in SUBSET S : (\A x \in T : T \ {x} \in P) => T \in P
    BY <1>2
  <2> HIDE DEF P
  <2>2. S \in SUBSET S /\ IsFiniteSet(S)
    BY <1>0
  <2> QED BY <2>1, <2>2, BySmaller
<1>4. FoldLeft(LAMBDA x, o : AddOutput(x, o, a), p, outs) = f[S]
  BY FoldIsAdding DEF f, S
<1>5. QED  BY <1>3, <1>4

LEMMA updateOutputsNames ==
    ASSUME NEW p, IsConf(p), NEW a, NamesFrom(p, a), NEW r, r.outputs \in Seq(AnOutput)
    PROVE  IsConf(updateOutputs(p, r, a)) /\ NamesFrom(updateOutputs(p, r, a), a)
<1> DEFINE added == FoldLeft(LAMBDA q, o : AddOutput(q, o, a), p, r.outputs)
           mute == [added EXCEPT !.audio = FALSE, !.transcoding = FALSE]
           seen == ImagesOnly(added)
<1>1. IsConf(added) /\ NamesFrom(added, a)
  BY AddingNames
<1>2. updateOutputs(p, r, a) = Requires(seen, added.count > 0)
  BY DEF updateOutputs
<1> HIDE DEF added
<1>3. Keeps(added, mute)
  BY <1>1 DEF Keeps, IsConf, Fields
<1>4. seen \in {mute, added}
  BY DEF ImagesOnly
<1> HIDE DEF seen, mute
<1>5. Keeps(added, seen)
  BY <1>1, <1>3, <1>4, KeepsItself, Zenon
<1>6. Keeps(seen, updateOutputs(p, r, a))
  BY <1>2, <1>5, RequiresKeeps DEF Keeps
<1>7. Keeps(added, updateOutputs(p, r, a))
  BY <1>5, <1>6, KeepsOn
<1>8. QED  BY <1>1, <1>7, KeepsNames DEF Keeps

LEMMA updateDirectOutputNames ==
    ASSUME NEW p, IsConf(p), NEW a, p.files = {}, NEW o \in AnOutput
    PROVE  IsConf(updateDirectOutput(p, o, a)) /\ NamesFrom(updateDirectOutput(p, o, a), a)
<1> DEFINE q == [p EXCEPT !.file = "unknown", !.count = 1, !.files = MediaNames(o, a)]
           raw == getStreamConfig(p, "raw")
           sent == [raw EXCEPT !.websocket = "raw", !.count = 1]
           direct == updateDirectOutput(p, o, a)
<1>1. CASE o.kind = "file"
  <2>1. direct = Requires(q, Retryable(o, a))
    BY <1>1 DEF updateDirectOutput
  <2>2. IsConf(q) /\ q.files = MediaNames(o, a)
    BY DEF IsConf, Fields
  <2> HIDE DEF q, direct
  <2>3. Keeps(q, direct) /\ (direct.ok => Retryable(o, a))
    BY <2>1, <2>2, RequiresKeeps
  <2>4. NamesFrom(direct, a)
    BY <2>2, <2>3 DEF NamesFrom, Keeps
  <2>5. QED  BY <2>3, <2>4 DEF Keeps, direct
<1>2. CASE o.kind # "file"
  <2>1. direct = Requires(sent, o.scheme # "" /\ ValidateUrl(o, "raw"))
    BY <1>2 DEF updateDirectOutput
  <2>2. Keeps(p, raw)
    BY getStreamConfigKeeps
  <2> HIDE DEF raw
  <2>3. Keeps(raw, sent)
    BY <2>2 DEF Keeps, IsConf, Fields
  <2> HIDE DEF sent, direct
  <2>4. Keeps(sent, direct)
    BY <2>1, <2>3, RequiresKeeps DEF Keeps
  <2>5. IsConf(direct) /\ direct.files = {}
    BY <2>2, <2>3, <2>4 DEF Keeps
  <2>6. NamesFrom(direct, a)
    BY <2>5 DEF NamesFrom
  <2>7. QED  BY <2>5, <2>6 DEF direct
<1>3. QED  BY <1>1, <1>2

LEMMA updateOutputTypeKeeps ==
    ASSUME NEW p, IsConf(p)  PROVE Keeps(p, updateOutputType(p))
<1> DEFINE audio == IF p.audio THEN AudioCodecs(p) ELSE {}
           video == IF p.video THEN VideoCodecs(p) ELSE {}
           found == FirstCompatible(IF p.video THEN VideoFileOutputTypes
                                    ELSE AudioOnlyFileOutputTypes, audio, video)
           q == [p EXCEPT !.file = found]
<1>1. updateOutputType(p) = IF p.file # "unknown" THEN p ELSE Requires(q, found # "unknown")
  BY DEF updateOutputType
<1> HIDE DEF found
<1>2. Keeps(p, q)
  BY DEF Keeps, IsConf, Fields
<1> HIDE DEF q
<1>3. QED  BY <1>1, <1>2, RequiresKeeps, KeepsItself, KeepsOn DEF Keeps

LEMMA validateAndUpdateKeeps ==
    ASSUME NEW p, IsConf(p), NEW q \in validateAndUpdateOutputParams(p)  PROVE Keeps(p, q)
<1> DEFINE audio == IF p.audio THEN AudioCodecs(p) ELSE {}
           video == IF p.video THEN VideoCodecs(p) ELSE {}
           c == (~p.audio \/ audio # {}) /\ (~p.video \/ video # {})
           typed == Requires(updateOutputType(p), c)
           outs == GetEncodedOutputs(typed)
           codecs == [audio : IF p.audio
                              THEN CodecChoices(p.audioOut, audio, DefaultAudioCodecs, outs)
                              ELSE {p.audioOut},
                      video : IF p.video
                              THEN CodecChoices(p.videoOut, video, DefaultVideoCodecs, outs)
                              ELSE {p.videoOut}]
           chosen == {[typed EXCEPT !.audioOut = x.audio, !.videoOut = x.video] : x \in codecs}
<1>5. validateAndUpdateOutputParams(p) = IF ~typed.ok THEN {typed} ELSE chosen
  BY Zenon DEF validateAndUpdateOutputParams
<1> HIDE DEF codecs, c
<1>1. q = typed \/ \E x, y : q = [typed EXCEPT !.audioOut = x, !.videoOut = y]
  <2> HIDE DEF typed
  <2>1. \A z \in chosen : \E x, y : z = [typed EXCEPT !.audioOut = x, !.videoOut = y]
    BY Zenon
  <2> HIDE DEF chosen
  <2> QED BY <1>5, <2>1
<1>2. Keeps(p, typed)
  BY updateOutputTypeKeeps, RequiresKeeps, KeepsOn DEF Keeps
<1> HIDE DEF typed
<1>3. ASSUME NEW x, NEW y  PROVE Keeps(typed, [typed EXCEPT !.audioOut = x, !.videoOut = y])
  BY <1>2 DEF Keeps, IsConf, Fields
<1>4. QED  BY <1>1, <1>2, <1>3, KeepsOn, Zenon

LEMMA UpdateNames ==
    ASSUME NEW r \in Requests, NEW s, NEW a, NEW q \in Update(s, r, a)
    PROVE  IsConf(q) /\ \A name \in q.files : \E o \in AnOutput :
               name \in MediaNames(o, a) /\ Retryable(o, a)
<1> DEFINE new == NewPipelineConfig(s)
           begun == [new EXCEPT !.type = r.type]
           sourced == ApplySource(begun, r)
           added == CASE r.type = "track" -> updateDirectOutput(sourced, r.outputs[1], a)
                      [] OTHER            -> updateOutputs(sourced, r, a)
           c == /\ validateTrackPreserving(added, r)
                /\ added.passthrough => r.type \in {"track", "media"}
                /\ r.token \/ r.type \in {"web", "v2web"}
           valid == Requires(added, c)
           none == Fails(NewPipelineConfig(s))
<1>1. q = none \/ (q = valid /\ valid.ok)
        \/ (valid.ok /\ \E x \in validateAndUpdateOutputParams(valid) : q = IF x.ok THEN x ELSE none)
  BY Zenon DEF Update
<1>2. r.type \in RequestTypes /\ r.outputs \in Seq(AnOutput)
      /\ (r.type = "track" => r.outputs # <<>>)
  BY RequestIs
<1>3. IsConf(begun) /\ begun.files = {}
  BY NewIsConf DEF IsConf, Fields
<1> HIDE DEF begun, c
<1>4. IsConf(sourced) /\ sourced.files = {}
  BY <1>2, <1>3, ApplySourceKeeps DEF Keeps
<1> HIDE DEF sourced
<1>5. IsConf(added) /\ NamesFrom(added, a)
  <2>1. CASE r.type = "track"
    <3>1. r.outputs[1] \in AnOutput
      BY <1>2, <2>1, ElementOfSeq, LenProperties, EmptySeq
    <3>2. added = updateDirectOutput(sourced, r.outputs[1], a)
      BY <2>1
    <3>3. QED  BY <1>4, <3>1, <3>2, updateDirectOutputNames
  <2>2. CASE r.type # "track"
    <3>1. added = updateOutputs(sourced, r, a)
      BY <2>2
    <3>2. NamesFrom(sourced, a)
      BY <1>4 DEF NamesFrom
    <3>3. QED  BY <1>2, <1>4, <3>1, <3>2, updateOutputsNames
  <2>3. QED  BY <2>1, <2>2
<1> HIDE DEF added
<1>6. IsConf(valid) /\ NamesFrom(valid, a)
  BY <1>5, RequiresKeeps, KeepsNames DEF Keeps
<1> HIDE DEF valid
<1>7. CASE q = none
  BY <1>7, NewIsConf
<1>8. CASE valid.ok /\ Keeps(valid, q)
  BY <1>6, <1>8 DEF Keeps, NamesFrom
<1>9. q = none \/ (valid.ok /\ Keeps(valid, q))
  <2>1. Keeps(valid, valid)
    BY <1>6, KeepsItself
  <2>2. \A x \in validateAndUpdateOutputParams(valid) : Keeps(valid, x)
    BY <1>6, validateAndUpdateKeeps
  <2> HIDE DEF none
  <2>3. QED  BY <1>1, <2>1, <2>2, Zenon
<1>10. QED  BY <1>7, <1>8, <1>9

LEMMA SubscribedKeeps ==
    ASSUME NEW p, IsConf(p), NEW audio, NEW video
    PROVE  LET met == SeesTrack(HearsTrack(p, audio), video)
           IN Keeps(p, met) /\ Keeps(p, Remuxes(met, audio)) /\ Keeps(p, Remuxes(met, video))
<1> DEFINE hears == HearsTrack(p, audio)
           met == SeesTrack(hears, video)
<1>1. Keeps(p, hears)
  BY DEF HearsTrack, Keeps, IsConf, Fields
<1> HIDE DEF hears
<1>2. Keeps(hears, met)
  <2> DEFINE coded == IF hears.videoOut = "" THEN video ELSE hears.videoOut
             d == hears.decoding \/ video # coded
             e == hears.encoding \/ (video # coded /\ GetEncodedOutputs(hears) # <<>>)
             q == [hears EXCEPT !.video = TRUE, !.videoIn = video, !.videoOut = coded,
                                !.decoding = d, !.encoding = e]
  <2>1. met = IF video = "" THEN hears ELSE q
    BY DEF SeesTrack
  <2> HIDE DEF d, e, coded, met
  <2>2. Keeps(hears, q) /\ Keeps(hears, hears)
    BY <1>1 DEF Keeps, IsConf, Fields
  <2> HIDE DEF q
  <2>3. QED  BY <2>1, <2>2
<1> HIDE DEF met
<1>3. ASSUME NEW codec  PROVE Keeps(met, Remuxes(met, codec))
  BY <1>2 DEF Remuxes, Keeps, IsConf, Fields
<1>4. Keeps(p, met) /\ Keeps(p, Remuxes(met, audio)) /\ Keeps(p, Remuxes(met, video))
  BY <1>1, <1>2, <1>3, KeepsOn
<1>5. QED  BY <1>4 DEF met, hears

\* A name holds its attempt, or is the same in all of them.
OfAttempt(name, a) == \E kind, how : name = <<kind, how, a>>
OfAll(name) == \E kind, how : name = <<kind, how>>

LEMMA ConcatTwo ==
    ASSUME NEW x, NEW y, NEW z  PROVE <<x>> \o <<y, z>> = <<x, y, z>>
<1> DEFINE S == {x, y, z}
           s == <<x>>
           t == <<y, z>>
           u == <<x, y, z>>
<1>1. s \in Seq(S) /\ t \in Seq(S) /\ u \in Seq(S) /\ Len(s) = 1 /\ Len(t) = 2 /\ Len(u) = 3
      /\ s[1] = x /\ t[1] = y /\ t[2] = z /\ u[1] = x /\ u[2] = y /\ u[3] = z
  OBVIOUS
<1> HIDE DEF S, s, t, u
<1>2. /\ s \o t \in Seq(S) /\ Len(s \o t) = 3
      /\ (s \o t)[1] = s[1] /\ (s \o t)[2] = t[1] /\ (s \o t)[3] = t[2]
  <2>1. /\ s \o t \in Seq(S) /\ Len(s \o t) = Len(s) + Len(t)
        /\ \A i \in 1..(Len(s) + Len(t)) :
              (s \o t)[i] = IF i <= Len(s) THEN s[i] ELSE t[i - Len(s)]
    BY <1>1, ConcatProperties
  <2>2. Len(s) + Len(t) = 3 /\ 1 \in 1..3 /\ 2 \in 1..3 /\ 3 \in 1..3
    BY <1>1
  <2>3. \A i \in 1..3 : (s \o t)[i] = IF i <= 1 THEN s[i] ELSE t[i - 1]
    BY <1>1, <2>1, <2>2
  <2>4. QED  BY <2>1, <2>2, <2>3
<1>3. (s \o t)[1] = x /\ (s \o t)[2] = y /\ (s \o t)[3] = z
  BY <1>1, <1>2
<1>4. \A i \in 1..3 : (s \o t)[i] = u[i]
  <2>1. (s \o t)[1] = u[1] /\ (s \o t)[2] = u[2] /\ (s \o t)[3] = u[3]
    BY <1>1, <1>3
  <2>2. \A i \in 1..3 : i = 1 \/ i = 2 \/ i = 3
    OBVIOUS
  <2>3. QED  BY <2>1, <2>2, Zenon
<1>5. s \o t = u
  BY <1>1, <1>2, <1>4, SeqEqual
<1>6. QED  BY <1>5 DEF s, t, u

LEMMA ConcatOne ==
    ASSUME NEW x, NEW y  PROVE <<x>> \o <<y>> = <<x, y>>
<1> DEFINE S == {x, y}
           s == <<x>>
           t == <<y>>
           u == <<x, y>>
<1>1. s \in Seq(S) /\ t \in Seq(S) /\ u \in Seq(S) /\ Len(s) = 1 /\ Len(t) = 1 /\ Len(u) = 2
      /\ s[1] = x /\ t[1] = y /\ u[1] = x /\ u[2] = y
  OBVIOUS
<1> HIDE DEF S, s, t, u
<1>2. /\ s \o t \in Seq(S) /\ Len(s \o t) = 2
      /\ \A i \in 1..2 : (s \o t)[i] = IF i <= 1 THEN s[i] ELSE t[i - 1]
  BY <1>1, ConcatProperties
<1>3. (s \o t)[1] = x /\ (s \o t)[2] = y
  BY <1>1, <1>2
<1>4. \A i \in 1..2 : (s \o t)[i] = u[i]
  <2>1. (s \o t)[1] = u[1] /\ (s \o t)[2] = u[2]
    BY <1>1, <1>3
  <2>2. \A i \in 1..2 : i = 1 \/ i = 2
    OBVIOUS
  <2>3. QED  BY <2>1, <2>2, Zenon
<1>5. s \o t = u
  BY <1>1, <1>2, <1>4, SeqEqual
<1>6. QED  BY <1>5 DEF s, t, u

LEMMA NamedForm ==
    ASSUME NEW path \in {"", "directory", "fixed", "retry", "undone"}, NEW a \in Nat, NEW kind
    PROVE  /\ \/ OfAttempt(<<kind>> \o Named(path, a), a)
              \/ OfAll(<<kind>> \o Named(path, a))
           /\ path \notin {"fixed", "undone"} => OfAttempt(<<kind>> \o Named(path, a), a)
           /\ path = "undone" => (<<kind>> \o Named(path, a))[2] = "undone"
           /\ (<<kind>> \o Named(path, a))[1] = kind
<1>1. CASE path \in {"", "directory"}
  <2>1. Named(path, a) = <<"auto", a>>
    BY <1>1 DEF Named, MadeUp
  <2>2. <<kind>> \o Named(path, a) = <<kind, "auto", a>>
    BY <2>1, ConcatTwo, Zenon
  <2>3. OfAttempt(<<kind>> \o Named(path, a), a)
    BY <2>2, Zenon DEF OfAttempt
  <2>4. (<<kind>> \o Named(path, a))[1] = kind
    <3>1. <<kind, "auto", a>>[1] = kind
      OBVIOUS
    <3>2. QED  BY <2>2, <3>1, Zenon
  <2>5. QED  BY <1>1, <2>3, <2>4
<1>2. CASE path = "retry"
  <2>1. Named(path, a) = <<"retry", a>>
    BY <1>2 DEF Named
  <2>2. <<kind>> \o Named(path, a) = <<kind, "retry", a>>
    BY <2>1, ConcatTwo, Zenon
  <2>3. OfAttempt(<<kind>> \o Named(path, a), a)
    BY <2>2, Zenon DEF OfAttempt
  <2>4. (<<kind>> \o Named(path, a))[1] = kind
    <3>1. <<kind, "retry", a>>[1] = kind
      OBVIOUS
    <3>2. QED  BY <2>2, <3>1, Zenon
  <2>5. QED  BY <1>2, <2>3, <2>4
<1>3. CASE path \in {"fixed", "undone"}
  <2>1. Named(path, a) = <<path>>
    BY <1>3 DEF Named
  <2>2. <<kind>> \o Named(path, a) = <<kind, path>>
    BY <2>1, ConcatOne, Zenon
  <2>3. OfAll(<<kind>> \o Named(path, a))
    BY <2>2, Zenon DEF OfAll
  <2>4. (<<kind>> \o Named(path, a))[1] = kind /\ (<<kind>> \o Named(path, a))[2] = path
    <3>1. <<kind, path>>[1] = kind /\ <<kind, path>>[2] = path
      OBVIOUS
    <3>2. QED  BY <2>2, <3>1, Zenon
  <2>5. QED  BY <1>3, <2>3, <2>4
<1>4. QED  BY <1>1, <1>2, <1>3

\* What an attempt writes that an earlier one may have written: images that are to
\* replace one another, and a path that lost the attempt after the guard.
Shared(name) == name[1] = "overwritten" \/ name[2] = "undone"

LEMMA MediaNamesForm ==
    ASSUME NEW o \in AnOutput, NEW a \in Nat, NEW name \in MediaNames(o, a)
    PROVE  /\ OfAttempt(name, a) \/ OfAll(name)
           /\ a > 0 /\ Retryable(o, a) => OfAttempt(name, a) \/ Shared(name)
<1>1. clean(o.path) \in {"", "directory", "fixed", "retry", "undone"}
      /\ clean(o.playlist) \in {"", "directory", "fixed", "retry", "undone"}
  BY DEF clean, AnOutput, PathForms
<1> DEFINE guarded == \/ o.kind = "file" /\ name = <<"file">> \o Named(clean(o.path), a)
                      \/ o.kind = "images" /\ o.suffix \notin {"timestamp", "overwrite"}
                         /\ name = <<"image">> \o Named(clean(o.path), a)
<1>2. CASE guarded
  <2> DEFINE kind == IF o.kind = "file" THEN "file" ELSE "image"
             path == clean(o.path)
  <2>1. name = <<kind>> \o Named(path, a)
    BY <1>2
  <2>2. a > 0 /\ Retryable(o, a) => path # "fixed"
    <3>1. SUFFICES ASSUME a # 0, Retryable(o, a)  PROVE path # "fixed"
      OBVIOUS
    <3>2. o.kind = "images" => o.suffix = "index"
      BY <1>2 DEF AnOutput
    <3>3. clean(o.path) \in {"", "directory", "retry", "undone"}
      BY <1>2, <3>1, <3>2 DEF Retryable, HoldsRetry
    <3>4. QED  BY <3>3
  <2> HIDE DEF kind, path
  <2>3. path \in {"", "directory", "fixed", "retry", "undone"}
    BY <1>1 DEF path
  <2>4. QED  BY <2>1, <2>2, <2>3, NamedForm DEF Shared
<1>3. CASE o.kind = "images" /\ o.suffix = "timestamp"
  <2>1. name = <<"image", "timestamp", a>>
    BY <1>3 DEF MediaNames, ImageName
  <2>2. OfAttempt(name, a)
    BY <2>1, Zenon DEF OfAttempt
  <2>3. QED  BY <2>2
<1>4. CASE o.kind = "images" /\ o.suffix = "overwrite"
  <2> DEFINE path == clean(o.path)
  <2>1. name = <<"overwritten">> \o Named(path, a)
    BY <1>4 DEF MediaNames, ImageName
  <2>2. path \in {"", "directory", "fixed", "retry", "undone"}
    BY <1>1
  <2> HIDE DEF path
  <2>3. QED  BY <2>1, <2>2, NamedForm DEF Shared
<1>5. CASE o.kind = "segments"
  <2> DEFINE path == IF clean(o.path) \in {"", "directory"} THEN clean(o.playlist) ELSE clean(o.path)
  <2>1. name = <<"segments">> \o Named(path, a)
    BY <1>5 DEF MediaNames, SegmentPrefix
  <2>2. path \in {"", "directory", "fixed", "retry", "undone"}
    BY <1>1
  <2>3. a > 0 /\ Retryable(o, a) => path # "fixed"
    <3> HIDE DEF path
    <3>1. SUFFICES ASSUME a > 0, Retryable(o, a)  PROVE path # "fixed"
      OBVIOUS
    <3>2. a # 0
      BY <3>1
    <3>3. \/ clean(o.path) \in {"retry", "undone"}
          \/ clean(o.path) = "" /\ clean(o.playlist) \in {"", "retry", "undone"}
      BY <1>5, <3>1, <3>2 DEF Retryable, HoldsRetry
    <3>4. QED  BY <3>3 DEF path
  <2> HIDE DEF path
  <2>4. QED  BY <2>1, <2>2, <2>3, NamedForm DEF Shared
<1>6. CASE o.kind = "stream"
  BY <1>6 DEF MediaNames
<1>7. o.kind = "file" \/ (o.kind = "images" /\ o.suffix \notin {"timestamp", "overwrite"}) => guarded
  BY DEF MediaNames, ImageName
<1> HIDE DEF guarded
<1>8. QED  BY <1>2, <1>3, <1>4, <1>5, <1>6, <1>7, OutputIs

(***************************************************************************)
(* A retry that is accepted gives a media file the name of a file of       *)
(* another attempt, whichever outputs the two are of, only where images    *)
(* are to replace one another or the path loses the attempt's number after *)
(* the guard: else the guard of the retries and the way the names are made *)
(* agree on what a path keeps of the number (Retryable, MediaNames).       *)
(***************************************************************************)
THEOREM RetryNamesApart ==
    ASSUME NEW o \in AnOutput, NEW p \in AnOutput,
           NEW a \in Nat, NEW b \in Nat, a # b, b > 0, Retryable(o, b)
    PROVE  \A name \in MediaNames(o, b) \cap MediaNames(p, a) :
               name[1] = "overwritten" \/ name[2] = "undone"
<1>1. SUFFICES ASSUME NEW name \in MediaNames(o, b), name \in MediaNames(p, a), ~Shared(name)
               PROVE  FALSE
  BY DEF Shared
<1>2. OfAttempt(name, b)
  BY <1>1, MediaNamesForm
<1>3. OfAttempt(name, a) \/ OfAll(name)
  BY <1>1, MediaNamesForm
<1>4. PICK kind, how : name = <<kind, how, b>>
  BY <1>2 DEF OfAttempt
<1>5. ~OfAttempt(name, a)
  BY <1>4 DEF OfAttempt
<1>6. ~OfAll(name)
  <2>1. SUFFICES ASSUME NEW k, NEW h, name = <<k, h>>  PROVE FALSE
    BY DEF OfAll
  <2>2. Len(name) = 3 /\ Len(name) = 2
    BY <1>4, <2>1
  <2>3. QED  BY <2>2
<1>7. QED  BY <1>3, <1>5, <1>6

-----------------------------------------------------------------------------
\* The names the attempts have given: those written are of earlier attempts, those of the
\* configuration are of this one, and of outputs that may be retried.
FilesInv ==
    /\ req \in Requests /\ attempt \in Nat /\ IsConf(conf)
    /\ \A name \in written : \E p \in AnOutput : \E a \in Nat :
          a < attempt /\ name \in MediaNames(p, a)
    /\ \A name \in conf.files : \E o \in AnOutput :
          name \in MediaNames(o, attempt) /\ Retryable(o, attempt)

LEMMA FilesInvInit == PipelineInit => FilesInv
BY NewIsConf DEF PipelineInit, FilesInv

LEMMA FilesInvNext == FilesInv /\ [PipelineNext]_pipelineVars => FilesInv'
<1>1. SUFFICES ASSUME FilesInv, [PipelineNext]_pipelineVars  PROVE FilesInv'
  OBVIOUS
<1>2. CASE Validate
  <2>1. conf' \in Update(sdk, req, attempt) /\ UNCHANGED <<req, attempt, written>>
    BY <1>2 DEF Validate
  <2>2. IsConf(conf') /\ \A name \in conf'.files : \E o \in AnOutput :
            name \in MediaNames(o, attempt) /\ Retryable(o, attempt)
    BY <1>1, <2>1, UpdateNames DEF FilesInv
  <2>3. QED  BY <1>1, <2>1, <2>2 DEF FilesInv
<1>3. CASE TracksSubscribed
  <2>1. UNCHANGED <<req, attempt, written>>
    BY <1>3 DEF TracksSubscribed
  <2>2. PICK t \in Arrivals(conf, req) :
            LET met == SeesTrack(HearsTrack(conf, t.audio), t.video)
            IN conf' = IF t.audio # "" THEN Remuxes(met, t.audio)
                       ELSE IF t.video # "" THEN Remuxes(met, t.video) ELSE met
    BY <1>3 DEF TracksSubscribed
  <2>3. Keeps(conf, conf')
    BY <1>1, <2>2, SubscribedKeeps DEF FilesInv
  <2>4. IsConf(conf') /\ conf'.files = conf.files
    BY <2>3 DEF Keeps
  <2>5. QED  BY <1>1, <2>1, <2>4 DEF FilesInv
<1>4. CASE Retry
  <2>1. /\ attempt' = attempt + 1 /\ written' = written \cup conf.files
        /\ conf' = NewPipelineConfig(sdk) /\ req' = req
    BY <1>4 DEF Retry
  <2>2. IsConf(conf') /\ conf'.files = {}
    BY <2>1, NewIsConf
  <2>3. attempt \in Nat /\ attempt' \in Nat /\ attempt < attempt'
    BY <1>1, <2>1 DEF FilesInv
  <2>4. ASSUME NEW name \in written'
        PROVE  \E p \in AnOutput : \E a \in Nat : a < attempt' /\ name \in MediaNames(p, a)
    <3>1. CASE name \in written
      <4>1. PICK p \in AnOutput : \E a \in Nat : a < attempt /\ name \in MediaNames(p, a)
        BY <1>1, <3>1 DEF FilesInv
      <4>2. PICK a \in Nat : a < attempt /\ name \in MediaNames(p, a)
        BY <4>1
      <4>3. a < attempt'
        BY <2>3, <4>2
      <4>4. QED  BY <4>2, <4>3
    <3>2. CASE name \in conf.files
      <4>1. PICK o \in AnOutput : name \in MediaNames(o, attempt)
        BY <1>1, <3>2 DEF FilesInv
      <4>2. QED  BY <2>3, <4>1
    <3>3. QED  BY <2>1, <2>4, <3>1, <3>2
  <2>5. QED  BY <1>1, <2>1, <2>2, <2>3, <2>4 DEF FilesInv
<1>5. CASE UNCHANGED <<req, attempt, conf, written>>
  BY <1>1, <1>5 DEF FilesInv
<1>6. ASSUME NEW next, LayoutChanges(next)  PROVE UNCHANGED <<req, attempt, conf, written>>
  BY <1>6 DEF LayoutChanges
<1>7. ASSUME BuildPipeline \/ UNCHANGED pipelineVars
      PROVE  UNCHANGED <<req, attempt, conf, written>>
  BY <1>7 DEF BuildPipeline, pipelineVars
<1>8. QED
  BY <1>1, <1>2, <1>3, <1>4, <1>5, <1>6, <1>7
     DEF PipelineNext, TrackJoins, TrackLeaves, SpeakersUpdated

LEMMA FilesInvApart == FilesInv => RetryKeepsFiles
<1>1. SUFFICES ASSUME FilesInv, NEW name \in conf.files, name \in written
               PROVE  name[1] = "overwritten" \/ name[2] = "undone"
  BY DEF RetryKeepsFiles
<1>2. PICK o \in AnOutput : name \in MediaNames(o, attempt) /\ Retryable(o, attempt)
  BY <1>1 DEF FilesInv
<1>3. PICK p \in AnOutput : \E a \in Nat : a < attempt /\ name \in MediaNames(p, a)
  BY <1>1 DEF FilesInv
<1>4. PICK a \in Nat : a < attempt /\ name \in MediaNames(p, a)
  BY <1>3
<1>5. attempt \in Nat /\ a # attempt /\ attempt > 0
  BY <1>1, <1>4 DEF FilesInv
<1>6. QED  BY <1>2, <1>4, <1>5, RetryNamesApart

(***************************************************************************)
(* A retry that is accepted writes no media file of an earlier attempt,    *)
(* but for images that are to replace one another and a path that loses    *)
(* the attempt's number after the guard, whatever the request, its outputs *)
(* and the number of attempts (Update, AddOutput, updateDirectOutput,      *)
(* TracksSubscribed).                                                      *)
(***************************************************************************)
THEOREM PipelineRetryKeepsFiles == PipelineSpec => []RetryKeepsFiles
BY FilesInvInit, FilesInvNext, FilesInvApart, PTL DEF PipelineSpec

-----------------------------------------------------------------------------
(***************************************************************************)
(* The layout through the events of a room (Pipeline).  What the manager   *)
(* shows is an order of the tracks it knows (Orders): a track is appended, *)
(* left out, or takes the place of another one.  sortTracks finds an order *)
(* since no two tracks compare equal, and the rounds of stabilize leave    *)
(* every track where it is that the page should show.                      *)
(***************************************************************************)
\* No track twice.
Distinct(seq) == \A i, j \in 1..Len(seq) : i # j => seq[i] # seq[j]

\* An order of the tracks in S.
Orders(order, S) == order \in Seq(Tracks) /\ Distinct(order) /\ ToSet(order) = S

LEMMA ToSetIs ==
    ASSUME NEW E, NEW seq \in Seq(E)
    PROVE  /\ ToSet(seq) = {seq[i] : i \in 1..Len(seq)}
           /\ ToSet(seq) \subseteq E
BY LenProperties DEF ToSet

LEMMA OrderLength ==
    ASSUME NEW order, NEW S, Orders(order, S)
    PROVE  IsFiniteSet(S) /\ Cardinality(S) = Len(order)
<1>1. order \in [1..Len(order) -> S] /\ Len(order) \in Nat
  BY LenProperties, ToSetIs DEF Orders
<1>2. order \in Injection(1..Len(order), S)
  <2>1. \A i, j \in 1..Len(order) : order[i] = order[j] => i = j
    BY DEF Orders, Distinct
  <2> QED BY <1>1, <2>1 DEF Injection, IsInjective
<1>3. order \in Surjection(1..Len(order), S)
  BY <1>1, ToSetIs DEF Orders, Surjection
<1>4. order \in Bijection(1..Len(order), S)
  BY <1>2, <1>3 DEF Bijection
<1>5. ExistsBijection(1..Len(order), S)
  BY <1>4 DEF ExistsBijection
<1>6. IsFiniteSet(1..Len(order)) /\ Cardinality(1..Len(order)) = Len(order)
  <2> DEFINE n == Len(order)
  <2>1. n \in Nat
    BY <1>1
  <2> HIDE DEF n
  <2>2. IsFiniteSet(1..n) /\ Cardinality(1..n) = IF 1 > n THEN 0 ELSE n - 1 + 1
    BY <2>1, FS_Interval
  <2>3. Cardinality(1..n) = n
    BY <2>1, <2>2
  <2> QED BY <2>2, <2>3 DEF n
<1> QED BY <1>5, <1>6, FS_Bijection

LEMMA AppendOrders ==
    ASSUME NEW order, NEW S, Orders(order, S), NEW t \in Tracks, t \notin S
    PROVE  Orders(Append(order, t), S \cup {t})
<1> DEFINE n == Len(order)
           app == Append(order, t)
<1>1. n \in Nat /\ app \in Seq(Tracks) /\ Len(app) = n + 1
  BY AppendProperties DEF Orders
<1>2. \A i \in 1..n : app[i] = order[i] /\ app[i] \in S
  BY AppendProperties, ToSetIs DEF Orders
<1>3. app[n + 1] = t
  BY AppendProperties DEF Orders
<1> HIDE DEF app, n
<1>4. Distinct(app)
  <2> SUFFICES ASSUME NEW i \in 1..(n + 1), NEW j \in 1..(n + 1), i # j PROVE app[i] # app[j]
    BY <1>1 DEF Distinct
  <2>1. CASE i \in 1..n /\ j \in 1..n
    BY <1>2, <2>1 DEF Orders, Distinct, n
  <2>2. CASE i = n + 1 /\ j \in 1..n
    BY <1>2, <1>3, <2>2
  <2>3. CASE j = n + 1 /\ i \in 1..n
    BY <1>2, <1>3, <2>3
  <2> QED BY <1>1, <2>1, <2>2, <2>3
<1>5. ToSet(app) = S \cup {t}
  <2>1. ToSet(app) = {app[i] : i \in 1..(n + 1)}
    BY <1>1, ToSetIs
  <2>2. S = {order[i] : i \in 1..n}
    BY ToSetIs DEF Orders, n
  <2>3. ASSUME NEW u \in ToSet(app) PROVE u \in S \cup {t}
    <3>1. PICK i \in 1..(n + 1) : u = app[i]
      BY <2>1
    <3>2. i \in 1..n \/ i = n + 1
      BY <1>1
    <3> QED BY <1>2, <1>3, <3>1, <3>2
  <2>4. ASSUME NEW u \in S PROVE u \in ToSet(app)
    <3>1. PICK i \in 1..n : u = order[i]
      BY <2>2
    <3>2. u = app[i] /\ i \in 1..(n + 1)
      BY <1>1, <1>2, <3>1
    <3> QED BY <2>1, <3>2
  <2>5. t \in ToSet(app)
    <3>1. n + 1 \in 1..(n + 1)
      BY <1>1
    <3> QED BY <1>3, <2>1, <3>1
  <2> QED BY <2>3, <2>4, <2>5
<1> QED BY <1>1, <1>4, <1>5 DEF Orders, app

LEMMA ConcatOrders ==
    ASSUME NEW a, NEW b, NEW S, NEW T, Orders(a, S), Orders(b, T), S \cap T = {}
    PROVE  Orders(a \o b, S \cup T)
<1> DEFINE n == Len(a)
           m == Len(b)
           c == a \o b
<1>1. n \in Nat /\ m \in Nat /\ c \in Seq(Tracks) /\ Len(c) = n + m
  BY ConcatProperties DEF Orders
<1>2. \A i \in 1..n : c[i] = a[i] /\ c[i] \in S
  BY ConcatProperties, ToSetIs DEF Orders
<1>3. \A i \in (n + 1)..(n + m) : c[i] = b[i - n] /\ c[i] \in T /\ i - n \in 1..m
  <2> SUFFICES ASSUME NEW i \in (n + 1)..(n + m) PROVE c[i] = b[i - n] /\ c[i] \in T /\ i - n \in 1..m
    OBVIOUS
  <2>1. i \in 1..(Len(a) + Len(b)) /\ ~(i <= Len(a)) /\ i - n \in 1..m
    BY <1>1
  <2>2. c[i] = b[i - n]
    BY <2>1, ConcatProperties DEF Orders
  <2>3. b[i - n] \in T
    BY <2>1, ToSetIs DEF Orders
  <2> QED BY <2>1, <2>2, <2>3
<1> HIDE DEF c, n, m
<1>4. Distinct(c)
  <2> SUFFICES ASSUME NEW i \in 1..(n + m), NEW j \in 1..(n + m), i # j PROVE c[i] # c[j]
    BY <1>1 DEF Distinct
  <2>0. (i \in 1..n \/ i \in (n + 1)..(n + m)) /\ (j \in 1..n \/ j \in (n + 1)..(n + m))
    BY <1>1
  <2>1. CASE i \in 1..n /\ j \in 1..n
    BY <1>2, <2>1 DEF Orders, Distinct, n
  <2>2. CASE i \in 1..n /\ j \in (n + 1)..(n + m)
    BY <1>2, <1>3, <2>2
  <2>3. CASE i \in (n + 1)..(n + m) /\ j \in 1..n
    BY <1>2, <1>3, <2>3
  <2>4. CASE i \in (n + 1)..(n + m) /\ j \in (n + 1)..(n + m)
    <3>1. i - n # j - n
      BY <1>1
    <3>2. b[i - n] # b[j - n]
      BY <1>3, <2>4, <3>1 DEF Orders, Distinct, m
    <3> QED BY <1>3, <2>4, <3>2
  <2> QED BY <2>0, <2>1, <2>2, <2>3, <2>4
<1>5. ToSet(c) = S \cup T
  <2>1. ToSet(c) = {c[i] : i \in 1..(n + m)}
    BY <1>1, ToSetIs
  <2>2. S = {a[i] : i \in 1..n} /\ T = {b[i] : i \in 1..m}
    BY ToSetIs DEF Orders, n, m
  <2>3. ASSUME NEW u \in ToSet(c) PROVE u \in S \cup T
    <3>1. PICK i \in 1..(n + m) : u = c[i]
      BY <2>1
    <3>2. i \in 1..n \/ i \in (n + 1)..(n + m)
      BY <1>1
    <3> QED BY <1>2, <1>3, <3>1, <3>2
  <2>4. ASSUME NEW u \in S PROVE u \in ToSet(c)
    <3>1. PICK i \in 1..n : u = a[i]
      BY <2>2
    <3>2. u = c[i] /\ i \in 1..(n + m)
      BY <1>1, <1>2, <3>1
    <3> QED BY <2>1, <3>2
  <2>5. ASSUME NEW u \in T PROVE u \in ToSet(c)
    <3>1. PICK i \in 1..m : u = b[i]
      BY <2>2
    <3>2. i + n \in (n + 1)..(n + m) /\ (i + n) - n = i /\ i + n \in 1..(n + m)
      BY <1>1
    <3>3. u = c[i + n]
      BY <1>3, <3>1, <3>2
    <3> QED BY <2>1, <3>2, <3>3
  <2> QED BY <2>3, <2>4, <2>5
<1> QED BY <1>1, <1>4, <1>5 DEF Orders, c

\* What is left of an order (OnlyIn).
LEMMA OnlyInOrders ==
    ASSUME NEW order, NEW T, Orders(order, T), NEW S
    PROVE  Orders(OnlyIn(order, S), T \cap S)
<1> DEFINE D == DOMAIN order
           f == Folded("keep", S, <<>>, order)
           P == {I \in SUBSET D : Orders(f[I], {order[i] : i \in I} \cap S)}
<1>0. D = 1..Len(order) /\ Len(order) \in Nat /\ IsFiniteSet(D) /\ order \in Seq(Tracks)
  BY LenProperties, FS_Interval DEF Orders
<1>1. \A I \in SUBSET D : f[I] = Turn(f, "keep", S, <<>>, order, I)
  BY <1>0, FoldTurns, Zenon
<1> HIDE DEF D, f
<1>2. ASSUME NEW I \in SUBSET D, \A x \in I : I \ {x} \in P  PROVE I \in P
  <2>1. CASE I = {}
    <3>1. f[I] = <<>>
      BY <1>1, <2>1 DEF Turn
    <3>2. Orders(<<>>, {})
      BY DEF Orders, Distinct, ToSet
    <3>3. {order[i] : i \in I} \cap S = {}
      BY <2>1
    <3> QED BY <3>1, <3>2, <3>3
  <2>2. CASE I # {}
    <3> DEFINE m == Max(I)
               J == I \ {m}
               R == {order[i] : i \in J} \cap S
    <3>1. m \in I /\ m \in 1..Len(order)
      BY <1>0, <2>2, MaxIn
    <3>2. f[I] = IF order[m] \in S THEN Append(f[J], order[m]) ELSE f[J]
      BY <1>1, <2>2 DEF Turn, Step
    <3>3. Orders(f[J], R)
      BY <1>2, <3>1
    <3>4. order[m] \in Tracks
      BY <1>0, <3>1, ElementOfSeq
    <3>5. order[m] \notin R
      BY <1>0, <3>1 DEF Orders, Distinct
    <3>6. CASE order[m] \in S
      <4>1. Orders(f[I], R \cup {order[m]})
        BY <3>2, <3>3, <3>4, <3>5, <3>6, AppendOrders
      <4>2. R \cup {order[m]} = {order[i] : i \in I} \cap S
        BY <3>1, <3>6
      <4> QED BY <4>1, <4>2
    <3>7. CASE order[m] \notin S
      <4>1. R = {order[i] : i \in I} \cap S
        BY <3>1, <3>7
      <4> QED BY <3>2, <3>3, <3>7, <4>1
    <3> QED BY <3>6, <3>7
  <2> QED BY <2>1, <2>2
<1>3. D \in P
  <2>1. \A I \in SUBSET D : (\A x \in I : I \ {x} \in P) => I \in P
    BY <1>2
  <2> HIDE DEF P
  <2>2. D \in SUBSET D /\ IsFiniteSet(D)
    BY <1>0
  <2> QED BY <2>1, <2>2, BySmaller
<1>4. OnlyIn(order, S) = f[D]
  BY FoldIsKeeping DEF f, D
<1>5. {order[i] : i \in D} = T
  BY <1>0, ToSetIs DEF Orders
<1> QED BY <1>3, <1>4, <1>5

\* What the comparators need of the manager.
Speakers(L) == L.level \in [Tracks -> Nat] /\ L.spoke \in [Tracks -> Nat]

\* The comparators of sortTracks order the tracks: no two compare equal.
LEMMA PrecedesOrders ==
    ASSUME NEW L, Orders(L.tracks, ToSet(L.tracks)), Speakers(L)
    PROVE  LET S == ToSet(L.tracks)
           IN /\ \A a \in S : ~Precedes(L, a, a)
              /\ \A a, b, c \in S : Precedes(L, a, b) /\ Precedes(L, b, c) => Precedes(L, a, c)
              /\ \A a, b \in S : a = b \/ Precedes(L, a, b) \/ Precedes(L, b, a)
<1> DEFINE S == ToSet(L.tracks)
<1>1. \A a \in S : AddOrder(L, a) \in 1..Len(L.tracks) /\ L.tracks[AddOrder(L, a)] = a
  BY ToSetIs DEF AddOrder, Orders
<1>2. \A a \in S : a \in Tracks /\ L.level[a] \in Nat /\ L.spoke[a] \in Nat
  BY ToSetIs DEF Orders, Speakers
<1>3. Len(L.tracks) \in Nat
  BY LenProperties DEF Orders
<1>4. \A a \in S : AddOrder(L, a) \in Int
  BY <1>1, <1>3
<1>5. \A a, b \in S : AddOrder(L, a) = AddOrder(L, b) => a = b
  BY <1>1
<1> HIDE DEF S
<1>6. ASSUME NEW a \in S PROVE ~Precedes(L, a, a)
  BY <1>2, <1>4 DEF Precedes
<1>7. ASSUME NEW a \in S, NEW b \in S, NEW c \in S, Precedes(L, a, b), Precedes(L, b, c)
      PROVE  Precedes(L, a, c)
  <2> DEFINE la == L.level[a]  lb == L.level[b]  lc == L.level[c]
             sa == L.spoke[a]  sb == L.spoke[b]  sc == L.spoke[c]
             oa == AddOrder(L, a)  ob == AddOrder(L, b)  oc == AddOrder(L, c)
  <2>1. la \in Nat /\ lb \in Nat /\ lc \in Nat /\ sa \in Nat /\ sb \in Nat /\ sc \in Nat
        /\ oa \in Int /\ ob \in Int /\ oc \in Int
    BY <1>2, <1>4
  <2> QED BY <1>7, <2>1 DEF Precedes
<1>8. ASSUME NEW a \in S, NEW b \in S, a # b
      PROVE  Precedes(L, a, b) \/ Precedes(L, b, a)
  <2>1. AddOrder(L, a) # AddOrder(L, b)
    BY <1>5, <1>8
  <2> QED BY <1>2, <1>4, <2>1 DEF Precedes
<1> QED BY <1>6, <1>7, <1>8 DEF S

\* The order that sortTracks takes.
TracksSorted(L, order) ==
    /\ order \in [1..Len(L.tracks) -> ToSet(L.tracks)]
    /\ \A i, j \in DOMAIN order : i < j => Precedes(L, order[i], order[j])

\* There is one: the place of a track is one more than the number of those before it.
LEMMA SortedExists ==
    ASSUME NEW L, Orders(L.tracks, ToSet(L.tracks)), Speakers(L)
    PROVE  \E order : TracksSorted(L, order)
<1> DEFINE S == ToSet(L.tracks)
           n == Len(L.tracks)
           Before(t) == {u \in S : Precedes(L, u, t)}
           place == [t \in S |-> Cardinality(Before(t)) + 1]
           order == [i \in 1..n |-> CHOOSE t \in S : place[t] = i]
<1>1. IsFiniteSet(S) /\ Cardinality(S) = n /\ n \in Nat
  BY OrderLength, LenProperties DEF Orders
<1>2. /\ \A a \in S : ~Precedes(L, a, a)
      /\ \A a, b, c \in S : Precedes(L, a, b) /\ Precedes(L, b, c) => Precedes(L, a, c)
      /\ \A a, b \in S : a = b \/ Precedes(L, a, b) \/ Precedes(L, b, a)
  BY PrecedesOrders
<1> HIDE DEF S, n
<1>3. ASSUME NEW t \in S
      PROVE  IsFiniteSet(Before(t)) /\ Cardinality(Before(t)) \in 0..(n - 1)
  <2>1. Before(t) \in SUBSET (S \ {t})
    BY <1>2
  <2>2. IsFiniteSet(S \ {t}) /\ Cardinality(S \ {t}) = n - 1
    BY <1>1, FS_RemoveElement
  <2> HIDE DEF Before
  <2>3. IsFiniteSet(Before(t)) /\ Cardinality(Before(t)) <= n - 1
    BY <2>1, <2>2, FS_Subset
  <2>4. Cardinality(Before(t)) \in Nat
    BY <2>3, FS_CardinalityType
  <2> QED BY <1>1, <2>3, <2>4
<1>4. ASSUME NEW t \in S, NEW u \in S, Precedes(L, t, u)
      PROVE  Cardinality(Before(t)) < Cardinality(Before(u))
  <2>1. Before(t) \in SUBSET Before(u) /\ Before(t) # Before(u)
    BY <1>2, <1>4
  <2>2. IsFiniteSet(Before(u)) /\ Cardinality(Before(u)) \in Int /\ Cardinality(Before(t)) \in Int
    <3> HIDE DEF Before
    <3>1. IsFiniteSet(Before(u)) /\ Cardinality(Before(u)) \in 0..(n - 1) /\ Cardinality(Before(t)) \in 0..(n - 1)
      BY <1>3
    <3> QED BY <1>1, <3>1
  <2> HIDE DEF Before
  <2>3. Cardinality(Before(t)) <= Cardinality(Before(u)) /\ Cardinality(Before(t)) # Cardinality(Before(u))
    BY <2>1, <2>2, FS_Subset
  <2> QED BY <2>2, <2>3
<1>5. \A t \in S : place[t] \in 1..n
  <2>1. ASSUME NEW t \in S PROVE place[t] \in 1..n
    <3> DEFINE c == Cardinality(Before(t))
    <3>1. c \in 0..(n - 1)
      BY <1>3
    <3> HIDE DEF c
    <3>2. c + 1 \in 1..n
      BY <1>1, <3>1
    <3> QED BY <3>2 DEF c
  <2> QED BY <2>1
<1>6. \A t, u \in S : Precedes(L, t, u) => place[t] < place[u]
  <2>1. ASSUME NEW t \in S, NEW u \in S, Precedes(L, t, u) PROVE place[t] < place[u]
    <3> DEFINE c == Cardinality(Before(t))
               d == Cardinality(Before(u))
    <3>1. c \in 0..(n - 1) /\ d \in 0..(n - 1) /\ c < d
      BY <1>3, <1>4, <2>1
    <3> HIDE DEF c, d
    <3>2. c + 1 < d + 1
      BY <1>1, <3>1
    <3> QED BY <3>2 DEF c, d
  <2> QED BY <2>1
<1>7. place \in [S -> 1..n]
  BY <1>5
<1> HIDE DEF place, Before
<1>8. \A t, u \in S : place[t] = place[u] => t = u
  BY <1>1, <1>2, <1>5, <1>6
<1>9. place \in Injection(S, 1..n)
  BY <1>7, <1>8 DEF Injection, IsInjective
<1>10. IsFiniteSet(1..n) /\ Cardinality(1..n) = n
  <2>1. IsFiniteSet(1..n) /\ Cardinality(1..n) = IF 1 > n THEN 0 ELSE n - 1 + 1
    BY <1>1, FS_Interval
  <2> QED BY <1>1, <2>1
<1>11. place \in Surjection(S, 1..n)
  BY <1>1, <1>9, <1>10, FS_Injection
<1>12. \A i \in 1..n : order[i] \in S /\ place[order[i]] = i
  BY <1>11 DEF Surjection
<1>13. order \in [1..n -> S] /\ DOMAIN order = 1..n
  BY <1>12
<1> HIDE DEF order
<1>14. ASSUME NEW i \in 1..n, NEW j \in 1..n, i < j
       PROVE  Precedes(L, order[i], order[j])
  <2>1. order[i] \in S /\ order[j] \in S /\ place[order[i]] < place[order[j]]
    BY <1>12, <1>14
  <2>2. ~Precedes(L, order[j], order[i]) /\ order[i] # order[j]
    BY <1>5, <1>6, <2>1
  <2> QED BY <1>2, <2>1, <2>2
<1>15. TracksSorted(L, order)
  BY <1>13, <1>14 DEF TracksSorted, S, n
<1> QED BY <1>15

\* sortTracks is an order of the tracks.
LEMMA SortOrders ==
    ASSUME NEW L, Orders(L.tracks, ToSet(L.tracks)), Speakers(L)
    PROVE  Orders(sortTracks(L), ToSet(L.tracks))
<1> DEFINE S == ToSet(L.tracks)
           n == Len(L.tracks)
           order == sortTracks(L)
<1>1. IsFiniteSet(S) /\ Cardinality(S) = n /\ n \in Nat /\ S \subseteq Tracks
  BY OrderLength, LenProperties, ToSetIs DEF Orders
<1>2. TracksSorted(L, order)
  BY SortedExists DEF sortTracks, TracksSorted
<1>3. order \in [1..n -> S] /\ \A i, j \in 1..n : i < j => Precedes(L, order[i], order[j])
  BY <1>2 DEF TracksSorted
<1>4. \A a \in S : ~Precedes(L, a, a)
  BY PrecedesOrders
<1> HIDE DEF S, n, order
<1>5. \A i, j \in 1..n : order[i] = order[j] => i = j
  <2>1. ASSUME NEW i \in 1..n, NEW j \in 1..n, order[i] = order[j], i # j PROVE FALSE
    <3>1. i < j \/ j < i
      BY <1>1, <2>1
    <3>2. order[i] \in S
      BY <1>3
    <3> QED BY <1>3, <1>4, <2>1, <3>1, <3>2
  <2> QED BY <2>1
<1>6. order \in Injection(1..n, S)
  BY <1>3, <1>5 DEF Injection, IsInjective
<1>7. Cardinality(1..n) = n
  <2>1. Cardinality(1..n) = IF 1 > n THEN 0 ELSE n - 1 + 1
    BY <1>1, FS_Interval
  <2> QED BY <1>1, <2>1
<1>8. order \in Surjection(1..n, S)
  BY <1>1, <1>6, <1>7, FS_Injection
<1>9. order \in Seq(Tracks) /\ Len(order) = n /\ DOMAIN order = 1..n
  BY <1>1, <1>3
<1>10. Distinct(order)
  BY <1>5, <1>9 DEF Distinct
<1>11. ToSet(order) = S
  BY <1>3, <1>8, <1>9 DEF ToSet, Surjection
<1> QED BY <1>9, <1>10, <1>11 DEF Orders, S, order

\* Two places of an order are swapped.
LEMMA SwapOrders ==
    ASSUME NEW order, NEW S, Orders(order, S), NEW i \in 1..Len(order), NEW j \in 1..Len(order)
    PROVE  Orders(Swap(order, i, j), S) /\ Len(Swap(order, i, j)) = Len(order)
<1> DEFINE n == Len(order)
           new == Swap(order, i, j)
<1>1. n \in Nat /\ order \in [1..n -> Tracks] /\ i \in 1..n /\ j \in 1..n
  BY LenProperties DEF Orders
<1>2. S = {order[k] : k \in 1..n}
  BY ToSetIs DEF Orders
<1>3. \A k, l \in 1..n : k # l => order[k] # order[l]
  BY DEF Orders, Distinct
<1> HIDE DEF n
<1>4. DOMAIN new = 1..n /\ new \in [1..n -> Tracks]
  BY <1>1 DEF Swap
<1>5. \A k \in 1..n : new[k] = IF k = j THEN order[i] ELSE IF k = i THEN order[j] ELSE order[k]
  BY <1>1 DEF Swap
<1> HIDE DEF new
<1>6. new \in Seq(Tracks) /\ Len(new) = n
  BY <1>1, <1>4
<1>7. Distinct(new)
  BY <1>1, <1>3, <1>5, <1>6 DEF Distinct
<1>8. ToSet(new) = {new[k] : k \in 1..n}
  BY <1>6, ToSetIs
<1>9. ASSUME NEW t \in ToSet(new) PROVE t \in S
  BY <1>1, <1>2, <1>5, <1>8
<1>10. ASSUME NEW t \in S PROVE t \in ToSet(new)
  <2>1. PICK k \in 1..n : t = order[k]
    BY <1>2
  <2> DEFINE l == IF k = i THEN j ELSE IF k = j THEN i ELSE k
  <2>2. l \in 1..n /\ new[l] = order[k]
    BY <1>1, <1>5
  <2> QED BY <1>8, <2>1, <2>2
<1> QED BY <1>6, <1>7, <1>9, <1>10 DEF Orders, new, n

\* A finite set of naturals that is not empty has a smallest element.
LEMMA MinExists ==
    ASSUME NEW n \in Nat, NEW s \in SUBSET (1..n), s # {}
    PROVE  \E x \in s : \A y \in s : x <= y
<1> DEFINE P == {T \in SUBSET (1..n) : T # {} => \E x \in T : \A y \in T : x <= y}
<1>1. ASSUME NEW T \in SUBSET (1..n), \A x \in T : T \ {x} \in P  PROVE T \in P
  <2>1. SUFFICES ASSUME T # {}  PROVE \E x \in T : \A y \in T : x <= y
    OBVIOUS
  <2>2. PICK z \in T : TRUE
    BY <2>1
  <2>3. T \ {z} \in P
    BY <1>1
  <2>4. CASE T \ {z} = {}
    <3>1. \A y \in T : y = z
      BY <2>4
    <3>2. QED  BY <2>2, <3>1
  <2>5. CASE T \ {z} # {}
    <3>1. PICK x \in T \ {z} : \A y \in T \ {z} : x <= y
      BY <2>3, <2>5
    <3>2. x \in Int /\ z \in Int /\ \A y \in T : y \in Int
      OBVIOUS
    <3>3. CASE x <= z
      BY <3>1, <3>2, <3>3
    <3>4. CASE ~(x <= z)
      <4>1. \A y \in T : z <= y
        BY <3>1, <3>2, <3>4
      <4>2. QED  BY <4>1
    <3>5. QED  BY <3>3, <3>4
  <2>6. QED  BY <2>4, <2>5
<1>2. IsFiniteSet(1..n)
  BY FS_Interval
<1> HIDE DEF P
<1>3. s \in P
  BY <1>1, <1>2, BySmaller
<1>4. QED  BY <1>3 DEF P

\* The first m of an order.
LEMMA FirstOrders ==
    ASSUME NEW order, NEW S, Orders(order, S), NEW m \in Nat, m <= Len(order)
    PROVE  /\ Orders(SubSeq(order, 1, m), {order[k] : k \in 1..m})
           /\ Len(SubSeq(order, 1, m)) = m
           /\ \A k \in 1..m : SubSeq(order, 1, m)[k] = order[k]
           /\ {order[k] : k \in 1..m} \subseteq S
<1> DEFINE n == Len(order)
           first == SubSeq(order, 1, m)
<1>1. n \in Nat /\ order \in [1..n -> Tracks] /\ m \in 0..n
  BY LenProperties DEF Orders
<1>2. first = [k \in 1..m |-> order[k]]
  BY <1>1
<1>3. \A k \in 1..m : k \in 1..n /\ order[k] \in Tracks
  BY <1>1
<1> HIDE DEF first, n
<1>4. first \in Seq(Tracks) /\ Len(first) = m /\ DOMAIN first = 1..m
  BY <1>2, <1>3
<1>5. Distinct(first)
  BY <1>2, <1>3, <1>4 DEF Distinct, Orders, n
<1>6. ToSet(first) = {order[k] : k \in 1..m}
  BY <1>2, <1>4 DEF ToSet
<1>7. {order[k] : k \in 1..m} \subseteq S
  BY <1>3, ToSetIs DEF Orders, n
<1> QED BY <1>2, <1>4, <1>5, <1>6, <1>7 DEF Orders, first

\* One round of stabilize: the track is on the page of m places, those that should be
\* there stay where they are.
Took(t, order, new, m, S, R) ==
    /\ Orders(new, S)
    /\ \E k \in 1..m : new[k] = t
    /\ \A k \in 1..m : order[k] \in R => new[k] = order[k]

LEMMA TakesPlaceKeeps ==
    ASSUME NEW order, NEW S, Orders(order, S), NEW onPage, NEW R, Orders(onPage, R),
           R \subseteq S, NEW t \in R
    PROVE  Took(t, order, TakesPlace(order, onPage, t), Len(onPage), S, R)
<1> DEFINE m == Len(onPage)
           n == Len(order)
           page == SubSeq(order, 1, m)
           taken == {i \in 1..Len(page) : page[i] \notin ToSet(onPage)}
           new == TakesPlace(order, onPage, t)
<1>1. m \in Nat /\ n \in Nat
  BY LenProperties DEF Orders
<1>2. m <= n
  <2>1. IsFiniteSet(S) /\ Cardinality(S) = n /\ Cardinality(R) = m
    BY OrderLength
  <2> HIDE DEF m, n
  <2> QED BY <2>1, FS_Subset
<1>3. /\ Orders(page, {order[k] : k \in 1..m}) /\ Len(page) = m
      /\ \A k \in 1..m : page[k] = order[k]
  BY <1>1, <1>2, FirstOrders
<1>4. ToSet(page) = {order[k] : k \in 1..m}
  BY <1>3 DEF Orders
<1>5. ToSet(onPage) = R
  BY DEF Orders
<1>6. taken = {i \in 1..m : order[i] \notin R}
  BY <1>3, <1>5
<1>7. new = IF t \in ToSet(page) \/ taken = {} THEN order
            ELSE Swap(order, CHOOSE i \in taken : \A j \in taken : i <= j, IndexIn(order, t))
  BY DEF TakesPlace
<1> HIDE DEF new, taken, page
<1>8. CASE t \in ToSet(page)
  BY <1>4, <1>7, <1>8 DEF new, Took
<1>9. CASE t \notin ToSet(page) /\ taken = {}
  <2>1. ToSet(page) \in SUBSET R
    BY <1>4, <1>6, <1>9
  <2>2. Cardinality(ToSet(page)) = m /\ Cardinality(R) = m /\ IsFiniteSet(R)
    BY <1>3, <1>4, OrderLength
  <2>3. ToSet(page) = R
    BY <2>1, <2>2, FS_Subset
  <2> QED BY <1>9, <2>3
<1>10. CASE t \notin ToSet(page) /\ taken # {}
  <2> DEFINE i == CHOOSE i \in taken : \A j \in taken : i <= j
             j == IndexIn(order, t)
  <2>1. taken \in SUBSET (1..m)
    BY <1>6
  <2>2. i \in taken
    BY <1>1, <1>10, <2>1, MinExists
  <2>3. i \in 1..m /\ order[i] \notin R
    BY <1>6, <2>2
  <2>4. j \in 1..n /\ order[j] = t
    BY ToSetIs DEF IndexIn, Orders
  <2>5. j \notin 1..m
    BY <1>4, <1>10, <2>4
  <2>6. new = Swap(order, i, j)
    BY <1>7, <1>10
  <2> HIDE DEF i, j
  <2>7. i \in 1..n
    BY <1>1, <1>2, <2>3
  <2>8. Orders(new, S)
    BY <2>4, <2>6, <2>7, SwapOrders
  <2>9. \A k \in 1..n : new[k] = IF k = j THEN order[i] ELSE IF k = i THEN order[j] ELSE order[k]
    <3>1. order \in [1..n -> Tracks]
      BY LenProperties DEF Orders
    <3> HIDE DEF n
    <3> QED BY <2>4, <2>6, <2>7, <3>1 DEF Swap
  <2>10. \A k \in 1..m : k \in 1..n /\ k # j
    BY <1>1, <1>2, <2>5
  <2> HIDE DEF m, n
  <2>11. new[i] = t
    BY <2>3, <2>4, <2>9, <2>10
  <2>12. \A k \in 1..m : order[k] \in R => new[k] = order[k]
    BY <2>3, <2>9, <2>10
  <2> QED BY <2>3, <2>8, <2>11, <2>12 DEF m, new, Took
<1> QED BY <1>8, <1>9, <1>10 DEF new

\* All the rounds of stabilize: the page is the tracks that should be there.
Paged(new, old, m, S, R) ==
    /\ Orders(new, S)
    /\ {new[k] : k \in 1..m} = R
    /\ \A k \in 1..m : old[k] \in R => new[k] = old[k]

LEMMA PlacingKeeps ==
    ASSUME NEW current, NEW S, Orders(current, S), NEW onPage, NEW R, Orders(onPage, R),
           R \subseteq S
    PROVE  Paged(FoldLeft(LAMBDA order, t : TakesPlace(order, onPage, t), current, onPage),
                 current, Len(onPage), S, R)
<1> DEFINE D == DOMAIN onPage
           m == Len(onPage)
           f == Folded("place", onPage, current, onPage)
           P == {I \in SUBSET D :
                    /\ Orders(f[I], S)
                    /\ \A i \in I : \E k \in 1..m : f[I][k] = onPage[i]
                    /\ \A k \in 1..m : current[k] \in R => f[I][k] = current[k]}
<1>0. D = 1..m /\ m \in Nat /\ IsFiniteSet(D) /\ onPage \in Seq(Tracks)
  BY LenProperties, FS_Interval DEF Orders
<1>1. \A I \in SUBSET D : f[I] = Turn(f, "place", onPage, current, onPage, I)
  BY <1>0, FoldTurns, Zenon
<1>2. \A i \in D : onPage[i] \in R
  BY <1>0, ToSetIs DEF Orders
<1> HIDE DEF D, f
<1>3. ASSUME NEW I \in SUBSET D, \A x \in I : I \ {x} \in P  PROVE I \in P
  <2>1. CASE I = {}
    <3>1. f[I] = current
      BY <1>1, <2>1 DEF Turn
    <3> QED BY <2>1, <3>1
  <2>2. CASE I # {}
    <3> DEFINE x == Max(I)
               J == I \ {x}
               q == f[J]
               t == onPage[x]
               new == TakesPlace(q, onPage, t)
    <3>1. x \in I /\ t \in R
      BY <1>0, <1>2, <2>2, MaxIn
    <3>2. f[I] = new
      BY <1>1, <2>2 DEF Turn, Step
    <3>3. /\ Orders(q, S)
          /\ \A i \in J : \E k \in 1..m : q[k] = onPage[i]
          /\ \A k \in 1..m : current[k] \in R => q[k] = current[k]
      BY <1>3, <3>1
    <3> HIDE DEF q, t
    <3>4. /\ Orders(new, S)
          /\ t \in {new[k] : k \in 1..m}
          /\ \A k \in 1..m : q[k] \in R => new[k] = q[k]
      <4>1. t \in R /\ Orders(q, S) /\ Orders(onPage, R) /\ R \subseteq S
        BY <3>1, <3>3
      <4>2. Took(t, q, TakesPlace(q, onPage, t), Len(onPage), S, R)
        BY <4>1, TakesPlaceKeeps, Zenon
      <4> QED BY <4>2 DEF Took
    <3> HIDE DEF new
    <3>5. ASSUME NEW i \in I PROVE \E k \in 1..m : new[k] = onPage[i]
      <4>1. CASE i = x
        BY <3>4, <4>1 DEF t
      <4>2. CASE i # x
        <5>1. PICK k \in 1..m : q[k] = onPage[i]
          BY <3>3, <4>2
        <5> QED BY <1>2, <3>4, <5>1
      <4> QED BY <4>1, <4>2
    <3>6. \A k \in 1..m : current[k] \in R => new[k] = current[k]
      BY <3>3, <3>4
    <3> QED BY <3>2, <3>4, <3>5, <3>6
  <2> QED BY <2>1, <2>2
<1>4. D \in P
  <2>1. \A I \in SUBSET D : (\A x \in I : I \ {x} \in P) => I \in P
    BY <1>3
  <2> HIDE DEF P
  <2>2. D \in SUBSET D /\ IsFiniteSet(D)
    BY <1>0
  <2> QED BY <2>1, <2>2, BySmaller
<1> DEFINE new == f[D]
           page == {new[k] : k \in 1..m}
<1>5. FoldLeft(LAMBDA order, t : TakesPlace(order, onPage, t), current, onPage) = new
  BY FoldIsPlacing DEF f, D
<1>6. /\ Orders(new, S)
      /\ \A i \in D : \E k \in 1..m : new[k] = onPage[i]
      /\ \A k \in 1..m : current[k] \in R => new[k] = current[k]
  BY <1>4
<1> HIDE DEF new
<1>7. R \subseteq page
  <2>1. R = {onPage[i] : i \in D}
    BY <1>0, ToSetIs DEF Orders
  <2> QED BY <1>6, <2>1
<1>8. page = R
  <2>1. IsFiniteSet(S) /\ Cardinality(S) = Len(new) /\ Cardinality(R) = m /\ Len(new) \in Nat
    BY <1>6, OrderLength, LenProperties DEF Orders
  <2>2. m <= Len(new)
    BY <2>1, FS_Subset
  <2>3. Orders(SubSeq(new, 1, m), page) /\ Len(SubSeq(new, 1, m)) = m
    BY <1>0, <1>6, <2>2, FirstOrders
  <2> HIDE DEF page, m
  <2>4. IsFiniteSet(page) /\ Cardinality(page) = m
    BY <2>3, OrderLength
  <2> QED BY <1>7, <2>1, <2>4, FS_Subset
<1> QED BY <1>5, <1>6, <1>8 DEF Paged

\* An order of which nothing is left out (OnlyIn).
LEMMA OnlyInAll ==
    ASSUME NEW order, NEW T, Orders(order, T)
    PROVE  OnlyIn(order, T) = order
<1> DEFINE D == DOMAIN order
           n == Len(order)
           f == Folded("keep", T, <<>>, order)
           P == {I \in SUBSET D : \A k \in 0..n : I = 1..k => f[I] = [i \in 1..k |-> order[i]]}
<1>0. D = 1..n /\ n \in Nat /\ IsFiniteSet(D)
  BY LenProperties, FS_Interval DEF Orders
<1>7. order \in Seq(Tracks)
  BY DEF Orders
<1>8. order = [i \in 1..n |-> order[i]]
  BY <1>7
<1>1. \A I \in SUBSET D : f[I] = Turn(f, "keep", T, <<>>, order, I)
  BY <1>7, FoldTurns, Zenon
<1>2. \A i \in 1..n : order[i] \in T
  BY <1>0, ToSetIs DEF Orders
<1> HIDE DEF D, f, n
<1>3. ASSUME NEW I \in SUBSET D, \A x \in I : I \ {x} \in P  PROVE I \in P
  <2> SUFFICES ASSUME NEW k \in 0..n, I = 1..k PROVE f[I] = [i \in 1..k |-> order[i]]
    OBVIOUS
  <2>1. CASE k = 0
    <3>1. I = {}
      BY <2>1
    <3>2. f[I] = <<>>
      BY <1>1, <3>1 DEF Turn
    <3> QED BY <2>1, <3>2
  <2>2. CASE k # 0
    <3>0. k \in Nat /\ k \in 1..k /\ k - 1 \in 0..n /\ k \in 1..n
      BY <1>0, <2>2
    <3>1. Max(I) = k
      <4>1. \A y \in 1..k : k >= y
        BY <3>0
      <4>2. Max(I) \in I /\ \A y \in I : Max(I) >= y
        BY <3>0, <4>1 DEF Max
      <4> HIDE DEF Max
      <4> QED BY <3>0, <4>2
    <3>2. I \ {k} = 1..(k - 1)
      BY <3>0
    <3>3. I # {} /\ k \in I
      BY <3>0
    <3> DEFINE q == f[I \ {k}]
    <3>4. q = [i \in 1..(k - 1) |-> order[i]]
      BY <1>3, <3>0, <3>2, <3>3
    <3>5. f[I] = IF order[k] \in T THEN Append(q, order[k]) ELSE q
      BY <1>1, <3>1, <3>3 DEF Turn, Step
    <3>6. f[I] = Append(q, order[k])
      BY <1>2, <3>0, <3>5
    <3> HIDE DEF q
    <3>7. Append(q, order[k]) = [i \in 1..k |-> order[i]]
      <4>1. Len(q) = k - 1
        BY <3>0, <3>4
      <4>2. Append(q, order[k]) = [i \in 1..k |-> IF i = k THEN order[k] ELSE q[i]]
        BY <3>0, <3>4, <4>1
      <4>3. \A i \in 1..k : i # k => i \in 1..(k - 1)
        BY <3>0
      <4> QED BY <3>4, <4>2, <4>3
    <3> QED BY <3>6, <3>7
  <2> QED BY <2>1, <2>2
<1>4. D \in P
  <2>1. \A I \in SUBSET D : (\A x \in I : I \ {x} \in P) => I \in P
    BY <1>3
  <2> HIDE DEF P
  <2>2. D \in SUBSET D /\ IsFiniteSet(D)
    BY <1>0
  <2> QED BY <2>1, <2>2, BySmaller
<1>5. OnlyIn(order, T) = f[D]
  BY FoldIsKeeping DEF f, D
<1>6. f[D] = [i \in 1..n |-> order[i]]
  <2>1. n \in 0..n
    BY <1>0
  <2> QED BY <1>0, <1>4, <2>1
<1> QED BY <1>5, <1>6, <1>8

\* How many tracks a page shows.
LEMMA PageSize ==
    ASSUME NEW L, L.width \in Nat, L.height \in Nat, Len(L.tracks) \in Nat
    PROVE  maxItemsOnPage(L) \in Nat
<1> DEFINE n == Len(L.tracks)
           c == gridColumns(L, n)
<1>1. c \in Nat \ {0}
  BY GridColumnsType
<1> HIDE DEF c, n
<1>2. GridRows(L, n) \in Nat
  <2>1. n + c - 1 \in Nat /\ n \in Nat
    BY <1>1 DEF n
  <2>2. (n + c - 1) \div c \in Nat
    BY <1>1, <2>1, DivRounds
  <2> QED BY <2>2 DEF GridRows, c
<1>3. c * GridRows(L, n) \in Nat
  BY <1>1, <1>2
<1>4. maxCarouselTiles(L) \in Nat
  <2> DEFINE cw == CarouselWidth(L)
             span == Larger((cw * 6) \div 10, minCarouselTileHeight)
             inner == L.height - 2 * gridGap
  <2>1. cw \in Int
    BY DEF CarouselWidth, gridGap, totalFr
  <2> HIDE DEF cw
  <2>2. span \in Nat \ {0}
    <3>1. (cw * 6) \div 10 \in Int
      BY <2>1
    <3> QED BY <3>1 DEF Larger, minCarouselTileHeight
  <2> HIDE DEF span
  <2>3. inner + span \div 2 \in Int
    BY <2>2 DEF gridGap
  <2> DEFINE tall == inner + span \div 2
  <2>4. maxCarouselTiles(L) = Larger(tall \div span, 1)
    BY DEF maxCarouselTiles, cw, span
  <2> HIDE DEF inner
  <2>5. tall \div span \in Int
    <3> HIDE DEF tall
    <3>1. tall \in Int
      BY <2>3 DEF tall
    <3> QED BY <2>2, <3>1
  <2> HIDE DEF tall
  <2> QED BY <2>4, <2>5 DEF Larger
<1>5. maxItemsOnPage(L) \in {1, 1 + maxCarouselTiles(L), c * GridRows(L, n)}
  BY DEF maxItemsOnPage, c, n
<1> QED BY <1>3, <1>4, <1>5

\* What stabilize makes of the display order, on a page of "size" places: an order of the
\* tracks whose page holds the ideal's, and on a full page nobody moves who may stay.
Stable(new, old, ideal, size, S) ==
    LET m == Smaller(size, Len(ideal))
        R == {ideal[k] : k \in 1..m}
    IN /\ Orders(new, S)
       /\ {new[k] : k \in 1..m} = R
       /\ size < Len(ideal) => \A k \in 1..m : old[k] \in R => new[k] = old[k]

LEMMA StabilizeOrders ==
    ASSUME NEW L, NEW ideal, NEW S, Orders(ideal, S), Orders(L.displayOrder, S),
           maxItemsOnPage(L) \in Nat
    PROVE  Stable(stabilize(L, ideal), L.displayOrder, ideal, maxItemsOnPage(L), S)
<1> DEFINE old == L.displayOrder
           n == Len(ideal)
           size == maxItemsOnPage(L)
           m == Smaller(size, n)
           R == {ideal[k] : k \in 1..m}
           onPage == FirstOf(ideal, size)
           rest == OnlyIn(ideal, ToSet(ideal) \ ToSet(old))
           placed == FoldLeft(LAMBDA order, t : TakesPlace(order, onPage, t), old, onPage)
           new == stabilize(L, ideal)
<1>1. ToSet(ideal) = S /\ ToSet(old) = S /\ n \in Nat /\ Len(old) \in Nat
  BY LenProperties DEF Orders
<1>2. OnlyIn(old, S) = old
  BY OnlyInAll
<1>3. rest = <<>>
  <2>1. Orders(rest, S \cap (S \ S))
    BY <1>1, OnlyInOrders
  <2>2. S \cap (S \ S) = {}
    OBVIOUS
  <2>3. Orders(rest, {})
    BY <2>1, <2>2, Zenon
  <2> HIDE DEF rest
  <2>4. rest \in Seq(Tracks) /\ Len(rest) = 0
    BY <2>3, OrderLength, FS_EmptySet DEF Orders
  <2> QED BY <2>4, EmptySeq
<1>4. old \o <<>> = old
  BY ConcatEmptySeq DEF Orders
<1>5. new = IF old = <<>> \/ size >= Len(old) THEN ideal ELSE placed
  BY <1>1, <1>2, <1>3, <1>4, Zenon DEF stabilize
<1>6. Len(old) = n
  BY OrderLength
<1>7. m \in Nat /\ m <= n /\ m <= size
  BY <1>1 DEF Smaller
<1>8. Orders(onPage, R) /\ Len(onPage) = m /\ R \subseteq S
  <2>1. onPage = SubSeq(ideal, 1, m)
    BY DEF FirstOf
  <2> HIDE DEF onPage, m
  <2> QED BY <1>7, <2>1, FirstOrders
<1>9. CASE old = <<>> \/ size >= Len(old)
  <2>1. new = ideal
    BY <1>5, <1>9
  <2>2. ~(size < n)
    BY <1>1, <1>6, <1>9
  <2> QED BY <2>1, <2>2 DEF Stable
<1>10. CASE ~(old = <<>> \/ size >= Len(old))
  <2>1. new = placed
    BY <1>5, <1>10
  <2>2. /\ Orders(placed, S)
        /\ {placed[k] : k \in 1..m} = R
        /\ \A k \in 1..m : old[k] \in R => placed[k] = old[k]
    <3> HIDE DEF onPage, R, m, old
    <3>1. Orders(old, S)
      BY DEF old
    <3>2. Paged(placed, old, Len(onPage), S, R)
      BY <1>8, <3>1, PlacingKeeps, Zenon
    <3> QED BY <1>8, <3>2 DEF Paged
  <2> HIDE DEF placed
  <2> QED BY <2>1, <2>2 DEF Stable
<1> QED BY <1>9, <1>10

\* A manager made for the canvas and the layout of a request: it knows every track once,
\* and shows the ones it knows.
ManagerFields ==
    {"layout", "origLayout", "width", "height", "tracks", "displayOrder", "level", "spoke"}

Managed(L, r) ==
    /\ L = [f \in ManagerFields |-> L[f]]
    /\ L.width = r.width /\ L.height = r.height /\ L.origLayout = r.layout
    /\ L.layout \in {r.layout, "speaker"}
    /\ Orders(L.tracks, ToSet(L.tracks)) /\ Orders(L.displayOrder, ToSet(L.tracks))
    /\ Speakers(L)

LEMMA NewManaged ==
    ASSUME NEW r
    PROVE  Managed(NewLayoutManager(r.layout, r.width, r.height), r)
<1>1. Orders(<<>>, ToSet(<<>>))
  BY DEF Orders, Distinct, ToSet
<1> QED BY <1>1 DEF Managed, ManagerFields, NewLayoutManager, Speakers

\* The order of importance and the size of the page do not depend on what is shown.
LEMMA SortSame ==
    ASSUME NEW K, NEW L, K.tracks = L.tracks, K.level = L.level, K.spoke = L.spoke
    PROVE  sortTracks(K) = sortTracks(L)
BY DEF sortTracks, Precedes, AddOrder

LEMMA SizeSame ==
    ASSUME NEW K, NEW L, K.tracks = L.tracks, K.layout = L.layout, K.width = L.width, K.height = L.height
    PROVE  maxItemsOnPage(K) = maxItemsOnPage(L)
<1>1. \A n : gridColumns(K, n) = gridColumns(L, n)
  BY DEF gridColumns
<1>2. \A n : GridRows(K, n) = GridRows(L, n)
  BY <1>1 DEF GridRows
<1>3. maxCarouselTiles(K) = maxCarouselTiles(L)
  BY DEF maxCarouselTiles, CarouselWidth
<1> QED BY <1>1, <1>2, <1>3 DEF maxItemsOnPage

LEMMA ScreenShareManaged ==
    ASSUME NEW r, NEW L, Managed(L, r)
    PROVE  /\ Managed(onScreenShareChanged(L), r)
           /\ onScreenShareChanged(L).tracks = L.tracks
           /\ onScreenShareChanged(L).displayOrder = L.displayOrder
<1> DEFINE lay == IF ToSet(L.tracks) \cap ScreenShares = {} THEN L.origLayout
                  ELSE IF L.origLayout = "grid" THEN "speaker" ELSE L.layout
           K == [L EXCEPT !.layout = lay]
<1>1. onScreenShareChanged(L) = K
  BY DEF onScreenShareChanged
<1>2. lay \in {r.layout, "speaker"}
  BY DEF Managed
<1> HIDE DEF lay
<1>3. /\ K = [f \in ManagerFields |-> K[f]] /\ K.layout = lay
      /\ K.origLayout = L.origLayout /\ K.width = L.width /\ K.height = L.height
      /\ K.tracks = L.tracks /\ K.displayOrder = L.displayOrder
      /\ K.level = L.level /\ K.spoke = L.spoke
  BY DEF Managed, ManagerFields
<1> HIDE DEF K
<1>4. Managed(K, r)
  BY <1>2, <1>3 DEF Managed, Speakers
<1> QED BY <1>1, <1>3, <1>4

\* The display order is stabilized around the order of importance.
Reshown(L) == [L EXCEPT !.displayOrder = stabilize(L, sortTracks(L))]

LEMMA ReshownManaged ==
    ASSUME NEW r, r.width \in Nat, r.height \in Nat, NEW L, Managed(L, r)
    PROVE  /\ Managed(Reshown(L), r)
           /\ Reshown(L).tracks = L.tracks /\ Reshown(L).layout = L.layout
           /\ Stable(Reshown(L).displayOrder, L.displayOrder, sortTracks(Reshown(L)),
                     maxItemsOnPage(Reshown(L)), ToSet(L.tracks))
<1> DEFINE ideal == sortTracks(L)
           new == stabilize(L, ideal)
           K == [L EXCEPT !.displayOrder = new]
           S == ToSet(L.tracks)
<1>1. Orders(ideal, S)
  BY SortOrders DEF Managed
<1>2. maxItemsOnPage(L) \in Nat
  BY PageSize, LenProperties DEF Managed, Orders
<1> HIDE DEF ideal
<1>3. Stable(new, L.displayOrder, ideal, maxItemsOnPage(L), S)
  BY <1>1, <1>2, StabilizeOrders DEF Managed
<1>4. Orders(new, S)
  BY <1>3 DEF Stable
<1> HIDE DEF new, S
<1>5. /\ K = [f \in ManagerFields |-> K[f]] /\ K.displayOrder = new
      /\ K.origLayout = L.origLayout /\ K.width = L.width /\ K.height = L.height
      /\ K.tracks = L.tracks /\ K.layout = L.layout
      /\ K.level = L.level /\ K.spoke = L.spoke
  BY DEF Managed, ManagerFields
<1>6. Reshown(L) = K
  BY DEF Reshown, new, ideal
<1> HIDE DEF K
<1>7. Managed(K, r)
  BY <1>4, <1>5 DEF Managed, Speakers, S
<1>8. sortTracks(K) = ideal /\ maxItemsOnPage(K) = maxItemsOnPage(L)
  BY <1>5, SortSame, SizeSame DEF ideal
<1> QED BY <1>3, <1>5, <1>6, <1>7, <1>8 DEF S

\* AddTrack
LEMMA AddManaged ==
    ASSUME NEW r, r.width \in Nat, r.height \in Nat, NEW L, Managed(L, r),
           NEW t \in Tracks, t \notin ToSet(L.tracks)
    PROVE  \E K : /\ Managed(K, r) /\ AddTrack(L, t) = Reshown(K)
                  /\ K.displayOrder = Append(L.displayOrder, t)
<1> DEFINE all == Append(L.tracks, t)
           shown == Append(L.displayOrder, t)
           K == [L EXCEPT !.tracks = all, !.displayOrder = shown]
           placed == IF t \in ScreenShares THEN onScreenShareChanged(K) ELSE K
<1>1. Orders(all, ToSet(L.tracks) \cup {t}) /\ Orders(shown, ToSet(L.tracks) \cup {t})
  BY AppendOrders DEF Managed
<1>2. AddTrack(L, t) = Reshown(placed)
  <2> HIDE DEF all, shown
  <2> QED BY DEF AddTrack, Reshown, all, shown
<1> HIDE DEF all, shown
<1>3. Orders(all, ToSet(all)) /\ Orders(shown, ToSet(all))
  BY <1>1 DEF Orders
<1>4. /\ K = [f \in ManagerFields |-> K[f]] /\ K.tracks = all /\ K.displayOrder = shown
      /\ K.origLayout = L.origLayout /\ K.width = L.width /\ K.height = L.height
      /\ K.layout = L.layout /\ K.level = L.level /\ K.spoke = L.spoke
  BY DEF Managed, ManagerFields
<1> HIDE DEF K
<1>5. Managed(K, r)
  BY <1>3, <1>4 DEF Managed, Speakers
<1>6. Managed(placed, r) /\ placed.displayOrder = shown
  BY <1>4, <1>5, ScreenShareManaged
<1> QED BY <1>2, <1>6 DEF shown

\* RemoveTrack
LEMMA RemoveManaged ==
    ASSUME NEW r, NEW L, Managed(L, r), NEW t \in ToSet(L.tracks)
    PROVE  /\ Managed(RemoveTrack(L, t), r)
           /\ Len(RemoveTrack(L, t).tracks) < Len(L.tracks)
<1> DEFINE S == ToSet(L.tracks)
           all == OnlyIn(L.tracks, Tracks \ {t})
           shown == OnlyIn(L.displayOrder, Tracks \ {t})
           level == [L.level EXCEPT ![t] = 0]
           spoke == [L.spoke EXCEPT ![t] = 0]
           K == [L EXCEPT !.tracks = all, !.displayOrder = shown, !.level = level, !.spoke = spoke]
<1>1. S \cap (Tracks \ {t}) = S \ {t} /\ t \in Tracks
  BY ToSetIs DEF Managed, Orders
<1>2. Orders(all, S \ {t}) /\ Orders(shown, S \ {t})
  <2>1. Orders(all, S \cap (Tracks \ {t})) /\ Orders(shown, S \cap (Tracks \ {t}))
    BY OnlyInOrders DEF Managed
  <2> QED BY <1>1, <2>1, Zenon
<1>3. level \in [Tracks -> Nat] /\ spoke \in [Tracks -> Nat]
  BY <1>1 DEF Managed, Speakers
<1>4. RemoveTrack(L, t) = IF t \in ScreenShares THEN onScreenShareChanged(K) ELSE K
  <2>1. [L EXCEPT !.tracks = OnlyIn(@, Tracks \ {t}), !.displayOrder = OnlyIn(@, Tracks \ {t}),
                  !.level[t] = 0, !.spoke[t] = 0] = K
    OBVIOUS
  <2> HIDE DEF K
  <2> QED BY <2>1 DEF RemoveTrack
<1>5. Len(all) < Len(L.tracks)
  <2>1. IsFiniteSet(S) /\ Cardinality(S) = Len(L.tracks)
    BY OrderLength DEF Managed
  <2>2. Cardinality(S \ {t}) = Len(all)
    BY <1>2, OrderLength
  <2>3. Cardinality(S \ {t}) = Cardinality(S) - 1 /\ Cardinality(S) \in Nat
    BY <2>1, FS_RemoveElement, FS_CardinalityType
  <2> QED BY <2>1, <2>2, <2>3
<1> HIDE DEF all, shown, level, spoke
<1>6. Orders(all, ToSet(all)) /\ Orders(shown, ToSet(all))
  BY <1>2 DEF Orders
<1>7. /\ K = [f \in ManagerFields |-> K[f]] /\ K.tracks = all /\ K.displayOrder = shown
      /\ K.origLayout = L.origLayout /\ K.width = L.width /\ K.height = L.height
      /\ K.layout = L.layout /\ K.level = level /\ K.spoke = spoke
  BY DEF Managed, ManagerFields
<1> HIDE DEF K
<1>8. Managed(K, r)
  BY <1>3, <1>6, <1>7 DEF Managed, Speakers
<1> QED BY <1>4, <1>5, <1>7, <1>8, ScreenShareManaged

\* UpdateSpeakers
LEMMA SpokenType ==
    ASSUME NEW L, Speakers(L), NEW speakers
    PROVE  Spoken(L, speakers) \in [Tracks -> Nat]
<1> DEFINE last == 1 + Cardinality(Tracks)
           at == [t \in Tracks |-> IF t \in speakers THEN last ELSE L.spoke[t]]
           U == {at[u] : u \in Tracks}
<1>1. last \in Nat
  BY TracksAssumption, FS_CardinalityType
<1> HIDE DEF last
<1>2. \A t \in Tracks : at[t] \in Nat
  BY <1>1 DEF Speakers
<1> HIDE DEF at, U
<1>3. ASSUME NEW t \in Tracks PROVE Cardinality(U \cap (1..at[t])) \in Nat
  <2>1. IsFiniteSet(1..at[t])
    BY <1>2, FS_Interval
  <2>2. U \cap (1..at[t]) \in SUBSET (1..at[t])
    OBVIOUS
  <2> QED BY <2>1, <2>2, FS_Subset, FS_CardinalityType
<1>4. Spoken(L, speakers) = [t \in Tracks |-> Cardinality(U \cap (1..at[t]))]
  BY DEF Spoken, U, at, last
<1> QED BY <1>3, <1>4

LEMMA SpeakersManaged ==
    ASSUME NEW r, r.width \in Nat, r.height \in Nat, NEW L, Managed(L, r),
           NEW speakers \in SUBSET Tracks, NEW levels \in [speakers -> 1..2]
    PROVE  \E K : /\ Managed(K, r) /\ UpdateSpeakers(L, levels) = Reshown(K)
                  /\ K.tracks = L.tracks /\ K.displayOrder = L.displayOrder
<1> DEFINE level == [t \in Tracks |-> IF t \in ToSet(L.tracks) \cap DOMAIN levels
                                      THEN levels[t] ELSE 0]
           spoke == Spoken(L, {t \in Tracks : level[t] > 0})
           K == [L EXCEPT !.level = level, !.spoke = spoke]
<1>1. level \in [Tracks -> Nat]
  OBVIOUS
<1>2. UpdateSpeakers(L, levels) = Reshown(K)
  BY DEF UpdateSpeakers, Reshown
<1>3. spoke \in [Tracks -> Nat]
  BY SpokenType DEF Managed
<1> HIDE DEF level, spoke
<1>4. /\ K = [f \in ManagerFields |-> K[f]] /\ K.tracks = L.tracks /\ K.displayOrder = L.displayOrder
      /\ K.origLayout = L.origLayout /\ K.width = L.width /\ K.height = L.height
      /\ K.layout = L.layout /\ K.level = level /\ K.spoke = spoke
  BY DEF Managed, ManagerFields
<1> HIDE DEF K
<1>5. Managed(K, r)
  BY <1>1, <1>3, <1>4 DEF Managed, Speakers
<1> QED BY <1>2, <1>4, <1>5

\* The manager exists while the pipeline of its request runs.
ManagerInv ==
    manager # NoLayout => phase = "built" /\ req \in Followed /\ Managed(manager, req)

LEMMA ManagerInit == PipelineInit => ManagerInv
BY DEF PipelineInit, ManagerInv

\* What an event does to the manager: a track leaves, or the display order is stabilized
\* after a track was added at its end or the speakers changed.
Follows(L, new, r) ==
    \/ Managed(new, r) /\ Len(new.tracks) < Len(L.tracks)
    \/ \E K : /\ Managed(K, r) /\ new = Reshown(K)
              /\ \A i \in 1..Len(L.displayOrder) : K.displayOrder[i] = L.displayOrder[i]

LEMMA LayoutSteps ==
    ASSUME ManagerInv, PipelineNext, manager # NoLayout, UNCHANGED <<phase, req>>
    PROVE  manager' = manager \/ Follows(manager, manager', req)
<1>0. /\ phase = "built" /\ req \in Followed /\ Managed(manager, req)
      /\ req.width \in Nat /\ req.height \in Nat
  BY PipelineAssumption, RequestIs DEF ManagerInv
<1>1. CASE Validate \/ TracksSubscribed \/ BuildPipeline \/ Retry
  BY <1>0, <1>1 DEF Validate, TracksSubscribed, BuildPipeline, Retry
<1>2. ASSUME NEW t \in Tracks, TrackJoins(t) PROVE Follows(manager, manager', req)
  <2>1. t \notin ToSet(manager.tracks) /\ manager' = AddTrack(manager, t)
    BY <1>2 DEF TrackJoins, LayoutChanges
  <2>2. PICK K : /\ Managed(K, req) /\ AddTrack(manager, t) = Reshown(K)
                 /\ K.displayOrder = Append(manager.displayOrder, t)
    BY <1>0, <2>1, AddManaged
  <2>3. manager.displayOrder \in Seq(Tracks)
    BY <1>0 DEF Managed, Orders
  <2>4. \A i \in 1..Len(manager.displayOrder) : K.displayOrder[i] = manager.displayOrder[i]
    BY <2>2, <2>3, AppendProperties
  <2> QED BY <2>1, <2>2, <2>4 DEF Follows
<1>3. ASSUME NEW t \in Tracks, TrackLeaves(t) PROVE Follows(manager, manager', req)
  <2>1. t \in ToSet(manager.tracks) /\ manager' = RemoveTrack(manager, t)
    BY <1>3 DEF TrackLeaves, LayoutChanges
  <2> QED BY <1>0, <2>1, RemoveManaged DEF Follows
<1>4. ASSUME NEW speakers \in SUBSET Tracks, NEW levels \in [speakers -> 1..2], SpeakersUpdated(levels)
      PROVE  Follows(manager, manager', req)
  <2>1. manager' = UpdateSpeakers(manager, levels)
    BY <1>4 DEF SpeakersUpdated, LayoutChanges
  <2>2. PICK K : /\ Managed(K, req) /\ UpdateSpeakers(manager, levels) = Reshown(K)
                 /\ K.tracks = manager.tracks /\ K.displayOrder = manager.displayOrder
    BY <1>0, SpeakersManaged
  <2> QED BY <2>1, <2>2 DEF Follows
<1> QED BY <1>1, <1>2, <1>3, <1>4 DEF PipelineNext

LEMMA FollowsManaged ==
    ASSUME NEW r, r.width \in Nat, r.height \in Nat, NEW L, NEW new, Follows(L, new, r)
    PROVE  Managed(new, r)
BY ReshownManaged DEF Follows

LEMMA ManagerNext == ManagerInv /\ [PipelineNext]_pipelineVars => ManagerInv'
<1> SUFFICES ASSUME ManagerInv, [PipelineNext]_pipelineVars PROVE ManagerInv'
  OBVIOUS
<1>1. CASE UNCHANGED pipelineVars
  BY <1>1 DEF pipelineVars, ManagerInv
<1>2. CASE PipelineNext /\ manager = NoLayout
  <2>1. CASE Validate \/ TracksSubscribed \/ Retry
    BY <1>2, <2>1 DEF Validate, TracksSubscribed, Retry, ManagerInv
  <2>2. CASE BuildPipeline
    <3>1. manager' # NoLayout => req' \in Followed /\ phase' = "built"
             /\ manager' = NewLayoutManager(req'.layout, req'.width, req'.height)
      BY <2>2 DEF BuildPipeline
    <3> QED BY <3>1, NewManaged DEF ManagerInv
  <2> QED BY <1>2, <2>1, <2>2 DEF PipelineNext, TrackJoins, TrackLeaves, SpeakersUpdated
<1>3. CASE PipelineNext /\ manager # NoLayout
  <2>0. phase = "built" /\ req \in Followed /\ Managed(manager, req)
    BY <1>3 DEF ManagerInv
  <2>1. UNCHANGED <<phase, req>>
    BY <1>3, <2>0 DEF PipelineNext, Validate, TracksSubscribed, BuildPipeline, Retry,
                      TrackJoins, TrackLeaves, SpeakersUpdated, LayoutChanges
  <2>2. manager' = manager \/ Follows(manager, manager', req)
    BY <1>3, <2>1, LayoutSteps
  <2>3. req.width \in Nat /\ req.height \in Nat
    BY <2>0, PipelineAssumption, RequestIs
  <2>4. Managed(manager', req)
    BY <2>0, <2>2, <2>3, FollowsManaged
  <2> QED BY <2>0, <2>1, <2>4 DEF ManagerInv
<1> QED BY <1>1, <1>2, <1>3

\* The page after the display order was stabilized.
LEMMA ReshownIdeal ==
    ASSUME NEW r, r.width \in Nat, r.height \in Nat, NEW K, Managed(K, r),
           NEW shown, Len(shown) \in Nat, \A i \in 1..Len(shown) : K.displayOrder[i] = shown[i]
    PROVE  LET new   == Reshown(K)
               size  == maxItemsOnPage(new)
               ideal == ToSet(FirstOf(sortTracks(new), size))
               page  == FirstOf(new.displayOrder, size)
           IN /\ ToSet(page) = ideal
              /\ Len(new.tracks) > size =>
                    \A i \in 1..Smaller(Len(page), Len(shown)) :
                        page[i] # shown[i] => shown[i] \notin ideal
<1> DEFINE new == Reshown(K)
           S == ToSet(K.tracks)
           size == maxItemsOnPage(new)
           sorted == sortTracks(new)
           n == Len(sorted)
           m == Smaller(size, n)
           R == {sorted[k] : k \in 1..m}
           page == FirstOf(new.displayOrder, size)
<1>1. /\ Managed(new, r) /\ new.tracks = K.tracks
      /\ Stable(new.displayOrder, K.displayOrder, sorted, size, S)
  BY ReshownManaged
<1> HIDE DEF new
<1>2. Orders(sorted, S)
  BY <1>1, SortOrders DEF Managed
<1>3. size \in Nat
  BY <1>1, PageSize, LenProperties DEF Managed, Orders
<1>4. Orders(new.displayOrder, S) /\ Orders(new.tracks, S)
  BY <1>1 DEF Managed
<1>5. n \in Nat /\ Len(new.displayOrder) = n /\ Len(new.tracks) = n
  BY <1>2, <1>4, OrderLength, LenProperties DEF Orders
<1> HIDE DEF sorted, size
<1>6. m \in Nat /\ m <= n /\ m <= size /\ (size < n => m = size)
  BY <1>3, <1>5 DEF Smaller
<1>7. FirstOf(sorted, size) = SubSeq(sorted, 1, m) /\ page = SubSeq(new.displayOrder, 1, m)
  BY <1>5 DEF FirstOf
<1> HIDE DEF page, m
<1>8. ToSet(FirstOf(sorted, size)) = R
  BY <1>2, <1>6, <1>7, FirstOrders DEF Orders
<1>9. /\ ToSet(page) = {new.displayOrder[k] : k \in 1..m} /\ Len(page) = m
      /\ \A k \in 1..m : page[k] = new.displayOrder[k]
  BY <1>4, <1>5, <1>6, <1>7, FirstOrders DEF Orders
<1>10. /\ {new.displayOrder[k] : k \in 1..m} = R
       /\ size < n => \A k \in 1..m : K.displayOrder[k] \in R => new.displayOrder[k] = K.displayOrder[k]
  BY <1>1 DEF Stable, m
<1> HIDE DEF R, n
<1>11. ASSUME n > size, NEW i \in 1..Smaller(m, Len(shown)), page[i] # shown[i]
       PROVE  shown[i] \notin R
  <2>1. i \in 1..m /\ i \in 1..Len(shown)
    BY <1>6 DEF Smaller
  <2>2. K.displayOrder[i] = shown[i] /\ page[i] = new.displayOrder[i]
    BY <1>9, <2>1
  <2>3. size < n
    BY <1>3, <1>5, <1>11
  <2> QED BY <1>10, <1>11, <2>1, <2>2, <2>3
<1>12. Len(new.tracks) > size =>
          \A i \in 1..Smaller(Len(page), Len(shown)) : page[i] # shown[i] => shown[i] \notin R
  BY <1>5, <1>9, <1>11
<1> QED BY <1>8, <1>9, <1>10, <1>12 DEF new, size, sorted, page

(***************************************************************************)
(* After a track was added or the speakers changed, the page shows the     *)
(* tracks that the order of importance puts first, and a track that stays  *)
(* on a full page keeps its place (AddTrack, UpdateSpeakers, stabilize).   *)
(***************************************************************************)
THEOREM PipelinePageIsIdeal == PipelineSpec => PageIsIdeal
<1>1. ASSUME ManagerInv, PipelineNext, NoLayout \notin {manager, manager'},
             manager' # manager, Len(manager'.tracks) >= Len(manager.tracks)
      PROVE  PageFollows(manager, manager')
  <2>1. phase = "built" /\ req \in Followed /\ Managed(manager, req)
    BY <1>1 DEF ManagerInv
  <2>2. UNCHANGED <<phase, req>>
    BY <1>1, <2>1 DEF PipelineNext, Validate, TracksSubscribed, BuildPipeline, Retry,
                      TrackJoins, TrackLeaves, SpeakersUpdated, LayoutChanges
  <2>3. Follows(manager, manager', req)
    BY <1>1, <2>2, LayoutSteps
  <2>4. req.width \in Nat /\ req.height \in Nat
    BY <2>1, PipelineAssumption, RequestIs
  <2>5. Managed(manager', req)
    BY <2>3, <2>4, FollowsManaged
  <2>6. Len(manager.tracks) \in Nat /\ Len(manager'.tracks) \in Nat /\ Len(manager.displayOrder) \in Nat
    BY <2>1, <2>5, LenProperties DEF Managed, Orders
  <2>7. PICK K : /\ Managed(K, req) /\ manager' = Reshown(K)
                 /\ \A i \in 1..Len(manager.displayOrder) : K.displayOrder[i] = manager.displayOrder[i]
    BY <1>1, <2>3, <2>6 DEF Follows
  <2> QED BY <2>4, <2>6, <2>7, ReshownIdeal DEF PageFollows
<1>2. ManagerInv /\ [PipelineNext]_pipelineVars
        => [manager' # manager /\ NoLayout \notin {manager, manager'}
              /\ Len(manager'.tracks) >= Len(manager.tracks) => PageFollows(manager, manager')]_pipelineVars
  BY <1>1
<1> QED BY <1>2, ManagerInit, ManagerNext, PTL DEF PipelineSpec, PageIsIdeal

\* displayOrder and tracks hold the same tracks.
LEMMA ManagedReordered ==
    ASSUME NEW r, NEW L, Managed(L, r)
    PROVE  Reordered(L)
<1> DEFINE S == ToSet(L.tracks)
           old == L.displayOrder
           rest == OnlyIn(L.tracks, S \ ToSet(old))
<1>1. Orders(old, S) /\ Orders(L.tracks, S) /\ ToSet(old) = S
  BY DEF Managed, Orders
<1>2. OnlyIn(old, S) = old
  BY <1>1, OnlyInAll
<1>3. rest = <<>>
  <2>1. Orders(rest, S \cap (S \ S))
    BY <1>1, OnlyInOrders
  <2>2. S \cap (S \ S) = {}
    OBVIOUS
  <2>3. Orders(rest, {})
    BY <2>1, <2>2, Zenon
  <2> HIDE DEF rest
  <2>4. rest \in Seq(Tracks) /\ Len(rest) = 0
    BY <2>3, OrderLength, FS_EmptySet DEF Orders
  <2> QED BY <2>4, EmptySeq
<1>4. old \o <<>> = old
  BY <1>1, ConcatEmptySeq DEF Orders
<1>5. orderedTracks(L) = old
  BY <1>2, <1>3, <1>4, Zenon DEF orderedTracks
<1>6. Len(old) = Len(L.tracks)
  BY <1>1, OrderLength
<1> HIDE DEF old
<1> QED BY <1>1, <1>5, <1>6 DEF Reordered, Orders

\* The canvas of every request has room for all the tracks (HasRoom).
CanvasSuffices ==
    \A r \in Followed :
        /\ r.width >= 30 /\ r.height >= 17
        /\ r.layout \notin {"speaker", "single-speaker"} =>
              \A n \in 0..Cardinality(Tracks) :
                  9 * gridColumns(r, n) + 8 <= r.width /\ 9 * GridRows(r, n) + 8 <= r.height

LEMMA ManagedHasRoom ==
    ASSUME CanvasSuffices, NEW r \in Followed, NEW L, Managed(L, r)
    PROVE  HasRoom(L) /\ Len(L.tracks) \in 0..Cardinality(Tracks)
<1> DEFINE n == Len(L.tracks)
<1>1. r.width \in Nat /\ r.height \in Nat
  BY PipelineAssumption, RequestIs
<1>2. n \in Nat /\ n <= Cardinality(Tracks) /\ Cardinality(Tracks) \in Nat
  <2>1. n \in Nat
    BY LenProperties DEF Managed, Orders
  <2>2. Cardinality(ToSet(L.tracks)) = n /\ ToSet(L.tracks) \in SUBSET Tracks
    BY OrderLength, ToSetIs DEF Managed, Orders
  <2>3. IsFiniteSet(Tracks) /\ Cardinality(Tracks) \in Nat
    BY TracksAssumption, FS_CardinalityType
  <2> HIDE DEF n
  <2> QED BY <2>1, <2>2, <2>3, FS_Subset
<1>3. n \in 0..Cardinality(Tracks)
  BY <1>2
<1>4. gridColumns(L, n) = gridColumns(r, n) /\ GridRows(L, n) = GridRows(r, n)
  <2>1. L.width = r.width
    BY DEF Managed
  <2>2. gridColumns(L, n) = gridColumns(r, n)
    BY <2>1 DEF gridColumns
  <2> QED BY <2>2 DEF GridRows
<1>5. L.width = r.width /\ L.height = r.height /\ (L.layout # "speaker" => L.layout = r.layout)
  BY DEF Managed
<1> HIDE DEF n
<1> QED BY <1>1, <1>3, <1>4, <1>5 DEF CanvasSuffices, HasRoom, n

\* The sizes that the cells of n tracks may have: the canvas, a stage, a tile of the
\* carousel, and a cell of the grid.
GridSide(side, n) == (side - 2 * gridGap - (n - 1) * gridGap) \div n

CanvasShape(L) == [w |-> L.width, h |-> L.height]
StageShape(L) == [w |-> L.width - 3 * gridGap - CarouselWidth(L), h |-> L.height - 2 * gridGap]
TileShape(L) == [w |-> CarouselWidth(L), h |-> ThumbHeight(L)]
GridShape(L, n) ==
    [w |-> GridSide(L.width, gridColumns(L, n)), h |-> GridSide(L.height, GridRows(L, n))]

Shapes(L, n) ==
    {CanvasShape(L), StageShape(L), TileShape(L)}
        \cup (IF L.layout \in {"speaker", "single-speaker"} THEN {} ELSE {GridShape(L, n)})

HasShape(c, L, n) == [w |-> c.w, h |-> c.h] \in Shapes(L, n)

LEMMA CellShapes ==
    ASSUME NEW L, HasRoom(L), Reordered(L), L.tracks \in Seq(Tracks),
           NEW i \in Shown(recalculate(L))
    PROVE  HasShape(recalculate(L)[i], L, Len(L.tracks)) /\ Len(L.tracks) # 0
<1> DEFINE n == Len(L.tracks)
           cells == recalculate(L)
           order == orderedTracks(L)
<1>1. n \in Nat /\ i \in 1..Len(cells) /\ cells[i].alpha = 1
  BY LenProperties DEF Shown
<1>2. n # 0
  <2>1. SUFFICES ASSUME n = 0 PROVE FALSE
    OBVIOUS
  <2>2. L.tracks = <<>>
    BY <2>1
  <2>3. cells = <<>>
    BY <2>2 DEF recalculate
  <2> QED BY <1>1, <2>3
<1>3. \A t : HasShape(FullCanvas(L, t), L, n)
  <2>1. \A t : [w |-> FullCanvas(L, t).w, h |-> FullCanvas(L, t).h] = CanvasShape(L)
    BY DEF CanvasShape, FullCanvas, Cell
  <2> QED BY <2>1 DEF HasShape, Shapes
<1>4. L.tracks # <<>>
  BY <1>2
<1>5. Len(order) = n
  BY DEF Reordered
<1>6. CASE L.layout = "single-speaker"
  <2>1. cells = [k \in 1..n |-> IF k = 1 THEN FullCanvas(L, order[1]) ELSE Hidden(order[k])]
    BY <1>4, <1>5, <1>6 DEF recalculate, calculateSingleSpeakerLayout
  <2> HIDE DEF cells, n, order
  <2>2. i \in 1..n
    BY <1>1, <2>1
  <2>3. i = 1
    BY <1>1, <2>1, <2>2 DEF Hidden
  <2>4. cells[i] = FullCanvas(L, order[1])
    BY <2>1, <2>2, <2>3
  <2> QED BY <1>2, <1>3, <2>4 DEF cells, n
<1>7. CASE L.layout = "speaker" /\ n = 1
  <2>1. cells = << FullCanvas(L, order[1]) >>
    BY <1>4, <1>5, <1>7 DEF recalculate, calculateSpeakerLayout
  <2> HIDE DEF cells, n, order
  <2>2. cells[i] = FullCanvas(L, order[1])
    BY <1>1, <2>1
  <2> QED BY <1>2, <1>3, <2>2 DEF cells, n
<1>8. CASE L.layout = "speaker" /\ n # 1
  <2> DEFINE cw == CarouselWidth(L)
             stageW == L.width - 3 * gridGap - cw
             visible == Smaller(maxCarouselTiles(L), Len(order) - 1)
             Y(k) == gridGap + k * (ThumbHeight(L) + gridGap)
             stage == Cell(order[1], 2 * gridGap + cw, gridGap, stageW, L.height - 2 * gridGap)
             Tile(k) == Cell(order[k], gridGap, Y(k - 2), cw, ThumbHeight(L))
  <2>1. calculateSpeakerLayout(L) = [k \in 1..Len(order) |-> CASE k = 1 -> stage
                                [] k \in 2..(visible + 1) -> Tile(k)
                                [] OTHER -> Hidden(order[k])]
    <3>1. Len(orderedTracks(L)) # 1
      BY <1>5, <1>8
    <3> QED BY <3>1, Zenon DEF calculateSpeakerLayout
  <2>2. cells = calculateSpeakerLayout(L)
    BY <1>4, <1>8 DEF recalculate
  <2>3. HasShape(stage, L, n)
    <3>1. [w |-> stage.w, h |-> stage.h] = StageShape(L)
      BY DEF StageShape, Cell
    <3> HIDE DEF stage
    <3> QED BY <3>1 DEF HasShape, Shapes
  <2>4. \A k : HasShape(Tile(k), L, n)
    <3>1. \A k : [w |-> Tile(k).w, h |-> Tile(k).h] = TileShape(L)
      BY DEF TileShape, Cell
    <3> HIDE DEF Tile
    <3> QED BY <3>1 DEF HasShape, Shapes
  <2> HIDE DEF cells, n, order, stage, Tile, visible
  <2>5. i \in 1..n
    BY <1>1, <1>5, <2>1, <2>2
  <2>6. cells[i] \in {stage, Tile(i), Hidden(order[i])}
    BY <1>5, <2>1, <2>2, <2>5
  <2>7. cells[i] # Hidden(order[i])
    BY <1>1 DEF Hidden
  <2> QED BY <1>2, <2>3, <2>4, <2>6, <2>7 DEF cells, n
<1>9. CASE L.layout \notin {"speaker", "single-speaker"} /\ n = 1
  <2>1. cells = << FullCanvas(L, L.tracks[1]) >>
    BY <1>4, <1>9 DEF recalculate, calculateGridLayout
  <2> HIDE DEF cells, n
  <2>2. cells[i] = FullCanvas(L, L.tracks[1])
    BY <1>1, <2>1
  <2> QED BY <1>2, <1>3, <2>2 DEF cells, n
<1>10. CASE L.layout \notin {"speaker", "single-speaker"} /\ n # 1
  <2> DEFINE cols == gridColumns(L, n)
             cellW == GridSide(L.width, cols)
             cellH == GridSide(L.height, GridRows(L, n))
             InGrid(k) == Cell(L.tracks[k], gridGap + ((k - 1) % cols) * (cellW + gridGap),
                               gridGap + ((k - 1) \div cols) * (cellH + gridGap), cellW, cellH)
  <2>1. calculateGridLayout(L) = [k \in 1..n |-> InGrid(k)]
    BY <1>10, Zenon DEF calculateGridLayout, GridSide
  <2>2. cells = calculateGridLayout(L)
    BY <1>4, <1>10 DEF recalculate
  <2>3. \A k : HasShape(InGrid(k), L, n)
    <3>1. \A k : [w |-> InGrid(k).w, h |-> InGrid(k).h] = GridShape(L, n)
      BY DEF GridShape, Cell
    <3> HIDE DEF InGrid
    <3> QED BY <1>10, <3>1 DEF HasShape, Shapes
  <2> HIDE DEF cells, n, InGrid
  <2>4. i \in 1..n
    BY <1>1, <2>1, <2>2
  <2>5. cells[i] = InGrid(i)
    BY <2>1, <2>2, <2>4
  <2> QED BY <1>2, <2>3, <2>5 DEF cells, n
<1> QED BY <1>6, <1>7, <1>8, <1>9, <1>10

\* The sides of a shape are numbers.
LEMMA ShapeSides ==
    ASSUME NEW L, HasRoom(L), NEW n \in Nat \ {0}, NEW shape \in Shapes(L, n)
    PROVE  shape.w \in Int /\ shape.h \in Int
<1>1. \A side \in Nat, k \in Nat \ {0} : GridSide(side, k) \in Int
  <2>1. ASSUME NEW side \in Nat, NEW k \in Nat \ {0} PROVE GridSide(side, k) \in Int
    <3> DEFINE rest == side - 2 * gridGap - (k - 1) * gridGap
    <3>1. rest \in Int
      BY DEF gridGap
    <3> HIDE DEF rest
    <3>2. rest \div k \in Int
      BY <3>1
    <3> QED BY <3>2 DEF GridSide, rest
  <2> QED BY <2>1
<1>2. L.width \in Nat /\ L.height \in Nat /\ L.width >= 30 /\ L.height >= 17
  BY DEF HasRoom
<1>3. CarouselWidth(L) \in Int /\ maxCarouselTiles(L) \in Nat \ {0}
  BY <1>2, SpeakerColumns
<1>4. ThumbHeight(L) \in Int
  <2> DEFINE k == maxCarouselTiles(L)
             rest == L.height - 2 * gridGap - gridGap * (k - 1)
  <2> HIDE DEF k
  <2>1. rest \in Int /\ k \in Nat \ {0}
    BY <1>2, <1>3 DEF gridGap, k
  <2> HIDE DEF rest
  <2>2. rest \div k \in Int
    BY <2>1
  <2> QED BY <2>2 DEF ThumbHeight, k, rest
<1>5. gridColumns(L, n) \in Nat \ {0}
  BY <1>2, GridColumnsType
<1>6. GridRows(L, n) \in Nat \ {0}
  <2> DEFINE c == gridColumns(L, n)
  <2>1. c \in Nat \ {0}
    BY <1>5
  <2> HIDE DEF c
  <2>2. (n + c - 1) \div c \in Nat /\ (n + c - 1) \div c >= 1
    <3> DEFINE up == n + c - 1
    <3>1. up \in Nat /\ c <= up
      BY <2>1
    <3> HIDE DEF up
    <3>2. up \div c \in Nat /\ up \div c >= 1
      BY <2>1, <3>1, DivRounds, DivAbove
    <3> QED BY <3>2 DEF up
  <2> QED BY <2>2 DEF GridRows, c
<1>7. L.width - 3 * gridGap - CarouselWidth(L) \in Int /\ L.height - 2 * gridGap \in Int
  BY <1>2, <1>3 DEF gridGap
<1>8. GridSide(L.width, gridColumns(L, n)) \in Int /\ GridSide(L.height, GridRows(L, n)) \in Int
  BY <1>1, <1>2, <1>5, <1>6
<1>9. shape \in {CanvasShape(L), StageShape(L), TileShape(L), GridShape(L, n)}
  BY DEF Shapes
<1>10. CanvasShape(L).w \in Int /\ CanvasShape(L).h \in Int
  BY <1>2 DEF CanvasShape
<1>11. StageShape(L).w \in Int /\ StageShape(L).h \in Int
  BY <1>7 DEF StageShape
<1>12. TileShape(L).w \in Int /\ TileShape(L).h \in Int
  BY <1>3, <1>4 DEF TileShape
<1>13. GridShape(L, n).w \in Int /\ GridShape(L, n).h \in Int
  BY <1>8 DEF GridShape
<1> QED BY <1>9, <1>10, <1>11, <1>12, <1>13

LEMMA ManagedShapes ==
    ASSUME NEW r, NEW L, Managed(L, r), NEW n
    PROVE  Shapes(L, n) \subseteq Shapes(r, n)
<1>1. L.width = r.width /\ L.height = r.height /\ (L.layout # "speaker" => L.layout = r.layout)
  BY DEF Managed
<1>2. CarouselWidth(L) = CarouselWidth(r) /\ gridColumns(L, n) = gridColumns(r, n)
  BY <1>1 DEF CarouselWidth, gridColumns
<1>3. maxCarouselTiles(L) = maxCarouselTiles(r) /\ GridRows(L, n) = GridRows(r, n)
  BY <1>1, <1>2 DEF maxCarouselTiles, GridRows
<1>4. ThumbHeight(L) = ThumbHeight(r)
  BY <1>1, <1>3 DEF ThumbHeight
<1>5. CanvasShape(L) = CanvasShape(r) /\ StageShape(L) = StageShape(r) /\ TileShape(L) = TileShape(r)
  BY <1>1, <1>2, <1>4 DEF CanvasShape, StageShape, TileShape
<1>6. GridShape(L, n) = GridShape(r, n)
  BY <1>1, <1>2, <1>3 DEF GridShape
<1> QED BY <1>1, <1>5, <1>6 DEF Shapes

\* A pixel is left of every picture that is cropped to a cell (CropRemains).
PicturesSuffice ==
    \A r \in Followed, pic \in Pictures :
        /\ HasSize(pic)
        /\ \A n \in 1..Cardinality(Tracks) : \A shape \in Shapes(r, n) : CropRemains(pic, shape)

(***************************************************************************)
(* Through any number of events, on a canvas with room for the tracks:     *)
(* every track has a place, the places that are shown do not overlap, and  *)
(* a picture fits the place it is given (AddTrack, RemoveTrack,            *)
(* UpdateSpeakers, recalculate, setCellTargetLocked).                      *)
(***************************************************************************)
THEOREM PipelineLayoutFits ==
    ASSUME CanvasSuffices, PicturesSuffice
    PROVE  PipelineSpec => []LayoutFits
<1>1. ASSUME ManagerInv PROVE LayoutFits
  <2> SUFFICES ASSUME manager # NoLayout
               PROVE  /\ WellPlaced(manager, recalculate(manager))
                      /\ \A i \in Shown(recalculate(manager)) : \A pic \in Pictures :
                            WellFitted(pic, recalculate(manager)[i],
                                       recalculate(manager)[i].track \in ScreenShares)
    BY DEF LayoutFits
  <2>1. req \in Followed /\ Managed(manager, req) /\ manager.tracks \in Seq(Tracks)
    BY <1>1 DEF ManagerInv, Managed, Orders
  <2>2. HasRoom(manager) /\ Len(manager.tracks) \in 0..Cardinality(Tracks)
    BY <2>1, ManagedHasRoom
  <2>3. Reordered(manager)
    BY <2>1, ManagedReordered
  <2>4. WellPlaced(manager, recalculate(manager))
    BY <2>1, <2>2, <2>3, LayoutPlacesAll
  <2>5. ASSUME NEW i \in Shown(recalculate(manager)), NEW pic \in Pictures
        PROVE  WellFitted(pic, recalculate(manager)[i],
                          recalculate(manager)[i].track \in ScreenShares)
    <3> DEFINE cell == recalculate(manager)[i]
               n == Len(manager.tracks)
               shape == [w |-> cell.w, h |-> cell.h]
    <3>1. HasShape(cell, manager, n) /\ n # 0
      BY <2>1, <2>2, <2>3, CellShapes
    <3>2. cell.w > 0 /\ cell.h > 0
      BY <2>4 DEF WellPlaced
    <3> HIDE DEF cell, n
    <3>3. n \in 1..Cardinality(Tracks) /\ n \in Nat \ {0}
      <4>1. n \in 0..Cardinality(Tracks) /\ Cardinality(Tracks) \in Nat
        BY <2>2, TracksAssumption, FS_CardinalityType DEF n
      <4> QED BY <3>1, <4>1
    <3>4. shape \in Shapes(manager, n)
      BY <3>1 DEF HasShape
    <3>5. shape \in Shapes(req, n)
      BY <2>1, <3>4, ManagedShapes
    <3>6. shape.w \in Int /\ shape.h \in Int
      BY <2>2, <3>3, <3>4, ShapeSides
    <3>7. HasSize(cell)
      BY <3>2, <3>6 DEF HasSize
    <3>8. HasSize(pic) /\ CropRemains(pic, shape)
      BY <2>1, <3>3, <3>5 DEF PicturesSuffice
    <3>9. CropRemains(pic, cell)
      BY <3>8 DEF CropRemains
    <3>10. \A screenShare \in BOOLEAN : WellFitted(pic, cell, screenShare)
      BY <3>7, <3>8, <3>9, PictureFits
    <3>11. (cell.track \in ScreenShares) \in BOOLEAN
      OBVIOUS
    <3> QED BY <3>10, <3>11 DEF cell
  <2> QED BY <2>4, <2>5
<1> QED BY <1>1, ManagerInit, ManagerNext, PTL DEF PipelineSpec

-----------------------------------------------------------------------------
\* What is accepted.  Each operator of PipelineConfig is given what it makes of a
\* configuration: the source (Sourced), the outputs (Settled), Update's checks (Planned,
\* Remuxed), the codecs (Coded); and each of Pipeline's steps what it asks for: the
\* tracks (Met) and the builders (Ready).

\* The source that routing and admission expect of a request.
SourceOf(s, r) == IF IsSDKSourceRequest(s, r) THEN "sdk" ELSE "web"

\* No output is configured yet.
Unwritten(q) ==
    /\ q.file = NoOutput /\ q.segments = NoOutput /\ q.stream = NoOutput
    /\ q.websocket = NoOutput /\ q.images = 0 /\ q.count = 0

\* The kinds of media a request asks for.
Kinds(q, r) ==
    /\ r.type = "media" => (q.audio <=> r.routes # <<>>) /\ (q.video <=> r.pick # "")
    /\ r.type = "participant" => q.audio /\ q.video
    /\ r.type # "track" => q.audio \/ q.video

\* Media that is decoded, to be encoded.
Rendering(q, r) ==
    /\ q.audio => q.transcoding
    /\ q.video => q.decoding \/ (r.type = "media" /\ r.pick = "videos")
    /\ q.audioOut \in {""} \cup AllOutputAudioCodecs

\* Media that is passed through.
Passing(q, r) ==
    /\ ~q.decoding /\ q.audioOut = ""
    /\ r.type = "track" => ~q.audio /\ ~q.video
    /\ r.type = "media" => validatePassthrough(r)

\* What ApplySource makes of a request.
Sourced(q, r, s) ==
    q.ok => /\ q.type = r.type /\ q.source = SourceOf(s, r)
            /\ Unwritten(q) /\ q.videoOut = "" /\ ~q.encoding
            /\ Kinds(q, r)
            /\ r.type = "track" => q.passthrough
            /\ ~q.passthrough => Rendering(q, r)
            /\ q.passthrough /\ r.type \in {"track", "media"} => Passing(q, r)

\* The configuration that ApplySource starts from.
Begun(s, r) == [NewPipelineConfig(s) EXCEPT !.type = r.type]

\* An operator changes no field but those in F.
Changes(p, q, F) == IsConf(q) /\ \A f \in Fields \ F : q[f] = p[f]

LEMMA RequiresChanges ==
    ASSUME NEW p, IsConf(p), NEW c
    PROVE  Changes(p, Requires(p, c), {"ok"}) /\ (Requires(p, c).ok => p.ok /\ c)
BY DEF Changes, IsConf, Fields, Requires

\* What Rendered sets.
Heard(p, q, r) ==
    /\ q.ok => p.ok /\ (r.audio \/ r.video)
    /\ q.audio = r.audio /\ q.transcoding = r.audio /\ q.video = r.video /\ q.decoding = r.video

LEMMA RenderedIs ==
    ASSUME NEW p, IsConf(p), NEW r, r.audio \in BOOLEAN, r.video \in BOOLEAN
    PROVE  /\ Changes(p, Rendered(p, r), {"ok", "audio", "transcoding", "video", "decoding", "videoIn"})
           /\ Heard(p, Rendered(p, r), r)
<1> DEFINE q == [p EXCEPT !.audio = r.audio, !.transcoding = r.audio,
                          !.video = r.video, !.decoding = r.video,
                          !.videoIn = IF r.video THEN "rawvideo" ELSE @]
<1>1. Changes(p, q, {"audio", "transcoding", "video", "decoding", "videoIn"}) 
      /\ q.audio = r.audio /\ q.transcoding = r.audio /\ q.video = r.video /\ q.decoding = r.video
  BY DEF Changes, IsConf, Fields
<1>2. Rendered(p, r) = Requires(q, r.audio \/ r.video)
  BY DEF Rendered
<1> HIDE DEF q
<1>3. Changes(q, Rendered(p, r), {"ok"}) /\ (Rendered(p, r).ok => q.ok /\ (r.audio \/ r.video))
  BY <1>1, <1>2, RequiresChanges DEF Changes
<1>4. QED  BY <1>1, <1>3 DEF Changes, Fields, Heard

LEMMA ApplyTemplateIs ==
    ASSUME NEW p, IsConf(p), NEW r, r.audio \in BOOLEAN, r.video \in BOOLEAN
    PROVE  LET q == ApplyTemplate(p, r)
           IN /\ Changes(p, q, {"ok", "audio", "transcoding", "video", "decoding", "videoIn",
                                "source", "compositing"})
              /\ Heard(p, q, r) /\ q.source = TemplateSource(p, r)
<1> DEFINE q == [p EXCEPT !.source = TemplateSource(p, r),
                          !.compositing = UsesTemplateSDKCompositing(p.templateSDK, r) /\ r.video]
<1>1. Changes(p, q, {"source", "compositing"}) /\ q.source = TemplateSource(p, r)
  BY DEF Changes, IsConf, Fields
<1>2. ApplyTemplate(p, r) = Rendered(q, r)
  BY DEF ApplyTemplate
<1> HIDE DEF q
<1>3. IsConf(q)
  BY <1>1 DEF Changes
<1>4. Changes(q, Rendered(q, r), {"ok", "audio", "transcoding", "video", "decoding", "videoIn"})
      /\ Heard(q, Rendered(q, r), r)
  BY <1>3, RenderedIs
<1>5. QED  BY <1>1, <1>2, <1>4 DEF Changes, Fields, Heard

LEMMA ApplyWebIs ==
    ASSUME NEW p, IsConf(p), NEW r, r.audio \in BOOLEAN, r.video \in BOOLEAN
    PROVE  LET q == ApplyWeb(p, r)
           IN /\ Changes(p, q, {"ok", "audio", "transcoding", "video", "decoding", "videoIn", "source"})
              /\ Heard(p, q, r) /\ q.source = "web"
<1> DEFINE q == [p EXCEPT !.source = "web"]
<1>1. Changes(p, q, {"source"}) /\ q.source = "web"
  BY DEF Changes, IsConf, Fields
<1>2. ApplyWeb(p, r) = Rendered(q, r)
  BY DEF ApplyWeb
<1> HIDE DEF q
<1>3. IsConf(q)
  BY <1>1 DEF Changes
<1>4. Changes(q, Rendered(q, r), {"ok", "audio", "transcoding", "video", "decoding", "videoIn"})
      /\ Heard(q, Rendered(q, r), r)
  BY <1>3, RenderedIs
<1>5. QED  BY <1>1, <1>2, <1>4 DEF Changes, Fields, Heard

LEMMA ApplyTracksIs ==
    ASSUME NEW p, IsConf(p), NEW r, r.audio \in BOOLEAN, r.video \in BOOLEAN
    PROVE  LET q == ApplyTracks(p, r)
           IN /\ Changes(p, q, {"ok", "audio", "transcoding", "video", "decoding", "source"})
              /\ Heard(p, q, r) /\ q.source = "sdk"
<1> DEFINE q == [p EXCEPT !.source = "sdk", !.audio = r.audio, !.transcoding = r.audio,
                          !.video = r.video, !.decoding = r.video]
<1>1. Changes(p, q, {"audio", "transcoding", "video", "decoding", "source"})
      /\ q.audio = r.audio /\ q.transcoding = r.audio /\ q.video = r.video /\ q.decoding = r.video
      /\ q.source = "sdk"
  BY DEF Changes, IsConf, Fields
<1>2. ApplyTracks(p, r) = Requires(q, r.audio \/ r.video)
  BY DEF ApplyTracks
<1> HIDE DEF q
<1>3. Changes(q, ApplyTracks(p, r), {"ok"}) /\ (ApplyTracks(p, r).ok => q.ok /\ (r.audio \/ r.video))
  BY <1>1, <1>2, RequiresChanges DEF Changes
<1>4. QED  BY <1>1, <1>3 DEF Changes, Fields, Heard

LEMMA applyEncodingIs ==
    ASSUME NEW p, IsConf(p), NEW r
    PROVE  LET q == applyEncoding(p, r)
           IN /\ Changes(p, q, {"ok", "passthrough", "audioOut"}) /\ (q.ok => p.ok)
              /\ r.encoding = "passthrough" => q.passthrough /\ q.audioOut = p.audioOut
              /\ r.encoding # "passthrough" => q.passthrough = p.passthrough /\ q.audioOut = r.encoding
<1> DEFINE q == [p EXCEPT !.passthrough = TRUE]
           s == [p EXCEPT !.audioOut = r.encoding]
           c == r.width >= 16 /\ r.height >= 16 /\ r.width % 2 = 0 /\ r.height % 2 = 0
<1>1. Changes(p, q, {"passthrough"}) /\ Changes(p, s, {"audioOut"})
      /\ q.passthrough /\ s.audioOut = r.encoding
  BY DEF Changes, IsConf, Fields
<1>2. applyEncoding(p, r) = IF r.encoding = "passthrough" THEN q ELSE Requires(s, c)
  BY DEF applyEncoding
<1> HIDE DEF q, s, c
<1>3. Changes(s, Requires(s, c), {"ok"}) /\ (Requires(s, c).ok => s.ok)
  BY <1>1, RequiresChanges DEF Changes
<1>4. CASE r.encoding = "passthrough"
  BY <1>1, <1>2, <1>4 DEF Changes, Fields
<1>5. CASE r.encoding # "passthrough"
  BY <1>1, <1>2, <1>3, <1>5 DEF Changes, Fields
<1>6. QED  BY <1>4, <1>5

LEMMA applyPassthroughIs ==
    ASSUME NEW p, IsConf(p), NEW r
    PROVE  LET q == applyPassthrough(p, r)
           IN /\ Changes(p, q, {"ok", "passthrough"}) /\ (q.ok => p.ok)
              /\ q.ok /\ q.passthrough => p.passthrough /\ validatePassthrough(r)
<1> DEFINE q == [p EXCEPT !.passthrough = FALSE]
           mcap == \E o \in ToSet(r.outputs) : o.kind = "file" /\ o.format = "mcap"
           s == Requires(p, validatePassthrough(r))
<1>1. Changes(p, q, {"passthrough"}) /\ ~q.passthrough
  BY DEF Changes, IsConf, Fields
<1>2. applyPassthrough(p, r) = IF ~p.passthrough THEN p ELSE IF mcap THEN q ELSE s
  BY DEF applyPassthrough
<1>3. Changes(p, s, {"ok"}) /\ (s.ok => p.ok /\ validatePassthrough(r))
  BY RequiresChanges
<1> HIDE DEF q, mcap, s
<1>4. applyPassthrough(p, r) \in {p, q, s} /\ (~p.passthrough => applyPassthrough(p, r) = p)
      /\ (applyPassthrough(p, r) = p => ~p.passthrough \/ p \in {q, s})
  BY <1>2
<1>5. QED  BY <1>1, <1>2, <1>3 DEF Changes, Fields

\* What ApplyMedia selects.
Selected(p, q, r) ==
    /\ q.source = "sdk" /\ (q.ok => p.ok)
    /\ q.video <=> r.pick # ""
    /\ q.decoding <=> r.pick = "participant" \/ (r.pick = "track" /\ ~p.passthrough)
    /\ r.routes # <<>> => q.audio /\ (q.transcoding <=> ~p.passthrough)
    /\ r.routes = <<>> => q.audio = p.audio
    /\ q.ok => q.audio \/ q.video

LEMMA ApplyMediaIs ==
    ASSUME NEW p, IsConf(p), NEW r
    PROVE  /\ Changes(p, ApplyMedia(p, r), {"ok", "audio", "transcoding", "video", "decoding", "source"})
           /\ Selected(p, ApplyMedia(p, r), r)
<1> DEFINE seen == [p EXCEPT !.source = "sdk", !.video = r.pick # "",
                             !.decoding = \/ r.pick = "track" /\ ~p.passthrough
                                          \/ r.pick = "participant"]
           audible == [seen EXCEPT !.audio = TRUE, !.transcoding = ~seen.passthrough]
           heard == applyMediaAudio(seen, r.routes)
<1>1. /\ Changes(p, seen, {"source", "video", "decoding"}) /\ seen.source = "sdk"
      /\ seen.video <=> r.pick # ""
      /\ seen.decoding <=> r.pick = "participant" \/ (r.pick = "track" /\ ~p.passthrough)
  BY DEF Changes, IsConf, Fields
<1>2. ApplyMedia(p, r) = Requires(heard, heard.audio \/ heard.video)
  BY DEF ApplyMedia
<1>3. heard = IF r.routes = <<>> THEN seen ELSE Requires(audible, Captures(r.routes))
  BY DEF applyMediaAudio
<1> HIDE DEF seen, heard
<1>4. Changes(seen, audible, {"audio", "transcoding"}) /\ audible.audio /\ (audible.transcoding <=> ~seen.passthrough)
  BY <1>1 DEF Changes, IsConf, Fields
<1> HIDE DEF audible
<1>5. /\ Changes(seen, heard, {"ok", "audio", "transcoding"}) /\ (heard.ok => seen.ok)
      /\ r.routes # <<>> => heard.audio /\ (heard.transcoding <=> ~seen.passthrough)
      /\ r.routes = <<>> => heard.audio = seen.audio
  <2>1. CASE r.routes = <<>>
    BY <1>1, <1>3, <2>1 DEF Changes
  <2>2. CASE r.routes # <<>>
    <3>1. Changes(audible, heard, {"ok"}) /\ (heard.ok => audible.ok)
      <4>1. IsConf(audible)
        BY <1>4 DEF Changes
      <4>2. QED  BY <1>3, <2>2, <4>1, RequiresChanges
    <3>2. QED  BY <1>4, <2>2, <3>1 DEF Changes, Fields
  <2>3. QED  BY <2>1, <2>2
<1>6. Changes(heard, ApplyMedia(p, r), {"ok"})
      /\ (ApplyMedia(p, r).ok => heard.ok /\ (heard.audio \/ heard.video))
  <2>1. IsConf(heard)
    BY <1>5 DEF Changes
  <2>2. QED  BY <1>2, <2>1, RequiresChanges
<1> DEFINE q == ApplyMedia(p, r)
<1>7. q = ApplyMedia(p, r)
  OBVIOUS
<1> HIDE DEF q
<1>8. Changes(p, q, {"ok", "audio", "transcoding", "video", "decoding", "source"})
  BY <1>1, <1>5, <1>6, <1>7 DEF Changes, Fields
<1>9. /\ q.source = seen.source /\ q.video = seen.video /\ q.decoding = seen.decoding
      /\ q.audio = heard.audio /\ q.transcoding = heard.transcoding /\ heard.video = seen.video
      /\ seen.passthrough = p.passthrough /\ seen.audio = p.audio /\ seen.ok = p.ok
  BY <1>1, <1>5, <1>6, <1>7 DEF Changes, Fields
<1>10. Selected(p, q, r)
  BY <1>1, <1>5, <1>6, <1>7, <1>9 DEF Selected
<1>11. QED  BY <1>7, <1>8, <1>10

LEMMA BegunIs ==
    ASSUME NEW s \in BOOLEAN, NEW r
    PROVE  LET p == Begun(s, r)
           IN /\ IsConf(p) /\ p.type = r.type /\ p.templateSDK = s
              /\ Unwritten(p) /\ p.videoOut = "" /\ p.audioOut = "" /\ ~p.encoding
              /\ p.passthrough = FALSE /\ p.audio = FALSE /\ ~p.video /\ ~p.decoding
BY DEF Begun, NewPipelineConfig, IsConf, Fields, Unwritten

\* Requests of the first version: the source, then the encoding.
LEMMA FirstSourced ==
    ASSUME NEW r \in Requests, NEW s \in BOOLEAN,
           NEW p, IsConf(p), p.type = r.type, Unwritten(p), p.videoOut = "", ~p.encoding, ~p.passthrough,
           p.ok => r.audio \/ r.video, p.audio = r.audio, p.transcoding = r.audio, p.video = r.video, p.decoding = r.video,
           p.source = SourceOf(s, r), r.type \notin {"track", "media"}
    PROVE  Sourced(applyEncoding(p, r), r, s)
<1> DEFINE q == applyEncoding(p, r)
<1>1. /\ Changes(p, q, {"ok", "passthrough", "audioOut"}) /\ (q.ok => p.ok)
      /\ r.encoding = "passthrough" => q.passthrough
      /\ r.encoding # "passthrough" => q.audioOut = r.encoding
  BY applyEncodingIs
<1> HIDE DEF q
<1>2. /\ q.type = r.type /\ q.source = SourceOf(s, r) /\ Unwritten(q) /\ q.videoOut = "" /\ ~q.encoding
      /\ q.audio = r.audio /\ q.transcoding = r.audio /\ q.video = r.video /\ q.decoding = r.video
  <2>1. q.type = p.type /\ q.source = p.source /\ q.videoOut = p.videoOut /\ q.encoding = p.encoding
        /\ q.audio = p.audio /\ q.transcoding = p.transcoding /\ q.video = p.video /\ q.decoding = p.decoding
    BY <1>1 DEF Changes, Fields
  <2>2. /\ q.file = p.file /\ q.segments = p.segments /\ q.stream = p.stream
        /\ q.websocket = p.websocket /\ q.images = p.images /\ q.count = p.count
    BY <1>1 DEF Changes, Fields
  <2>3. Unwritten(q)
    BY <2>2 DEF Unwritten
  <2>4. QED  BY <2>1, <2>3
<1>3. q.ok => Kinds(q, r)
  BY <1>1, <1>2, RequestIs DEF Kinds
<1>4. ~q.passthrough => Rendering(q, r)
  BY <1>1, <1>2, RequestIs DEF Rendering
<1>5. Sourced(q, r, s)
  BY <1>2, <1>3, <1>4 DEF Sourced
<1>6. QED  BY <1>5 DEF q

\* Requests of the second version: the encoding, then the source.
Encoded(p, q, r) ==
    /\ Changes(p, q, {"ok", "passthrough", "audioOut"})
    /\ q.ok /\ ~q.passthrough => q.audioOut \in {""} \cup AllOutputAudioCodecs
    /\ q.ok /\ q.passthrough => validatePassthrough(r) /\ q.audioOut = ""

LEMMA EncodedIs ==
    ASSUME NEW r \in Requests, NEW p, IsConf(p), p.audioOut = "", p.passthrough = FALSE
    PROVE  Encoded(p, applyPassthrough(applyEncoding(p, r), r), r)
<1> DEFINE e == applyEncoding(p, r)
           q == applyPassthrough(e, r)
<1>1. /\ Changes(p, e, {"ok", "passthrough", "audioOut"}) /\ (e.ok => p.ok)
      /\ r.encoding = "passthrough" => e.passthrough /\ e.audioOut = ""
      /\ r.encoding # "passthrough" => ~e.passthrough /\ e.audioOut = r.encoding
  BY applyEncodingIs
<1> HIDE DEF e
<1>2. IsConf(e)
  BY <1>1 DEF Changes
<1>3. /\ Changes(e, q, {"ok", "passthrough"})
      /\ q.ok /\ q.passthrough => e.passthrough /\ validatePassthrough(r)
  BY <1>2, applyPassthroughIs
<1> HIDE DEF q
<1>4. q.audioOut = e.audioOut /\ Changes(p, q, {"ok", "passthrough", "audioOut"})
  BY <1>1, <1>3 DEF Changes, Fields
<1>5. q.ok /\ ~q.passthrough => q.audioOut \in {""} \cup AllOutputAudioCodecs
  BY <1>1, <1>4, RequestIs
<1>6. q.ok /\ q.passthrough => validatePassthrough(r) /\ q.audioOut = ""
  BY <1>1, <1>3, <1>4
<1>7. QED  BY <1>4, <1>5, <1>6 DEF Encoded, q, e

LEMMA SecondSourced ==
    ASSUME NEW r \in Requests, NEW s \in BOOLEAN,
           NEW p, IsConf(p), p.type = r.type, Unwritten(p), p.videoOut = "", ~p.encoding,
           NEW e, Encoded(p, e, r),
           NEW q, Heard(e, q, r), q.source = SourceOf(s, r),
           Changes(e, q, {"ok", "audio", "transcoding", "video", "decoding", "videoIn",
                          "source", "compositing"}),
           r.type \notin {"track", "media"}
    PROVE  Sourced(q, r, s)
<1>1. /\ q.type = r.type /\ q.source = SourceOf(s, r) /\ Unwritten(q) /\ q.videoOut = "" /\ ~q.encoding
      /\ q.passthrough = e.passthrough /\ q.audioOut = e.audioOut
  BY DEF Changes, Fields, Unwritten, Encoded
<1>2. /\ q.audio = r.audio /\ q.transcoding = r.audio /\ q.video = r.video /\ q.decoding = r.video
      /\ q.ok => e.ok /\ (r.audio \/ r.video)
  BY DEF Heard
<1>3. q.ok => Kinds(q, r)
  BY <1>1, <1>2, RequestIs DEF Kinds
<1>4. q.ok /\ ~q.passthrough => Rendering(q, r)
  BY <1>1, <1>2, RequestIs DEF Rendering, Encoded
<1>5. QED  BY <1>1, <1>3, <1>4 DEF Sourced

LEMMA ApplySourceIs ==
    ASSUME NEW r \in Requests, NEW s \in BOOLEAN
    PROVE  IsConf(ApplySource(Begun(s, r), r)) /\ Sourced(ApplySource(Begun(s, r), r), r, s)
<1> DEFINE p == Begun(s, r)
           e == applyPassthrough(applyEncoding(p, r), r)
           wide == {"ok", "audio", "transcoding", "video", "decoding", "videoIn", "source", "compositing"}
<1>0. r.audio \in BOOLEAN /\ r.video \in BOOLEAN /\ r.type \in RequestTypes
  BY RequestIs
<1>1. /\ IsConf(p) /\ p.type = r.type /\ p.templateSDK = s
      /\ Unwritten(p) /\ p.videoOut = "" /\ p.audioOut = "" /\ ~p.encoding
      /\ p.passthrough = FALSE /\ p.audio = FALSE /\ ~p.video /\ ~p.decoding
  BY BegunIs
<1> HIDE DEF p
<1>a. IsConf(p)
  BY <1>1
<1>2. Encoded(p, e, r) /\ IsConf(e)
  BY <1>1, EncodedIs DEF Encoded, Changes
<1> HIDE DEF e
<1>3. IsConf(ApplySource(p, r))
  BY <1>0, <1>a, ApplySourceKeeps DEF Keeps
<1>4. ASSUME NEW q, Changes(p, q, wide), Heard(p, q, r), q.source = SourceOf(s, r), r.type \notin {"track", "media"}
      PROVE  Sourced(applyEncoding(q, r), r, s)
  <2>1. /\ IsConf(q) /\ q.type = r.type /\ Unwritten(q) /\ q.videoOut = "" /\ ~q.encoding /\ ~q.passthrough
    BY <1>1, <1>4 DEF Changes, Fields, Unwritten
  <2>2. (q.ok => r.audio \/ r.video) /\ q.audio = r.audio /\ q.transcoding = r.audio /\ q.video = r.video /\ q.decoding = r.video
    BY <1>4 DEF Heard
  <2>3. QED  BY <1>4, <2>1, <2>2, FirstSourced
<1>5. CASE r.type = "room_composite"
  <2> DEFINE q == ApplyTemplate(p, r)
  <2>1. Changes(p, q, wide) /\ Heard(p, q, r) /\ q.source = TemplateSource(p, r)
    BY <1>0, <1>a, ApplyTemplateIs
  <2> HIDE DEF q
  <2>2. q.source = SourceOf(s, r)
    BY <1>1, <1>5, <2>1 DEF TemplateSource, SourceOf, IsSDKSourceRequest
  <2>3. ApplySource(p, r) = applyEncoding(q, r)
    BY <1>5 DEF ApplySource, q
  <2> HIDE DEF wide
  <2>4. QED  BY <1>3, <1>4, <1>5, <2>1, <2>2, <2>3 DEF p
<1>6. CASE r.type = "web"
  <2> DEFINE q == ApplyWeb(p, r)
  <2>1. Changes(p, q, {"ok", "audio", "transcoding", "video", "decoding", "videoIn", "source"}) /\ Heard(p, q, r) /\ q.source = "web"
    BY <1>0, <1>a, ApplyWebIs
  <2> HIDE DEF q
  <2>2. q.source = SourceOf(s, r) /\ Changes(p, q, wide)
    BY <1>6, <2>1 DEF SourceOf, IsSDKSourceRequest, Changes
  <2>3. ApplySource(p, r) = applyEncoding(q, r)
    BY <1>6 DEF ApplySource, q
  <2> HIDE DEF wide
  <2>4. QED  BY <1>3, <1>4, <1>6, <2>1, <2>2, <2>3 DEF p
<1>7. CASE r.type \in {"participant", "track_composite"}
  <2> DEFINE q == ApplyTracks(p, r)
  <2>1. Changes(p, q, {"ok", "audio", "transcoding", "video", "decoding", "source"}) /\ Heard(p, q, r) /\ q.source = "sdk"
    BY <1>0, <1>a, ApplyTracksIs
  <2> HIDE DEF q
  <2>2. q.source = SourceOf(s, r) /\ Changes(p, q, wide)
    BY <1>7, <2>1 DEF SourceOf, IsSDKSourceRequest, Changes
  <2>3. ApplySource(p, r) = applyEncoding(q, r)
    BY <1>7 DEF ApplySource, q
  <2> HIDE DEF wide
  <2>4. QED  BY <1>3, <1>4, <1>7, <2>1, <2>2, <2>3 DEF p
<1>8. CASE r.type = "track"
  <2> DEFINE q == [p EXCEPT !.source = "sdk", !.passthrough = TRUE]
  <2>1. Changes(p, q, {"source", "passthrough"}) /\ q.source = "sdk" /\ q.passthrough
    BY <1>1 DEF Changes, IsConf, Fields
  <2>2. ApplySource(p, r) = q
    BY <1>8 DEF ApplySource
  <2> HIDE DEF q
  <2>3. q.type = r.type /\ Unwritten(q) /\ q.videoOut = "" /\ ~q.encoding /\ ~q.audio /\ ~q.video
        /\ ~q.decoding /\ q.audioOut = ""
    BY <1>1, <2>1 DEF Changes, Fields, Unwritten
  <2>4. q.source = SourceOf(s, r)
    BY <1>8, <2>1 DEF SourceOf, IsSDKSourceRequest
  <2>5. Sourced(q, r, s)
    BY <1>8, <2>1, <2>3, <2>4 DEF Sourced, Kinds, Passing
  <2>6. QED  BY <1>3, <2>2, <2>5 DEF p
<1>9. CASE r.type = "template"
  <2> DEFINE q == ApplyTemplate(e, r)
  <2>1. Changes(e, q, wide) /\ Heard(e, q, r) /\ q.source = TemplateSource(e, r)
    BY <1>0, <1>2, ApplyTemplateIs
  <2> HIDE DEF q
  <2>2. q.source = SourceOf(s, r)
    BY <1>1, <1>2, <1>9, <2>1 DEF TemplateSource, SourceOf, IsSDKSourceRequest, Encoded, Changes, Fields
  <2>3. ApplySource(p, r) = q
    BY <1>9 DEF ApplySource, q, e
  <2>4. Sourced(q, r, s)
    BY <1>1, <1>2, <1>9, <2>1, <2>2, SecondSourced
  <2>5. QED  BY <1>3, <2>3, <2>4 DEF p
<1>10. CASE r.type = "v2web"
  <2> DEFINE q == ApplyWeb(e, r)
  <2>1. Changes(e, q, {"ok", "audio", "transcoding", "video", "decoding", "videoIn", "source"}) /\ Heard(e, q, r) /\ q.source = "web"
    BY <1>0, <1>2, ApplyWebIs
  <2> HIDE DEF q
  <2>2. q.source = SourceOf(s, r) /\ Changes(e, q, wide)
    BY <1>10, <2>1 DEF SourceOf, IsSDKSourceRequest, Changes
  <2>3. ApplySource(p, r) = q
    BY <1>10 DEF ApplySource, q, e
  <2>4. Sourced(q, r, s)
    BY <1>1, <1>2, <1>10, <2>1, <2>2, SecondSourced
  <2>5. QED  BY <1>3, <2>3, <2>4 DEF p
<1>11. CASE r.type = "media"
  <2> DEFINE q == ApplyMedia(e, r)
  <2>0. /\ Changes(e, q, {"ok", "audio", "transcoding", "video", "decoding", "source"})
        /\ Selected(e, q, r)
    <3>1. IsConf(e)
      BY <1>2
    <3>2. QED  BY <3>1, ApplyMediaIs
  <2> HIDE DEF q
  <2>1. /\ q.source = "sdk" /\ (q.ok => e.ok)
        /\ q.video <=> r.pick # ""
        /\ q.decoding <=> r.pick = "participant" \/ (r.pick = "track" /\ ~e.passthrough)
        /\ r.routes # <<>> => q.audio /\ (q.transcoding <=> ~e.passthrough)
        /\ r.routes = <<>> => q.audio = e.audio
        /\ q.ok => q.audio \/ q.video
    BY <2>0 DEF Selected
  <2>2. q.source = SourceOf(s, r)
    BY <1>11, <2>1 DEF SourceOf, IsSDKSourceRequest
  <2>3. ApplySource(p, r) = q
    BY <1>11 DEF ApplySource, q, e
  <2>4. /\ q.type = r.type /\ Unwritten(q) /\ q.videoOut = "" /\ ~q.encoding
        /\ q.passthrough = e.passthrough /\ q.audioOut = e.audioOut /\ ~e.audio
    <3>1. /\ e.type = p.type /\ e.videoOut = p.videoOut /\ e.encoding = p.encoding /\ e.audio = p.audio
          /\ Unwritten(e)
      BY <1>1, <1>2 DEF Encoded, Changes, Fields, Unwritten
    <3>2. /\ q.type = e.type /\ q.videoOut = e.videoOut /\ q.encoding = e.encoding
          /\ q.passthrough = e.passthrough /\ q.audioOut = e.audioOut /\ Unwritten(q)
      BY <2>0, <3>1 DEF Changes, Fields, Unwritten
    <3>3. QED  BY <1>1, <3>1, <3>2
  <2>5. q.ok => Kinds(q, r)
    BY <1>11, <2>1, <2>4 DEF Kinds
  <2>6. q.ok /\ ~q.passthrough => Rendering(q, r)
    BY <1>2, <1>11, <2>1, <2>4, RequestIs DEF Rendering, Encoded
  <2>7. q.ok /\ q.passthrough => Passing(q, r)
    BY <1>2, <1>11, <2>1, <2>4 DEF Passing, Encoded, validatePassthrough
  <2>8. Sourced(q, r, s)
    BY <1>11, <2>2, <2>4, <2>5, <2>6, <2>7 DEF Sourced
  <2>9. QED  BY <1>3, <2>3, <2>8 DEF p
<1>12. QED
  BY <1>0, <1>5, <1>6, <1>7, <1>8, <1>9, <1>10, <1>11, Zenon DEF RequestTypes, V2

-----------------------------------------------------------------------------
\* The outputs.

\* The types of the encoded outputs.
WrittenTo(p) == {p.file, p.segments, p.stream, p.websocket} \ {NoOutput}

AudioOuts == {""} \cup AllOutputAudioCodecs

\* The outputs a configuration may have been given.
KnownOutputs(p) ==
    /\ p.file \in {NoOutput, "unknown", "mp4", "ogg", "mp3", "mcap"}
    /\ p.segments \in {NoOutput, "hls"}
    /\ p.stream \in {NoOutput, "rtmp", "srt", "raw", "unknown"}
    /\ p.websocket \in {NoOutput, "raw"}
    /\ p.images \in Nat /\ p.count \in Nat
    /\ p.count > 0 => WrittenTo(p) # {} \/ p.images > 0

\* No output but those of the list os.
AskedFor(b, os, p) ==
    /\ p.file # NoOutput => \E o \in ToSet(os) : o.kind = "file" /\ o.format = p.file
    /\ p.segments # NoOutput => \E o \in ToSet(os) : o.kind = "segments"
    /\ p.stream # NoOutput \/ p.websocket # NoOutput \/ p.audioOut # b.audioOut \/ p.videoOut # b.videoOut =>
           \E o \in ToSet(os) : o.kind = "stream"
    /\ p.images > 0 => \E o \in ToSet(os) : o.kind = "images"

\* What the outputs leave of the source's kinds: a websocket turns the video off.
KindsKept(b, p) ==
    /\ p.type = b.type /\ p.source = b.source /\ p.passthrough = b.passthrough
    /\ p.audio = b.audio /\ p.transcoding = b.transcoding
    /\ \/ p.video = b.video /\ p.decoding = b.decoding
       \/ ~p.video /\ p.audio /\ p.websocket # NoOutput
    /\ p.images > 0 /\ p.websocket = NoOutput => p.video

\* What the outputs leave of the codecs: a stream imposes its own.
CodecsKept(b, p) ==
    /\ p.video /\ ~p.passthrough /\ WrittenTo(p) # {} => p.encoding
    /\ p.passthrough /\ p.type \in V2 => ~p.encoding
    /\ b.audioOut \in AudioOuts => p.audioOut \in AudioOuts
    /\ p.videoOut \in {"", "h264"}

\* A configuration b with some of the outputs os.
Adds(b, os, p) ==
    p.ok => b.ok /\ KnownOutputs(p) /\ AskedFor(b, os, p) /\ KindsKept(b, p) /\ CodecsKept(b, p)

LEMMA AddFileIs ==
    ASSUME NEW p, IsConf(p), NEW o
    PROVE  LET q == AddFile(p, o)
           IN /\ Changes(p, q, {"ok", "file", "count", "encoding"}) /\ (q.ok => p.ok)
              /\ q.file = o.format /\ q.count = p.count + 1 /\ (q.encoding <=> Encodes(p))
<1> DEFINE q == [p EXCEPT !.file = o.format, !.count = @ + 1, !.encoding = Encodes(p)]
<1>1. Changes(p, q, {"file", "count", "encoding"}) /\ q.file = o.format /\ q.count = p.count + 1
      /\ (q.encoding <=> Encodes(p))
  BY DEF Changes, IsConf, Fields, Encodes
<1>2. AddFile(p, o) = Requires(q, p.file = NoOutput)
  BY DEF AddFile
<1> HIDE DEF q
<1>3. IsConf(q)
  BY <1>1 DEF Changes
<1>4. Changes(q, AddFile(p, o), {"ok"}) /\ (AddFile(p, o).ok => q.ok)
  BY <1>2, <1>3, RequiresChanges
<1>5. QED  BY <1>1, <1>4 DEF Changes, Fields

LEMMA AddSegmentsIs ==
    ASSUME NEW p, IsConf(p), NEW o
    PROVE  LET q == AddSegments(p, o)
           IN /\ Changes(p, q, {"ok", "segments", "count", "encoding"}) /\ (q.ok => p.ok)
              /\ q.segments = "hls" /\ q.count = p.count + 1 /\ (q.encoding <=> Encodes(p))
<1> DEFINE q == [p EXCEPT !.segments = "hls", !.count = @ + 1, !.encoding = Encodes(p)]
<1>1. Changes(p, q, {"segments", "count", "encoding"}) /\ q.segments = "hls" /\ q.count = p.count + 1
      /\ (q.encoding <=> Encodes(p))
  BY DEF Changes, IsConf, Fields, Encodes
<1>2. AddSegments(p, o) = Requires(q, p.segments = NoOutput)
  BY DEF AddSegments
<1> HIDE DEF q
<1>3. IsConf(q)
  BY <1>1 DEF Changes
<1>4. Changes(q, AddSegments(p, o), {"ok"}) /\ (AddSegments(p, o).ok => q.ok)
  BY <1>2, <1>3, RequiresChanges
<1>5. QED  BY <1>1, <1>4 DEF Changes, Fields

LEMMA AddImagesIs ==
    ASSUME NEW p, IsConf(p), NEW o
    PROVE  LET q == AddImages(p, o)
           IN /\ Changes(p, q, {"ok", "images", "count"}) /\ (q.ok => p.ok /\ p.video)
              /\ q.images = p.images + 1 /\ q.count = p.count + 1
<1> DEFINE q == [p EXCEPT !.images = @ + 1, !.count = @ + 1]
<1>1. Changes(p, q, {"images", "count"}) /\ q.images = p.images + 1 /\ q.count = p.count + 1
  BY DEF Changes, IsConf, Fields
<1>2. AddImages(p, o) = Requires(q, p.video)
  BY DEF AddImages
<1> HIDE DEF q
<1>3. IsConf(q)
  BY <1>1 DEF Changes
<1>4. Changes(q, AddImages(p, o), {"ok"}) /\ (AddImages(p, o).ok => q.ok /\ p.video)
  BY <1>2, <1>3, RequiresChanges
<1>5. QED  BY <1>1, <1>4 DEF Changes, Fields

LEMMA StreamTypes ==
    ASSUME NEW p, NEW o \in AnOutput, o.kind = "stream", StreamType(p, o) # "invalid"
    PROVE  StreamType(p, o) \in {"rtmp", "srt", "raw", "unknown"}
<1>1. /\ o.protocol \in {"default", "rtmp", "srt", "websocket"}
      /\ o.scheme \in {"", "rtmp", "srt", "ws"}
  BY OutputIs
<1>2. \A x \in {"rtmp", "srt", "ws"} : StreamOutputTypes[x] \in {"rtmp", "srt", "raw"}
  BY DEF StreamOutputTypes
<1>3. CASE o.protocol = "default"
  <2>1. CASE o.scheme = ""
    BY <1>3, <2>1 DEF StreamType
  <2>2. CASE o.scheme # ""
    <3>1. StreamType(p, o) = StreamOutputTypes[o.scheme]
      BY <1>3, <2>2 DEF StreamType
    <3>2. QED  BY <1>1, <1>2, <2>2, <3>1
  <2>3. QED  BY <2>1, <2>2
<1>4. CASE o.protocol = "websocket"
  BY <1>4 DEF StreamType
<1>5. CASE o.protocol \in {"rtmp", "srt"}
  BY <1>5 DEF StreamType
<1>6. QED  BY <1>1, <1>3, <1>4, <1>5

\* What AddStream sets.
Streamed(p, q, o) ==
    /\ p.ok /\ p.stream = NoOutput /\ p.websocket = NoOutput
    /\ \/ q.video = p.video /\ q.decoding = p.decoding
       \/ ~q.video /\ p.audio /\ q.websocket = "raw"
    /\ \/ q.websocket = "raw" /\ q.stream = NoOutput
       \/ q.websocket = NoOutput /\ q.stream \in {"rtmp", "srt", "raw", "unknown"}
    /\ q.count \in {p.count, p.count + 1}
    /\ q.encoding <=> p.encoding \/ (q.video /\ (p.type \in V2 => ~p.passthrough))
    /\ q.audioOut \in {p.audioOut, "aac", "raw"} /\ q.videoOut \in {p.videoOut, "h264"}

LEMMA getStreamConfigIs ==
    ASSUME NEW p, IsConf(p), NEW type
    PROVE  LET q == getStreamConfig(p, type)
           IN /\ Changes(p, q, {"audioOut", "videoOut"})
              /\ q.audioOut \in {p.audioOut, "aac", "raw"} /\ q.videoOut \in {p.videoOut, "h264"}
              /\ type = "raw" => q.audioOut = "raw" /\ q.videoOut = p.videoOut
<1> DEFINE x == [p EXCEPT !.audioOut = "aac", !.videoOut = "h264"]
           y == [p EXCEPT !.audioOut = "raw"]
<1>1. /\ Changes(p, x, {"audioOut", "videoOut"}) /\ x.audioOut = "aac" /\ x.videoOut = "h264"
      /\ Changes(p, y, {"audioOut"}) /\ y.audioOut = "raw" /\ y.videoOut = p.videoOut
  BY DEF Changes, IsConf, Fields
<1>2. getStreamConfig(p, type) \in {x, y, p} /\ (type = "raw" => getStreamConfig(p, type) = y)
  BY DEF getStreamConfig
<1> HIDE DEF x, y
<1>3. QED  BY <1>1, <1>2 DEF Changes

LEMMA AddStreamIs ==
    ASSUME NEW p, IsConf(p), NEW o \in AnOutput, o.kind = "stream"
    PROVE  /\ Changes(p, AddStream(p, o), {"ok", "video", "decoding", "audioOut", "videoOut",
                                           "websocket", "stream", "count", "encoding"})
           /\ AddStream(p, o).ok => Streamed(p, AddStream(p, o), o)
<1> DEFINE type == StreamType(p, o)
           ws == IsV2(p) /\ type = "raw"
           silent == [p EXCEPT !.video = FALSE, !.decoding = FALSE]
           quiet == IF ws /\ p.video /\ p.audio THEN silent ELSE p
           sent == getStreamConfig(quiet, type)
           added == [sent EXCEPT
                        !.websocket = IF ws THEN type ELSE @,
                        !.stream = IF ws THEN @ ELSE type,
                        !.count = IF o.scheme = "" THEN @ ELSE @ + 1,
                        !.encoding = Encodes(quiet)]
           c == /\ type # "invalid" /\ ValidateUrl(o, type)
                /\ p.stream = NoOutput /\ p.websocket = NoOutput
           q == AddStream(p, o)
<1>1. q = Requires(added, c)
  BY DEF AddStream
<1>2. Changes(p, silent, {"video", "decoding"}) /\ ~silent.video
  BY DEF Changes, IsConf, Fields
<1>3. /\ Changes(p, quiet, {"video", "decoding"})
      /\ \/ quiet.video = p.video /\ quiet.decoding = p.decoding
         \/ ~quiet.video /\ p.audio /\ ws
  <2> HIDE DEF silent, ws
  <2>1. QED  BY <1>2 DEF Changes
<1>w. ws => type = "raw"
  OBVIOUS
<1>c. c => type \in {"rtmp", "srt", "raw", "unknown"} /\ p.stream = NoOutput /\ p.websocket = NoOutput
  BY StreamTypes
<1> HIDE DEF quiet, ws, type, c, q
<1>4. IsConf(quiet)
  BY <1>3 DEF Changes
<1>5. /\ Changes(quiet, sent, {"audioOut", "videoOut"})
      /\ sent.audioOut \in {quiet.audioOut, "aac", "raw"} /\ sent.videoOut \in {quiet.videoOut, "h264"}
  BY <1>4, getStreamConfigIs
<1> HIDE DEF sent
<1>6. /\ Changes(sent, added, {"websocket", "stream", "count", "encoding"})
      /\ ws => added.websocket = type /\ added.stream = sent.stream
      /\ ~ws => added.websocket = sent.websocket /\ added.stream = type
      /\ added.count \in {sent.count, sent.count + 1} /\ (added.encoding <=> Encodes(quiet))
  <2> DEFINE e == Encodes(quiet)
             w == IF ws THEN type ELSE sent.websocket
             x == IF ws THEN sent.stream ELSE type
             n == IF o.scheme = "" THEN sent.count ELSE sent.count + 1
  <2>1. added = [sent EXCEPT !.websocket = w, !.stream = x, !.count = n, !.encoding = e]
    OBVIOUS
  <2>2. n \in {sent.count, sent.count + 1} /\ (ws => w = type /\ x = sent.stream)
        /\ (~ws => w = sent.websocket /\ x = type)
    OBVIOUS
  <2>3. e <=> Encodes(quiet)
    OBVIOUS
  <2> HIDE DEF e, w, x, n, added
  <2>4. Changes(sent, added, {"websocket", "stream", "count", "encoding"})
        /\ added.websocket = w /\ added.stream = x /\ added.count = n /\ added.encoding = e
    BY <1>5, <2>1 DEF Changes, IsConf, Fields
  <2>5. QED  BY <2>2, <2>3, <2>4
<1> HIDE DEF added
<1>7. IsConf(added)
  BY <1>6 DEF Changes
<1>8. Changes(added, q, {"ok"}) /\ (q.ok => added.ok /\ c)
  BY <1>1, <1>7, RequiresChanges
<1>9. Changes(p, q, {"ok", "video", "decoding", "audioOut", "videoOut",
                     "websocket", "stream", "count", "encoding"})
  BY <1>3, <1>5, <1>6, <1>8 DEF Changes, Fields
<1>10. ASSUME q.ok  PROVE Streamed(p, q, o)
  <2>1. p.ok /\ p.stream = NoOutput /\ p.websocket = NoOutput /\ type \in {"rtmp", "srt", "raw", "unknown"}
    BY <1>3, <1>5, <1>6, <1>8, <1>10, <1>c DEF Changes, Fields
  <2>2. /\ q.video = quiet.video /\ q.decoding = quiet.decoding
        /\ q.audioOut = sent.audioOut /\ q.videoOut = sent.videoOut
        /\ q.websocket = added.websocket /\ q.stream = added.stream /\ q.count = added.count
        /\ q.encoding = added.encoding
    BY <1>5, <1>6, <1>8 DEF Changes, Fields
  <2>3. /\ quiet.audioOut = p.audioOut /\ quiet.videoOut = p.videoOut
        /\ sent.websocket = p.websocket /\ sent.stream = p.stream /\ sent.count = p.count
        /\ quiet.encoding = p.encoding /\ quiet.type = p.type /\ quiet.passthrough = p.passthrough
    BY <1>3, <1>5 DEF Changes, Fields
  <2>4. /\ \/ q.websocket = "raw" /\ q.stream = NoOutput
           \/ q.websocket = NoOutput /\ q.stream \in {"rtmp", "srt", "raw", "unknown"}
        /\ ws => q.websocket = "raw"
    BY <1>6, <1>w, <2>1, <2>2, <2>3
  <2>5. q.encoding <=> p.encoding \/ (q.video /\ (p.type \in V2 => ~p.passthrough))
    BY <1>6, <2>2, <2>3 DEF Encodes, IsV2
  <2>6. \/ q.video = p.video /\ q.decoding = p.decoding
        \/ ~q.video /\ p.audio /\ q.websocket = "raw"
    BY <1>3, <2>2, <2>4
  <2>7. /\ q.count \in {p.count, p.count + 1}
        /\ q.audioOut \in {p.audioOut, "aac", "raw"} /\ q.videoOut \in {p.videoOut, "h264"}
    BY <1>5, <1>6, <2>2, <2>3
  <2>8. QED  BY <2>1, <2>4, <2>5, <2>6, <2>7 DEF Streamed
<1>11. QED  BY <1>9, <1>10 DEF q

\* Every kind of output keeps what Adds says.
LEMMA AddsFile ==
    ASSUME NEW b, NEW os, NEW p, Adds(b, os, p), p.ok, NEW q,
           Changes(p, q, {"ok", "files", "file", "count", "encoding"}),
           NEW o \in ToSet(os) \cap AnOutput, o.kind = "file",
           q.file = o.format, q.count = p.count + 1, q.encoding <=> Encodes(p)
    PROVE  Adds(b, os, q)
<1>1. b.ok /\ KnownOutputs(p) /\ AskedFor(b, os, p) /\ KindsKept(b, p) /\ CodecsKept(b, p)
  BY DEF Adds
<1>2. /\ q.segments = p.segments /\ q.stream = p.stream /\ q.websocket = p.websocket
      /\ q.images = p.images /\ q.audioOut = p.audioOut /\ q.videoOut = p.videoOut
      /\ q.type = p.type /\ q.source = p.source /\ q.passthrough = p.passthrough
      /\ q.audio = p.audio /\ q.transcoding = p.transcoding
      /\ q.video = p.video /\ q.decoding = p.decoding
  BY DEF Changes, Fields
<1>3. q.file \in {"unknown", "mp4", "ogg", "mp3", "mcap"} /\ q.file # NoOutput
  BY OutputIs DEF NoOutput
<1>4. KnownOutputs(q)
  BY <1>1, <1>2, <1>3 DEF KnownOutputs, WrittenTo
<1>5. AskedFor(b, os, q)
  BY <1>1, <1>2 DEF AskedFor
<1>6. KindsKept(b, q)
  BY <1>1, <1>2 DEF KindsKept
<1>7. CodecsKept(b, q)
  BY <1>1, <1>2 DEF CodecsKept, Encodes, IsV2
<1>8. QED  BY <1>1, <1>4, <1>5, <1>6, <1>7 DEF Adds

LEMMA AddsSegments ==
    ASSUME NEW b, NEW os, NEW p, Adds(b, os, p), p.ok, NEW q,
           Changes(p, q, {"ok", "files", "segments", "count", "encoding"}),
           NEW o \in ToSet(os) \cap AnOutput, o.kind = "segments",
           q.segments = "hls", q.count = p.count + 1, q.encoding <=> Encodes(p)
    PROVE  Adds(b, os, q)
<1>1. b.ok /\ KnownOutputs(p) /\ AskedFor(b, os, p) /\ KindsKept(b, p) /\ CodecsKept(b, p)
  BY DEF Adds
<1>2. /\ q.file = p.file /\ q.stream = p.stream /\ q.websocket = p.websocket
      /\ q.images = p.images /\ q.audioOut = p.audioOut /\ q.videoOut = p.videoOut
      /\ q.type = p.type /\ q.source = p.source /\ q.passthrough = p.passthrough
      /\ q.audio = p.audio /\ q.transcoding = p.transcoding
      /\ q.video = p.video /\ q.decoding = p.decoding
  BY DEF Changes, Fields
<1>3. q.segments # NoOutput
  BY DEF NoOutput
<1>4. KnownOutputs(q)
  BY <1>1, <1>2, <1>3 DEF KnownOutputs, WrittenTo
<1>5. AskedFor(b, os, q)
  BY <1>1, <1>2 DEF AskedFor
<1>6. KindsKept(b, q)
  BY <1>1, <1>2 DEF KindsKept
<1>7. CodecsKept(b, q)
  BY <1>1, <1>2 DEF CodecsKept, Encodes, IsV2
<1>8. QED  BY <1>1, <1>4, <1>5, <1>6, <1>7 DEF Adds

LEMMA AddsImages ==
    ASSUME NEW b, NEW os, NEW p, Adds(b, os, p), p.ok, NEW q,
           Changes(p, q, {"ok", "files", "images", "count"}),
           NEW o \in ToSet(os) \cap AnOutput, o.kind = "images",
           p.video, q.images = p.images + 1, q.count = p.count + 1
    PROVE  Adds(b, os, q)
<1>1. b.ok /\ KnownOutputs(p) /\ AskedFor(b, os, p) /\ KindsKept(b, p) /\ CodecsKept(b, p)
  BY DEF Adds
<1>2. /\ q.file = p.file /\ q.segments = p.segments /\ q.stream = p.stream /\ q.websocket = p.websocket
      /\ q.audioOut = p.audioOut /\ q.videoOut = p.videoOut /\ q.encoding = p.encoding
      /\ q.type = p.type /\ q.source = p.source /\ q.passthrough = p.passthrough
      /\ q.audio = p.audio /\ q.transcoding = p.transcoding
      /\ q.video = p.video /\ q.decoding = p.decoding
  BY DEF Changes, Fields
<1>4. KnownOutputs(q)
  BY <1>1, <1>2 DEF KnownOutputs, WrittenTo
<1>5. AskedFor(b, os, q)
  BY <1>1, <1>2 DEF AskedFor
<1>6. KindsKept(b, q)
  BY <1>1, <1>2 DEF KindsKept
<1>7. CodecsKept(b, q)
  BY <1>1, <1>2 DEF CodecsKept, WrittenTo
<1>8. QED  BY <1>1, <1>4, <1>5, <1>6, <1>7 DEF Adds

LEMMA AddsStream ==
    ASSUME NEW b, NEW os, NEW p, Adds(b, os, p), NEW q,
           Changes(p, q, {"ok", "files", "video", "decoding", "audioOut", "videoOut",
                          "websocket", "stream", "count", "encoding"}),
           NEW o \in ToSet(os) \cap AnOutput, o.kind = "stream", Streamed(p, q, o)
    PROVE  Adds(b, os, q)
<1>1. p.ok /\ b.ok /\ KnownOutputs(p) /\ AskedFor(b, os, p) /\ KindsKept(b, p) /\ CodecsKept(b, p)
  BY DEF Adds, Streamed
<1>2. /\ q.file = p.file /\ q.segments = p.segments /\ q.images = p.images
      /\ q.type = p.type /\ q.source = p.source /\ q.passthrough = p.passthrough
      /\ q.audio = p.audio /\ q.transcoding = p.transcoding
  BY DEF Changes, Fields
<1>4. KnownOutputs(q)
  BY <1>1, <1>2 DEF KnownOutputs, WrittenTo, Streamed, NoOutput
<1>5. AskedFor(b, os, q)
  BY <1>1, <1>2 DEF AskedFor
<1>6. KindsKept(b, q)
  BY <1>1, <1>2 DEF KindsKept, Streamed, NoOutput
<1>7. CodecsKept(b, q)
  BY <1>1, <1>2 DEF CodecsKept, Streamed, AudioOuts, AllOutputAudioCodecs
<1>8. QED  BY <1>1, <1>4, <1>5, <1>6, <1>7 DEF Adds

LEMMA AddOutputAdds ==
    ASSUME NEW b, NEW os, NEW p, IsConf(p), Adds(b, os, p), NEW o \in ToSet(os) \cap AnOutput, NEW a
    PROVE  IsConf(AddOutput(p, o, a)) /\ Adds(b, os, AddOutput(p, o, a))
<1> DEFINE added == CASE o.kind = "file"     -> AddFile(p, o)
                      [] o.kind = "stream"   -> AddStream(p, o)
                      [] o.kind = "segments" -> AddSegments(p, o)
                      [] o.kind = "images"   -> AddImages(p, o)
           named == [added EXCEPT !.files = @ \cup MediaNames(o, a)]
           q == AddOutput(p, o, a)
<1>1. q = Requires(named, Retryable(o, a))
  BY DEF AddOutput
<1>2. o \in AnOutput /\ o.kind \in {"file", "stream", "segments", "images"}
  BY OutputIs
<1>a. /\ o.kind = "file" => added = AddFile(p, o)
      /\ o.kind = "stream" => added = AddStream(p, o)
      /\ o.kind = "segments" => added = AddSegments(p, o)
      /\ o.kind = "images" => added = AddImages(p, o)
  OBVIOUS
<1> HIDE DEF added
<1>3. IsConf(added)
  BY <1>2, <1>a, AddFileKeeps, AddStreamKeeps, AddSegmentsKeeps, AddImagesKeeps, Zenon DEF Keeps
<1>4. Changes(added, named, {"files"})
  BY <1>3 DEF Changes, IsConf, Fields
<1> HIDE DEF named
<1>5. IsConf(named)
  BY <1>4 DEF Changes
<1>6. Changes(named, q, {"ok"}) /\ (q.ok => named.ok)
  BY <1>1, <1>5, RequiresChanges
<1> HIDE DEF q
<1>7. Changes(added, q, {"ok", "files"}) /\ (q.ok => added.ok)
  BY <1>4, <1>6 DEF Changes, Fields
<1>8. IsConf(q)
  BY <1>6 DEF Changes
<1>9. ASSUME q.ok PROVE Adds(b, os, q)
  <2>1. CASE o.kind = "file"
    <3>1. /\ Changes(p, added, {"ok", "file", "count", "encoding"}) /\ (added.ok => p.ok)
          /\ added.file = o.format /\ added.count = p.count + 1 /\ (added.encoding <=> Encodes(p))
      BY <1>a, <2>1, AddFileIs
    <3>2. /\ Changes(p, q, {"ok", "files", "file", "count", "encoding"}) /\ p.ok
          /\ q.file = o.format /\ q.count = p.count + 1 /\ (q.encoding <=> Encodes(p))
      BY <1>7, <1>9, <3>1 DEF Changes, Fields
    <3>3. QED  BY <2>1, <3>2, AddsFile
  <2>2. CASE o.kind = "stream"
    <3>1. /\ Changes(p, added, {"ok", "video", "decoding", "audioOut", "videoOut",
                                "websocket", "stream", "count", "encoding"})
          /\ added.ok => Streamed(p, added, o)
      BY <1>2, <1>a, <2>2, AddStreamIs
    <3>2. Changes(p, q, {"ok", "files", "video", "decoding", "audioOut", "videoOut",
                         "websocket", "stream", "count", "encoding"})
      BY <1>7, <3>1 DEF Changes, Fields
    <3>3. Streamed(p, q, o)
      BY <1>7, <1>9, <3>1 DEF Changes, Fields, Streamed
    <3>4. QED  BY <2>2, <3>2, <3>3, AddsStream
  <2>3. CASE o.kind = "segments"
    <3>1. /\ Changes(p, added, {"ok", "segments", "count", "encoding"}) /\ (added.ok => p.ok)
          /\ added.segments = "hls" /\ added.count = p.count + 1 /\ (added.encoding <=> Encodes(p))
      BY <1>a, <2>3, AddSegmentsIs
    <3>2. /\ Changes(p, q, {"ok", "files", "segments", "count", "encoding"}) /\ p.ok
          /\ q.segments = "hls" /\ q.count = p.count + 1 /\ (q.encoding <=> Encodes(p))
      BY <1>7, <1>9, <3>1 DEF Changes, Fields
    <3>3. QED  BY <2>3, <3>2, AddsSegments
  <2>4. CASE o.kind = "images"
    <3>1. /\ Changes(p, added, {"ok", "images", "count"}) /\ (added.ok => p.ok /\ p.video)
          /\ added.images = p.images + 1 /\ added.count = p.count + 1
      BY <1>a, <2>4, AddImagesIs
    <3>2. /\ Changes(p, q, {"ok", "files", "images", "count"}) /\ p.ok /\ p.video
          /\ q.images = p.images + 1 /\ q.count = p.count + 1
      BY <1>7, <1>9, <3>1 DEF Changes, Fields
    <3>3. QED  BY <2>4, <3>2, AddsImages
  <2>5. QED  BY <1>2, <2>1, <2>2, <2>3, <2>4
<1>10. Adds(b, os, q)
  BY <1>9 DEF Adds
<1>11. QED  BY <1>8, <1>10 DEF q

-----------------------------------------------------------------------------
LEMMA ConcatIs ==
    ASSUME NEW E, NEW x \in Seq(E), NEW y \in Seq(E)
    PROVE  /\ x \o y \in Seq(E) /\ Len(x \o y) = Len(x) + Len(y)
           /\ ToSet(x \o y) = ToSet(x) \cup ToSet(y)
           /\ Len(x) > 0 => (x \o y)[1] = x[1]
<1> DEFINE z == x \o y
           m == Len(x)
           n == Len(y)
<1>1. m \in Nat /\ n \in Nat /\ DOMAIN x = 1..m /\ DOMAIN y = 1..n
  BY LenProperties
<1>2. z \in Seq(E) /\ Len(z) = m + n /\ \A i \in 1..(m + n) : z[i] = IF i <= m THEN x[i] ELSE y[i - m]
  BY ConcatProperties
<1>3. DOMAIN z = 1..(m + n)
  BY <1>2, LenProperties
<1> HIDE DEF z, m, n
<1>4. \A i \in 1..m : i \in DOMAIN z /\ z[i] = x[i]
  BY <1>1, <1>2, <1>3
<1>5. \A i \in 1..n : m + i \in DOMAIN z /\ z[m + i] = y[i]
  <2>1. ASSUME NEW i \in 1..n  PROVE m + i \in 1..(m + n) /\ ~(m + i <= m) /\ (m + i) - m = i
    BY <1>1
  <2>2. QED  BY <1>2, <1>3, <2>1
<1>6. \A i \in DOMAIN z : (i \in 1..m /\ z[i] = x[i]) \/ (i - m \in 1..n /\ z[i] = y[i - m])
  BY <1>1, <1>2, <1>3
<1>7. ToSet(z) = ToSet(x) \cup ToSet(y)
  <2>1. ASSUME NEW e \in ToSet(z)  PROVE e \in ToSet(x) \cup ToSet(y)
    <3>1. PICK i \in DOMAIN z : e = z[i]
      BY <2>1 DEF ToSet
    <3>2. QED  BY <1>1, <1>6, <3>1 DEF ToSet
  <2>2. ASSUME NEW e \in ToSet(x)  PROVE e \in ToSet(z)
    <3>1. PICK i \in DOMAIN x : e = x[i]
      BY <2>2 DEF ToSet
    <3>2. QED  BY <1>1, <1>4, <3>1 DEF ToSet
  <2>3. ASSUME NEW e \in ToSet(y)  PROVE e \in ToSet(z)
    <3>1. PICK i \in DOMAIN y : e = y[i]
      BY <2>3 DEF ToSet
    <3>2. m + i \in DOMAIN z /\ z[m + i] = e
      BY <1>1, <1>5, <3>1
    <3>3. QED  BY <3>2 DEF ToSet
  <2>4. QED  BY <2>1, <2>2, <2>3
<1>8. m > 0 => z[1] = x[1]
  BY <1>1, <1>4
<1>9. QED  BY <1>2, <1>7, <1>8 DEF z, m, n

LEMMA OfKindIs ==
    ASSUME NEW E, NEW o \in E
    PROVE  /\ OfKind(o) \in Seq(E) /\ ToSet(OfKind(o)) = {o} \ {NoOutput}
           /\ Len(OfKind(o)) = IF o = NoOutput THEN 0 ELSE 1
           /\ o # NoOutput => OfKind(o)[1] = o
<1>1. CASE o = NoOutput
  <2>1. OfKind(o) = <<>>
    BY <1>1 DEF OfKind
  <2>2. <<>> \in Seq(E) /\ Len(<<>>) = 0 /\ ToSet(<<>>) = {}
    BY DEF ToSet
  <2>3. QED  BY <1>1, <2>1, <2>2
<1>2. CASE o # NoOutput
  <2>1. OfKind(o) = <<o>>
    BY <1>2 DEF OfKind
  <2>2. <<o>> \in Seq(E) /\ Len(<<o>>) = 1 /\ <<o>>[1] = o /\ DOMAIN <<o>> = {1}
    OBVIOUS
  <2>3. ToSet(<<o>>) = {o}
    BY <2>2 DEF ToSet
  <2>4. QED  BY <1>2, <2>1, <2>2, <2>3
<1>3. QED  BY <1>1, <1>2

\* How many outputs o is.
Ones(o) == IF o = NoOutput THEN 0 ELSE 1

LEMMA EncodedAre ==
    ASSUME NEW p
    PROVE  /\ ToSet(GetEncodedOutputs(p)) = WrittenTo(p)
           /\ Len(GetEncodedOutputs(p)) = Ones(p.file) + Ones(p.segments) + Ones(p.stream) + Ones(p.websocket)
           /\ GetEncodedOutputs(p) \in Seq({p.file, p.segments, p.stream, p.websocket})
           /\ GetEncodedOutputs(p) = <<>> <=> WrittenTo(p) = {}
           /\ p.file # NoOutput => GetEncodedOutputs(p)[1] = p.file
<1> DEFINE E == {p.file, p.segments, p.stream, p.websocket}
           f == OfKind(p.file)
           s == OfKind(p.segments)
           t == OfKind(p.stream)
           w == OfKind(p.websocket)
<1>0. p.file \in E /\ p.segments \in E /\ p.stream \in E /\ p.websocket \in E
  OBVIOUS
<1>e. WrittenTo(p) = ({p.file} \ {NoOutput}) \cup ({p.segments} \ {NoOutput}) \cup ({p.stream} \ {NoOutput})
         \cup ({p.websocket} \ {NoOutput})
  BY DEF WrittenTo
<1>x. GetEncodedOutputs(p) = ((f \o s) \o t) \o w
  BY DEF GetEncodedOutputs
<1> HIDE DEF E
<1>1. /\ f \in Seq(E) /\ ToSet(f) = {p.file} \ {NoOutput} /\ Len(f) = Ones(p.file)
      /\ p.file # NoOutput => f[1] = p.file
  BY <1>0, OfKindIs DEF Ones
<1>2. s \in Seq(E) /\ ToSet(s) = {p.segments} \ {NoOutput} /\ Len(s) = Ones(p.segments)
  BY <1>0, OfKindIs DEF Ones
<1>3. t \in Seq(E) /\ ToSet(t) = {p.stream} \ {NoOutput} /\ Len(t) = Ones(p.stream)
  BY <1>0, OfKindIs DEF Ones
<1>4. w \in Seq(E) /\ ToSet(w) = {p.websocket} \ {NoOutput} /\ Len(w) = Ones(p.websocket)
  BY <1>0, OfKindIs DEF Ones
<1> HIDE DEF f, s, t, w
<1>5. /\ f \o s \in Seq(E) /\ Len(f \o s) = Len(f) + Len(s) /\ ToSet(f \o s) = ToSet(f) \cup ToSet(s)
      /\ Len(f) > 0 => (f \o s)[1] = f[1]
  BY <1>1, <1>2, ConcatIs
<1> DEFINE fs == f \o s
<1> HIDE DEF fs
<1>6. /\ fs \o t \in Seq(E) /\ Len(fs \o t) = Len(fs) + Len(t) /\ ToSet(fs \o t) = ToSet(fs) \cup ToSet(t)
      /\ Len(fs) > 0 => (fs \o t)[1] = fs[1]
  <2>1. fs \in Seq(E)
    BY <1>5 DEF fs
  <2>2. QED  BY <1>3, <2>1, ConcatIs
<1> DEFINE ft == fs \o t
<1> HIDE DEF ft
<1>7. /\ ft \o w \in Seq(E) /\ Len(ft \o w) = Len(ft) + Len(w) /\ ToSet(ft \o w) = ToSet(ft) \cup ToSet(w)
      /\ Len(ft) > 0 => (ft \o w)[1] = ft[1]
  <2>1. ft \in Seq(E)
    BY <1>6 DEF ft
  <2>2. QED  BY <1>4, <2>1, ConcatIs
<1> DEFINE g == GetEncodedOutputs(p)
<1>8. g = ft \o w
  BY <1>x DEF ft, fs
<1> HIDE DEF g
<1>9. ToSet(g) = WrittenTo(p) /\ g \in Seq(E)
  BY <1>1, <1>2, <1>3, <1>4, <1>5, <1>6, <1>7, <1>8, <1>e DEF ft, fs
<1>10. /\ Ones(p.file) \in {0, 1} /\ Ones(p.segments) \in {0, 1} /\ Ones(p.stream) \in {0, 1}
       /\ Ones(p.websocket) \in {0, 1} /\ (p.file # NoOutput => Ones(p.file) = 1)
  BY DEF Ones
<1>11. Len(g) = Ones(p.file) + Ones(p.segments) + Ones(p.stream) + Ones(p.websocket)
  BY <1>1, <1>2, <1>3, <1>4, <1>5, <1>6, <1>7, <1>8, <1>10 DEF ft, fs
<1>12. p.file # NoOutput => g[1] = p.file
  BY <1>1, <1>2, <1>3, <1>5, <1>6, <1>7, <1>8, <1>10 DEF ft, fs
<1>13. g = <<>> <=> WrittenTo(p) = {}
  <2>1. ToSet(g) = {} <=> g = <<>>
    <3>1. ToSet(g) = {g[i] : i \in 1..Len(g)} /\ Len(g) \in Nat
      BY <1>9, ToSetIs, LenProperties
    <3>2. g = <<>> => Len(g) = 0
      BY <1>9, EmptySeq
    <3>3. Len(g) = 0 => g = <<>>
      BY <1>9, EmptySeq
    <3>4. Len(g) > 0 => ToSet(g) # {}
      <4>1. ASSUME Len(g) > 0 PROVE g[1] \in ToSet(g)
        BY <3>1, <4>1
      <4>2. QED  BY <4>1
    <3>5. Len(g) = 0 => ToSet(g) = {}
      BY <3>1
    <3>6. Len(g) = 0 \/ Len(g) > 0
      BY <3>1
    <3>7. QED  BY <3>2, <3>3, <3>4, <3>5, <3>6
  <2>2. QED  BY <1>9, <2>1
<1>14. QED  BY <1>9, <1>11, <1>12, <1>13 DEF g, E

\* Adding outputs one by one.
Added(b, os, a) == FoldLeft(LAMBDA q, o : AddOutput(q, o, a), b, os)

LEMMA AddingAdds ==
    ASSUME NEW b, IsConf(b), NEW os \in Seq(AnOutput), Adds(b, os, b), NEW a
    PROVE  IsConf(Added(b, os, a)) /\ Adds(b, os, Added(b, os, a))
<1> DEFINE S == DOMAIN os
           f == Folded("add", a, b, os)
           P == {T \in SUBSET S : IsConf(f[T]) /\ Adds(b, os, f[T])}
<1>0. S = 1..Len(os) /\ Len(os) \in Nat /\ IsFiniteSet(S)
  BY LenProperties, FS_Interval
<1>1. \A T \in SUBSET S : f[T] = Turn(f, "add", a, b, os, T)
  BY FoldTurns, Zenon
<1>a. \A i \in S : os[i] \in ToSet(os) \cap AnOutput
  BY <1>0, ToSetIs
<1> HIDE DEF S, f
<1>2. ASSUME NEW T \in SUBSET S, \A x \in T : T \ {x} \in P  PROVE T \in P
  <2>1. CASE T = {}
    <3>1. f[T] = b
      BY <1>1, <2>1 DEF Turn
    <3>2. QED  BY <3>1
  <2>2. CASE T # {}
    <3>1. Max(T) \in T
      BY <1>0, <2>2, MaxIn
    <3> DEFINE q == f[T \ {Max(T)}]
               o == os[Max(T)]
    <3>2. f[T] = AddOutput(q, o, a)
      BY <1>1, <2>2 DEF Turn, Step
    <3>3. IsConf(q) /\ Adds(b, os, q)
      BY <1>2, <3>1
    <3>4. o \in ToSet(os) \cap AnOutput
      BY <1>a, <3>1
    <3> HIDE DEF q, o
    <3>5. IsConf(f[T]) /\ Adds(b, os, f[T])
      BY <3>2, <3>3, <3>4, AddOutputAdds
    <3>6. QED  BY <3>5
  <2>3. QED  BY <2>1, <2>2
<1>3. S \in P
  <2>1. \A T \in SUBSET S : (\A x \in T : T \ {x} \in P) => T \in P
    BY <1>2
  <2> HIDE DEF P
  <2>2. S \in SUBSET S /\ IsFiniteSet(S)
    BY <1>0
  <2> QED BY <2>1, <2>2, BySmaller
<1>4. Added(b, os, a) = f[S]
  BY FoldIsAdding DEF f, S, Added
<1>5. QED  BY <1>3, <1>4

\* What all the outputs leave of the source's kinds: images alone turn the audio off.
Settled(b, os, p) ==
    /\ b.ok /\ KnownOutputs(p) /\ AskedFor(b, os, p) /\ CodecsKept(b, p)
    /\ WrittenTo(p) # {} \/ p.images > 0
    /\ p.type = b.type /\ p.source = b.source /\ p.passthrough = b.passthrough
    /\ \/ p.audio = b.audio /\ p.transcoding = b.transcoding
       \/ ~p.audio /\ p.images > 0 /\ WrittenTo(p) = {}
    /\ \/ p.video = b.video /\ p.decoding = b.decoding
       \/ ~p.video /\ p.audio /\ p.websocket # NoOutput
    /\ p.images > 0 /\ p.websocket = NoOutput => p.video

LEMMA updateOutputsSettles ==
    ASSUME NEW b, IsConf(b), NEW r, r.outputs \in Seq(AnOutput), Adds(b, r.outputs, b), NEW a
    PROVE  /\ IsConf(updateOutputs(b, r, a))
           /\ updateOutputs(b, r, a).ok => Settled(b, r.outputs, updateOutputs(b, r, a))
<1> DEFINE os == r.outputs
           added == Added(b, os, a)
           mute == [added EXCEPT !.audio = FALSE, !.transcoding = FALSE]
           seen == ImagesOnly(added)
           q == updateOutputs(b, r, a)
<1>0. os \in Seq(AnOutput) /\ Adds(b, os, b)
  OBVIOUS
<1>2. q = Requires(seen, added.count > 0)
  BY DEF updateOutputs, Added
<1> HIDE DEF os
<1>1. IsConf(added) /\ Adds(b, os, added)
  BY <1>0, AddingAdds
<1> HIDE DEF added, q
<1>3. Changes(added, mute, {"audio", "transcoding"}) /\ ~mute.audio
  BY <1>1 DEF Changes, IsConf, Fields
<1>4. seen = added \/ (seen = mute /\ added.images > 0 /\ WrittenTo(added) = {})
  BY EncodedAre DEF ImagesOnly
<1> HIDE DEF seen, mute
<1>5. Changes(added, seen, {"audio", "transcoding"})
  BY <1>1, <1>3, <1>4 DEF Changes
<1>6. IsConf(seen)
  BY <1>5 DEF Changes
<1>7. Changes(seen, q, {"ok"}) /\ (q.ok => seen.ok /\ added.count > 0)
  <2> DEFINE c == added.count > 0
  <2>1. q = Requires(seen, c)
    BY <1>2
  <2> HIDE DEF c
  <2>2. Changes(seen, q, {"ok"}) /\ (q.ok => seen.ok /\ c)
    BY <1>6, <2>1, RequiresChanges
  <2>3. QED  BY <2>2 DEF c
<1>8. IsConf(q)
  BY <1>7 DEF Changes
<1>9. ASSUME q.ok  PROVE Settled(b, os, q)
  <2>1. added.ok
    BY <1>5, <1>7, <1>9 DEF Changes, Fields
  <2>2. b.ok /\ KnownOutputs(added) /\ AskedFor(b, os, added) /\ KindsKept(b, added) /\ CodecsKept(b, added)
    BY <1>1, <2>1 DEF Adds
  <2>3. /\ q.file = added.file /\ q.segments = added.segments /\ q.stream = added.stream
        /\ q.websocket = added.websocket /\ q.images = added.images /\ q.count = added.count
        /\ q.audioOut = added.audioOut /\ q.videoOut = added.videoOut /\ q.encoding = added.encoding
        /\ q.type = added.type /\ q.source = added.source /\ q.passthrough = added.passthrough
        /\ q.video = added.video /\ q.decoding = added.decoding
    BY <1>5, <1>7 DEF Changes, Fields
  <2>4. WrittenTo(q) = WrittenTo(added)
    BY <2>3 DEF WrittenTo
  <2>5. \/ q.audio = added.audio /\ q.transcoding = added.transcoding
        \/ ~q.audio /\ q.images > 0 /\ WrittenTo(q) = {}
    BY <1>3, <1>4, <1>7, <2>3, <2>4 DEF Changes, Fields
  <2>6. KnownOutputs(q) /\ (WrittenTo(q) # {} \/ q.images > 0)
    BY <1>7, <1>9, <2>2, <2>3, <2>4 DEF KnownOutputs
  <2>7. AskedFor(b, os, q)
    BY <2>2, <2>3 DEF AskedFor
  <2>8. CodecsKept(b, q)
    BY <2>2, <2>3, <2>4 DEF CodecsKept
  <2>9. WrittenTo(q) = {} => q.websocket = NoOutput
    BY DEF WrittenTo
  <2>10. /\ \/ q.video = b.video /\ q.decoding = b.decoding
            \/ ~q.video /\ q.audio /\ q.websocket # NoOutput
         /\ q.images > 0 /\ q.websocket = NoOutput => q.video
    BY <2>2, <2>3, <2>5, <2>9 DEF KindsKept
  <2>11. /\ q.type = b.type /\ q.source = b.source /\ q.passthrough = b.passthrough
         /\ \/ q.audio = b.audio /\ q.transcoding = b.transcoding
            \/ ~q.audio /\ q.images > 0 /\ WrittenTo(q) = {}
    BY <2>2, <2>3, <2>5 DEF KindsKept
  <2>12. QED  BY <2>2, <2>6, <2>7, <2>8, <2>10, <2>11 DEF Settled
<1>10. QED  BY <1>8, <1>9 DEF q, os

LEMMA SourcedAdds ==
    ASSUME NEW b, NEW r, NEW s, Sourced(b, r, s), NEW os
    PROVE  Adds(b, os, b)
<1> SUFFICES ASSUME b.ok  PROVE Adds(b, os, b)
  BY DEF Adds
<1>1. /\ b.file = NoOutput /\ b.segments = NoOutput /\ b.stream = NoOutput /\ b.websocket = NoOutput
      /\ b.images = 0 /\ b.count = 0 /\ b.videoOut = "" /\ ~b.encoding
  BY DEF Sourced, Unwritten
<1>2. WrittenTo(b) = {}
  BY <1>1 DEF WrittenTo
<1>3. b.images \in Nat /\ b.count \in Nat /\ ~(b.images > 0) /\ ~(b.count > 0)
  <2>1. b.images = 0 /\ b.count = 0
    BY <1>1
  <2>2. 0 \in Nat /\ ~(0 > 0)
    OBVIOUS
  <2>3. QED  BY <2>1, <2>2, Zenon
<1>4. KnownOutputs(b)
  BY <1>1, <1>3 DEF KnownOutputs
<1>5. AskedFor(b, os, b)
  BY <1>1, <1>3 DEF AskedFor
<1>6. KindsKept(b, b)
  BY <1>3 DEF KindsKept
<1>7. b.passthrough /\ b.type \in V2 => ~b.encoding
  BY <1>1
<1>8. CodecsKept(b, b)
  BY <1>1, <1>2, <1>7 DEF CodecsKept
<1>9. QED  BY <1>4, <1>5, <1>6, <1>8 DEF Adds

\* What an accepted request is to be encoded to, whatever the codecs.
Planned(q, r) ==
    /\ q.audio \/ q.video
    /\ WrittenTo(q) # {} \/ q.images > 0
    /\ q.audio => q.transcoding
    /\ q.video => q.decoding \/ q.file = "mcap"
    /\ q.video /\ WrittenTo(q) # {} => q.encoding
    /\ q.file = "mcap" => q.images = 0 /\ WrittenTo(q) = {"mcap"}
    /\ SubscribesAudio(q, r) => q.audio \/ (q.images > 0 /\ WrittenTo(q) = {})
    /\ SubscribesVideo(q, r) => q.video \/ q.websocket # NoOutput
    /\ r.type # "track"

\* What a request is that is passed through: one track to a file of its format, or to a
\* websocket.
Remuxed(q, r) ==
    /\ ~q.decoding /\ ~q.encoding /\ q.videoOut = "" /\ q.images = 0
    /\ q.segments = NoOutput /\ q.stream = NoOutput
    /\ \/ q.file = "unknown" /\ q.websocket = NoOutput /\ q.audioOut = ""
       \/ r.type = "track" /\ q.file = NoOutput /\ q.websocket = "raw" /\ q.audioOut = "raw"
    /\ r.type = "track" => ~q.audio /\ ~q.video
    /\ r.type = "media" => validatePassthrough(r) /\ (q.audio <=> r.routes # <<>>) /\ (q.video <=> r.pick # "")
    /\ r.type \in {"track", "media"}

LEMMA CapturesSome ==
    ASSUME NEW routes, Captures(routes)  PROVE routes # <<>>
BY DEF Captures, ToSet

LEMMA McapAlone ==
    ASSUME NEW p, KnownOutputs(p), NEW r, p.file = "mcap", validateTrackPreserving(p, r)
    PROVE  p.images = 0 /\ WrittenTo(p) = {"mcap"}
<1>1. Ones(p.file) + Ones(p.segments) + Ones(p.stream) + Ones(p.websocket) + p.images = 1
  BY EncodedAre DEF validateTrackPreserving
<1>2. /\ Ones(p.file) = 1 /\ Ones(p.segments) \in {0, 1} /\ Ones(p.stream) \in {0, 1}
      /\ Ones(p.websocket) \in {0, 1} /\ p.images \in Nat
  BY DEF Ones, NoOutput, KnownOutputs
<1>3. p.images = 0 /\ Ones(p.segments) = 0 /\ Ones(p.stream) = 0 /\ Ones(p.websocket) = 0
  BY <1>1, <1>2
<1>4. p.segments = NoOutput /\ p.stream = NoOutput /\ p.websocket = NoOutput
  BY <1>3 DEF Ones
<1>5. QED  BY <1>3, <1>4 DEF WrittenTo, NoOutput

LEMMA SettledIsPlanned ==
    ASSUME NEW r \in Requests, NEW s, NEW b, Sourced(b, r, s), NEW p, Settled(b, r.outputs, p),
           validateTrackPreserving(p, r), ~p.passthrough, r.type # "track"
    PROVE  Planned(p, r)
<1>1. /\ b.ok /\ KnownOutputs(p) /\ CodecsKept(b, p)
      /\ WrittenTo(p) # {} \/ p.images > 0
      /\ p.type = b.type /\ p.source = b.source /\ p.passthrough = b.passthrough
      /\ \/ p.audio = b.audio /\ p.transcoding = b.transcoding
         \/ ~p.audio /\ p.images > 0 /\ WrittenTo(p) = {}
      /\ \/ p.video = b.video /\ p.decoding = b.decoding
         \/ ~p.video /\ p.audio /\ p.websocket # NoOutput
      /\ p.images > 0 /\ p.websocket = NoOutput => p.video
  BY DEF Settled
<1>2. Kinds(b, r) /\ Rendering(b, r)
  BY <1>1 DEF Sourced
<1>3. WrittenTo(p) = {} => p.websocket = NoOutput
  BY DEF WrittenTo
<1>4. p.audio \/ p.video
  BY <1>1, <1>2, <1>3 DEF Kinds
<1>5. p.audio => p.transcoding
  BY <1>1, <1>2 DEF Rendering
<1>6. p.video => p.decoding \/ p.file = "mcap"
  BY <1>1, <1>2 DEF Rendering, validateTrackPreserving
<1>7. p.video /\ WrittenTo(p) # {} => p.encoding
  BY <1>1 DEF CodecsKept
<1>8. p.file = "mcap" => p.images = 0 /\ WrittenTo(p) = {"mcap"}
  BY <1>1, McapAlone
<1>9. SubscribesAudio(p, r) => p.audio \/ (p.images > 0 /\ WrittenTo(p) = {})
  <2>1. CASE r.type = "participant"
    BY <1>1, <1>2, <2>1 DEF Kinds
  <2>2. CASE r.type = "media"
    <3>1. SubscribesAudio(p, r) => r.routes # <<>>
      BY <2>2, CapturesSome DEF SubscribesAudio
    <3>2. r.routes # <<>> => b.audio
      BY <1>2, <2>2 DEF Kinds
    <3>3. QED  BY <1>1, <3>1, <3>2
  <2>3. CASE r.type \notin {"participant", "media"}
    BY <2>3 DEF SubscribesAudio
  <2>4. QED  BY <2>1, <2>2, <2>3
<1>10. SubscribesVideo(p, r) => p.video \/ p.websocket # NoOutput
  <2>1. CASE r.type = "participant"
    BY <1>1, <1>2, <2>1 DEF Kinds
  <2>2. CASE r.type = "media"
    <3>1. SubscribesVideo(p, r) => r.pick # ""
      BY <2>2 DEF SubscribesVideo
    <3>2. r.pick # "" => b.video
      BY <1>2, <2>2 DEF Kinds
    <3>3. QED  BY <1>1, <3>1, <3>2
  <2>3. CASE r.type \notin {"participant", "media"}
    BY <2>3 DEF SubscribesVideo
  <2>4. QED  BY <2>1, <2>2, <2>3
<1>11. QED  BY <1>1, <1>4, <1>5, <1>6, <1>7, <1>8, <1>9, <1>10 DEF Planned

LEMMA SettledIsRemuxed ==
    ASSUME NEW r \in Requests, NEW s, NEW b, Sourced(b, r, s), NEW p, Settled(b, r.outputs, p),
           p.passthrough, r.type = "media"
    PROVE  Remuxed(p, r)
<1>1. /\ b.ok /\ KnownOutputs(p) /\ AskedFor(b, r.outputs, p) /\ CodecsKept(b, p)
      /\ WrittenTo(p) # {} \/ p.images > 0
      /\ p.type = b.type /\ p.passthrough = b.passthrough
      /\ \/ p.audio = b.audio /\ p.transcoding = b.transcoding
         \/ ~p.audio /\ p.images > 0 /\ WrittenTo(p) = {}
      /\ \/ p.video = b.video /\ p.decoding = b.decoding
         \/ ~p.video /\ p.audio /\ p.websocket # NoOutput
  BY DEF Settled
<1>2. /\ b.type = "media" /\ b.videoOut = ""
      /\ (b.audio <=> r.routes # <<>>) /\ (b.video <=> r.pick # "")
      /\ ~b.decoding /\ b.audioOut = "" /\ validatePassthrough(r)
  BY <1>1 DEF Sourced, Kinds, Passing
<1>3. \A o \in ToSet(r.outputs) : o.kind = "file" /\ o.format = "unknown"
  <2>1. r.outputs \in Seq(AnOutput) /\ Len(r.outputs) = 1
    BY <1>2, RequestIs DEF validatePassthrough
  <2>2. \A o \in ToSet(r.outputs) : \E i \in 1..1 : o = r.outputs[i]
    BY <2>1, ToSetIs
  <2>3. \A o \in ToSet(r.outputs) : o = r.outputs[1]
    BY <2>2
  <2>4. QED  BY <1>2, <2>3 DEF validatePassthrough
<1>4. /\ p.segments = NoOutput /\ p.stream = NoOutput /\ p.websocket = NoOutput /\ ~(p.images > 0)
      /\ p.audioOut = "" /\ p.videoOut = "" /\ (p.file # NoOutput => p.file = "unknown")
  BY <1>1, <1>2, <1>3 DEF AskedFor
<1>5. p.images = 0
  <2>1. p.images \in Nat
    BY <1>1 DEF KnownOutputs
  <2>2. ~(p.images > 0)
    BY <1>4
  <2>3. \A n \in Nat : ~(n > 0) => n = 0
    OBVIOUS
  <2>4. QED  BY <2>1, <2>2, <2>3, Zenon
<1>6. p.file = "unknown"
  BY <1>1, <1>4 DEF WrittenTo
<1>7. ~p.encoding
  BY <1>1, <1>2 DEF CodecsKept, V2
<1>8. QED  BY <1>1, <1>2, <1>4, <1>5, <1>6, <1>7 DEF Remuxed

LEMMA DirectIsRemuxed ==
    ASSUME NEW r \in Requests, NEW s, NEW b, IsConf(b), Sourced(b, r, s), r.type = "track",
           NEW o, NEW a, updateDirectOutput(b, o, a).ok
    PROVE  LET p == updateDirectOutput(b, o, a)
           IN /\ p.type = b.type /\ p.source = b.source /\ p.passthrough
              /\ KnownOutputs(p) /\ Remuxed(p, r) /\ b.ok
<1> DEFINE p == updateDirectOutput(b, o, a)
           q == [b EXCEPT !.file = "unknown", !.count = 1, !.files = MediaNames(o, a)]
           raw == getStreamConfig(b, "raw")
           sent == [raw EXCEPT !.websocket = "raw", !.count = 1]
<1>1. /\ Changes(b, q, {"file", "count", "files"}) /\ q.file = "unknown" /\ q.count = 1
  BY DEF Changes, IsConf, Fields
<1>2. Changes(b, raw, {"audioOut", "videoOut"}) /\ raw.audioOut = "raw" /\ raw.videoOut = b.videoOut
  BY getStreamConfigIs
<1>3. o.kind = "file" => p = Requires(q, Retryable(o, a))
  BY DEF updateDirectOutput
<1>4. o.kind # "file" => p = Requires(sent, o.scheme # "" /\ ValidateUrl(o, "raw"))
  BY DEF updateDirectOutput
<1>p. p.ok
  OBVIOUS
<1> HIDE DEF raw, q, p
<1>5. Changes(raw, sent, {"websocket", "count"}) /\ sent.websocket = "raw" /\ sent.count = 1
  BY <1>2 DEF Changes, IsConf, Fields
<1> HIDE DEF sent
<1>6. CASE o.kind = "file"
  <2>1. IsConf(q)
    BY <1>1 DEF Changes
  <2>2. Changes(q, p, {"ok"}) /\ q.ok
    BY <1>3, <1>6, <1>p, <2>1, RequiresChanges
  <2>3. /\ p.type = b.type /\ p.source = b.source /\ p.passthrough = b.passthrough /\ b.ok
        /\ p.decoding = b.decoding /\ p.encoding = b.encoding /\ p.videoOut = b.videoOut
        /\ p.images = b.images /\ p.segments = b.segments /\ p.stream = b.stream
        /\ p.websocket = b.websocket /\ p.audioOut = b.audioOut /\ p.audio = b.audio /\ p.video = b.video
        /\ p.file = "unknown" /\ p.count = 1
    BY <1>1, <2>2 DEF Changes, Fields
  <2>4. /\ b.file = NoOutput /\ b.segments = NoOutput /\ b.stream = NoOutput
        /\ b.websocket = NoOutput /\ b.images = 0
    BY <2>3 DEF Sourced, Unwritten
  <2>5. WrittenTo(p) # {}
    BY <2>3 DEF WrittenTo, NoOutput
  <2>6. KnownOutputs(p)
    BY <2>3, <2>4, <2>5 DEF KnownOutputs
  <2>7. p.passthrough /\ Remuxed(p, r)
    BY <2>3 DEF Remuxed, Sourced, Unwritten, Passing
  <2>8. QED  BY <2>3, <2>6, <2>7 DEF p
<1>7. CASE o.kind # "file"
  <2>1. IsConf(sent)
    BY <1>5 DEF Changes
  <2>2. Changes(sent, p, {"ok"}) /\ sent.ok
    <3> DEFINE c == o.scheme # "" /\ ValidateUrl(o, "raw")
    <3>1. p = Requires(sent, c)
      BY <1>4, <1>7
    <3> HIDE DEF c
    <3>2. QED  BY <1>p, <2>1, <3>1, RequiresChanges
  <2>3. /\ p.type = b.type /\ p.source = b.source /\ p.passthrough = b.passthrough /\ b.ok
        /\ p.decoding = b.decoding /\ p.encoding = b.encoding /\ p.videoOut = b.videoOut
        /\ p.images = b.images /\ p.segments = b.segments /\ p.stream = b.stream
        /\ p.file = b.file /\ p.audioOut = "raw" /\ p.audio = b.audio /\ p.video = b.video
        /\ p.websocket = "raw" /\ p.count = 1
    BY <1>2, <1>5, <2>2 DEF Changes, Fields
  <2>4. /\ b.file = NoOutput /\ b.segments = NoOutput /\ b.stream = NoOutput
        /\ b.websocket = NoOutput /\ b.images = 0
    BY <2>3 DEF Sourced, Unwritten
  <2>5. WrittenTo(p) # {}
    BY <2>3 DEF WrittenTo, NoOutput
  <2>6. KnownOutputs(p)
    BY <2>3, <2>4, <2>5 DEF KnownOutputs
  <2>7. p.passthrough /\ Remuxed(p, r)
    BY <2>3 DEF Remuxed, Sourced, Unwritten, Passing
  <2>8. QED  BY <2>3, <2>6, <2>7 DEF p
<1>8. QED  BY <1>6, <1>7

-----------------------------------------------------------------------------
\* The codecs of an accepted request.

\* The codecs that suit every output of a configuration.
Suits(p, c) == \A o \in WrittenTo(p) : c \in CodecCompatibility[o]

\* The codecs are chosen, and suit the outputs.
Coded(q) ==
    /\ q.file # "unknown"
    /\ q.audio => q.audioOut \in AllOutputAudioCodecs /\ Suits(q, q.audioOut)
    /\ q.video => q.videoOut = "h264" /\ Suits(q, "h264")

LEMMA CompatibleAre ==
    ASSUME NEW p, NEW given, NEW all
    PROVE  Compatible(given, all, GetEncodedOutputs(p)) =
               {c \in (IF given = "" THEN all ELSE {given}) : Suits(p, c)}
BY EncodedAre, Zenon DEF Compatible, Suits

LEMMA MinOf ==
    ASSUME NEW n \in Nat, NEW S \in SUBSET (1..n), S # {}
    PROVE  Min(S) \in S /\ (1 \in S => Min(S) = 1)
<1>1. \E x \in S : \A y \in S : x <= y
  BY MinExists
<1>2. Min(S) \in S /\ \A y \in S : Min(S) <= y
  BY <1>1, Zenon DEF Min
<1> DEFINE m == Min(S)
<1>3. m \in S /\ (1 \in S => m <= 1)
  BY <1>2
<1> HIDE DEF m
<1>4. m \in 1..n
  BY <1>3
<1>5. 1 \in S => m = 1
  BY <1>3, <1>4
<1>6. QED  BY <1>3, <1>5 DEF m

LEMMA OneIsFirst ==
    ASSUME NEW n \in Nat, n # 0  PROVE 1 \in 1..n
OBVIOUS

\* One of the codecs, and the default of the first output if it is one of them.
Chosen(c, codecs, defaults, outs) ==
    /\ c \in codecs
    /\ outs # <<>> /\ outs[1] \in DOMAIN defaults /\ defaults[outs[1]] \in codecs =>
           c = defaults[outs[1]]

LEMMA ChoiceIs ==
    ASSUME NEW given, NEW codecs, codecs # {}, given # "" => codecs = {given},
           NEW defaults, NEW E, NEW outs \in Seq(E),
           NEW c \in CodecChoices(given, codecs, defaults, outs)
    PROVE  Chosen(c, codecs, defaults, outs)
<1> DEFINE takes == {i \in DOMAIN outs : outs[i] \in DOMAIN defaults /\ defaults[outs[i]] \in codecs}
<1>1. Len(outs) \in Nat /\ DOMAIN outs = 1..Len(outs)
  BY LenProperties
<1>0. outs # <<>> => 1 \in DOMAIN outs
  <2>1. outs # <<>> => Len(outs) # 0
    BY EmptySeq
  <2>2. QED  BY <1>1, <2>1, OneIsFirst
<1>2. takes \in SUBSET (1..Len(outs))
  BY <1>1
<1>3. c \in IF takes # {} THEN {defaults[outs[Min(takes)]]} ELSE IF given # "" THEN {given} ELSE codecs
  BY Zenon DEF CodecChoices
<1>4. CASE takes # {}
  <2>1. Min(takes) \in takes /\ (1 \in takes => Min(takes) = 1)
    BY <1>1, <1>2, <1>4, MinOf
  <2>2. c = defaults[outs[Min(takes)]]
    BY <1>3, <1>4
  <2>3. QED  BY <1>0, <2>1, <2>2 DEF Chosen
<1>5. CASE takes = {}
  <2>1. c \in codecs
    BY <1>3, <1>5
  <2>2. QED  BY <1>0, <1>5, <2>1 DEF Chosen
<1>6. QED  BY <1>4, <1>5

\* The type that a file without one is given.
TypedFor(found, audio, video) ==
    /\ found \in {"ogg", "mp4", "mp3"}
    /\ audio = {} \/ audio \cap CodecCompatibility[found] # {}

LEMMA FirstCompatibleIs ==
    ASSUME NEW types \in {VideoFileOutputTypes, AudioOnlyFileOutputTypes}, NEW audio, NEW video,
           FirstCompatible(types, audio, video) # "unknown"
    PROVE  /\ TypedFor(FirstCompatible(types, audio, video), audio, video)
           /\ types = VideoFileOutputTypes => FirstCompatible(types, audio, video) = "mp4"
<1> DEFINE fits == {i \in DOMAIN types :
                       /\ audio = {} \/ audio \cap CodecCompatibility[types[i]] # {}
                       /\ video = {} \/ video \cap CodecCompatibility[types[i]] # {}}
           found == FirstCompatible(types, audio, video)
<1>1. found = IF fits = {} THEN "unknown" ELSE types[Min(fits)]
  BY Zenon DEF FirstCompatible
<1>2. fits # {} /\ found = types[Min(fits)]
  BY <1>1
<1>3. \E n \in Nat : DOMAIN types = 1..n
  <2>1. DOMAIN VideoFileOutputTypes = 1..1 /\ DOMAIN AudioOnlyFileOutputTypes = 1..3
    BY DEF VideoFileOutputTypes, AudioOnlyFileOutputTypes
  <2>2. QED  BY <2>1
<1>4. Min(fits) \in fits
  BY <1>2, <1>3, MinOf
<1>5. \A i \in DOMAIN types : types[i] \in {"ogg", "mp4", "mp3"} /\ (types = VideoFileOutputTypes => types[i] = "mp4")
  <2>1. CASE types = VideoFileOutputTypes
    BY <2>1 DEF VideoFileOutputTypes
  <2>2. CASE types = AudioOnlyFileOutputTypes
    <3>1. types # VideoFileOutputTypes
      <4>1. Len(AudioOnlyFileOutputTypes) = 3 /\ Len(VideoFileOutputTypes) = 1
        BY DEF VideoFileOutputTypes, AudioOnlyFileOutputTypes
      <4>2. QED  BY <2>2, <4>1
    <3>2. \A i \in DOMAIN types : types[i] \in {"ogg", "mp4", "mp3"}
      BY <2>2 DEF AudioOnlyFileOutputTypes
    <3>3. QED  BY <3>1, <3>2
  <2>3. QED  BY <2>1, <2>2
<1> HIDE DEF found
<1>6. found \in {"ogg", "mp4", "mp3"} /\ (types = VideoFileOutputTypes => found = "mp4")
      /\ (audio = {} \/ audio \cap CodecCompatibility[found] # {})
  BY <1>2, <1>4, <1>5
<1>7. QED  BY <1>6 DEF TypedFor, found

LEMMA updateOutputTypeIs ==
    ASSUME NEW p, IsConf(p)
    PROVE  LET t == updateOutputType(p)
           IN /\ Changes(p, t, {"ok", "file"}) /\ (t.ok => p.ok)
              /\ p.file # "unknown" => t = p
              /\ p.file = "unknown" /\ t.ok =>
                     /\ TypedFor(t.file, IF p.audio THEN AudioCodecs(p) ELSE {},
                                 IF p.video THEN VideoCodecs(p) ELSE {})
                     /\ p.video => t.file = "mp4"
<1> DEFINE t == updateOutputType(p)
           audio == IF p.audio THEN AudioCodecs(p) ELSE {}
           video == IF p.video THEN VideoCodecs(p) ELSE {}
           types == IF p.video THEN VideoFileOutputTypes ELSE AudioOnlyFileOutputTypes
           found == FirstCompatible(types, audio, video)
           named == [p EXCEPT !.file = found]
           c == found # "unknown"
<1>1. t = IF p.file # "unknown" THEN p ELSE Requires(named, c)
  BY DEF updateOutputType
<1>2. types \in {VideoFileOutputTypes, AudioOnlyFileOutputTypes} /\ (p.video => types = VideoFileOutputTypes)
  OBVIOUS
<1> HIDE DEF audio, video, types
<1>3. c => TypedFor(found, audio, video) /\ (p.video => found = "mp4")
  BY <1>2, FirstCompatibleIs
<1> HIDE DEF found
<1>4. Changes(p, named, {"file"}) /\ named.file = found
  BY DEF Changes, IsConf, Fields
<1> HIDE DEF named, c, t
<1>5. IsConf(named)
  BY <1>4 DEF Changes
<1>6. CASE p.file = "unknown"
  <2>1. t = Requires(named, c)
    BY <1>1, <1>6
  <2>2. Changes(named, t, {"ok"}) /\ (t.ok => named.ok /\ c)
    BY <1>5, <2>1, RequiresChanges
  <2>3. Changes(p, t, {"ok", "file"}) /\ (t.ok => p.ok) /\ t.file = found
    BY <1>4, <2>2 DEF Changes, Fields
  <2>4. QED  BY <1>3, <1>6, <2>2, <2>3 DEF t, audio, video
<1>7. CASE p.file # "unknown"
  <2>1. t = p
    BY <1>1, <1>7
  <2>2. Changes(p, p, {"ok", "file"})
    BY DEF Changes
  <2>3. QED  BY <1>7, <2>1, <2>2 DEF t
<1>8. QED  BY <1>6, <1>7

LEMMA FileTables ==
    /\ AllOutputAudioCodecs \subseteq CodecCompatibility["mp3"]
    /\ CodecCompatibility["ogg"] = {"opus"} /\ "aac" \in CodecCompatibility["mp4"]
    /\ {"ogg", "mp4"} \subseteq DOMAIN DefaultAudioCodecs /\ NoOutput \notin {"ogg", "mp4"}
    /\ DefaultAudioCodecs["ogg"] = "opus" /\ DefaultAudioCodecs["mp4"] = "aac"
BY DEF AllOutputAudioCodecs, CodecCompatibility, DefaultAudioCodecs, NoOutput

\* Without a codec asked for, AAC suits the outputs whenever some codec does and one
\* of them is a file without a type.
LEMMA AacSuits ==
    ASSUME NEW p, KnownOutputs(p), p.file = "unknown",
           NEW c \in AllOutputAudioCodecs, Suits(p, c)
    PROVE  Suits(p, "aac")
<1>1. "unknown" \in WrittenTo(p)
  BY DEF WrittenTo, NoOutput
<1>2. c # "raw"
  BY <1>1 DEF Suits, CodecCompatibility
<1>3. ASSUME NEW o \in WrittenTo(p)  PROVE "aac" \in CodecCompatibility[o]
  <2>1. o \in {"unknown", "hls", "rtmp", "srt", "raw"}
    BY <1>3 DEF WrittenTo, KnownOutputs
  <2>2. c \in CodecCompatibility[o]
    BY <1>3 DEF Suits
  <2>3. o # "raw"
    BY <1>2, <2>2 DEF CodecCompatibility
  <2>4. o \in {"unknown", "hls", "rtmp", "srt"}
    BY <2>1, <2>3
  <2>5. QED  BY <2>4 DEF CodecCompatibility
<1>4. QED  BY <1>3 DEF Suits

\* What validateAndUpdateOutputParams makes of a configuration.
Coding(p, q) ==
    /\ Changes(p, q, {"ok", "file", "audioOut", "videoOut"}) /\ p.ok
    /\ q.file = p.file \/ (p.file = "unknown" /\ q.file \in {"ogg", "mp4", "mp3"})
    /\ Coded(q)

\* The audio codec suits every output, the file that had no type included.
LEMMA AudioSuits ==
    ASSUME NEW p, KnownOutputs(p), p.audio, p.audioOut \in AudioOuts, NEW t,
           t.segments = p.segments, t.stream = p.stream, t.websocket = p.websocket,
           p.file # "unknown" => t.file = p.file,
           p.file = "unknown" => t.file \in {"ogg", "mp4", "mp3"}
               /\ AudioCodecs(p) \cap CodecCompatibility[t.file] # {},
           NEW c \in CodecChoices(p.audioOut, AudioCodecs(p), DefaultAudioCodecs, GetEncodedOutputs(t)),
           AudioCodecs(p) # {}
    PROVE  c \in AllOutputAudioCodecs /\ Suits(t, c) /\ Suits(p, c)
<1> DEFINE A == AudioCodecs(p)
           outs == GetEncodedOutputs(t)
<1>1. A = {x \in (IF p.audioOut = "" THEN AllOutputAudioCodecs ELSE {p.audioOut}) : Suits(p, x)}
  BY CompatibleAre, Zenon DEF AudioCodecs
<1>2. outs \in Seq({t.file, t.segments, t.stream, t.websocket})
      /\ (t.file # NoOutput => outs # <<>> /\ outs[1] = t.file)
  <2>1. t.file # NoOutput => WrittenTo(t) # {}
    BY DEF WrittenTo
  <2>2. QED  BY <2>1, EncodedAre
<1>3. c \in CodecChoices(p.audioOut, A, DefaultAudioCodecs, outs) /\ A # {}
  OBVIOUS
<1>4. p.file = "unknown" => t.file \in {"ogg", "mp4", "mp3"} /\ A \cap CodecCompatibility[t.file] # {}
  OBVIOUS
<1> HIDE DEF A, outs
<1>5. p.audioOut # "" => A = {p.audioOut}
  BY <1>1, <1>3
<1>6. /\ c \in A
      /\ t.file # NoOutput /\ t.file \in DOMAIN DefaultAudioCodecs /\ DefaultAudioCodecs[t.file] \in A =>
            c = DefaultAudioCodecs[t.file]
  <2>1. Chosen(c, A, DefaultAudioCodecs, outs)
    BY <1>2, <1>3, <1>5, ChoiceIs, Zenon
  <2>2. QED  BY <1>2, <2>1 DEF Chosen
<1>7. c \in AllOutputAudioCodecs /\ Suits(p, c)
  BY <1>1, <1>6 DEF AudioOuts
<1>8. CASE p.file # "unknown"
  <2>1. WrittenTo(t) = WrittenTo(p)
    BY <1>8 DEF WrittenTo
  <2>2. QED  BY <1>7, <2>1 DEF Suits
<1>9. CASE p.file = "unknown"
  <2>1. t.file \in {"ogg", "mp4", "mp3"} /\ A \cap CodecCompatibility[t.file] # {}
    BY <1>4, <1>9
  <2>2. WrittenTo(t) \subseteq WrittenTo(p) \cup {t.file}
    BY DEF WrittenTo
  <2>3. c \in CodecCompatibility[t.file]
    <3>1. CASE p.audioOut # ""
      BY <1>5, <1>6, <2>1, <3>1
    <3>2. CASE p.audioOut = "" /\ t.file = "mp3"
      BY <1>7, <3>2, FileTables
    <3>3. CASE p.audioOut = "" /\ t.file = "ogg"
      <4>1. "opus" \in A
        BY <2>1, <3>3, FileTables
      <4>2. c = "opus"
        BY <1>6, <3>3, <4>1, FileTables
      <4>3. QED  BY <3>3, <4>2, FileTables
    <3>4. CASE p.audioOut = "" /\ t.file = "mp4"
      <4>1. "aac" \in AllOutputAudioCodecs
        BY DEF AllOutputAudioCodecs
      <4>2. Suits(p, "aac")
        BY <1>7, <1>9, AacSuits
      <4>3. "aac" \in A
        BY <1>1, <3>4, <4>1, <4>2
      <4>4. c = "aac"
        BY <1>6, <3>4, <4>3, FileTables
      <4>5. QED  BY <3>4, <4>4, FileTables
    <3>5. QED  BY <2>1, <3>1, <3>2, <3>3, <3>4
  <2>4. QED  BY <1>7, <2>2, <2>3 DEF Suits
<1>10. QED  BY <1>8, <1>9

\* The video codec is H.264, and suits every output.
LEMMA VideoSuits ==
    ASSUME NEW p, p.video, p.videoOut \in {"", "h264"}, NEW t,
           t.segments = p.segments, t.stream = p.stream, t.websocket = p.websocket,
           p.file # "unknown" => t.file = p.file, p.file = "unknown" => t.file = "mp4",
           NEW c \in CodecChoices(p.videoOut, VideoCodecs(p), DefaultVideoCodecs, GetEncodedOutputs(t)),
           VideoCodecs(p) # {}
    PROVE  c = "h264" /\ Suits(t, "h264") /\ Suits(p, "h264")
<1> DEFINE V == VideoCodecs(p)
           outs == GetEncodedOutputs(t)
<1>1. V = {x \in (IF p.videoOut = "" THEN AllOutputVideoCodecs ELSE {p.videoOut}) : Suits(p, x)}
  BY CompatibleAre, Zenon DEF VideoCodecs
<1>2. outs \in Seq({t.file, t.segments, t.stream, t.websocket})
  BY EncodedAre
<1>3. c \in CodecChoices(p.videoOut, V, DefaultVideoCodecs, outs) /\ V # {}
  OBVIOUS
<1> HIDE DEF V, outs
<1>4. V = {"h264"} /\ Suits(p, "h264")
  BY <1>1, <1>3 DEF AllOutputVideoCodecs
<1>5. p.videoOut # "" => V = {p.videoOut}
  BY <1>4
<1>6. c \in V
  <2>1. Chosen(c, V, DefaultVideoCodecs, outs)
    BY <1>2, <1>3, <1>5, ChoiceIs, Zenon
  <2>2. QED  BY <2>1 DEF Chosen
<1>7. WrittenTo(t) \subseteq WrittenTo(p) \cup {"mp4"}
  BY DEF WrittenTo
<1>8. "h264" \in CodecCompatibility["mp4"]
  BY DEF CodecCompatibility
<1>9. QED  BY <1>4, <1>6, <1>7, <1>8 DEF Suits

LEMMA ParamsCode ==
    ASSUME NEW p, IsConf(p), KnownOutputs(p), p.audio \/ p.video,
           p.audioOut \in AudioOuts, p.videoOut \in {"", "h264"},
           NEW q \in validateAndUpdateOutputParams(p), q.ok
    PROVE  Coding(p, q)
<1> DEFINE audio == IF p.audio THEN AudioCodecs(p) ELSE {}
           video == IF p.video THEN VideoCodecs(p) ELSE {}
           named == updateOutputType(p)
           c == (~p.audio \/ audio # {}) /\ (~p.video \/ video # {})
           typed == Requires(named, c)
           outs == GetEncodedOutputs(typed)
           A == IF p.audio THEN CodecChoices(p.audioOut, audio, DefaultAudioCodecs, outs) ELSE {p.audioOut}
           V == IF p.video THEN CodecChoices(p.videoOut, video, DefaultVideoCodecs, outs) ELSE {p.videoOut}
           codecs == [audio : A, video : V]
<1>1. q \in IF ~typed.ok THEN {typed}
            ELSE {[typed EXCEPT !.audioOut = x.audio, !.videoOut = x.video] : x \in codecs}
  BY Zenon DEF validateAndUpdateOutputParams
<1>2. /\ Changes(p, named, {"ok", "file"}) /\ (named.ok => p.ok)
      /\ p.file # "unknown" => named = p
      /\ p.file = "unknown" /\ named.ok => TypedFor(named.file, audio, video) /\ (p.video => named.file = "mp4")
  BY updateOutputTypeIs
<1>3. /\ p.audio => audio = AudioCodecs(p) /\ A = CodecChoices(p.audioOut, AudioCodecs(p), DefaultAudioCodecs, outs)
      /\ p.video => video = VideoCodecs(p) /\ V = CodecChoices(p.videoOut, VideoCodecs(p), DefaultVideoCodecs, outs)
  BY Zenon
<1>4. c => (p.audio => audio # {}) /\ (p.video => video # {})
  OBVIOUS
<1> HIDE DEF named, c, audio, video
<1>5. Changes(named, typed, {"ok"}) /\ (typed.ok => named.ok /\ c)
  <2>1. IsConf(named)
    BY <1>2 DEF Changes
  <2>2. typed = Requires(named, c)
    OBVIOUS
  <2> HIDE DEF typed
  <2>3. Changes(named, typed, {"ok"})
    BY <2>1, <2>2, RequiresChanges
  <2>4. typed.ok => named.ok /\ c
    BY <2>1, <2>2 DEF Requires, IsConf, Fields
  <2>5. QED  BY <2>3, <2>4
<1>22. outs = GetEncodedOutputs(typed)
  OBVIOUS
<1> HIDE DEF typed, outs, A, V
<1>6. typed.ok /\ \E x \in codecs : q = [typed EXCEPT !.audioOut = x.audio, !.videoOut = x.video]
  <2>1. typed.ok
    BY <1>1
  <2>2. QED  BY <1>1, <2>1
<1>7. PICK x \in codecs : q = [typed EXCEPT !.audioOut = x.audio, !.videoOut = x.video]
  BY <1>6
<1>8. x.audio \in A /\ x.video \in V
  BY <1>7
<1> DEFINE a == x.audio
           v == x.video
<1> HIDE DEF a, v
<1>9. Changes(typed, q, {"audioOut", "videoOut"}) /\ q.audioOut = a /\ q.videoOut = v
  <2>1. q = [typed EXCEPT !.audioOut = a, !.videoOut = v]
    BY <1>7 DEF a, v
  <2>2. IsConf(typed)
    BY <1>5 DEF Changes
  <2>3. QED  BY <2>1, <2>2 DEF Changes, IsConf, Fields
<1>10. a \in A /\ v \in V
  BY <1>8 DEF a, v
<1> HIDE DEF codecs
<1>11. /\ typed.segments = p.segments /\ typed.stream = p.stream /\ typed.websocket = p.websocket
       /\ typed.file = named.file /\ typed.audio = p.audio /\ typed.video = p.video
  BY <1>2, <1>5 DEF Changes, Fields
<1>12. /\ p.file # "unknown" => typed.file = p.file
       /\ p.file = "unknown" => typed.file \in {"ogg", "mp4", "mp3"}
             /\ (p.video => typed.file = "mp4")
             /\ (p.audio => AudioCodecs(p) \cap CodecCompatibility[typed.file] # {})
       /\ p.ok
  BY <1>2, <1>3, <1>4, <1>5, <1>6, <1>11 DEF TypedFor
<1>13. p.audio => a \in AllOutputAudioCodecs /\ Suits(typed, a) /\ Suits(p, a)
  <2> SUFFICES ASSUME p.audio  PROVE a \in AllOutputAudioCodecs /\ Suits(typed, a) /\ Suits(p, a)
    OBVIOUS
  <2>1. AudioCodecs(p) # {} /\ a \in CodecChoices(p.audioOut, AudioCodecs(p), DefaultAudioCodecs, GetEncodedOutputs(typed))
    BY <1>3, <1>4, <1>5, <1>6, <1>10, <1>22
  <2>2. p.file = "unknown" => typed.file \in {"ogg", "mp4", "mp3"}
               /\ AudioCodecs(p) \cap CodecCompatibility[typed.file] # {}
    BY <1>12
  <2>3. QED  BY <1>11, <1>12, <2>1, <2>2, AudioSuits
<1>14. p.video => v = "h264" /\ Suits(typed, "h264") /\ Suits(p, "h264")
  <2> SUFFICES ASSUME p.video  PROVE v = "h264" /\ Suits(typed, "h264") /\ Suits(p, "h264")
    OBVIOUS
  <2>1. VideoCodecs(p) # {} /\ v \in CodecChoices(p.videoOut, VideoCodecs(p), DefaultVideoCodecs, GetEncodedOutputs(typed))
    BY <1>3, <1>4, <1>5, <1>6, <1>10, <1>22
  <2>2. QED  BY <1>11, <1>12, <2>1, VideoSuits
<1>15. /\ q.segments = typed.segments /\ q.stream = typed.stream /\ q.websocket = typed.websocket
       /\ q.file = typed.file /\ q.audio = typed.audio /\ q.video = typed.video
  BY <1>9 DEF Changes, Fields
<1>16. WrittenTo(q) = WrittenTo(typed)
  BY <1>15 DEF WrittenTo
<1>18. q.file # "unknown"
  BY <1>12, <1>15
<1>19. Coded(q)
  BY <1>9, <1>11, <1>13, <1>14, <1>15, <1>16, <1>18 DEF Coded, Suits
<1>20. Changes(p, q, {"ok", "file", "audioOut", "videoOut"})
  BY <1>2, <1>5, <1>9 DEF Changes, Fields
<1>21. QED  BY <1>12, <1>15, <1>19, <1>20 DEF Coding

\* What Update makes of a request that it accepts.
Configured(q, r, s) ==
    /\ q.type = r.type /\ q.source = SourceOf(s, r) /\ KnownOutputs(q)
    /\ q.passthrough => Remuxed(q, r)
    /\ ~q.passthrough => Planned(q, r) /\ Coded(q)

LEMMA CodingPlans ==
    ASSUME NEW p, KnownOutputs(p), NEW r, Planned(p, r), NEW q, Coding(p, q)
    PROVE  KnownOutputs(q) /\ Planned(q, r)
<1>1. /\ q.type = p.type /\ q.source = p.source /\ q.audio = p.audio /\ q.video = p.video
      /\ q.transcoding = p.transcoding /\ q.decoding = p.decoding /\ q.encoding = p.encoding
      /\ q.segments = p.segments /\ q.stream = p.stream /\ q.websocket = p.websocket
      /\ q.images = p.images /\ q.count = p.count
  BY DEF Coding, Changes, Fields
<1>2. q.file = p.file \/ (p.file = "unknown" /\ q.file \in {"ogg", "mp4", "mp3"})
  BY DEF Coding
<1>3. (WrittenTo(q) = {} <=> WrittenTo(p) = {}) /\ (q.file = "mcap" => WrittenTo(q) = WrittenTo(p) /\ p.file = "mcap")
      /\ (p.file = "mcap" => q.file = "mcap")
  BY <1>1, <1>2 DEF WrittenTo, NoOutput
<1>4. KnownOutputs(q)
  BY <1>1, <1>2, <1>3 DEF KnownOutputs
<1>5. SubscribesAudio(q, r) = SubscribesAudio(p, r) /\ SubscribesVideo(q, r) = SubscribesVideo(p, r)
  BY <1>1 DEF SubscribesAudio, SubscribesVideo
<1>6. QED  BY <1>1, <1>3, <1>4, <1>5 DEF Planned

\* What updateOutputs and updateDirectOutput leave to be checked.
LEMMA AddedIs ==
    ASSUME NEW r \in Requests, NEW s \in BOOLEAN, NEW a, NEW b, IsConf(b), b.files = {}, Sourced(b, r, s),
           NEW p, p = CASE r.type = "track" -> updateDirectOutput(b, r.outputs[1], a)
                        [] OTHER            -> updateOutputs(b, r, a)
    PROVE  /\ IsConf(p)
           /\ p.ok => /\ b.ok /\ p.type = b.type /\ p.source = b.source /\ KnownOutputs(p)
                      /\ r.type = "track" => p.passthrough /\ Remuxed(p, r)
                      /\ r.type # "track" => Settled(b, r.outputs, p)
<1>1. r.type \in RequestTypes /\ r.outputs \in Seq(AnOutput)
      /\ (r.type = "track" => r.outputs # <<>>)
  BY RequestIs
<1>2. CASE r.type = "track"
  <2>1. p = updateDirectOutput(b, r.outputs[1], a)
    BY <1>2
  <2>2. r.outputs[1] \in AnOutput
    BY <1>1, <1>2, ElementOfSeq, LenProperties, EmptySeq
  <2>3. IsConf(p)
    BY <2>1, <2>2, updateDirectOutputNames
  <2>4. p.ok => /\ p.type = b.type /\ p.source = b.source /\ p.passthrough
                /\ KnownOutputs(p) /\ Remuxed(p, r) /\ b.ok
    BY <1>2, <2>1, DirectIsRemuxed
  <2>5. QED  BY <1>2, <2>3, <2>4
<1>3. CASE r.type # "track"
  <2>1. p = updateOutputs(b, r, a)
    BY <1>3
  <2>2. Adds(b, r.outputs, b)
    BY SourcedAdds
  <2>3. IsConf(p) /\ (p.ok => Settled(b, r.outputs, p))
    BY <1>1, <2>1, <2>2, updateOutputsSettles
  <2>4. p.ok => b.ok /\ p.type = b.type /\ p.source = b.source /\ KnownOutputs(p)
    BY <2>3 DEF Settled
  <2>5. QED  BY <1>3, <2>3, <2>4
<1>4. QED  BY <1>2, <1>3

\* Update's own checks, of what the outputs left.
Checked(p, r, s) ==
    /\ p.type = r.type /\ p.source = SourceOf(s, r)
    /\ p.passthrough => Configured(p, r, s)
    /\ ~p.passthrough => /\ Planned(p, r) /\ p.audioOut \in AudioOuts
                         /\ p.videoOut \in {"", "h264"}

LEMMA ValidConfigures ==
    ASSUME NEW r \in Requests, NEW s \in BOOLEAN, NEW b, Sourced(b, r, s), NEW p, IsConf(p), b.ok,
           p.type = b.type, p.source = b.source, KnownOutputs(p),
           r.type = "track" => p.passthrough /\ Remuxed(p, r),
           r.type # "track" => Settled(b, r.outputs, p),
           validateTrackPreserving(p, r), p.passthrough => r.type \in {"track", "media"}
    PROVE  Checked(p, r, s)
<1>1. p.type = r.type /\ p.source = SourceOf(s, r)
  BY DEF Sourced
<1>2. CASE p.passthrough
  <2>1. Remuxed(p, r)
    BY <1>2, SettledIsRemuxed
  <2>2. QED  BY <1>1, <1>2, <2>1 DEF Configured, Checked
<1>3. CASE ~p.passthrough
  <2>1. r.type # "track"
    BY <1>3
  <2>2. Planned(p, r)
    BY <1>3, <2>1, SettledIsPlanned
  <2>3. ~b.passthrough /\ CodecsKept(b, p)
    BY <1>3, <2>1 DEF Settled
  <2>4. b.audioOut \in AudioOuts
    BY <2>3 DEF Sourced, Rendering, AudioOuts
  <2>5. p.audioOut \in AudioOuts /\ p.videoOut \in {"", "h264"}
    BY <2>3, <2>4 DEF CodecsKept
  <2>6. QED  BY <1>1, <1>3, <2>2, <2>5 DEF Checked
<1>4. QED  BY <1>2, <1>3

LEMMA RequiredConfigures ==
    ASSUME NEW r \in Requests, NEW s, NEW p, NEW q, Changes(p, q, {"ok"}),
           KnownOutputs(p), Checked(p, r, s)
    PROVE  KnownOutputs(q) /\ Checked(q, r, s)
<1>1. /\ q.type = p.type /\ q.source = p.source /\ q.audio = p.audio /\ q.video = p.video
      /\ q.transcoding = p.transcoding /\ q.decoding = p.decoding /\ q.encoding = p.encoding
      /\ q.segments = p.segments /\ q.stream = p.stream /\ q.websocket = p.websocket
      /\ q.images = p.images /\ q.count = p.count /\ q.file = p.file
      /\ q.passthrough = p.passthrough /\ q.audioOut = p.audioOut /\ q.videoOut = p.videoOut
  BY DEF Changes, Fields
<1>2. WrittenTo(q) = WrittenTo(p)
  BY <1>1 DEF WrittenTo
<1>3. KnownOutputs(q)
  BY <1>1, <1>2 DEF KnownOutputs
<1>4. SubscribesAudio(q, r) = SubscribesAudio(p, r) /\ SubscribesVideo(q, r) = SubscribesVideo(p, r)
  BY <1>1 DEF SubscribesAudio, SubscribesVideo
<1>5. Planned(p, r) => Planned(q, r)
  BY <1>1, <1>2, <1>4 DEF Planned
<1>6. Remuxed(p, r) => Remuxed(q, r)
  BY <1>1 DEF Remuxed
<1>7. Coded(p) => Coded(q)
  BY <1>1, <1>2 DEF Coded, Suits
<1>8. Configured(p, r, s) => Configured(q, r, s)
  BY <1>1, <1>3, <1>5, <1>6, <1>7 DEF Configured
<1>9. QED  BY <1>1, <1>3, <1>5, <1>8 DEF Checked

LEMMA UpdateConfigures ==
    ASSUME NEW r \in Requests, NEW s \in BOOLEAN, NEW a, NEW q \in Update(s, r, a), q.ok
    PROVE  IsConf(q) /\ Configured(q, r, s)
<1> DEFINE sourced == ApplySource(Begun(s, r), r)
           added == CASE r.type = "track" -> updateDirectOutput(sourced, r.outputs[1], a)
                      [] OTHER            -> updateOutputs(sourced, r, a)
           c == /\ validateTrackPreserving(added, r)
                /\ added.passthrough => r.type \in {"track", "media"}
                /\ r.token \/ r.type \in {"web", "v2web"}
           valid == Requires(added, c)
           none == Fails(NewPipelineConfig(s))
<1>1. \/ q = none \/ (q = valid /\ valid.ok /\ valid.passthrough)
      \/ /\ valid.ok /\ ~valid.passthrough
         /\ \E x \in validateAndUpdateOutputParams(valid) : q = IF x.ok THEN x ELSE none
  BY Zenon DEF Update, Begun
<1>2. IsConf(sourced) /\ Sourced(sourced, r, s) /\ sourced.files = {}
  <2> DEFINE b == Begun(s, r)
  <2>1. IsConf(b) /\ b.files = {}
    BY NewIsConf DEF IsConf, Fields, Begun
  <2>2. r.type \in RequestTypes
    BY RequestIs
  <2>3. sourced = ApplySource(b, r)
    OBVIOUS
  <2>4. IsConf(sourced) /\ Sourced(sourced, r, s)
    BY ApplySourceIs
  <2> HIDE DEF b, sourced
  <2>5. Keeps(b, sourced)
    BY <2>1, <2>2, <2>3, ApplySourceKeeps
  <2>6. QED  BY <2>1, <2>4, <2>5 DEF Keeps
<1> HIDE DEF sourced
<1>3. /\ IsConf(added)
      /\ added.ok => /\ sourced.ok /\ added.type = sourced.type /\ added.source = sourced.source
                     /\ KnownOutputs(added)
                     /\ r.type = "track" => added.passthrough /\ Remuxed(added, r)
                     /\ r.type # "track" => Settled(sourced, r.outputs, added)
  BY <1>2, AddedIs
<1>4. c => validateTrackPreserving(added, r) /\ (added.passthrough => r.type \in {"track", "media"})
  OBVIOUS
<1>5. ~none.ok
  BY DEF Fails, NewPipelineConfig
<1> HIDE DEF added, c, none
<1>6. Changes(added, valid, {"ok"}) /\ (valid.ok => added.ok)
  BY <1>3, RequiresChanges
<1>7. valid.ok => c
  BY <1>3 DEF Requires, IsConf, Fields
<1> HIDE DEF valid
<1>8. /\ valid.ok
      /\ \/ q = valid /\ valid.passthrough
         \/ ~valid.passthrough /\ q \in validateAndUpdateOutputParams(valid)
  BY <1>1, <1>5, Zenon
<1>9. KnownOutputs(added) /\ Checked(added, r, s)
  <2>1. added.ok /\ c
    BY <1>6, <1>7, <1>8
  <2>2. /\ sourced.ok /\ added.type = sourced.type /\ added.source = sourced.source /\ KnownOutputs(added)
        /\ r.type = "track" => added.passthrough /\ Remuxed(added, r)
        /\ r.type # "track" => Settled(sourced, r.outputs, added)
        /\ validateTrackPreserving(added, r) /\ (added.passthrough => r.type \in {"track", "media"})
    BY <1>3, <1>4, <2>1
  <2>3. QED  BY <1>2, <1>3, <2>2, ValidConfigures
<1>10. KnownOutputs(valid) /\ Checked(valid, r, s)
  BY <1>6, <1>9, RequiredConfigures
<1>11. IsConf(valid)
  BY <1>6 DEF Changes
<1>12. CASE q = valid /\ valid.passthrough
  BY <1>10, <1>11, <1>12 DEF Checked
<1>13. CASE ~valid.passthrough /\ q \in validateAndUpdateOutputParams(valid)
  <2>1. /\ Planned(valid, r) /\ KnownOutputs(valid) /\ ~valid.passthrough
        /\ valid.audioOut \in AudioOuts /\ valid.videoOut \in {"", "h264"}
        /\ valid.type = r.type /\ valid.source = SourceOf(s, r)
    BY <1>10, <1>13 DEF Checked
  <2>2. valid.audio \/ valid.video
    BY <2>1 DEF Planned
  <2>3. Coding(valid, q)
    BY <1>11, <1>13, <2>1, <2>2, ParamsCode
  <2>4. KnownOutputs(q) /\ Planned(q, r)
    BY <2>1, <2>3, CodingPlans
  <2>5. IsConf(q) /\ q.type = valid.type /\ q.source = valid.source /\ q.passthrough = valid.passthrough /\ Coded(q)
    BY <2>3 DEF Coding, Changes, Fields
  <2>6. QED  BY <2>1, <2>4, <2>5 DEF Configured
<1>14. QED  BY <1>8, <1>12, <1>13

-----------------------------------------------------------------------------
\* What the builders ask of a configuration.

\* Every source has a sink, and every sink is given what it takes.
Linked(p) ==
    /\ p.audio \/ p.video
    /\ WrittenTo(p) # {} \/ p.images > 0
    /\ p.audio => /\ p.transcoding => p.audioOut \in AllOutputAudioCodecs
                  /\ \A o \in WrittenTo(p) : AudioCaps(p) \in MuxerTakes[o]
    /\ p.video => /\ HasRawVideo(p) /\ p.encoding => p.videoOut = "h264"
                  /\ \A o \in WrittenTo(p) : VideoCaps(p) \in MuxerTakes[o]
    /\ p.images > 0 => HasRawVideo(p)

\* A configuration that can be built, or is one of the known exceptions.
Ready(p) ==
    /\ p.stream \in {NoOutput, "rtmp", "srt", "raw", "unknown"} /\ p.images \in Nat
    /\ p.file = "mcap" => p.images = 0
    /\ ~Unbuildable(p) => p.file # "unknown" /\ (p.file # "mcap" => Linked(p))

\* The part of AcceptedIsBuilt that is about the links.
LinksFit(p) ==
    /\ \A l \in EncodedLinks(p) : Caps(p, l[1]) \in MuxerTakes[l[2]]
    /\ \A i \in ImageBins(p) : \E l \in ImageLinks(p) : l[2] = i
    /\ \A l \in ImageLinks(p) : l[1] = "video"
    /\ TrackPreserving(p) \/ SourceBins(p) # {}
    /\ \A s \in SourceBins(p) : \E l \in EncodedLinks(p) \cup ImageLinks(p) : l[1] = s

LEMMA ReadyMcapIsBuilt ==
    ASSUME NEW p, Ready(p), ~Unbuildable(p), p.file = "mcap"
    PROVE  ~BinsFail(p) /\ ~LinksFail(p) /\ LinksFit(p)
<1>1. SourceBins(p) = {} /\ p.images = 0 /\ TrackPreserving(p)
  BY DEF Ready, SourceBins, TrackPreserving
<1>2. ImageBins(p) = {}
  BY <1>1 DEF ImageBins
<1>3. ImageLinks(p) = {} /\ EncodedLinks(p) = {}
  BY <1>1, <1>2 DEF ImageLinks, EncodedLinks
<1>4. p.stream \in {NoOutput, "rtmp", "srt"} /\ p.file # "unknown"
  BY DEF Ready, Unbuildable
<1>5. ~BinsFail(p)
  BY <1>1, <1>4 DEF BinsFail, FileBinFails, StreamBinFails, AudioEncoderFails, VideoEncoderFails
<1>6. Cardinality(SourceBins(p)) = 0
  BY <1>1, FS_EmptySet
<1>7. ~LinksFail(p)
  BY <1>3, <1>6 DEF LinksFail, WebsocketIsTaken, ImagesNeedRaw
<1>8. QED  BY <1>1, <1>2, <1>3, <1>5, <1>7 DEF LinksFit

LEMMA ReadyIsBuilt ==
    ASSUME NEW p, Ready(p), ~Unbuildable(p), p.file # "mcap"
    PROVE  ~BinsFail(p) /\ ~LinksFail(p) /\ LinksFit(p)
<1> DEFINE S == SourceBins(p)
           E == EncodedBins(p)
           I == ImageBins(p)
           X == ImageLinks(p)
<1>1. Linked(p) /\ p.file # "unknown" /\ p.images \in Nat
  BY DEF Ready
<1>2. /\ p.stream \in {NoOutput, "rtmp", "srt"}
      /\ p.images > 0 => p.video
      /\ p.images > 0 /\ E = {} => ~p.audio
      /\ p.websocket # NoOutput => ~p.video
  BY DEF Ready, Unbuildable
<1>3. E = WrittenTo(p)
  BY EncodedAre DEF EncodedBins
<1>4. ("audio" \in S <=> p.audio) /\ ("video" \in S <=> p.video) /\ S \subseteq {"audio", "video"}
  BY DEF SourceBins, TrackPreserving
<1>5. I = 1..p.images
  BY DEF ImageBins
<1>6. X = (IF SinkCount(p) > 1 THEN S \ {"audio"} ELSE S) \X I
  BY DEF ImageLinks
<1>7. EncodedLinks(p) = S \X E
  BY DEF EncodedLinks
<1>8. p.images > 0 /\ ~(SinkCount(p) > 1) => E = {}
  <2>1. SinkCount(p) = Ones(p.file) + Ones(p.segments) + Ones(p.stream) + Ones(p.websocket) + p.images
    BY EncodedAre DEF SinkCount
  <2>2. /\ Ones(p.file) \in {0, 1} /\ Ones(p.segments) \in {0, 1}
        /\ Ones(p.stream) \in {0, 1} /\ Ones(p.websocket) \in {0, 1}
    BY DEF Ones
  <2>3. p.images > 0 /\ ~(SinkCount(p) > 1) =>
            Ones(p.file) = 0 /\ Ones(p.segments) = 0 /\ Ones(p.stream) = 0 /\ Ones(p.websocket) = 0
    BY <1>1, <2>1, <2>2
  <2>4. QED  BY <1>3, <2>3 DEF Ones, WrittenTo
<1> HIDE DEF S, E, I, X
<1>9. ~BinsFail(p)
  <2>1. ~FileBinFails(p) /\ ~StreamBinFails(p)
    BY <1>1, <1>2 DEF FileBinFails, StreamBinFails
  <2>2. ~AudioEncoderFails(p)
    BY <1>1, <1>4 DEF AudioEncoderFails, Linked, S
  <2>3. ~VideoEncoderFails(p)
    BY <1>1, <1>4 DEF VideoEncoderFails, Linked, S
  <2>4. QED  BY <2>1, <2>2, <2>3 DEF BinsFail
<1>10. \A i \in I : p.images > 0
  BY <1>1, <1>5
<1>11. ASSUME NEW l \in X  PROVE l[1] = "video" /\ l[2] \in I /\ l[1] \in S
  <2>1. l[2] \in I /\ l[1] \in IF SinkCount(p) > 1 THEN S \ {"audio"} ELSE S
    BY <1>6
  <2>2. p.images > 0
    BY <1>10, <2>1
  <2>3. CASE SinkCount(p) > 1
    BY <1>4, <2>1, <2>3
  <2>4. CASE ~(SinkCount(p) > 1)
    BY <1>2, <1>4, <1>8, <2>1, <2>2, <2>4
  <2>5. QED  BY <2>3, <2>4
<1>12. ASSUME NEW i \in I  PROVE <<"video", i>> \in X
  BY <1>2, <1>4, <1>6, <1>10
<1>13. ~LinksFail(p)
  <2>1. ~WebsocketIsTaken(p)
    <3>1. p.websocket # NoOutput => S \subseteq {"audio"}
      BY <1>2, <1>4
    <3>2. S \subseteq {"audio"} => S = {} \/ S = {"audio"}
      OBVIOUS
    <3>3. Cardinality({}) = 0 /\ Cardinality({"audio"}) = 1
      BY FS_EmptySet, FS_Singleton
    <3>4. p.websocket # NoOutput => Cardinality(S) \in {0, 1}
      BY <3>1, <3>2, <3>3
    <3>5. p.websocket # NoOutput => ~(Cardinality(S) > 1)
      BY <3>4
    <3>6. QED  BY <3>5 DEF WebsocketIsTaken, S
  <2>2. ~ImagesNeedRaw(p)
    <3>1. X # {} => HasRawVideo(p)
      BY <1>1, <1>10, <1>11 DEF Linked
    <3>2. QED  BY <3>1 DEF ImagesNeedRaw, X
  <2>3. QED  BY <2>1, <2>2 DEF LinksFail
<1>14. ASSUME NEW l \in S \X E  PROVE Caps(p, l[1]) \in MuxerTakes[l[2]]
  <2>1. l[1] \in S /\ l[2] \in WrittenTo(p)
    BY <1>3, <1>14
  <2>2. CASE l[1] = "audio"
    BY <1>1, <1>4, <2>1, <2>2 DEF Caps, Linked
  <2>3. CASE l[1] = "video"
    BY <1>1, <1>4, <2>1, <2>3 DEF Caps, Linked
  <2>4. QED  BY <1>4, <2>1, <2>2, <2>3
<1>15. S # {}
  BY <1>1, <1>4 DEF Linked
<1>16. ASSUME NEW s \in S  PROVE \E l \in (S \X E) \cup X : l[1] = s
  <2>1. CASE E # {}
    <3>1. PICK o \in E : TRUE
      BY <2>1
    <3>2. <<s, o>> \in S \X E /\ <<s, o>>[1] = s
      BY <3>1
    <3>3. QED  BY <3>2
  <2>2. CASE E = {}
    <3>1. p.images > 0
      BY <1>1, <1>3, <2>2 DEF Linked
    <3>2. s = "video"
      BY <1>2, <1>4, <2>2, <3>1
    <3>3. 1 \in I
      BY <1>1, <1>5, <3>1
    <3>4. <<s, 1>> \in X /\ <<s, 1>>[1] = s
      BY <1>12, <3>2, <3>3
    <3>5. QED  BY <3>4
  <2>3. QED  BY <2>1, <2>2
<1>17. LinksFit(p)
  <2>1. \A l \in EncodedLinks(p) : Caps(p, l[1]) \in MuxerTakes[l[2]]
    BY <1>7, <1>14
  <2>2. \A i \in I : \E l \in X : l[2] = i
    BY <1>12
  <2>3. \A l \in X : l[1] = "video"
    BY <1>11
  <2>4. \A s \in S : \E l \in EncodedLinks(p) \cup X : l[1] = s
    BY <1>7, <1>16
  <2>5. QED  BY <1>15, <2>1, <2>2, <2>3, <2>4 DEF LinksFit, S, I, X
<1>18. QED  BY <1>9, <1>13, <1>17

\* What the table of compatible codecs allows, the muxers take, but for MP3 files.
LEMMA MuxersTake ==
    ASSUME NEW o \in {"mp4", "ogg", "mp3", "hls", "rtmp", "srt", "raw"}
    PROVE  /\ \A c \in AllOutputAudioCodecs :
                  c \in CodecCompatibility[o] /\ (o = "mp3" => c = "mp3") => c \in MuxerTakes[o]
           /\ "h264" \in CodecCompatibility[o] => "h264" \in MuxerTakes[o]
<1>2. CASE o = "mp4"
  BY <1>2 DEF CodecCompatibility, MuxerTakes, AllOutputAudioCodecs
<1>3. CASE o = "ogg"
  BY <1>3 DEF CodecCompatibility, MuxerTakes, AllOutputAudioCodecs
<1>4. CASE o = "mp3"
  BY <1>4 DEF CodecCompatibility, MuxerTakes, AllOutputAudioCodecs
<1>5. CASE o = "hls"
  BY <1>5 DEF CodecCompatibility, MuxerTakes, AllOutputAudioCodecs
<1>6. CASE o = "rtmp"
  BY <1>6 DEF CodecCompatibility, MuxerTakes, AllOutputAudioCodecs
<1>7. CASE o = "srt"
  BY <1>7 DEF CodecCompatibility, MuxerTakes, AllOutputAudioCodecs
<1>8. CASE o = "raw"
  BY <1>8 DEF CodecCompatibility, MuxerTakes, AllOutputAudioCodecs
<1>9. QED  BY <1>2, <1>3, <1>4, <1>5, <1>6, <1>7, <1>8

\* A configuration whose codecs suit its outputs, and whose audio and video are encoded.
Transcodes(p) ==
    /\ KnownOutputs(p) /\ Coded(p)
    /\ p.audio \/ p.video
    /\ WrittenTo(p) # {} \/ p.images > 0
    /\ p.file = "mcap" => p.images = 0
    /\ p.file # "mcap" => /\ p.audio => p.transcoding
                          /\ p.video => p.decoding
                          /\ p.video /\ WrittenTo(p) # {} => p.encoding

LEMMA TranscodesIsReady ==
    ASSUME NEW p, Transcodes(p)  PROVE Ready(p)
<1>1. /\ p.file # "unknown" /\ p.stream \in {NoOutput, "rtmp", "srt", "raw", "unknown"} /\ p.images \in Nat
      /\ p.file = "mcap" => p.images = 0
  BY DEF Transcodes, KnownOutputs, Coded
<1>2. ASSUME p.file # "mcap", ~Unbuildable(p)  PROVE Linked(p)
  <2>1. ASSUME NEW o \in WrittenTo(p)
        PROVE  o \in {"mp4", "ogg", "mp3", "hls", "rtmp", "srt", "raw"} /\ (o = "mp3" => p.audioOut = "mp3")
    <3>1. o \in {p.file, p.segments, p.stream, p.websocket} /\ o # NoOutput
      BY DEF WrittenTo
    <3>2. o = p.file => o \in {"mp4", "ogg", "mp3"} /\ (o = "mp3" => p.audioOut = "mp3")
      BY <1>1, <1>2, <3>1 DEF Transcodes, KnownOutputs, Unbuildable
    <3>3. o # p.file => o \in {"hls", "rtmp", "srt", "raw"}
      BY <1>2, <3>1 DEF Transcodes, KnownOutputs, Unbuildable
    <3>4. QED  BY <3>2, <3>3
  <2>2. p.audio => p.transcoding /\ p.audioOut \in AllOutputAudioCodecs /\ Suits(p, p.audioOut)
    BY <1>2 DEF Transcodes, Coded
  <2>3. p.video => HasRawVideo(p) /\ p.videoOut = "h264" /\ Suits(p, "h264")
    BY <1>2 DEF Transcodes, Coded, HasRawVideo
  <2>4. p.video /\ WrittenTo(p) # {} => p.encoding
    BY <1>2 DEF Transcodes
  <2>5. ASSUME NEW o \in WrittenTo(p), p.audio  PROVE AudioCaps(p) \in MuxerTakes[o]
    <3>1. AudioCaps(p) = p.audioOut
      BY <2>2, <2>5 DEF AudioCaps
    <3>2. p.audioOut \in CodecCompatibility[o]
      BY <2>2, <2>5 DEF Suits
    <3>3. QED  BY <2>1, <2>2, <2>5, <3>1, <3>2, MuxersTake
  <2>6. ASSUME NEW o \in WrittenTo(p), p.video  PROVE VideoCaps(p) \in MuxerTakes[o]
    <3>1. VideoCaps(p) = "h264"
      BY <2>3, <2>4, <2>6 DEF VideoCaps
    <3>2. "h264" \in CodecCompatibility[o]
      BY <2>3, <2>6 DEF Suits
    <3>3. QED  BY <2>1, <3>1, <3>2, MuxersTake
  <2>7. p.images > 0 => HasRawVideo(p)
    BY <1>2, <2>3 DEF Unbuildable
  <2>8. (p.audio \/ p.video) /\ (WrittenTo(p) # {} \/ p.images > 0)
    BY DEF Transcodes
  <2>9. QED  BY <2>2, <2>3, <2>5, <2>6, <2>7, <2>8 DEF Linked
<1>3. QED  BY <1>1, <1>2 DEF Ready

LEMMA PlannedTranscodes ==
    ASSUME NEW p, NEW r, KnownOutputs(p), Planned(p, r), Coded(p)
    PROVE  Transcodes(p)
BY DEF Planned, Transcodes

\* A request that Chrome renders is built as it was accepted.
LEMMA WebIsReady ==
    ASSUME NEW p, NEW r, NEW s, Configured(p, r, s), p.source = "web"
    PROVE  Ready(p)
<1>1. ~p.passthrough
  <2>1. r.type \in {"track", "media"} => IsSDKSourceRequest(s, r)
    BY DEF IsSDKSourceRequest
  <2>2. p.passthrough => p.source = "sdk"
    BY <2>1 DEF Configured, Remuxed, SourceOf
  <2>3. QED  BY <2>2
<1>2. KnownOutputs(p) /\ Planned(p, r) /\ Coded(p)
  BY <1>1 DEF Configured
<1>3. QED  BY <1>2, PlannedTranscodes, TranscodesIsReady

-----------------------------------------------------------------------------
\* The tracks.

\* What HearsTrack sets.
Hearing(p, q, codec) ==
    /\ Changes(p, q, {"audio", "transcoding", "audioOut"})
    /\ codec = "" => q = p
    /\ codec # "" => /\ q.audio /\ (q.transcoding <=> ~OpusPassthrough(p, codec))
                     /\ q.audioOut = IF p.audioOut = "" THEN "opus" ELSE p.audioOut

LEMMA HearsTrackIs ==
    ASSUME NEW p, IsConf(p), NEW codec  PROVE Hearing(p, HearsTrack(p, codec), codec)
<1> DEFINE c == ~OpusPassthrough(p, codec)
           q == [p EXCEPT !.audio = TRUE, !.transcoding = c,
                          !.audioOut = IF @ = "" THEN "opus" ELSE @]
<1>1. HearsTrack(p, codec) = IF codec = "" THEN p ELSE q
  BY DEF HearsTrack
<1>2. c <=> ~OpusPassthrough(p, codec)
  OBVIOUS
<1> HIDE DEF c
<1>3. Changes(p, q, {"audio", "transcoding", "audioOut"}) /\ q.audio /\ (q.transcoding <=> c)
      /\ q.audioOut = IF p.audioOut = "" THEN "opus" ELSE p.audioOut
  BY DEF Changes, IsConf, Fields
<1> HIDE DEF q
<1>4. Changes(p, p, {"audio", "transcoding", "audioOut"})
  BY DEF Changes
<1>5. QED  BY <1>1, <1>2, <1>3, <1>4 DEF Hearing

\* What SeesTrack sets.
Seeing(p, q, codec) ==
    LET coded == IF p.videoOut = "" THEN codec ELSE p.videoOut
    IN /\ Changes(p, q, {"video", "videoIn", "videoOut", "decoding", "encoding"})
       /\ codec = "" => q = p
       /\ codec # "" => /\ q.video /\ q.videoIn = codec /\ q.videoOut = coded
                        /\ q.decoding <=> p.decoding \/ codec # coded
                        /\ q.encoding <=> p.encoding \/ (codec # coded /\ WrittenTo(p) # {})

LEMMA SeesTrackIs ==
    ASSUME NEW p, IsConf(p), NEW codec  PROVE Seeing(p, SeesTrack(p, codec), codec)
<1> DEFINE coded == IF p.videoOut = "" THEN codec ELSE p.videoOut
           d == p.decoding \/ codec # coded
           e == p.encoding \/ (codec # coded /\ GetEncodedOutputs(p) # <<>>)
           q == [p EXCEPT !.video = TRUE, !.videoIn = codec, !.videoOut = coded,
                          !.decoding = d, !.encoding = e]
<1>1. SeesTrack(p, codec) = IF codec = "" THEN p ELSE q
  <2>1. q = [p EXCEPT !.video = TRUE, !.videoIn = codec, !.videoOut = coded,
                      !.decoding = @ \/ codec # coded,
                      !.encoding = @ \/ (codec # coded /\ GetEncodedOutputs(p) # <<>>)]
    OBVIOUS
  <2>2. QED  BY <2>1 DEF SeesTrack
<1>2. (d <=> p.decoding \/ codec # coded) /\ (e <=> p.encoding \/ (codec # coded /\ WrittenTo(p) # {}))
  BY EncodedAre
<1> HIDE DEF d, e
<1>3. Changes(p, q, {"video", "videoIn", "videoOut", "decoding", "encoding"})
      /\ q.video /\ q.videoIn = codec /\ q.videoOut = coded /\ (q.decoding <=> d) /\ (q.encoding <=> e)
  BY DEF Changes, IsConf, Fields
<1> HIDE DEF q
<1>4. Changes(p, p, {"video", "videoIn", "videoOut", "decoding", "encoding"})
  BY DEF Changes
<1>5. QED  BY <1>1, <1>2, <1>3, <1>4 DEF Seeing

LEMMA RemuxesIs ==
    ASSUME NEW p, IsConf(p), NEW codec
    PROVE  /\ Changes(p, Remuxes(p, codec), {"file"})
           /\ p.passthrough /\ p.file # NoOutput => Remuxes(p, codec).file = TrackOutputTypes[codec]
           /\ ~(p.passthrough /\ p.file # NoOutput) => Remuxes(p, codec) = p
<1> DEFINE q == [p EXCEPT !.file = TrackOutputTypes[codec]]
<1>1. Changes(p, q, {"file"}) /\ q.file = TrackOutputTypes[codec]
  BY DEF Changes, IsConf, Fields
<1>2. Remuxes(p, codec) = IF p.passthrough /\ p.file # NoOutput THEN q ELSE p
  BY DEF Remuxes
<1> HIDE DEF q
<1>3. Changes(p, p, {"file"})
  BY DEF Changes
<1>4. QED  BY <1>1, <1>2, <1>3

LEMMA ArrivalsAre ==
    ASSUME NEW p, NEW r, NEW t \in Arrivals(p, r)
    PROVE  /\ t.audio = "" \/ t.audio \in AudioMimeTypes
           /\ t.video = "" \/ t.video \in VideoMimeTypes
           /\ r.type = "track" => (t.audio = "") # (t.video = "")
           /\ r.type # "track" => /\ t.audio # "" => SubscribesAudio(p, r)
                                  /\ t.video # "" => SubscribesVideo(p, r)
<1> DEFINE late == IF r.type = "track_composite" THEN {} ELSE {""}
           heard == IF SubscribesAudio(p, r) THEN AudioMimeTypes \cup late ELSE {""}
           seen == IF SubscribesVideo(p, r)
                   THEN (VideoMimeTypes \ (IF TrackPreserving(p) THEN {"vp8"} ELSE {})) \cup late
                   ELSE {""}
<1>1. "" \notin AudioMimeTypes /\ "" \notin VideoMimeTypes
  BY DEF AudioMimeTypes, VideoMimeTypes
<1>2. CASE r.type = "track"
  <2>1. \/ \E a \in AudioMimeTypes : t = [audio |-> a, video |-> ""]
        \/ \E v \in VideoMimeTypes : t = [audio |-> "", video |-> v]
    BY <1>2, Zenon DEF Arrivals
  <2>2. \/ t.audio \in AudioMimeTypes /\ t.video = ""
        \/ t.audio = "" /\ t.video \in VideoMimeTypes
    <3>1. CASE \E a \in AudioMimeTypes : t = [audio |-> a, video |-> ""]
      <4>1. PICK a \in AudioMimeTypes : t = [audio |-> a, video |-> ""]
        BY <3>1
      <4>2. t.audio = a /\ t.video = ""
        BY <4>1
      <4>3. QED  BY <4>2
    <3>2. CASE \E v \in VideoMimeTypes : t = [audio |-> "", video |-> v]
      <4>1. PICK v \in VideoMimeTypes : t = [audio |-> "", video |-> v]
        BY <3>2
      <4>2. t.audio = "" /\ t.video = v
        BY <4>1
      <4>3. QED  BY <4>2
    <3>3. QED  BY <2>1, <3>1, <3>2
  <2>3. (t.audio = "") # (t.video = "")
    BY <1>1, <2>2
  <2>4. QED  BY <1>2, <2>2, <2>3
<1>3. CASE r.type # "track"
  <2>1. t \in [audio : heard, video : seen]
    BY <1>3, Zenon DEF Arrivals
  <2>2. t.audio \in heard /\ t.video \in seen
    BY <2>1
  <2>3. /\ t.audio = "" \/ t.audio \in AudioMimeTypes
        /\ t.audio # "" => SubscribesAudio(p, r)
    BY <1>1, <2>2
  <2>4. /\ t.video = "" \/ t.video \in VideoMimeTypes
        /\ t.video # "" => SubscribesVideo(p, r)
    BY <1>1, <2>2
  <2>5. QED  BY <1>3, <2>3, <2>4
<1>4. QED  BY <1>2, <1>3

\* The configuration once the tracks t are there (TracksSubscribed).
SubscribedTo(p, t) ==
    LET met == SeesTrack(HearsTrack(p, t.audio), t.video)
    IN IF t.audio # "" THEN Remuxes(met, t.audio)
       ELSE IF t.video # "" THEN Remuxes(met, t.video) ELSE met

\* What the tracks leave, and what they set.
Met(p, q, t) ==
    /\ q.type = p.type /\ q.source = p.source /\ q.passthrough = p.passthrough
    /\ q.segments = p.segments /\ q.stream = p.stream /\ q.websocket = p.websocket
    /\ q.images = p.images /\ q.count = p.count
    /\ t.audio = "" => q.audio = p.audio /\ q.transcoding = p.transcoding /\ q.audioOut = p.audioOut
    /\ t.audio # "" => /\ q.audio /\ (q.transcoding <=> ~OpusPassthrough(p, t.audio))
                       /\ q.audioOut = IF p.audioOut = "" THEN "opus" ELSE p.audioOut
    /\ t.video = "" => q.video = p.video /\ q.decoding = p.decoding
                       /\ q.encoding = p.encoding /\ q.videoOut = p.videoOut /\ q.videoIn = p.videoIn
    /\ t.video # "" => LET coded == IF p.videoOut = "" THEN t.video ELSE p.videoOut
                       IN /\ q.video /\ q.videoIn = t.video /\ q.videoOut = coded
                          /\ q.decoding <=> p.decoding \/ t.video # coded
                          /\ q.encoding <=> p.encoding \/ (t.video # coded /\ WrittenTo(p) # {})
    /\ ~(p.passthrough /\ p.file # NoOutput) => q.file = p.file
    /\ p.passthrough /\ p.file # NoOutput =>
           /\ t.audio # "" => q.file = TrackOutputTypes[t.audio]
           /\ t.audio = "" /\ t.video # "" => q.file = TrackOutputTypes[t.video]

LEMMA SubscribedMeets ==
    ASSUME NEW p, IsConf(p), NEW t  PROVE Met(p, SubscribedTo(p, t), t)
<1> DEFINE h == HearsTrack(p, t.audio)
           m == SeesTrack(h, t.video)
           codec == IF t.audio # "" THEN t.audio ELSE t.video
           q == SubscribedTo(p, t)
           coded == IF p.videoOut = "" THEN t.video ELSE p.videoOut
<1>1. q = IF codec # "" THEN Remuxes(m, codec) ELSE m
  BY DEF SubscribedTo
<1>2. Hearing(p, h, t.audio)
  BY HearsTrackIs
<1> HIDE DEF h
<1>3. IsConf(h)
  BY <1>2 DEF Hearing, Changes
<1>4. Seeing(h, m, t.video)
  BY <1>3, SeesTrackIs
<1> HIDE DEF m, codec, q
<1>5. IsConf(m)
  BY <1>4 DEF Seeing, Changes
<1>6. /\ Changes(m, q, {"file"})
      /\ ~(m.passthrough /\ m.file # NoOutput) => q.file = m.file
      /\ m.passthrough /\ m.file # NoOutput /\ codec # "" => q.file = TrackOutputTypes[codec]
  <2>1. Changes(m, m, {"file"})
    BY <1>5 DEF Changes
  <2>2. QED  BY <1>1, <1>5, <2>1, RemuxesIs
<1>7. Changes(p, h, {"audio", "transcoding", "audioOut"})
  BY <1>2 DEF Hearing
<1>8. Changes(h, m, {"video", "videoIn", "videoOut", "decoding", "encoding"})
  BY <1>4 DEF Seeing
<1>9. /\ h.type = p.type /\ h.source = p.source /\ h.passthrough = p.passthrough
      /\ h.segments = p.segments /\ h.stream = p.stream /\ h.websocket = p.websocket
      /\ h.images = p.images /\ h.count = p.count /\ h.file = p.file
      /\ h.video = p.video /\ h.videoIn = p.videoIn /\ h.videoOut = p.videoOut
      /\ h.decoding = p.decoding /\ h.encoding = p.encoding
  BY <1>7 DEF Changes, Fields
<1>10. /\ m.type = h.type /\ m.source = h.source /\ m.passthrough = h.passthrough
       /\ m.segments = h.segments /\ m.stream = h.stream /\ m.websocket = h.websocket
       /\ m.images = h.images /\ m.count = h.count /\ m.file = h.file
       /\ m.audio = h.audio /\ m.transcoding = h.transcoding /\ m.audioOut = h.audioOut
  BY <1>8 DEF Changes, Fields
<1>11. /\ q.type = m.type /\ q.source = m.source /\ q.passthrough = m.passthrough
       /\ q.segments = m.segments /\ q.stream = m.stream /\ q.websocket = m.websocket
       /\ q.images = m.images /\ q.count = m.count
       /\ q.audio = m.audio /\ q.transcoding = m.transcoding /\ q.audioOut = m.audioOut
       /\ q.video = m.video /\ q.videoIn = m.videoIn /\ q.videoOut = m.videoOut
       /\ q.decoding = m.decoding /\ q.encoding = m.encoding
  BY <1>6 DEF Changes, Fields
<1>12. /\ t.audio = "" => q.audio = p.audio /\ q.transcoding = p.transcoding /\ q.audioOut = p.audioOut
       /\ t.audio # "" => /\ q.audio /\ (q.transcoding <=> ~OpusPassthrough(p, t.audio))
                          /\ q.audioOut = IF p.audioOut = "" THEN "opus" ELSE p.audioOut
  BY <1>2, <1>10, <1>11 DEF Hearing
<1>13. WrittenTo(h) = WrittenTo(p)
  BY <1>9 DEF WrittenTo
<1>14. t.video = "" => q.video = p.video /\ q.decoding = p.decoding
                       /\ q.encoding = p.encoding /\ q.videoOut = p.videoOut /\ q.videoIn = p.videoIn
  BY <1>4, <1>9, <1>11 DEF Seeing
<1>15. t.video # "" => /\ q.video /\ q.videoIn = t.video /\ q.videoOut = coded
                       /\ q.decoding <=> p.decoding \/ t.video # coded
                       /\ q.encoding <=> p.encoding \/ (t.video # coded /\ WrittenTo(p) # {})
  BY <1>4, <1>9, <1>11, <1>13 DEF Seeing
<1>16. /\ ~(p.passthrough /\ p.file # NoOutput) => q.file = p.file
       /\ p.passthrough /\ p.file # NoOutput =>
             /\ t.audio # "" => q.file = TrackOutputTypes[t.audio]
             /\ t.audio = "" /\ t.video # "" => q.file = TrackOutputTypes[t.video]
  BY <1>6, <1>9, <1>10 DEF codec
<1>17. Met(p, q, t)
  BY <1>9, <1>10, <1>11, <1>12, <1>14, <1>15, <1>16 DEF Met
<1>18. QED  BY <1>17 DEF q

\* Tracks that are transcoded.
LEMMA PlannedIsReady ==
    ASSUME NEW p, NEW r, KnownOutputs(p), Planned(p, r), Coded(p), ~p.passthrough,
           NEW t \in Arrivals(p, r), NEW q, Met(p, q, t)
    PROVE  Ready(q)
<1>1. /\ r.type # "track"
      /\ t.audio # "" => SubscribesAudio(p, r)
      /\ t.video # "" => SubscribesVideo(p, r)
  BY ArrivalsAre DEF Planned
<1>2. /\ q.segments = p.segments /\ q.stream = p.stream /\ q.websocket = p.websocket
      /\ q.images = p.images /\ q.count = p.count /\ q.file = p.file
  BY DEF Met
<1>3. WrittenTo(q) = WrittenTo(p)
  BY <1>2 DEF WrittenTo
<1>4. KnownOutputs(q) /\ q.file # "unknown"
  BY <1>2, <1>3 DEF KnownOutputs, Coded
<1>5. q.file = "mcap" => q.images = 0
  BY <1>2 DEF Planned
<1>6. Unbuildable(q) => Ready(q)
  BY <1>4, <1>5 DEF Ready, KnownOutputs
<1>7. EncodedBins(q) = WrittenTo(q)
  BY EncodedAre DEF EncodedBins
<1>8. CASE t.audio # "" /\ ~p.audio
  <2>1. p.images > 0 /\ WrittenTo(p) = {}
    BY <1>1, <1>8 DEF Planned
  <2>2. q.audio
    BY <1>8 DEF Met
  <2>3. QED  BY <1>2, <1>3, <1>6, <1>7, <2>1, <2>2 DEF Unbuildable
<1>9. CASE t.video # "" /\ ~p.video
  <2>1. p.websocket # NoOutput
    BY <1>1, <1>9 DEF Planned
  <2>2. q.video
    BY <1>9 DEF Met
  <2>3. QED  BY <1>2, <1>6, <2>1, <2>2 DEF Unbuildable
<1>10. CASE (t.audio # "" => p.audio) /\ (t.video # "" => p.video)
  <2>1. q.audio <=> p.audio
    BY <1>10 DEF Met
  <2>2. q.video <=> p.video
    BY <1>10 DEF Met
  <2>3. p.audio => p.audioOut \in AllOutputAudioCodecs /\ p.audioOut # ""
    BY DEF Coded, AllOutputAudioCodecs
  <2>4. p.video => p.videoOut = "h264"
    BY DEF Coded
  <2>5. p.audio => q.audioOut = p.audioOut
    BY <1>10, <2>3 DEF Met
  <2>6. p.video => q.videoOut = p.videoOut
    BY <1>10, <2>4 DEF Met
  <2>7. Coded(q)
    BY <1>2, <1>3, <1>4, <2>1, <2>2, <2>5, <2>6 DEF Coded, Suits
  <2>8. ASSUME q.file # "mcap", q.audio  PROVE q.transcoding
    <3>1. ~OpusPassthrough(p, t.audio)
      BY <1>2, <2>8 DEF OpusPassthrough, TrackPreserving
    <3>2. p.transcoding
      BY <2>1, <2>8 DEF Planned
    <3>3. QED  BY <3>1, <3>2 DEF Met
  <2>9. ASSUME q.file # "mcap", q.video  PROVE q.decoding
    <3>1. p.decoding
      BY <1>2, <2>2, <2>9 DEF Planned
    <3>2. QED  BY <3>1 DEF Met
  <2>10. ASSUME q.video, WrittenTo(q) # {}  PROVE q.encoding
    <3>1. p.encoding
      BY <1>3, <2>2, <2>10 DEF Planned
    <3>2. QED  BY <3>1 DEF Met
  <2>11. (p.audio \/ p.video) /\ (WrittenTo(p) # {} \/ p.images > 0)
    BY DEF Planned
  <2>12. Transcodes(q)
    BY <1>2, <1>3, <1>4, <1>5, <2>1, <2>2, <2>7, <2>8, <2>9, <2>10, <2>11 DEF Transcodes
  <2>13. QED  BY <2>12, TranscodesIsReady
<1>11. QED  BY <1>8, <1>9, <1>10

\* What a remux asks of its one track.
LEMMA RemuxTakesOne ==
    ASSUME NEW r \in Requests, NEW s, NEW p, Configured(p, r, s), p.passthrough,
           NEW t \in Arrivals(p, r)
    PROVE  /\ t.audio # "" => t.audio \in AudioMimeTypes /\ t.video = "" /\ ~p.video
           /\ t.video # "" => t.video \in VideoMimeTypes /\ t.audio = "" /\ ~p.audio
           /\ r.type = "track" => t.audio # "" \/ t.video # ""
           /\ p.source = "sdk"
<1>1. Remuxed(p, r) /\ p.type = r.type /\ p.source = SourceOf(s, r)
  BY DEF Configured
<1>2. r.type \in {"track", "media"} => IsSDKSourceRequest(s, r)
  BY DEF IsSDKSourceRequest
<1>3. p.source = "sdk"
  BY <1>1, <1>2 DEF Remuxed, SourceOf
<1>4. /\ t.audio = "" \/ t.audio \in AudioMimeTypes
      /\ t.video = "" \/ t.video \in VideoMimeTypes
      /\ r.type = "track" => (t.audio = "") # (t.video = "")
      /\ r.type # "track" => /\ t.audio # "" => SubscribesAudio(p, r)
                             /\ t.video # "" => SubscribesVideo(p, r)
  BY ArrivalsAre
<1>5. CASE r.type = "track"
  <2>1. ~p.audio /\ ~p.video
    BY <1>1, <1>5 DEF Remuxed
  <2>2. QED  BY <1>3, <1>4, <1>5, <2>1
<1>6. CASE r.type = "media"
  <2>1. validatePassthrough(r) /\ (p.audio <=> r.routes # <<>>) /\ (p.video <=> r.pick # "")
    BY <1>1, <1>6 DEF Remuxed
  <2>2. CASE r.pick = "track"
    <3>1. r.routes = <<>> /\ ~p.audio
      BY <2>1, <2>2 DEF validatePassthrough
    <3>2. ~SubscribesAudio(p, r)
      BY <1>6, <3>1, CapturesSome DEF SubscribesAudio
    <3>3. t.audio = ""
      BY <1>4, <1>6, <3>2
    <3>4. QED  BY <1>3, <1>4, <1>6, <3>1, <3>3
  <2>3. CASE r.pick # "track"
    <3>1. r.pick = "" /\ ~p.video
      BY <2>1, <2>3 DEF validatePassthrough
    <3>2. ~SubscribesVideo(p, r)
      BY <1>6, <3>1 DEF SubscribesVideo
    <3>3. t.video = ""
      BY <1>4, <1>6, <3>2
    <3>4. QED  BY <1>3, <1>4, <1>6, <3>1, <3>3
  <2>4. QED  BY <2>2, <2>3
<1>7. QED  BY <1>1, <1>5, <1>6 DEF Remuxed

LEMMA TrackTypes ==
    /\ \A c \in AudioMimeTypes : TrackOutputTypes[c] = "ogg"
    /\ \A c \in VideoMimeTypes : TrackOutputTypes[c] \in {"mp4", "webm"} /\ c \in MuxerTakes[TrackOutputTypes[c]]
    /\ "opus" \in MuxerTakes["ogg"] /\ "raw" \in MuxerTakes["raw"]
BY DEF AudioMimeTypes, VideoMimeTypes, TrackOutputTypes, MuxerTakes

\* A track that is passed through.
LEMMA RemuxedIsReady ==
    ASSUME NEW r \in Requests, NEW s, NEW p, Configured(p, r, s), p.passthrough,
           NEW t \in Arrivals(p, r), NEW q, Met(p, q, t)
    PROVE  Ready(q)
<1>1. Remuxed(p, r) /\ p.type = r.type
  BY DEF Configured
<1>2. /\ t.audio # "" => t.audio \in AudioMimeTypes /\ t.video = "" /\ ~p.video
      /\ t.video # "" => t.video \in VideoMimeTypes /\ t.audio = "" /\ ~p.audio
      /\ r.type = "track" => t.audio # "" \/ t.video # ""
      /\ p.source = "sdk"
  BY RemuxTakesOne
<1>4. /\ q.segments = NoOutput /\ q.stream = NoOutput /\ q.websocket = p.websocket
      /\ q.images = 0 /\ q.source = "sdk"
  BY <1>1, <1>2 DEF Met, Remuxed
<1>5. q.images \in Nat /\ ~(q.images > 0)
  <2>1. 0 \in Nat /\ ~(0 > 0)
    OBVIOUS
  <2>2. QED  BY <1>4, <2>1, Zenon
<1>6. CASE t.audio # ""
  <2>1. q.audio /\ ~q.video
    BY <1>2, <1>6 DEF Met
  <2>2. CASE p.file = "unknown" /\ p.websocket = NoOutput /\ p.audioOut = ""
    <3>1. q.file = "ogg"
      BY <1>2, <1>6, <2>2, TrackTypes DEF Met, NoOutput
    <3>2. q.audioOut = "opus"
      BY <1>6, <2>2 DEF Met
    <3>3. WrittenTo(q) = {"ogg"}
      BY <1>4, <2>2, <3>1 DEF WrittenTo, NoOutput
    <3>4. AudioCaps(q) = "opus"
      BY <3>2 DEF AudioCaps
    <3>5. Linked(q)
      BY <1>5, <2>1, <3>2, <3>3, <3>4, TrackTypes DEF Linked, AllOutputAudioCodecs
    <3>6. QED  BY <1>4, <1>5, <3>1, <3>5 DEF Ready
  <2>3. CASE r.type = "track" /\ p.file = NoOutput /\ p.websocket = "raw" /\ p.audioOut = "raw"
    <3>1. q.file = NoOutput
      BY <2>3 DEF Met
    <3>2. q.audioOut = "raw"
      BY <1>6, <2>3 DEF Met
    <3>3. WrittenTo(q) = {"raw"}
      BY <1>4, <2>3, <3>1 DEF WrittenTo, NoOutput
    <3>4. ~OpusPassthrough(p, t.audio)
      BY <1>1, <2>3 DEF OpusPassthrough, TrackPreserving, NoOutput
    <3>5. AudioCaps(q) = "raw"
      BY <1>6, <3>2, <3>4 DEF AudioCaps, Met
    <3>6. Linked(q)
      BY <1>5, <2>1, <3>2, <3>3, <3>5, TrackTypes DEF Linked, AllOutputAudioCodecs
    <3>7. QED  BY <1>4, <1>5, <3>1, <3>6 DEF Ready, NoOutput
  <2>4. QED  BY <1>1, <2>2, <2>3 DEF Remuxed
<1>7. CASE t.video # ""
  <2>1. q.video /\ ~q.audio
    BY <1>2, <1>7 DEF Met
  <2>2. CASE p.file = "unknown" /\ p.websocket = NoOutput /\ p.audioOut = ""
    <3>1. q.file = TrackOutputTypes[t.video]
      BY <1>2, <1>7, <2>2 DEF Met, NoOutput
    <3>2. q.file \in {"mp4", "webm"} /\ t.video \in MuxerTakes[q.file]
      BY <1>2, <1>7, <3>1, TrackTypes
    <3>3. WrittenTo(q) = {q.file}
      BY <1>4, <2>2, <3>2 DEF WrittenTo, NoOutput
    <3>4. p.videoOut = "" /\ ~p.decoding
      BY <1>1 DEF Remuxed
    <3>5. ~q.decoding /\ q.videoIn = t.video
      BY <1>2, <1>7, <3>4 DEF Met
    <3>6. ~HasRawVideo(q) /\ VideoCaps(q) = t.video
      BY <1>4, <3>5 DEF HasRawVideo, VideoCaps
    <3>7. Linked(q)
      BY <1>5, <2>1, <3>2, <3>3, <3>6 DEF Linked
    <3>8. q.file # "mcap" /\ q.file # "unknown"
      BY <3>2
    <3>9. QED  BY <1>4, <1>5, <3>7, <3>8 DEF Ready
  <2>3. CASE r.type = "track" /\ p.file = NoOutput /\ p.websocket = "raw" /\ p.audioOut = "raw"
    <3>1. q.file = NoOutput
      BY <2>3 DEF Met
    <3>2. Unbuildable(q)
      BY <1>4, <2>1, <2>3 DEF Unbuildable, NoOutput
    <3>3. QED  BY <1>4, <1>5, <3>1, <3>2 DEF Ready, NoOutput
  <2>4. QED  BY <1>1, <2>2, <2>3 DEF Remuxed
<1>8. CASE t.audio = "" /\ t.video = ""
  <2>1. r.type # "track"
    BY <1>2, <1>8
  <2>2. p.file = "unknown" /\ p.websocket = NoOutput /\ p.audioOut = "" /\ p.videoOut = ""
    BY <1>1, <2>1 DEF Remuxed
  <2>3. q.passthrough /\ q.audioOut = "" /\ q.videoOut = ""
    BY <1>8, <2>2 DEF Met
  <2>4. Unbuildable(q)
    BY <2>3 DEF Unbuildable
  <2>5. QED  BY <1>4, <1>5, <2>4 DEF Ready
<1>9. QED  BY <1>6, <1>7, <1>8

LEMMA SubscribedIsReady ==
    ASSUME NEW r \in Requests, NEW s, NEW p, IsConf(p), Configured(p, r, s), NEW t \in Arrivals(p, r)
    PROVE  Ready(SubscribedTo(p, t))
<1>1. Met(p, SubscribedTo(p, t), t)
  BY SubscribedMeets
<1>2. CASE p.passthrough
  BY <1>1, <1>2, RemuxedIsReady
<1>3. CASE ~p.passthrough
  <2>1. KnownOutputs(p) /\ Planned(p, r) /\ Coded(p)
    BY <1>3 DEF Configured
  <2>2. QED  BY <1>1, <1>3, <2>1, PlannedIsReady
<1>4. QED  BY <1>2, <1>3

-----------------------------------------------------------------------------
\* The inductive invariant: what is accepted is configured, and what is to be built, or
\* was, is ready.
SoundInv ==
    /\ req \in Requests /\ sdk \in BOOLEAN
    /\ phase = "accepted" => IsConf(conf) /\ Configured(conf, req, sdk)
    /\ phase \in {"subscribed", "built", "failed"} => Ready(conf)
    /\ phase \in {"built", "failed"} /\ ~Unbuildable(conf) /\ ~WithoutUrl(conf, req) => phase = "built"

LEMMA SoundInvImplies ==
    SoundInv => AcceptedIsSound
<1> SUFFICES ASSUME SoundInv  PROVE AcceptedIsSound
  OBVIOUS
<1>1. SourceAgrees
  BY DEF SourceAgrees, SoundInv, Configured, SourceOf
<1>2. CodecsFit
  <2> SUFFICES ASSUME phase = "accepted", ~conf.passthrough
               PROVE  /\ conf.file # "unknown"
                      /\ \A o \in EncodedBins(conf) :
                            /\ conf.audio => conf.audioOut \in CodecCompatibility[o]
                            /\ conf.video => conf.videoOut \in CodecCompatibility[o]
    BY DEF CodecsFit
  <2>1. Coded(conf) /\ KnownOutputs(conf)
    BY DEF SoundInv, Configured
  <2>2. EncodedBins(conf) = WrittenTo(conf)
    BY EncodedAre DEF EncodedBins
  <2>3. conf.file # "unknown"
    BY <2>1 DEF Coded
  <2>4. conf.audio => Suits(conf, conf.audioOut)
    BY <2>1 DEF Coded
  <2>5. conf.video => Suits(conf, conf.videoOut)
    BY <2>1 DEF Coded
  <2>6. QED  BY <2>2, <2>3, <2>4, <2>5 DEF Suits
<1>3. AcceptedIsBuilt
  <2> SUFFICES ASSUME phase \in {"built", "failed"}, ~Unbuildable(conf), ~WithoutUrl(conf, req)
               PROVE  phase = "built" /\ LinksFit(conf)
    BY DEF AcceptedIsBuilt, LinksFit
  <2>1. Ready(conf) /\ phase = "built"
    BY DEF SoundInv
  <2>2. LinksFit(conf)
    BY <2>1, ReadyIsBuilt, ReadyMcapIsBuilt
  <2>3. QED  BY <2>1, <2>2
<1>4. QED  BY <1>1, <1>2, <1>3 DEF AcceptedIsSound

LEMMA SoundInvInit ==
    PipelineInit => SoundInv
BY TemplateAssumption DEF PipelineInit, SoundInv

LEMMA SoundInvNext ==
    SoundInv /\ [PipelineNext]_pipelineVars => SoundInv'
<1> SUFFICES ASSUME SoundInv, [PipelineNext]_pipelineVars  PROVE SoundInv'
  OBVIOUS
<1>1. CASE Validate
  <2>1. /\ req \in Requests /\ sdk \in BOOLEAN /\ conf' \in Update(sdk, req, attempt)
        /\ req' = req /\ sdk' = sdk /\ phase' = IF conf'.ok THEN "accepted" ELSE "rejected"
    BY <1>1 DEF Validate, SoundInv
  <2>2. conf'.ok => IsConf(conf') /\ Configured(conf', req, sdk)
    BY <2>1, UpdateConfigures
  <2>3. phase' \in {"accepted", "rejected"} /\ (phase' = "accepted" => conf'.ok)
    BY <2>1
  <2>4. QED  BY <2>1, <2>2, <2>3 DEF SoundInv
<1>2. CASE TracksSubscribed
  <2>1. /\ req \in Requests /\ IsConf(conf) /\ Configured(conf, req, sdk) /\ sdk \in BOOLEAN
    BY <1>2 DEF TracksSubscribed, SoundInv
  <2>2. PICK t \in Arrivals(conf, req) : conf' = SubscribedTo(conf, t)
    BY <1>2 DEF TracksSubscribed, SubscribedTo
  <2>3. Ready(conf')
    BY <2>1, <2>2, SubscribedIsReady
  <2>4. phase' = "subscribed" /\ req' = req /\ sdk' = sdk
    BY <1>2 DEF TracksSubscribed
  <2>5. QED  BY <2>1, <2>3, <2>4 DEF SoundInv
<1>3. CASE BuildPipeline
  <2>1. /\ phase' = IF BinsFail(conf) \/ WithoutUrl(conf, req) \/ LinksFail(conf) THEN "failed" ELSE "built"
        /\ req' = req /\ sdk' = sdk /\ conf' = conf
        /\ phase = "subscribed" \/ (phase = "accepted" /\ conf.source = "web")
    BY <1>3 DEF BuildPipeline
  <2>2. Ready(conf)
    BY <2>1, WebIsReady DEF SoundInv
  <2>3. ~Unbuildable(conf) => ~BinsFail(conf) /\ ~LinksFail(conf)
    BY <2>2, ReadyIsBuilt, ReadyMcapIsBuilt
  <2>4. phase' \in {"failed", "built"}
        /\ (~Unbuildable(conf) /\ ~WithoutUrl(conf, req) => phase' = "built")
    BY <2>1, <2>3
  <2>5. /\ Ready(conf') /\ (Unbuildable(conf') <=> Unbuildable(conf))
        /\ (WithoutUrl(conf', req') <=> WithoutUrl(conf, req))
    BY <2>1, <2>2
  <2>6. QED  BY <2>1, <2>4, <2>5 DEF SoundInv
<1>4. CASE Retry
  BY <1>4 DEF Retry, SoundInv
<1>5. ASSUME req' = req, sdk' = sdk, phase' = phase, conf' = conf  PROVE SoundInv'
  BY <1>5 DEF SoundInv
<1>6. CASE \E t \in Tracks : TrackJoins(t) \/ TrackLeaves(t)
  BY <1>5, <1>6 DEF TrackJoins, TrackLeaves, LayoutChanges
<1>7. CASE \E speakers \in SUBSET Tracks : \E levels \in [speakers -> 1..2] :
              Cardinality(speakers) <= MaxSpeakers /\ SpeakersUpdated(levels)
  BY <1>5, <1>7 DEF SpeakersUpdated, LayoutChanges
<1>8. CASE UNCHANGED pipelineVars
  BY <1>5, <1>8 DEF pipelineVars
<1>9. QED  BY <1>1, <1>2, <1>3, <1>4, <1>6, <1>7, <1>8 DEF PipelineNext

\* For any requests, and whatever codecs their tracks turn out to have: routing books a
\* request for the source that Update configures, the codecs that
\* validateAndUpdateOutputParams chooses suit every output, also the file whose type it
\* chooses, and BuildPipeline builds what was accepted, with each bin linked to what it
\* takes, but for what Unbuildable names and a websocket without a URL.
THEOREM PipelineAcceptedIsSound == PipelineSpec => []AcceptedIsSound
<1>1. PipelineInit => SoundInv
  BY SoundInvInit
<1>2. SoundInv /\ [PipelineNext]_pipelineVars => SoundInv'
  BY SoundInvNext
<1>3. SoundInv => AcceptedIsSound
  BY SoundInvImplies
<1>4. QED  BY <1>1, <1>2, <1>3, PTL DEF PipelineSpec
=============================================================================
