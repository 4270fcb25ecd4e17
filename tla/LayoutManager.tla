--------------------------- MODULE LayoutManager ---------------------------
(***************************************************************************)
(* The layout of a composited egress (pkg/pipeline/builder/layout.go) and  *)
(* the fitting of a picture into its cell (pkg/pipeline/builder/video.go). *)
(*                                                                         *)
(* A LayoutManager is a record: every method of the code runs under one    *)
(* lock, takes the manager to its next value and returns the pads' cells.  *)
(* The position of a track in "tracks" is its addOrder.  lastSpokeAt is a  *)
(* clock reading that is only ever compared: it is kept as a rank, 0 for a *)
(* track that has not spoken.  "level" is 0 for a track that is silent and *)
(* its audio level otherwise.  Light and dark layouts differ in colour     *)
(* only.                                                                   *)
(***************************************************************************)
EXTENDS Integers, Sequences, FiniteSets, SequencesExt

CONSTANTS
    Tracks,       \* track ids
    ScreenShares  \* the tracks that are screen shares; the others are cameras

ASSUME TracksAssumption == ScreenShares \subseteq Tracks /\ IsFiniteSet(Tracks)

gridGap == 8
minCarouselTileHeight == 130
totalFr == 6

Larger(a, b) == IF a > b THEN a ELSE b
Smaller(a, b) == IF a < b THEN a ELSE b

NewLayoutManager(layout, width, height) ==
    [layout |-> layout, origLayout |-> layout, width |-> width, height |-> height,
     tracks |-> <<>>, displayOrder |-> <<>>,
     level |-> [t \in Tracks |-> 0], spoke |-> [t \in Tracks |-> 0]]

-----------------------------------------------------------------------------
\* The calculators.

Cell(t, x, y, w, h) ==
    [track |-> t, x |-> x, y |-> y, w |-> w, h |-> h, alpha |-> 1]

Hidden(t) == [track |-> t, x |-> 0, y |-> 0, w |-> 0, h |-> 0, alpha |-> 0]

FullCanvas(L, t) == Cell(t, 0, 0, L.width, L.height)

gridColumns(L, count) ==
    CASE count <= 1  -> 1
      [] count \in 2..4   -> IF L.width >= 560 THEN 2 ELSE 1
      [] count \in 5..9   -> IF L.width >= 700 THEN 3 ELSE 2
      [] count \in 10..16 -> IF L.width >= 960 THEN 4 ELSE 3
      [] OTHER            -> IF L.width >= 1100 THEN 5 ELSE 4

GridRows(L, count) ==
    (count + gridColumns(L, count) - 1) \div gridColumns(L, count)

calculateGridLayout(L) ==
    LET count == Len(L.tracks)
        cols  == gridColumns(L, count)
        rows  == GridRows(L, count)
        cellW == (L.width - 2 * gridGap - (cols - 1) * gridGap) \div cols
        cellH == (L.height - 2 * gridGap - (rows - 1) * gridGap) \div rows
    IN IF count = 1
       THEN << FullCanvas(L, L.tracks[1]) >>
       ELSE [i \in 1..count |->
                Cell(L.tracks[i],
                     gridGap + ((i - 1) % cols) * (cellW + gridGap),
                     gridGap + ((i - 1) \div cols) * (cellH + gridGap),
                     cellW, cellH)]

\* The columns of the speaker layout: one share for the carousel, five for the
\* stage.
CarouselWidth(L) == (L.width - 3 * gridGap) \div totalFr

maxCarouselTiles(L) ==
    LET innerH   == L.height - 2 * gridGap
        tileSpan == Larger((CarouselWidth(L) * 6) \div 10, minCarouselTileHeight)
    IN Larger((innerH + tileSpan \div 2) \div tileSpan, 1)

ThumbHeight(L) ==
    (L.height - 2 * gridGap - gridGap * (maxCarouselTiles(L) - 1))
        \div maxCarouselTiles(L)

\* The elements of a sequence that are in a set, in their order.
OnlyIn(seq, S) ==
    FoldLeft(LAMBDA kept, t : IF t \in S THEN Append(kept, t) ELSE kept, <<>>, seq)

orderedTracks(L) ==
    LET shown == OnlyIn(L.displayOrder, ToSet(L.tracks))
    IN shown \o OnlyIn(L.tracks, ToSet(L.tracks) \ ToSet(shown))

calculateSpeakerLayout(L) ==
    LET ordered   == orderedTracks(L)
        count     == Len(ordered)
        carouselW == CarouselWidth(L)
        stageW    == L.width - 3 * gridGap - carouselW
        visible   == Smaller(maxCarouselTiles(L), count - 1)
    IN IF count = 1
       THEN << FullCanvas(L, ordered[1]) >>
       ELSE [i \in 1..count |->
                CASE i = 1 ->
                       Cell(ordered[1], 2 * gridGap + carouselW, gridGap,
                            stageW, L.height - 2 * gridGap)
                  [] i \in 2..(visible + 1) ->
                       Cell(ordered[i], gridGap,
                            gridGap + (i - 2) * (ThumbHeight(L) + gridGap),
                            carouselW, ThumbHeight(L))
                  [] OTHER -> Hidden(ordered[i])]

calculateSingleSpeakerLayout(L) ==
    LET ordered == orderedTracks(L)
    IN [i \in 1..Len(ordered) |->
           IF i = 1 THEN FullCanvas(L, ordered[1]) ELSE Hidden(ordered[i])]

recalculate(L) ==
    IF L.tracks = <<>> THEN <<>>
    ELSE CASE L.layout = "speaker"        -> calculateSpeakerLayout(L)
           [] L.layout = "single-speaker" -> calculateSingleSpeakerLayout(L)
           [] OTHER                       -> calculateGridLayout(L)

-----------------------------------------------------------------------------
\* The order of the tracks.

AddOrder(L, t) == CHOOSE i \in 1..Len(L.tracks) : L.tracks[i] = t

\* The comparators of sortTracks; a stable sort of tracks that compare equal
\* keeps the order in which they were added.
Precedes(L, a, b) ==
    LET older    == AddOrder(L, a) < AddOrder(L, b)
        speaks   == L.level[a] > 0
        otherToo == L.level[b] > 0
    IN IF a \in ScreenShares /\ b \in ScreenShares THEN older
       ELSE IF (a \in ScreenShares) # (b \in ScreenShares) THEN a \in ScreenShares
       ELSE IF speaks /\ otherToo
            THEN L.level[a] > L.level[b] \/ (L.level[a] = L.level[b] /\ older)
       ELSE IF speaks # otherToo THEN speaks
       ELSE L.spoke[a] > L.spoke[b] \/ (L.spoke[a] = L.spoke[b] /\ older)

\* No two tracks compare equal, so there is one such order.
sortTracks(L) ==
    CHOOSE order \in [1..Len(L.tracks) -> ToSet(L.tracks)] :
        \A i, j \in DOMAIN order : i < j => Precedes(L, order[i], order[j])

maxItemsOnPage(L) ==
    CASE L.layout = "single-speaker" -> 1
      [] L.layout = "speaker"        -> 1 + maxCarouselTiles(L)
      [] OTHER                       ->
             gridColumns(L, Len(L.tracks)) * GridRows(L, Len(L.tracks))

FirstOf(seq, n) == SubSeq(seq, 1, Smaller(n, Len(seq)))

IndexIn(seq, t) == CHOOSE i \in 1..Len(seq) : seq[i] = t

Swap(seq, i, j) == [seq EXCEPT ![i] = seq[j], ![j] = seq[i]]

\* The mutation: the track is swapped in at the front of the page, whoever is
\* there.
BugTakesPlace(current, onPage, t) ==
    IF t \in ToSet(SubSeq(current, 1, Len(onPage))) THEN current
    ELSE Swap(current, 1, IndexIn(current, t))

\* One round of stabilize: a track that should be on the page and is not takes
\* the first place of one that should not be there.
TakesPlace(current, onPage, t) ==
    LET page  == SubSeq(current, 1, Len(onPage))
        taken == {i \in 1..Len(page) : page[i] \notin ToSet(onPage)}
    IN IF t \in ToSet(page) \/ taken = {} THEN current
       ELSE Swap(current, CHOOSE i \in taken : \A j \in taken : i <= j,
                 IndexIn(current, t))

stabilize(L, idealOrder) ==
    LET kept    == OnlyIn(L.displayOrder, ToSet(idealOrder))
        current == kept \o OnlyIn(idealOrder, ToSet(idealOrder) \ ToSet(kept))
        onPage  == FirstOf(idealOrder, maxItemsOnPage(L))
    IN IF L.displayOrder = <<>> \/ maxItemsOnPage(L) >= Len(current)
       THEN idealOrder
       ELSE FoldLeft(LAMBDA order, t : TakesPlace(order, onPage, t), current, onPage)

onScreenShareChanged(L) ==
    [L EXCEPT !.layout =
        IF ToSet(L.tracks) \cap ScreenShares = {} THEN L.origLayout
        ELSE IF L.origLayout = "grid" THEN "speaker"
        ELSE @]

-----------------------------------------------------------------------------
\* The methods: the manager's next value.  What they return is its
\* recalculate, and nothing for an UpdateSpeakers that changed no place.

AddTrack(L, t) ==
    LET appended == [L EXCEPT !.tracks = Append(@, t),
                              !.displayOrder = Append(@, t)]
        placed   == IF t \in ScreenShares THEN onScreenShareChanged(appended)
                    ELSE appended
    IN [placed EXCEPT !.displayOrder = stabilize(placed, sortTracks(placed))]

RemoveTrack(L, t) ==
    LET without == [L EXCEPT !.tracks = OnlyIn(@, Tracks \ {t}),
                             !.displayOrder = OnlyIn(@, Tracks \ {t}),
                             !.level[t] = 0, !.spoke[t] = 0]
    IN IF t \in ScreenShares THEN onScreenShareChanged(without) ELSE without

\* The ranks of the tracks once those in "speakers" have spoken last.
Spoken(L, speakers) ==
    LET last == 1 + Cardinality(Tracks)
        at   == [t \in Tracks |-> IF t \in speakers THEN last ELSE L.spoke[t]]
    IN [t \in Tracks |-> Cardinality({at[u] : u \in Tracks} \cap (1..at[t]))]

UpdateSpeakers(L, levels) ==
    LET present == [t \in Tracks |-> IF t \in ToSet(L.tracks) \cap DOMAIN levels
                                   THEN levels[t] ELSE 0]
        heard   == [L EXCEPT !.level = present,
                             !.spoke = Spoken(L, {t \in Tracks : present[t] > 0})]
    IN [heard EXCEPT !.displayOrder = stabilize(heard, sortTracks(heard))]

-----------------------------------------------------------------------------
\* A picture in its cell.

\* fitInsideCellLocked: the size the picture is scaled to, its shape kept.
FitInside(src, cell) ==
    IF src.w * cell.h > src.h * cell.w
    THEN [w |-> cell.w, h |-> Larger(1, (src.h * cell.w) \div src.w)]
    ELSE [w |-> Larger(1, (src.w * cell.h) \div src.h), h |-> cell.h]

\* The mutation: the two sides of the comparison are swapped.
BugCoverCrop(src, cell) ==
    IF cell.w * src.h < cell.h * src.w
    THEN [w |-> src.w, h |-> (src.w * cell.h) \div cell.w]
    ELSE [w |-> (src.h * cell.w) \div cell.h, h |-> src.h]

\* setCoverCropLocked: what is kept of the picture for it to cover the cell.
CoverCrop(src, cell) ==
    IF cell.w * src.h > cell.h * src.w
    THEN [w |-> src.w, h |-> (src.w * cell.h) \div cell.w]
    ELSE [w |-> (src.h * cell.w) \div cell.h, h |-> src.h]

\* setCellTargetLocked: a screen share or an upright picture is shown whole,
\* another one fills its cell.
CellTarget(src, cell, screenShare) ==
    IF screenShare \/ src.h > src.w
    THEN [kept |-> src, size |-> FitInside(src, cell)]
    ELSE [kept |-> CoverCrop(src, cell), size |-> [w |-> cell.w, h |-> cell.h]]

-----------------------------------------------------------------------------
\* What a layout promises.

Inside(L, c) == c.x >= 0 /\ c.y >= 0 /\ c.x + c.w <= L.width /\ c.y + c.h <= L.height

Apart(c, d) == \/ c.x + c.w <= d.x \/ d.x + d.w <= c.x
               \/ c.y + c.h <= d.y \/ d.y + d.h <= c.y

Shown(pads) == {i \in 1..Len(pads) : pads[i].alpha = 1}

\* Every track has one cell; the cells that are shown lie on the canvas, have an
\* area and do not overlap; a cell that is not shown has no area.
WellPlaced(L, pads) ==
    /\ Len(pads) = Len(L.tracks)
    /\ {pads[i].track : i \in 1..Len(pads)} = ToSet(L.tracks)
    /\ \A i \in Shown(pads) :
          /\ Inside(L, pads[i]) /\ pads[i].w > 0 /\ pads[i].h > 0
          /\ \A j \in Shown(pads) \ {i} : Apart(pads[i], pads[j])
    /\ pads # <<>> => Shown(pads) # {}

\* The picture scaled to its cell lies in it, touches it in one dimension at
\* least, and is distorted by less than one pixel's rounding.
WellFitted(src, cell, screenShare) ==
    LET target == CellTarget(src, cell, screenShare)
    IN /\ target.kept.w \in 1..src.w /\ target.kept.h \in 1..src.h
       /\ target.size.w \in 1..cell.w /\ target.size.h \in 1..cell.h
       /\ target.size.w = cell.w \/ target.size.h = cell.h
       /\ LET skew == target.kept.w * target.size.h - target.kept.h * target.size.w
              most == Larger(Larger(target.kept.w, target.kept.h),
                             Larger(target.size.w, target.size.h))
          IN skew < most /\ -skew < most
=============================================================================
