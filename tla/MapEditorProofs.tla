--------------------------- MODULE MapEditorProofs ---------------------------
(***************************************************************************)
(* Proofs about the map editor: its types, that a draft keeps to one       *)
(* lattice, and that every stroke becomes part of the object it was meant  *)
(* for, once.                                                              *)
(***************************************************************************)
EXTENDS MapEditor, VoxelGeometryProofs

(***************************************************************************)
(* Types: those of the module's invariant, with what it leaves open: the   *)
(* records of the draft, the requests and the answers on their way.        *)
(***************************************************************************)
Cell       == [at: Place, size: Place]
Selections == [start: ClickedCell, end: Cell \union ClickedCell, grid: Configs, maxZ: Int]
Drafts     == [pointCell: ClickedCell \union {None}, regionSelections: Seq(Selections),
               roadSegments: Seq(ClickedCell \X ClickedCell),
               pendingRoadStart: ClickedCell \union {None},
               editingPathId: Ids \union {None}, pathCells: Seq(ClickedCell)]
Answers    == [to: Readers, grid: Configs, objects: SUBSET Objects]

StoreTypes ==
  /\ isOpen \in BOOLEAN /\ mode \in Kinds \union {"select"} /\ gridConfig \in Configs
  /\ selectedEntity \in [kind: Kinds, id: Ids] \union {None}
  /\ draft \in Drafts /\ Len(draft.pathCells) <= 2
  /\ drag \in Drags \union {None}

ServerTypes ==
  /\ serverGrid \in Configs /\ objects \in SUBSET Objects /\ lastId \in 0..MaxObjects
  /\ lost \in SUBSET Ids /\ shown \in SUBSET Objects /\ reads \in SUBSET Answers
  /\ clicks \in 0..MaxClicks /\ changes \in 0..MaxChanges

RequestTypes ==
  /\ savingGrid \in [config: Configs, st: {"sent", "done"}] \union {None}
  /\ saving \in Requests \union {None}
  /\ saving # None =>
       /\ saving.op = "create" => Len(saving.drawn) > 0
       /\ saving.op = "update" => Len(saving.drawn) = 1
       /\ saving.op # "create" \/ saving.st # "sent" => saving.id \in Ids
       /\ saving.op = "create" /\ saving.st = "done" =>
            lastId = saving.id + Len(saving.drawn) - 1

\* A road has two ends, in different cells.
RoadEnds ==
  \A ends \in Elements(draft.roadSegments) \union {draft.pathCells} :
    Len(ends) = 2 => ends[1].at # ends[2].at

(***************************************************************************)
(* The lattice: points and roads lie in cells of the grid that is          *)
(* displayed; a drag starts in a cell of the grid it was begun on and ends *)
(* in one of the grid displayed.                                           *)
(***************************************************************************)
On(config, c) == [at |-> c.at, size |-> c.size] \in Cells(config)

OnLattice ==
  /\ \A c \in ({draft.pointCell, draft.pendingRoadStart} \ {None})
                \union Elements(draft.pathCells) : On(gridConfig, c)
  /\ \A ends \in Elements(draft.roadSegments) : On(gridConfig, ends[1]) /\ On(gridConfig, ends[2])
  /\ \A s \in Elements(draft.regionSelections) : On(s.grid, s.start) /\ On(gridConfig, s.end)
  /\ drag # None => On(drag.grid, drag.start)

\* Upwards a drag takes some display cells, one at least, as far as the map goes.
Rises(config, s) ==
  \E h \in Nat \ {0} : s.maxZ = Least(End(config, Up), s.start.at[Up] + h * config.mult)

Heights ==
  /\ \A s \in Elements(draft.regionSelections) : Rises(gridConfig, s)
  /\ drag # None => drag.height # 0

(***************************************************************************)
(* Strokes.  What is drawn as new is drawn for a point or a region, or for *)
(* roads; the ends of a road being replaced are apart.                     *)
(***************************************************************************)
Stroke(c) == [click |-> c.click, for |-> c.for]

AreaCells ==
  ({draft.pointCell} \ {None}) \union {s.start : s \in Elements(draft.regionSelections)}
    \union (IF drag = None THEN {} ELSE {drag.start})

SegmentCells(ends) == {ends[1], ends[2]}

RoadCells ==
  ({draft.pendingRoadStart} \ {None})
    \union (UNION {SegmentCells(ends) : ends \in Elements(draft.roadSegments)})

EndCells == Elements(draft.pathCells)

\* New cells were clicked for no road, and while there are some no object is
\* selected; ends were clicked for the road that is edited.
Meant ==
  /\ \A c \in AreaCells \union RoadCells : c.click <= clicks /\ c.for = None
  /\ \A c \in EndCells : c.click <= clicks /\ c.for = draft.editingPathId /\ c.for # None
  /\ AreaCells \union RoadCells # {} => selectedEntity = None /\ draft.editingPathId = None
  /\ draft.editingPathId # None => mode = "path"
  /\ drag # None => mode # "select"

\* No click is drawn for two things.
ClicksApart ==
  /\ \A c \in AreaCells, d \in RoadCells : c.click # d.click
  /\ \A i, j \in DOMAIN draft.roadSegments :
       i # j => \A c \in SegmentCells(draft.roadSegments[i]),
                   d \in SegmentCells(draft.roadSegments[j]) : c.click # d.click
  /\ draft.pendingRoadStart # None =>
       \A ends \in Elements(draft.roadSegments) : \A c \in SegmentCells(ends) :
         c.click # draft.pendingRoadStart.click

\* The objects of the server, of an answer on its way, of the panel's list, and
\* what an update will make of one.
Updated ==
  IF saving # None /\ saving.op = "update"
    THEN {[kind |-> saving.kind, id |-> saving.id, drawn |-> saving.drawn[1]]} ELSE {}
Copies == objects \union shown \union (UNION {r.objects : r \in reads}) \union Updated

\* A copy was drawn from strokes meant for it; what was drawn as new is in the
\* copies of one object only, but for lost ones.
Owned ==
  /\ \A o \in Copies : o.id <= lastId
  /\ \A o \in Copies : \A s \in o.drawn : s.click <= clicks /\ s.for \in {None, o.id}
  /\ \A o, p \in Copies : \A s \in o.drawn \intersect p.drawn :
       o.id = p.id \/ o.id \in lost \/ p.id \in lost

Creating  == saving # None /\ saving.op = "create" /\ saving.st \in {"sent", "done"}
Sent      == UNION Elements(saving.drawn)
Created   == IF Creating /\ saving.st = "done" THEN saving.id..lastId ELSE {}

\* What is drawn as new is no object's, but for lost ones and those whose
\* creation is about to be answered.
Undelivered ==
  \A c \in AreaCells \union RoadCells : \A o \in Copies :
    Stroke(c) \in o.drawn => o.id \in lost \/ (o.id \in Created /\ Stroke(c) \in Sent)

\* A creation under way: it sends new strokes, each for one object, and, until
\* it is committed, none an object has that is not lost; one that creates roads
\* sends nothing that was drawn for a point or a region.
CreationMeant ==
  Creating =>
    /\ \A s \in Sent : s.for = None /\ s.click <= clicks
    /\ \A i, j \in DOMAIN saving.drawn : i # j => saving.drawn[i] \intersect saving.drawn[j] = {}
    /\ saving.kind = "path" => \A c \in AreaCells : Stroke(c) \notin Sent
    /\ saving.st = "sent" => \A o \in Copies : o.drawn \intersect Sent # {} => o.id \in lost

\* An update under way sends nothing of what is drawn as new.
UpdateMeant ==
  \A o \in Updated : \A c \in AreaCells \union RoadCells : Stroke(c) \notin o.drawn

\* The refresh after a save is asked for once, and while it is awaited.
Refreshing ==
  \A r \in reads : r.to = "save" =>
    /\ saving # None /\ saving.st = "refreshing"
    /\ \A q \in reads : q.to = "save" => q = r

StrokeInv ==
  /\ Refreshing /\ Meant /\ ClicksApart /\ Owned /\ Undelivered /\ CreationMeant /\ UpdateMeant

EditorInv ==
  /\ StoreTypes /\ ServerTypes /\ RequestTypes /\ RoadEnds /\ OnLattice /\ Heights
  /\ StrokeInv

(***************************************************************************)
(* Drafts.                                                                 *)
(***************************************************************************)
LEMMA FrontFacts ==
  ASSUME NEW S, NEW s \in Seq(S)
  PROVE  /\ Front(s) \in Seq(S) /\ Len(Front(s)) <= Len(s)
         /\ DOMAIN Front(s) \subseteq DOMAIN s
         /\ \A i \in DOMAIN Front(s) : Front(s)[i] = s[i]
<1>1. CASE s = <<>>
  BY <1>1 DEF Front
<1>2. CASE s # <<>>
  <2>1. Front(s) = SubSeq(s, 1, Len(s) - 1) /\ Len(s) \in Nat /\ Len(s) >= 1
    BY <1>2 DEF Front
  <2> QED
    BY <2>1
<1> QED
  BY <1>1, <1>2

LEMMA NoDraftTyped ==
  /\ NoDraft \in Drafts
  /\ NoDraft.pointCell = None /\ NoDraft.regionSelections = <<>>
  /\ NoDraft.roadSegments = <<>> /\ NoDraft.pendingRoadStart = None
  /\ NoDraft.editingPathId = None /\ NoDraft.pathCells = <<>>
<1>1. \A S : <<>> \in Seq(S)
  OBVIOUS
<1> QED
  BY <1>1 DEF NoDraft, Drafts

Prefix(s, t) == DOMAIN s \subseteq DOMAIN t /\ \A i \in DOMAIN s : s[i] = t[i]

\* What is drawn stays or goes; nothing comes.
DraftKept ==
  /\ draft' \in Drafts
  /\ draft'.pointCell \in {draft.pointCell, None}
  /\ draft'.pendingRoadStart \in {draft.pendingRoadStart, None}
  /\ Prefix(draft'.regionSelections, draft.regionSelections)
  /\ Prefix(draft'.roadSegments, draft.roadSegments)
  /\ Prefix(draft'.pathCells, draft.pathCells)
DragKept == drag' \in {drag, None}

LEMMA Unchanged ==
  ASSUME StoreTypes, draft' = draft
  PROVE  DraftKept
BY DEF DraftKept, Prefix, StoreTypes

LEMMA Dropped ==
  ASSUME \/ draft' = NoDraft
         \/ \E id \in Ids : draft' = [NoDraft EXCEPT !.editingPathId = id]
  PROVE  /\ DraftKept
         /\ draft'.pointCell = None /\ draft'.regionSelections = <<>>
         /\ draft'.roadSegments = <<>> /\ draft'.pendingRoadStart = None
         /\ draft'.pathCells = <<>>
<1>1. /\ draft' \in Drafts /\ draft'.pointCell = None /\ draft'.regionSelections = <<>>
      /\ draft'.roadSegments = <<>> /\ draft'.pendingRoadStart = None
      /\ draft'.pathCells = <<>>
  BY NoDraftTyped DEF Drafts
<1>2. \A t : Prefix(<<>>, t)
  BY DEF Prefix
<1> QED
  BY <1>1, <1>2 DEF DraftKept

LEMMA PathDraftCleared ==
  ASSUME StoreTypes, ClearPathDraft
  PROVE  /\ DraftKept /\ draft'.editingPathId = None /\ draft'.pathCells = <<>>
         /\ draft'.roadSegments = <<>> /\ draft'.pendingRoadStart = None
<1>1. /\ draft'.roadSegments = <<>> /\ draft'.pendingRoadStart = None
      /\ draft'.editingPathId = None /\ draft'.pathCells = <<>>
      /\ draft'.pointCell = draft.pointCell
      /\ draft'.regionSelections = draft.regionSelections
  BY DEF ClearPathDraft, StoreTypes, Drafts
<1>2. \A S : <<>> \in Seq(S)
  OBVIOUS
<1>3. draft' \in Drafts
  BY <1>2 DEF ClearPathDraft, StoreTypes, Drafts
<1>4. \A t : Prefix(<<>>, t) /\ Prefix(t, t)
  BY DEF Prefix
<1> QED
  BY <1>1, <1>3, <1>4 DEF DraftKept

LEMMA UndoKeeps ==
  ASSUME StoreTypes, Undo
  PROVE  DraftKept /\ draft'.editingPathId = draft.editingPathId
<1> USE DEF StoreTypes, DraftKept
<1>1. \A t : Prefix(t, t)
  BY DEF Prefix
<1>2. CASE UndoLastRegionSelection
  <2>1. draft' = [draft EXCEPT !.regionSelections = Front(draft.regionSelections)]
    BY <1>2 DEF UndoLastRegionSelection
  <2>2. draft.regionSelections \in Seq(Selections)
    BY DEF Drafts
  <2>3. /\ Front(draft.regionSelections) \in Seq(Selections)
        /\ Prefix(Front(draft.regionSelections), draft.regionSelections)
    BY <2>2, FrontFacts DEF Prefix
  <2> QED
    BY <1>1, <2>1, <2>3 DEF Drafts
<1>3. CASE UndoLastPathInput
  <2>1. /\ draft.pathCells \in Seq(ClickedCell)
        /\ draft.roadSegments \in Seq(ClickedCell \X ClickedCell)
    BY DEF Drafts
  <2>2. /\ Front(draft.pathCells) \in Seq(ClickedCell)
        /\ Prefix(Front(draft.pathCells), draft.pathCells)
    BY <2>1, FrontFacts DEF Prefix
  <2>3. /\ Front(draft.roadSegments) \in Seq(ClickedCell \X ClickedCell)
        /\ Prefix(Front(draft.roadSegments), draft.roadSegments)
    BY <2>1, FrontFacts DEF Prefix
  <2>4. CASE draft' = [draft EXCEPT !.pathCells = Front(draft.pathCells)]
    BY <1>1, <2>2, <2>4 DEF Drafts
  <2>5. CASE draft' = [draft EXCEPT !.pendingRoadStart = None]
    BY <1>1, <2>5 DEF Drafts
  <2>6. CASE draft' = [draft EXCEPT !.roadSegments = Front(draft.roadSegments)]
    BY <1>1, <2>3, <2>6 DEF Drafts
  <2> QED
    BY <1>3, <2>4, <2>5, <2>6 DEF UndoLastPathInput
<1> QED
  BY <1>2, <1>3 DEF Undo

\* The panel has a form for an object of its list, which is the one selected.
LEMMA SelectedFacts ==
  ASSUME StoreTypes, ServerTypes, NEW kind \in Kinds, Selected(kind) # None
  PROVE  /\ Selected(kind) \in shown /\ Selected(kind).id \in Ids
         /\ draft.editingPathId # None \/ selectedEntity # None
         /\ kind = "path" /\ draft.editingPathId # None => Selected(kind).id = draft.editingPathId
<1> DEFINE id == IF kind = "path" /\ draft.editingPathId # None THEN draft.editingPathId
                 ELSE IF selectedEntity # None /\ selectedEntity.kind = kind
                        THEN selectedEntity.id ELSE None
<1>1. \E o \in shown : o.kind = kind /\ o.id = id
  BY DEF Selected
<1>2. Selected(kind) = CHOOSE o \in shown : o.kind = kind /\ o.id = id
  BY <1>1 DEF Selected
<1>3. Selected(kind) \in shown /\ Selected(kind).id = id
  BY <1>1, <1>2
<1>4. Selected(kind).id \in Ids
  BY <1>3 DEF ServerTypes, Objects
<1>5. id # None
  BY <1>3, <1>4, GridAssumption
<1> QED
  BY <1>3, <1>4, <1>5

LEMMA GridSet ==
  ASSUME StoreTypes, NEW config \in Configs, SetGridConfig(config)
  PROVE  DraftKept /\ (draft' = draft \/ draft' = NoDraft)
BY Unchanged, Dropped DEF SetGridConfig

LEMMA DragUnmounted ==
  ASSUME Unmounted
  PROVE  DragKept /\ (mode' = "select" => drag' = None)
BY DEF Unmounted, DragKept

\* Only a press or a move of the pointer adds to a draft.
LEMMA OperatorKeepsDraft ==
  ASSUME StoreTypes, ServerTypes, Operator
  PROVE  DraftKept /\ DragKept /\ clicks' = clicks
<1> USE DEF counts, storeVars, Counted
<1>1. CASE Open
  BY <1>1, Unchanged DEF Open, DragKept
<1>2. CASE Close
  BY <1>2, Dropped, DragUnmounted DEF Close
<1>3. CASE BeginPathGeometryEdit
  <2>1. Selected("path").id \in Ids
    BY <1>3, SelectedFacts DEF BeginPathGeometryEdit, Kinds
  <2> QED
    BY <1>3, <2>1, Dropped, DragUnmounted DEF BeginPathGeometryEdit
<1>4. CASE Undo
  BY <1>4, UndoKeeps DEF Undo, DragKept
<1>5. CASE Clear
  <2>1. clicks' = clicks /\ DragKept
    BY <1>5 DEF Clear, DragKept
  <2>2. CASE ClearPathDraft
    BY <2>1, <2>2, PathDraftCleared
  <2>3. CASE draft' = [draft EXCEPT !.regionSelections = <<>>]
    <3>1. <<>> \in Seq(Selections) /\ \A t : Prefix(<<>>, t) /\ Prefix(t, t)
      BY DEF Prefix
    <3>2. draft' \in Drafts
      BY <2>3, <3>1 DEF StoreTypes, Drafts
    <3>3. DraftKept
      BY <2>3, <3>1, <3>2 DEF StoreTypes, Drafts, DraftKept
    <3> QED
      BY <2>1, <3>3
  <2> QED
    BY <1>5, <2>2, <2>3 DEF Clear
<1>6. CASE SaveGrid
  BY <1>6, Unchanged DEF SaveGrid, DragKept
<1>7. CASE \E m \in Kinds \union {"select"} : SetMode(m)
  BY <1>7, Dropped, DragUnmounted DEF SetMode
<1>8. CASE \E o \in shown \union objects : Select(o)
  BY <1>8, Dropped, DragUnmounted DEF Select, SelectEntity
<1>9. CASE \E c \in Configs : Preview(c)
  BY <1>9, GridSet DEF Preview, DragKept
<1>10. CASE \E kind \in Kinds : Save(kind) \/ Delete(kind)
  BY <1>10, Unchanged DEF Save, Delete, DragKept
<1> QED
  BY <1>1, <1>2, <1>3, <1>4, <1>5, <1>6, <1>7, <1>8, <1>9, <1>10 DEF Operator

LEMMA NetworkKeepsDraft ==
  ASSUME StoreTypes, ServerTypes, Network
  PROVE  DraftKept /\ DragKept /\ clicks' = clicks
<1> USE DEF counts, storeVars, Counted
<1>1. CASE Commit
  BY <1>1, Unchanged DEF Commit, DragKept
<1>2. CASE SaveAnswered
  <2>1. DraftKept
    <3>1. CASE ClearPathDraft
      BY <3>1, PathDraftCleared
    <3>2. CASE draft' = draft \/ draft' = NoDraft
      BY <3>2, Unchanged, Dropped
    <3> QED
      BY <1>2, <3>1, <3>2 DEF SaveAnswered, SelectEntity
  <2> QED
    BY <1>2, <2>1, DragUnmounted DEF SaveAnswered
<1>3. CASE SaveFails
  BY <1>3, Unchanged DEF SaveFails, DragKept
<1>4. CASE CommitGrid \/ GridSaveFails
  BY <1>4, Unchanged DEF CommitGrid, GridSaveFails, DragKept
<1>5. CASE GridSaved
  BY <1>5, Dropped DEF GridSaved, DragKept
<1>6. CASE OthersSaveGrid
  BY <1>6, Unchanged DEF OthersSaveGrid, DragKept
<1>7. CASE \E to \in Readers : ReadScene(to)
  BY <1>7, Unchanged DEF ReadScene, DragKept
<1>8. ASSUME NEW r \in reads, Refreshed(r) \/ RefreshFails(r)
      PROVE  DraftKept /\ DragKept /\ clicks' = clicks
  <2>1. r.grid \in Configs
    BY DEF ServerTypes, Answers
  <2> QED
    BY <1>8, <2>1, GridSet, Unchanged DEF Refreshed, RefreshFails, DragKept
<1> QED
  BY <1>1, <1>2, <1>3, <1>4, <1>5, <1>6, <1>7, <1>8 DEF Network

LEMMA PointerUpKeepsDraft ==
  ASSUME StoreTypes, PointerUp
  PROVE  DraftKept /\ DragKept /\ clicks' = clicks
BY Unchanged DEF PointerUp, DragKept, storeVars, counts

\* Every step but a press or a move of the pointer.
LEMMA DraftKeptBy ==
  ASSUME StoreTypes, ServerTypes, Operator \/ Network \/ PointerUp \/ UNCHANGED vars
  PROVE  DraftKept /\ DragKept /\ clicks' = clicks
BY OperatorKeepsDraft, NetworkKeepsDraft, PointerUpKeepsDraft, Unchanged DEF vars, DragKept

\* The set of the members of a shorter list.
LEMMA PrefixElements ==
  ASSUME NEW s, NEW t, Prefix(s, t)
  PROVE  Elements(s) \subseteq Elements(t)
BY DEF Prefix, Elements

\* What is drawn afterwards was drawn before.
LEMMA KeptCells ==
  ASSUME DraftKept, DragKept
  PROVE  /\ AreaCells' \subseteq AreaCells /\ RoadCells' \subseteq RoadCells
         /\ EndCells' \subseteq EndCells
         /\ Elements(draft'.roadSegments) \subseteq Elements(draft.roadSegments)
         /\ Elements(draft'.regionSelections) \subseteq Elements(draft.regionSelections)
<1>1. /\ Elements(draft'.roadSegments) \subseteq Elements(draft.roadSegments)
      /\ Elements(draft'.regionSelections) \subseteq Elements(draft.regionSelections)
      /\ EndCells' \subseteq EndCells
  BY PrefixElements DEF DraftKept, EndCells
<1>2. AreaCells' \subseteq AreaCells
  BY <1>1 DEF AreaCells, DraftKept, DragKept
<1>3. RoadCells' \subseteq RoadCells
  BY <1>1 DEF RoadCells, DraftKept
<1> QED
  BY <1>1, <1>2, <1>3

(***************************************************************************)
(* The pointer.                                                            *)
(***************************************************************************)
LEMMA CountIsInt ==
  ASSUME NEW config \in Configs, NEW a \in Axes
  PROVE  /\ CellCount(config, a) \in Int /\ config.origin[a] \in Int
         /\ End(config, a) \in Int /\ config.mult \in Int
<1>1. config.origin[a] \in Int /\ config.extent[a] \in Nat \ {0} /\ config.mult \in Nat \ {0}
  BY GridAssumption DEF Place
<1> QED
  BY <1>1 DEF CellCount, End

\* A hit is a column, a row and a layer; it is snapped to a cell of the grid.
LEMMA SnappedCell ==
  ASSUME NEW config \in Configs, NEW hit \in Hits(config)
  PROVE  SnapGridCell(config, hit) \in Cell /\ On(config, SnapGridCell(config, hit))
<1> USE DEF Axes, Up
<1>1. \A a \in Axes : hit[a] \in Int
  BY CountIsInt DEF Hits
<1> DEFINE from(a) == config.origin[a] + hit[a] * config.mult
           cell == SnapGridCell(config, hit)
<1>2. \A a \in Axes : from(a) \in Int
  BY <1>1, CountIsInt
<1>3. cell = [at |-> [a \in Axes |-> Least(End(config, a), from(a))],
              size |-> [a \in Axes |-> Least(config.mult, End(config, a) - from(a))]]
  BY DEF SnapGridCell
<1> HIDE DEF from, cell
<1>4. \A a \in Axes : /\ Least(End(config, a), from(a)) \in Int
                      /\ Least(config.mult, End(config, a) - from(a)) \in Int
  BY <1>2, CountIsInt DEF Least
<1>5. cell \in Cell
  BY <1>3, <1>4 DEF Cell, Place
<1>6. cell = [at |-> cell.at, size |-> cell.size]
  BY <1>3
<1>7. cell \in Cells(config)
  BY DEF cell, Cells
<1> QED
  BY <1>5, <1>6, <1>7 DEF On, cell

\* The cell of a press: a new click, for the road that is edited.
LEMMA ClickedFacts ==
  ASSUME StoreTypes, ServerTypes, NEW hit \in Hits(gridConfig), clicks < MaxClicks,
         NEW cell, cell = Clicked(SnapGridCell(gridConfig, hit))
  PROVE  /\ cell \in ClickedCell /\ On(gridConfig, cell)
         /\ cell.click = clicks + 1 /\ cell.for = draft.editingPathId /\ cell # None
<1>1. SnapGridCell(gridConfig, hit) \in Cell /\ On(gridConfig, SnapGridCell(gridConfig, hit))
  BY SnappedCell DEF StoreTypes
<1>2. clicks + 1 \in 1..MaxClicks
  BY EditorAssumption DEF ServerTypes
<1>3. draft.editingPathId \in Ids \union {None}
  BY DEF StoreTypes, Drafts
<1>4. cell \in ClickedCell
  BY <1>1, <1>2, <1>3 DEF Clicked, ClickedCell, Cell
<1>5. cell.at = SnapGridCell(gridConfig, hit).at /\ cell.size = SnapGridCell(gridConfig, hit).size
  BY DEF Clicked
<1>6. cell # None
  BY <1>4, GridAssumption
<1> QED
  BY <1>1, <1>4, <1>5, <1>6 DEF Clicked, On

LEMMA HeightIsNat ==
  ASSUME StoreTypes, NEW height \in 1..CellCount(gridConfig, Up)
  PROVE  height \in Nat \ {0}
<1>1. gridConfig \in Configs /\ Up \in Axes
  BY DEF StoreTypes, Up, Axes
<1> QED
  BY <1>1, CountIsInt

LEMMA RecordTyped ==
  ASSUME StoreTypes, NEW d \in Drags, NEW end \in Cell \union ClickedCell
  PROVE  /\ Record(d, end) \in Selections
         /\ Record(d, end).start = d.start /\ Record(d, end).end = end
         /\ Record(d, end).grid = d.grid
<1>1. gridConfig \in Configs /\ Up \in Axes /\ d.start.at \in Place /\ d.height \in Int
  BY DEF StoreTypes, Up, Axes, Drags, ClickedCell
<1>2. /\ End(gridConfig, Up) \in Int /\ gridConfig.mult \in Int /\ d.start.at[Up] \in Int
  BY <1>1, CountIsInt DEF Place
<1>3. d.start.at[Up] + d.height * gridConfig.mult \in Int
  BY <1>1, <1>2
<1>4. Least(End(gridConfig, Up), d.start.at[Up] + d.height * gridConfig.mult) \in Int
  BY <1>2, <1>3 DEF Least
<1> QED
  BY <1>4 DEF Record, Selections, Drags

\* The four things a press may draw.
DrawsPoint(cell) == draft' = [draft EXCEPT !.pointCell = cell] /\ drag' = drag

DrawsEnd(cell) ==
  /\ draft.editingPathId # None /\ drag' = drag
  /\ draft.pathCells # <<>> => Last(draft.pathCells).at # cell.at
  /\ draft' = [draft EXCEPT !.pathCells = Endpoints(draft.pathCells, cell)]

DrawsStart(cell) ==
  /\ draft.editingPathId = None /\ draft.pendingRoadStart = None /\ drag' = drag
  /\ draft' = [draft EXCEPT !.pendingRoadStart = cell]

DrawsSegment(cell) ==
  /\ draft.editingPathId = None /\ draft.pendingRoadStart # None /\ drag' = drag
  /\ draft.pendingRoadStart.at # cell.at
  /\ draft' = [draft EXCEPT
       !.roadSegments = Append(draft.roadSegments, <<draft.pendingRoadStart, cell>>),
       !.pendingRoadStart = None]

DrawsRegion(cell) ==
  \E height \in Nat \ {0} :
    /\ drag' = [start |-> cell, height |-> height, grid |-> gridConfig]
    /\ draft' = [draft EXCEPT
         !.regionSelections = Append(draft.regionSelections, Record(drag', cell))]

\* What a press does, with the cell it hits.
Presses(cell) ==
  /\ cell \in ClickedCell /\ On(gridConfig, cell) /\ cell # None
  /\ cell.click = clicks + 1 /\ cell.for = draft.editingPathId
  /\ clicks' = clicks + 1 /\ clicks' \in 0..MaxClicks
  /\ UNCHANGED <<isOpen, mode, gridConfig, shown, saving, savingGrid, reads, serverVars,
                 changes>>
  /\ mode # "select"
  /\ \/ mode = "path" /\ DrawsEnd(cell)
        /\ selectedEntity' = [kind |-> "path", id |-> draft.editingPathId]
     \/ /\ selectedEntity' = None
        /\ \/ mode = "point" /\ DrawsPoint(cell)
           \/ mode = "path" /\ (DrawsStart(cell) \/ DrawsSegment(cell))
           \/ mode = "region" /\ DrawsRegion(cell)

LEMMA LastTyped ==
  ASSUME NEW s \in Seq(ClickedCell), s # <<>>
  PROVE  Last(s) \in ClickedCell /\ Last(s) # None
BY GridAssumption DEF Last

LEMMA PointerDownDraws ==
  ASSUME StoreTypes, ServerTypes, NEW hit \in Hits(gridConfig),
         NEW height \in 1..CellCount(gridConfig, Up), PointerDown(hit, height)
  PROVE  \E cell : Presses(cell)
<1> DEFINE cell == Clicked(SnapGridCell(gridConfig, hit))
           d == [start |-> cell, height |-> height, grid |-> gridConfig]
<1>1. clicks < MaxClicks /\ clicks' = clicks + 1 /\ mode # "select"
      /\ UNCHANGED <<isOpen, mode, gridConfig, shown, saving, savingGrid, reads, serverVars,
                     changes>>
  BY DEF PointerDown
<1>2. /\ cell \in ClickedCell /\ On(gridConfig, cell) /\ cell # None
      /\ cell.click = clicks + 1 /\ cell.for = draft.editingPathId
  BY <1>1, ClickedFacts
<1>3. clicks' \in 0..MaxClicks
  BY <1>1, EditorAssumption DEF ServerTypes
<1>4. \/ mode = "point" /\ SetPointCell(cell) /\ UNCHANGED drag
      \/ mode = "path" /\ AppendPathCell(cell) /\ UNCHANGED drag
      \/ mode = "region" /\ drag' = d /\ AppendRegionSelection(Record(d, cell))
  BY DEF PointerDown
<1> HIDE DEF cell
<1>5. CASE mode = "point" /\ SetPointCell(cell) /\ UNCHANGED drag
  BY <1>1, <1>2, <1>3, <1>5 DEF Presses, DrawsPoint, SetPointCell
<1>6. CASE mode = "region" /\ drag' = d /\ AppendRegionSelection(Record(d, cell))
  <2>1. DrawsRegion(cell) /\ selectedEntity' = None
    BY <1>6, HeightIsNat DEF DrawsRegion, AppendRegionSelection
  <2> QED
    BY <1>1, <1>2, <1>3, <1>6, <2>1 DEF Presses
<1>7. CASE mode = "path" /\ AppendPathCell(cell) /\ UNCHANGED drag
  <2>1. draft.pathCells \in Seq(ClickedCell)
    BY DEF StoreTypes, Drafts
  <2>2. CASE draft.editingPathId # None
    <3>1. selectedEntity' = [kind |-> "path", id |-> draft.editingPathId]
      BY <1>7, <2>2 DEF AppendPathCell
    <3>2. draft' = [draft EXCEPT !.pathCells = Endpoints(draft.pathCells, cell)]
      BY <1>7, <2>2 DEF AppendPathCell
    <3>3. draft.pathCells # <<>> => Last(draft.pathCells).at # cell.at
      BY <1>7, <2>1, <2>2, LastTyped DEF AppendPathCell, SameCell
    <3>4. DrawsEnd(cell)
      BY <1>7, <2>2, <3>2, <3>3 DEF DrawsEnd
    <3> QED
      BY <1>1, <1>2, <1>3, <1>7, <3>1, <3>4 DEF Presses
  <2>3. CASE draft.editingPathId = None
    <3>1. selectedEntity' = None /\ (DrawsStart(cell) \/ DrawsSegment(cell))
      BY <1>7, <2>3 DEF AppendPathCell, SameCell, DrawsStart, DrawsSegment
    <3> QED
      BY <1>1, <1>2, <1>3, <1>7, <3>1 DEF Presses
  <2> QED
    BY <2>2, <2>3
<1> QED
  BY <1>4, <1>5, <1>6, <1>7

\* What a move does: the last selection ends in the cell under the pointer.
Moves(cell) ==
  /\ cell \in Cell /\ On(gridConfig, cell) /\ drag # None
  /\ draft' = [draft EXCEPT
       !.regionSelections = Append(Front(draft.regionSelections), Record(drag, cell))]
  /\ selectedEntity' = None
  /\ UNCHANGED <<isOpen, mode, gridConfig, drag, shown, saving, savingGrid, reads, serverVars,
                 counts>>

LEMMA PointerMoveDraws ==
  ASSUME StoreTypes, NEW hit \in Hits(gridConfig), PointerMove(hit)
  PROVE  Moves(SnapGridCell(gridConfig, hit))
BY SnappedCell DEF StoreTypes, PointerMove, UpdateLastRegionSelection, Moves

\* A step is one of these.
LEMMA StepCases ==
  ASSUME StoreTypes, ServerTypes, [Next]_vars
  PROVE  \/ Operator \/ Network \/ PointerUp \/ UNCHANGED vars
         \/ \E cell : Presses(cell) \/ Moves(cell)
<1>1. CASE Pointer
  BY <1>1, PointerDownDraws, PointerMoveDraws DEF Pointer
<1> QED
  BY <1>1 DEF Next

\* The drafts of a press and of a move.
LEMMA EndpointsTyped ==
  ASSUME NEW cells \in Seq(ClickedCell), Len(cells) <= 2, NEW cell \in ClickedCell
  PROVE  /\ Endpoints(cells, cell) \in Seq(ClickedCell) /\ Len(Endpoints(cells, cell)) <= 2
         /\ Elements(Endpoints(cells, cell)) \subseteq Elements(cells) \union {cell}
         /\ Len(Endpoints(cells, cell)) = 2 =>
              /\ cells # <<>> /\ Endpoints(cells, cell)[1] = Last(cells)
              /\ Endpoints(cells, cell)[2] = cell
<1>1. CASE Len(cells) = 2
  <2>1. Endpoints(cells, cell) = <<cell>>
    BY <1>1 DEF Endpoints
  <2>2. /\ <<cell>> \in Seq(ClickedCell) /\ Len(<<cell>>) = 1 /\ DOMAIN <<cell>> = {1}
        /\ <<cell>>[1] = cell
    OBVIOUS
  <2>3. Elements(<<cell>>) \subseteq Elements(cells) \union {cell}
    BY <2>2 DEF Elements
  <2> QED
    BY <2>1, <2>2, <2>3
<1>2. CASE Len(cells) # 2
  <2> DEFINE n == Len(cells)
  <2>0. n \in Nat /\ n <= 2 /\ n # 2
    BY <1>2
  <2> HIDE DEF n
  <2>5. n \in 0..1
    BY <2>0
  <2> USE DEF n
  <2>1. Endpoints(cells, cell) = Append(cells, cell)
    BY <1>2 DEF Endpoints
  <2>2. /\ Append(cells, cell) \in Seq(ClickedCell)
        /\ Len(Append(cells, cell)) = Len(cells) + 1
        /\ \A i \in 1..Len(cells) : Append(cells, cell)[i] = cells[i]
        /\ Append(cells, cell)[Len(cells) + 1] = cell
    OBVIOUS
  <2>3. Elements(Append(cells, cell)) \subseteq Elements(cells) \union {cell}
    BY <2>2 DEF Elements
  <2>4. Len(cells) = 1 => cells # <<>> /\ Append(cells, cell)[1] = Last(cells)
                          /\ Append(cells, cell)[2] = cell
    BY <2>2 DEF Last
  <2> QED
    BY <2>1, <2>2, <2>3, <2>4, <2>5
<1> QED
  BY <1>1, <1>2

LEMMA AppendElements ==
  ASSUME NEW S, NEW s \in Seq(S), NEW e \in S
  PROVE  /\ Append(s, e) \in Seq(S) /\ Elements(Append(s, e)) = Elements(s) \union {e}
         /\ Len(Append(s, e)) = Len(s) + 1 /\ DOMAIN Append(s, e) = 1..(Len(s) + 1)
         /\ \A i \in 1..Len(s) : Append(s, e)[i] = s[i]
         /\ Append(s, e)[Len(s) + 1] = e
<1>1. /\ Append(s, e) \in Seq(S) /\ Len(Append(s, e)) = Len(s) + 1
      /\ DOMAIN Append(s, e) = 1..(Len(s) + 1) /\ DOMAIN s = 1..Len(s)
      /\ \A i \in 1..Len(s) : Append(s, e)[i] = s[i]
      /\ Append(s, e)[Len(s) + 1] = e
  OBVIOUS
<1>2. 1..(Len(s) + 1) = 1..Len(s) \union {Len(s) + 1}
  OBVIOUS
<1> QED
  BY <1>1, <1>2 DEF Elements

LEMMA DragTyped ==
  ASSUME StoreTypes, NEW cell, Presses(cell), DrawsRegion(cell)
  PROVE  /\ drag' \in Drags /\ drag'.start = cell /\ drag'.grid = gridConfig
         /\ drag'.height # 0
         /\ Record(drag', cell) \in Selections
         /\ Record(drag', cell).start = cell /\ Record(drag', cell).end = cell
         /\ Record(drag', cell).grid = gridConfig
<1>1. cell \in ClickedCell /\ gridConfig \in Configs
  BY DEF Presses, StoreTypes
<1>2. PICK height \in Nat \ {0} :
        drag' = [start |-> cell, height |-> height, grid |-> gridConfig]
  BY DEF DrawsRegion
<1>3. drag' \in Drags /\ drag'.start = cell /\ drag'.grid = gridConfig /\ drag'.height # 0
  BY <1>1, <1>2 DEF Drags
<1> DEFINE d == drag'
<1> HIDE DEF d
<1>4. d \in Drags /\ d.start = cell /\ d.grid = gridConfig
  BY <1>3 DEF d
<1>5. /\ Record(d, cell) \in Selections
      /\ Record(d, cell).start = cell /\ Record(d, cell).end = cell
      /\ Record(d, cell).grid = gridConfig
  BY <1>1, <1>4, RecordTyped
<1> QED
  BY <1>3, <1>5 DEF d

LEMMA PressTyped ==
  ASSUME StoreTypes, NEW cell, Presses(cell)
  PROVE  StoreTypes'
<1> USE DEF Presses, StoreTypes
<1>1. /\ draft.pathCells \in Seq(ClickedCell)
      /\ draft.roadSegments \in Seq(ClickedCell \X ClickedCell)
      /\ draft.regionSelections \in Seq(Selections)
      /\ draft.pendingRoadStart \in ClickedCell \union {None}
      /\ draft.editingPathId \in Ids \union {None}
  BY DEF Drafts
<1>2. isOpen' \in BOOLEAN /\ mode' \in Kinds \union {"select"} /\ gridConfig' \in Configs
  OBVIOUS
<1>3. CASE DrawsPoint(cell)
  <2>1. draft' \in Drafts /\ Len(draft'.pathCells) <= 2 /\ drag' = drag
    BY <1>3 DEF DrawsPoint, Drafts
  <2>2. selectedEntity' \in [kind: Kinds, id: Ids] \union {None}
    BY <1>1 DEF DrawsEnd, Kinds
  <2> QED
    BY <1>2, <2>1, <2>2
<1>4. CASE DrawsStart(cell)
  <2>1. draft' \in Drafts /\ Len(draft'.pathCells) <= 2 /\ drag' = drag
    BY <1>4 DEF DrawsStart, Drafts
  <2>2. selectedEntity' \in [kind: Kinds, id: Ids] \union {None}
    BY <1>1 DEF DrawsEnd, Kinds
  <2> QED
    BY <1>2, <2>1, <2>2
<1>5. CASE DrawsSegment(cell)
  <2>1. <<draft.pendingRoadStart, cell>> \in ClickedCell \X ClickedCell
    BY <1>1, <1>5 DEF DrawsSegment
  <2>2. Append(draft.roadSegments, <<draft.pendingRoadStart, cell>>)
          \in Seq(ClickedCell \X ClickedCell)
    BY <1>1, <2>1
  <2>3. draft' \in Drafts /\ Len(draft'.pathCells) <= 2 /\ drag' = drag
    BY <1>5, <2>2 DEF DrawsSegment, Drafts
  <2>4. selectedEntity' \in [kind: Kinds, id: Ids] \union {None}
    BY <1>1 DEF DrawsEnd, Kinds
  <2> QED
    BY <1>2, <2>3, <2>4
<1>6. CASE DrawsEnd(cell)
  <2>1. /\ Endpoints(draft.pathCells, cell) \in Seq(ClickedCell)
        /\ Len(Endpoints(draft.pathCells, cell)) <= 2
    BY <1>1, EndpointsTyped
  <2>2. draft' \in Drafts /\ Len(draft'.pathCells) <= 2 /\ drag' = drag
    BY <1>6, <2>1 DEF DrawsEnd, Drafts
  <2>3. selectedEntity' \in [kind: Kinds, id: Ids] \union {None}
    BY <1>1, <1>6 DEF DrawsEnd, Kinds
  <2> QED
    BY <1>2, <2>2, <2>3
<1>7. CASE DrawsRegion(cell)
  <2>1. drag' \in Drags /\ Record(drag', cell) \in Selections
    BY <1>7, DragTyped
  <2>2. Append(draft.regionSelections, Record(drag', cell)) \in Seq(Selections)
    BY <1>1, <2>1
  <2>3. draft' \in Drafts /\ Len(draft'.pathCells) <= 2
    BY <1>7, <2>2 DEF DrawsRegion, Drafts
  <2>4. selectedEntity' \in [kind: Kinds, id: Ids] \union {None}
    BY <1>1 DEF DrawsEnd, Kinds
  <2> QED
    BY <1>2, <2>1, <2>3, <2>4
<1> QED
  BY <1>3, <1>4, <1>5, <1>6, <1>7

LEMMA MoveFacts ==
  ASSUME StoreTypes, NEW cell, Moves(cell)
  PROVE  /\ StoreTypes' /\ drag \in Drags /\ drag' = drag
         /\ Record(drag, cell).start = drag.start /\ Record(drag, cell).end = cell
         /\ Record(drag, cell).grid = drag.grid
         /\ Elements(draft'.regionSelections) \subseteq
              Elements(draft.regionSelections) \union {Record(drag, cell)}
         /\ draft'.pointCell = draft.pointCell
         /\ draft'.pendingRoadStart = draft.pendingRoadStart
         /\ draft'.roadSegments = draft.roadSegments /\ draft'.pathCells = draft.pathCells
         /\ draft'.editingPathId = draft.editingPathId
<1>1. drag \in Drags /\ cell \in Cell \union ClickedCell
  BY DEF Moves, StoreTypes
<1>2. /\ Record(drag, cell) \in Selections
      /\ Record(drag, cell).start = drag.start /\ Record(drag, cell).end = cell
      /\ Record(drag, cell).grid = drag.grid
  BY <1>1, RecordTyped
<1> DEFINE old == draft.regionSelections  r == Record(drag, cell)
<1>3. old \in Seq(Selections)
  BY DEF StoreTypes, Drafts
<1>4. r \in Selections /\ draft' = [draft EXCEPT !.regionSelections = Append(Front(old), r)]
  BY <1>2 DEF Moves
<1> HIDE DEF old, r
<1>5. Front(old) \in Seq(Selections) /\ Elements(Front(old)) \subseteq Elements(old)
  BY <1>3, FrontFacts DEF Elements
<1>6. /\ Append(Front(old), r) \in Seq(Selections)
      /\ Elements(Append(Front(old), r)) \subseteq Elements(old) \union {r}
  BY <1>4, <1>5, AppendElements
<1>7. /\ draft' \in Drafts /\ draft'.regionSelections = Append(Front(old), r)
      /\ draft'.pointCell = draft.pointCell
      /\ draft'.pendingRoadStart = draft.pendingRoadStart
      /\ draft'.roadSegments = draft.roadSegments /\ draft'.pathCells = draft.pathCells
      /\ draft'.editingPathId = draft.editingPathId
  BY <1>4, <1>6 DEF StoreTypes, Drafts
<1>8. StoreTypes'
  BY <1>7 DEF StoreTypes, Moves
<1> QED
  BY <1>1, <1>2, <1>6, <1>7, <1>8 DEF Moves, old, r

(***************************************************************************)
(* Types are kept.                                                         *)
(***************************************************************************)
LEMMA PrefixLength ==
  ASSUME NEW S, NEW s \in Seq(S), NEW t \in Seq(S), Prefix(s, t)
  PROVE  Len(s) <= Len(t)
<1>1. /\ Len(s) \in Nat /\ Len(t) \in Nat
      /\ DOMAIN s = 1..Len(s) /\ DOMAIN t = 1..Len(t)
  OBVIOUS
<1>2. Len(s) # 0 => Len(s) \in DOMAIN t
  BY <1>1 DEF Prefix
<1> QED
  BY <1>1, <1>2

LEMMA StoreTypesKept ==
  ASSUME StoreTypes, ServerTypes, RequestTypes, [Next]_vars
  PROVE  StoreTypes'
<1>1. CASE \E cell : Presses(cell) \/ Moves(cell)
  BY <1>1, PressTyped, MoveFacts
<1>2. CASE Operator \/ Network \/ PointerUp \/ UNCHANGED vars
  <2>1. draft' \in Drafts /\ drag' \in Drags \union {None} /\ Len(draft'.pathCells) <= 2
    <3>1. DraftKept /\ DragKept
      BY <1>2, DraftKeptBy
    <3>2. draft'.pathCells \in Seq(ClickedCell) /\ draft.pathCells \in Seq(ClickedCell)
      BY <3>1 DEF DraftKept, StoreTypes, Drafts
    <3>3. Len(draft'.pathCells) <= Len(draft.pathCells)
      BY <3>1, <3>2, PrefixLength DEF DraftKept
    <3>4. Len(draft'.pathCells) \in Nat /\ Len(draft.pathCells) \in Nat
      BY <3>2
    <3> QED
      BY <3>1, <3>3, <3>4 DEF StoreTypes, DraftKept, DragKept
  <2> DEFINE Rest == /\ isOpen' \in BOOLEAN /\ mode' \in Kinds \union {"select"}
                     /\ gridConfig' \in Configs
                     /\ selectedEntity' \in [kind: Kinds, id: Ids] \union {None}
  <2> USE DEF StoreTypes, storeVars
  <2>2. ASSUME Operator PROVE Rest
    <3>1. CASE Open \/ Close \/ Undo \/ Clear \/ SaveGrid
      BY <3>1 DEF Open, Close, Undo, UndoLastRegionSelection, UndoLastPathInput, Clear, SaveGrid,
                  ClearPathDraft
    <3>2. CASE BeginPathGeometryEdit
      <4>1. Selected("path").id \in Ids /\ "path" \in Kinds
        BY <3>2, SelectedFacts DEF BeginPathGeometryEdit, Kinds
      <4> QED
        BY <3>2, <4>1 DEF BeginPathGeometryEdit
    <3>3. CASE \E m \in Kinds \union {"select"} : SetMode(m)
      BY <3>3 DEF SetMode
    <3>4. ASSUME NEW o \in shown \union objects, Select(o) PROVE Rest
      <4>1. o.kind \in Kinds /\ o.id \in Ids
        BY DEF ServerTypes, Objects
      <4> QED
        BY <3>4, <4>1 DEF Select, SelectEntity
    <3>5. CASE \E c \in Configs : Preview(c)
      BY <3>5 DEF Preview, SetGridConfig
    <3>6. CASE \E kind \in Kinds : Save(kind) \/ Delete(kind)
      BY <3>6 DEF Save, Delete
    <3> QED
      BY <2>2, <3>1, <3>2, <3>3, <3>4, <3>5, <3>6 DEF Operator
  <2>3. ASSUME Network PROVE Rest
    <3>1. CASE Commit \/ SaveFails \/ CommitGrid \/ GridSaveFails \/ OthersSaveGrid
      BY <3>1 DEF Commit, SaveFails, CommitGrid, GridSaveFails, OthersSaveGrid
    <3>2. CASE SaveAnswered
      <4>1. saving.kind \in Kinds /\ saving.id \in Ids
        BY <3>2 DEF SaveAnswered, RequestTypes, Requests
      <4> QED
        BY <3>2, <4>1 DEF SaveAnswered, SelectEntity
    <3>3. CASE GridSaved
      BY <3>3 DEF GridSaved, RequestTypes
    <3>4. CASE \E to \in Readers : ReadScene(to)
      BY <3>4 DEF ReadScene
    <3>5. ASSUME NEW r \in reads, Refreshed(r) \/ RefreshFails(r) PROVE Rest
      <4>1. r.grid \in Configs
        BY DEF ServerTypes, Answers
      <4> QED
        BY <3>5, <4>1 DEF Refreshed, RefreshFails, SetGridConfig
    <3> QED
      BY <2>3, <3>1, <3>2, <3>3, <3>4, <3>5 DEF Network
  <2>4. ASSUME PointerUp \/ UNCHANGED vars PROVE Rest
    BY <2>4 DEF PointerUp, vars
  <2>5. Rest
    BY <1>2, <2>2, <2>3, <2>4
  <2> QED
    BY <2>1, <2>5
<1> QED
  BY <1>1, <1>2, StepCases

\* The strokes of a draft.
LEMMA StrokesTyped ==
  ASSUME NEW cells \in SUBSET ClickedCell
  PROVE  Strokes(cells) \in StrokeSets
BY DEF Strokes, StrokeSets, ClickedCell

LEMMA ElementsTyped ==
  ASSUME NEW S, NEW s \in Seq(S)
  PROVE  Elements(s) \in SUBSET S
BY DEF Elements

\* The two ends of a segment.
LEMMA PairElements ==
  ASSUME NEW ends \in ClickedCell \X ClickedCell
  PROVE  /\ Elements(ends) = SegmentCells(ends) /\ SegmentCells(ends) \in SUBSET ClickedCell
         /\ Len(ends) = 2
<1>1. PICK a \in ClickedCell, b \in ClickedCell : ends = <<a, b>>
  OBVIOUS
<1>2. DOMAIN <<a, b>> = {1, 2} /\ <<a, b>>[1] = a /\ <<a, b>>[2] = b /\ Len(<<a, b>>) = 2
  OBVIOUS
<1> QED
  BY <1>1, <1>2 DEF Elements, SegmentCells

\* What the draft holds for a new object.
LEMMA DrawnFacts ==
  ASSUME StoreTypes, NEW kind \in Kinds
  PROVE  /\ Drawn(kind) \in Seq(StrokeSets)
         /\ kind = "point" /\ Drawn(kind) # <<>> =>
              draft.pointCell # None /\ Drawn(kind) = <<Strokes({draft.pointCell})>>
         /\ kind = "region" /\ Drawn(kind) # <<>> =>
              Drawn(kind) = <<Strokes({s.start : s \in Elements(draft.regionSelections)})>>
         /\ kind = "path" =>
              /\ Len(Drawn(kind)) = Len(draft.roadSegments)
              /\ DOMAIN Drawn(kind) = DOMAIN draft.roadSegments
              /\ \A i \in DOMAIN draft.roadSegments :
                   Drawn(kind)[i] = Strokes(SegmentCells(draft.roadSegments[i]))
<1>1. /\ draft.pointCell \in ClickedCell \union {None}
      /\ draft.regionSelections \in Seq(Selections)
      /\ draft.roadSegments \in Seq(ClickedCell \X ClickedCell)
  BY DEF StoreTypes, Drafts
<1>2. <<>> \in Seq(StrokeSets) /\ \A x \in StrokeSets : <<x>> \in Seq(StrokeSets)
  OBVIOUS
<1>3. CASE kind = "point"
  <2>1. draft.pointCell # None => Strokes({draft.pointCell}) \in StrokeSets
    BY <1>1, StrokesTyped
  <2>2. Drawn(kind) = IF draft.pointCell = None THEN <<>> ELSE <<Strokes({draft.pointCell})>>
    BY <1>3 DEF Drawn
  <2> QED
    BY <1>2, <1>3, <2>1, <2>2
<1>5. CASE kind = "region"
  <2> DEFINE starts == {s.start : s \in Elements(draft.regionSelections)}
  <2>0. Elements(draft.regionSelections) \in SUBSET Selections
    BY <1>1, ElementsTyped
  <2>1. starts \in SUBSET ClickedCell
    BY <2>0 DEF Selections
  <2>2. Strokes(starts) \in StrokeSets
    BY <2>1, StrokesTyped
  <2>3. Drawn(kind) = IF draft.regionSelections = <<>> THEN <<>> ELSE <<Strokes(starts)>>
    BY <1>5 DEF Drawn
  <2> HIDE DEF starts
  <2>4. Drawn(kind) \in Seq(StrokeSets) /\ (Drawn(kind) # <<>> => Drawn(kind) = <<Strokes(starts)>>)
    BY <1>2, <2>2, <2>3
  <2> QED
    BY <1>5, <2>4 DEF starts
<1>4. CASE kind = "path"
  <2> DEFINE roads == draft.roadSegments
  <2>1. \A i \in DOMAIN roads : /\ Elements(roads[i]) = SegmentCells(roads[i])
                               /\ Strokes(SegmentCells(roads[i])) \in StrokeSets
    BY <1>1, PairElements, StrokesTyped
  <2>2. Drawn(kind) = [i \in DOMAIN roads |-> Strokes(Elements(roads[i]))]
    BY <1>4 DEF Drawn
  <2>3. Drawn(kind) = [i \in 1..Len(roads) |-> Strokes(SegmentCells(roads[i]))]
    BY <1>1, <2>1, <2>2
  <2>4. Len(roads) \in Nat /\ DOMAIN roads = 1..Len(roads)
    BY <1>1
  <2> HIDE DEF roads
  <2>5. Drawn(kind) \in Seq(StrokeSets) /\ Len(Drawn(kind)) = Len(roads)
    BY <2>1, <2>3, <2>4
  <2> QED
    BY <1>4, <2>3, <2>4, <2>5 DEF roads
<1> QED
  BY <1>3, <1>4, <1>5 DEF Kinds

\* A request takes the strokes of the draft, or what the panel lists.
SavesUpdate(kind) ==
  /\ Selected(kind) # None
  /\ kind = "path" => Len(draft.pathCells) # 1
  /\ saving' = [op |-> "update", kind |-> kind, id |-> Selected(kind).id, st |-> "sent",
                drawn |-> <<IF kind = "path" /\ draft.pathCells # <<>>
                              THEN Strokes(EndCells) ELSE Selected(kind).drawn>>]

SavesNew(kind) ==
  /\ Selected(kind) = None /\ mode = kind /\ Drawn(kind) # <<>>
  /\ saving' = [op |-> "create", kind |-> kind, id |-> None, st |-> "sent",
                drawn |-> Drawn(kind)]

LEMMA SaveCases ==
  ASSUME NEW kind \in Kinds, Save(kind)
  PROVE  SavesUpdate(kind) \/ SavesNew(kind)
BY DEF Save, SavesUpdate, SavesNew, EndCells

LEMMA SaveTyped ==
  ASSUME StoreTypes, ServerTypes, NEW kind \in Kinds, Save(kind) \/ Delete(kind)
  PROVE  /\ saving' \in Requests
         /\ saving'.op = "create" => Len(saving'.drawn) > 0
         /\ saving'.op = "update" => Len(saving'.drawn) = 1
         /\ saving'.op # "create" \/ saving'.st # "sent" => saving'.id \in Ids
         /\ ~(saving'.op = "create" /\ saving'.st = "done")
<1>1. <<>> \in Seq(StrokeSets) /\ \A x \in StrokeSets : <<x>> \in Seq(StrokeSets) /\ Len(<<x>>) = 1
  OBVIOUS
<1>2. CASE SavesUpdate(kind)
  <2>1. Selected(kind) \in shown /\ Selected(kind).id \in Ids
    BY <1>2, SelectedFacts DEF SavesUpdate
  <2>2. Selected(kind).drawn \in StrokeSets
    BY <2>1 DEF ServerTypes, Objects
  <2>3. EndCells \in SUBSET ClickedCell
    BY ElementsTyped DEF EndCells, StoreTypes, Drafts
  <2>4. Strokes(EndCells) \in StrokeSets
    BY <2>3, StrokesTyped
  <2> DEFINE x == IF kind = "path" /\ draft.pathCells # <<>>
                    THEN Strokes(EndCells) ELSE Selected(kind).drawn
             row == [op |-> "update", kind |-> kind, id |-> Selected(kind).id, st |-> "sent",
                     drawn |-> <<x>>]
  <2>5. x \in StrokeSets
    BY <2>2, <2>4
  <2>6. saving' = row
    BY <1>2 DEF SavesUpdate
  <2> HIDE DEF x
  <2>7. row \in Requests /\ row.op = "update" /\ Len(row.drawn) = 1 /\ row.id \in Ids
    BY <1>1, <2>1, <2>5 DEF Requests
  <2> QED
    BY <2>6, <2>7
<1>3. CASE SavesNew(kind)
  <2>1. Drawn(kind) \in Seq(StrokeSets) /\ Drawn(kind) # <<>>
    BY <1>3, DrawnFacts DEF SavesNew
  <2> DEFINE d == Drawn(kind)
             row == [op |-> "create", kind |-> kind, id |-> None, st |-> "sent", drawn |-> d]
  <2>2. saving' = row
    BY <1>3 DEF SavesNew
  <2>3. d \in Seq(StrokeSets) /\ Len(d) > 0
    <3> HIDE DEF d
    <3>1. d \in Seq(StrokeSets) /\ d # <<>>
      BY <2>1 DEF d
    <3> QED
      BY <3>1
  <2> HIDE DEF d
  <2>4. row \in Requests /\ row.op = "create" /\ row.st = "sent" /\ row.drawn = d
    BY <2>3 DEF Requests
  <2> QED
    BY <2>2, <2>3, <2>4
<1>4. CASE Delete(kind)
  <2>1. Selected(kind).id \in Ids
    BY <1>4, SelectedFacts DEF Delete
  <2>2. saving' = [op |-> "delete", kind |-> kind, id |-> Selected(kind).id, st |-> "sent",
                   drawn |-> <<>>]
    BY <1>4 DEF Delete
  <2> QED
    BY <1>1, <2>1, <2>2 DEF Requests
<1> QED
  BY <1>2, <1>3, <1>4, SaveCases

\* A commit: what is created, or what becomes of an object.
NewObjects ==
  {[kind |-> saving.kind, id |-> lastId + i, drawn |-> saving.drawn[i]] : i \in DOMAIN saving.drawn}

CommitsNew ==
  /\ saving # None /\ saving.st = "sent" /\ saving.op = "create"
  /\ lastId + Len(saving.drawn) <= MaxObjects
  /\ objects' = objects \union NewObjects /\ lastId' = lastId + Len(saving.drawn)
  /\ saving' = [saving EXCEPT !.st = "done", !.id = lastId + 1]

CommitsChange ==
  /\ saving # None /\ saving.st = "sent" /\ saving.op # "create" /\ lastId' = lastId
  /\ \E o \in objects : o.id = saving.id
  /\ objects' = {o \in objects : o.id # saving.id} \union Updated
  /\ saving' = [saving EXCEPT !.st = "done"]

LEMMA CommitCases ==
  ASSUME RequestTypes, Commit
  PROVE  /\ CommitsNew \/ CommitsChange
         /\ UNCHANGED <<storeVars, drag, shown, savingGrid, reads, serverGrid, lost, counts>>
<1>1. saving \in Requests
  BY DEF RequestTypes, Commit
<1>2. saving.op # "create" => saving.op \in {"update", "delete"}
  BY <1>1 DEF Requests
<1> QED
  BY <1>2 DEF Commit, CommitsNew, CommitsChange, NewObjects, Updated

LEMMA NewObjectsTyped ==
  ASSUME ServerTypes, RequestTypes, CommitsNew
  PROVE  /\ NewObjects \in SUBSET Objects
         /\ \A i \in DOMAIN saving.drawn : lastId + i \in Ids
         /\ lastId + 1 \in Ids /\ lastId' \in 0..MaxObjects
<1>1. saving \in Requests /\ saving.drawn \in Seq(StrokeSets) /\ Len(saving.drawn) > 0
  BY DEF CommitsNew, RequestTypes, Requests
<1> DEFINE n == Len(saving.drawn)
<1>2. n \in Nat /\ n > 0 /\ DOMAIN saving.drawn = 1..n
  BY <1>1
<1>3. lastId \in Nat /\ lastId + n <= MaxObjects /\ lastId' = lastId + n
  BY DEF CommitsNew, ServerTypes
<1> HIDE DEF n
<1>4. /\ \A i \in 1..n : lastId + i \in 1..MaxObjects
      /\ lastId + 1 \in 1..MaxObjects /\ lastId' \in 0..MaxObjects
  BY <1>2, <1>3, EditorAssumption
<1>5. \A i \in 1..n : saving.drawn[i] \in StrokeSets
  BY <1>1, <1>2
<1>6. saving.kind \in Kinds
  BY <1>1 DEF Requests
<1> QED
  BY <1>2, <1>4, <1>5, <1>6 DEF NewObjects, Objects, Ids

LEMMA UpdatedTyped ==
  ASSUME RequestTypes
  PROVE  Updated \in SUBSET Objects
<1>1. CASE saving # None /\ saving.op = "update"
  <2>1. saving \in Requests /\ saving.id \in Ids /\ Len(saving.drawn) = 1
    BY <1>1 DEF RequestTypes
  <2>2. saving.kind \in Kinds /\ saving.drawn \in Seq(StrokeSets)
    BY <2>1 DEF Requests
  <2>3. saving.drawn[1] \in StrokeSets
    BY <2>1, <2>2
  <2> QED
    BY <1>1, <2>1, <2>2, <2>3 DEF Updated, Objects
<1>2. CASE ~(saving # None /\ saving.op = "update")
  BY <1>2 DEF Updated
<1> QED
  BY <1>1, <1>2

LEMMA ServerTypesKept ==
  ASSUME StoreTypes, ServerTypes, RequestTypes, [Next]_vars
  PROVE  ServerTypes'
<1> USE DEF ServerTypes, serverVars, counts, Counted
<1>1. CASE \E cell : Presses(cell) \/ Moves(cell)
  BY <1>1 DEF Presses, Moves
<1>2. CASE PointerUp \/ UNCHANGED vars
  BY <1>2 DEF PointerUp, vars
<1>3. CASE Operator
  <2>1. CASE Open \/ Close \/ BeginPathGeometryEdit \/ Undo \/ Clear
    BY <2>1 DEF Open, Close, BeginPathGeometryEdit, Undo, Clear
  <2>2. CASE SaveGrid \/ \E c \in Configs : Preview(c)
    BY <2>2, EditorAssumption DEF SaveGrid, Preview
  <2>3. CASE \/ \E m \in Kinds \union {"select"} : SetMode(m)
             \/ \E o \in shown \union objects : Select(o)
    BY <2>3 DEF SetMode, Select
  <2>4. CASE \E kind \in Kinds : Save(kind) \/ Delete(kind)
    BY <2>4, EditorAssumption DEF Save, Delete
  <2> QED
    BY <1>3, <2>1, <2>2, <2>3, <2>4 DEF Operator
<1>4. CASE Network
  <2>1. CASE Commit
    <3>1. UNCHANGED <<shown, reads, serverGrid, lost, clicks, changes>>
      BY <2>1, CommitCases
    <3>2. CASE CommitsNew
      <4>1. objects' \in SUBSET Objects /\ lastId' \in 0..MaxObjects
        BY <3>2, NewObjectsTyped DEF CommitsNew
      <4> QED
        BY <3>1, <4>1
    <3>3. CASE CommitsChange
      BY <3>1, <3>3, UpdatedTyped DEF CommitsChange
    <3> QED
      BY <2>1, <3>2, <3>3, CommitCases
  <2>2. CASE SaveFails
    <3>1. saving.op = "create" /\ saving.st = "done" => saving.id \in Ids
      BY <2>2 DEF SaveFails, RequestTypes
    <3>2. saving.op = "create" /\ saving.st = "done" => saving.id..lastId \subseteq Ids
      BY <3>1, EditorAssumption DEF Ids
    <3>3. lost' \in SUBSET Ids
      BY <2>2, <3>2 DEF SaveFails
    <3> QED
      BY <2>2, <3>3 DEF SaveFails
  <2>3. CASE SaveAnswered \/ GridSaved \/ GridSaveFails
    BY <2>3 DEF SaveAnswered, GridSaved, GridSaveFails
  <2>4. CASE CommitGrid
    BY <2>4 DEF CommitGrid, RequestTypes
  <2>5. CASE OthersSaveGrid
    BY <2>5, EditorAssumption DEF OthersSaveGrid
  <2>6. ASSUME NEW to \in Readers, ReadScene(to) PROVE ServerTypes'
    <3>1. [to |-> to, grid |-> serverGrid, objects |-> IF to = "scene" THEN {} ELSE objects]
            \in Answers
      BY DEF Answers
    <3> QED
      BY <2>6, <3>1 DEF ReadScene
  <2>7. ASSUME NEW r \in reads, Refreshed(r) \/ RefreshFails(r) PROVE ServerTypes'
    <3>1. r.objects \in SUBSET Objects
      BY DEF Answers
    <3> QED
      BY <2>7, <3>1 DEF Refreshed, RefreshFails
  <2> QED
    BY <1>4, <2>1, <2>2, <2>3, <2>4, <2>5, <2>6, <2>7 DEF Network
<1> QED
  BY <1>1, <1>2, <1>3, <1>4, StepCases

LEMMA RequestTypesKept ==
  ASSUME StoreTypes, ServerTypes, RequestTypes, [Next]_vars
  PROVE  RequestTypes'
<1>1. ASSUME savingGrid' \in [config: Configs, st: {"sent", "done"}] \union {None},
             saving' = saving \/ saving' = None, lastId' = lastId
      PROVE  RequestTypes'
  BY <1>1 DEF RequestTypes
<1>2. savingGrid \in [config: Configs, st: {"sent", "done"}] \union {None}
  BY DEF RequestTypes
<1>3. CASE \E cell : Presses(cell) \/ Moves(cell)
  BY <1>1, <1>2, <1>3 DEF Presses, Moves, serverVars
<1>4. CASE PointerUp \/ UNCHANGED vars
  BY <1>1, <1>2, <1>4 DEF PointerUp, vars, serverVars
<1>5. CASE Operator
  <2>1. CASE Open \/ Close \/ BeginPathGeometryEdit \/ Undo \/ Clear
    BY <1>1, <1>2, <2>1 DEF Open, Close, BeginPathGeometryEdit, Undo, Clear, serverVars
  <2>2. CASE SaveGrid
    BY <1>1, <2>2 DEF SaveGrid, serverVars, StoreTypes
  <2>3. CASE (\E c \in Configs : Preview(c)) \/ (\E m \in Kinds \union {"select"} : SetMode(m))
             \/ \E o \in shown \union objects : Select(o)
    BY <1>1, <1>2, <2>3 DEF Preview, SetMode, Select, serverVars
  <2>4. ASSUME NEW kind \in Kinds, Save(kind) \/ Delete(kind) PROVE RequestTypes'
    <3>1. savingGrid' = savingGrid
      BY <2>4 DEF Save, Delete
    <3> QED
      BY <1>2, <2>4, <3>1, SaveTyped DEF RequestTypes
  <2> QED
    BY <1>5, <2>1, <2>2, <2>3, <2>4 DEF Operator
<1>6. CASE Network
  <2>1. CASE Commit
    <3>1. savingGrid' = savingGrid
      BY <2>1, CommitCases
    <3>2. saving \in Requests
      BY <2>1 DEF Commit, RequestTypes
    <3>3. CASE CommitsNew
      <4>1. lastId + 1 \in Ids /\ lastId \in Nat
        BY <3>3, NewObjectsTyped DEF ServerTypes
      <4>2. /\ saving' \in Requests /\ saving'.op = "create" /\ saving'.id = lastId + 1
            /\ saving'.drawn = saving.drawn
        BY <3>2, <3>3, <4>1 DEF CommitsNew, Requests
      <4>3. Len(saving.drawn) > 0 /\ Len(saving.drawn) \in Nat
        BY <3>2, <3>3 DEF CommitsNew, RequestTypes, Requests
      <4>4. lastId' = saving'.id + Len(saving'.drawn) - 1
        <5> DEFINE n == Len(saving.drawn)
        <5>1. n \in Nat /\ lastId' = lastId + n /\ Len(saving'.drawn) = n
          BY <3>3, <4>2, <4>3 DEF CommitsNew
        <5> HIDE DEF n
        <5> QED
          BY <4>1, <4>2, <5>1
      <4> QED
        BY <1>2, <3>1, <4>1, <4>2, <4>3, <4>4 DEF RequestTypes
    <3>4. CASE CommitsChange
      <4>1. /\ saving' \in Requests /\ saving'.op = saving.op /\ saving'.id = saving.id
            /\ saving'.drawn = saving.drawn /\ saving.op # "create"
        BY <3>2, <3>4 DEF CommitsChange, Requests
      <4> QED
        BY <1>2, <3>1, <3>4, <4>1 DEF RequestTypes, CommitsChange
    <3> QED
      BY <2>1, <3>3, <3>4, CommitCases
  <2>2. CASE SaveFails
    BY <1>1, <1>2, <2>2 DEF SaveFails
  <2>3. CASE SaveAnswered
    <3>1. saving \in Requests /\ saving' = [saving EXCEPT !.st = "refreshing"] /\ lastId' = lastId
      BY <2>3 DEF SaveAnswered, RequestTypes, serverVars
    <3>2. /\ saving' \in Requests /\ saving'.op = saving.op /\ saving'.id = saving.id
          /\ saving'.drawn = saving.drawn /\ saving'.st = "refreshing"
      BY <3>1 DEF Requests
    <3>3. savingGrid' = savingGrid
      BY <2>3 DEF SaveAnswered
    <3>4. saving # None /\ saving.st = "done"
      BY <2>3 DEF SaveAnswered
    <3> QED
      BY <1>2, <3>2, <3>3, <3>4 DEF RequestTypes
  <2>4. CASE CommitGrid \/ GridSaved \/ GridSaveFails \/ OthersSaveGrid
    BY <1>1, <1>2, <2>4 DEF CommitGrid, GridSaved, GridSaveFails, OthersSaveGrid, serverVars
  <2>5. CASE \E to \in Readers : ReadScene(to)
    BY <1>1, <1>2, <2>5 DEF ReadScene, serverVars
  <2>6. CASE \E r \in reads : Refreshed(r) \/ RefreshFails(r)
    BY <1>1, <1>2, <2>6 DEF Refreshed, RefreshFails, serverVars
  <2> QED
    BY <1>6, <2>1, <2>2, <2>3, <2>4, <2>5, <2>6 DEF Network
<1> QED
  BY <1>3, <1>4, <1>5, <1>6, StepCases

(***************************************************************************)
(* Roads and the lattice.                                                  *)
(***************************************************************************)
LEMMA NothingDrawn ==
  ASSUME draft = NoDraft, drag = None
  PROVE  /\ AreaCells = {} /\ RoadCells = {} /\ EndCells = {}
         /\ Elements(draft.roadSegments) = {} /\ Elements(draft.regionSelections) = {}
         /\ draft.pathCells = <<>> /\ draft.editingPathId = None
         /\ draft.pendingRoadStart = None /\ draft.pointCell = None
<1>1. Elements(<<>>) = {}
  BY DEF Elements
<1> QED
  BY <1>1, NoDraftTyped DEF AreaCells, RoadCells, EndCells

LEMMA InitTypes ==
  ASSUME Init
  PROVE  StoreTypes /\ ServerTypes /\ RequestTypes
<1> USE EditorAssumption DEF Init
<1>0. draft \in Drafts /\ Len(draft.pathCells) <= 2
  <2>1. Len(<<>>) = 0
    OBVIOUS
  <2> QED
    BY <2>1, NoDraftTyped
<1>1. StoreTypes
  BY <1>0 DEF StoreTypes
<1>2. lastId \in 0..MaxObjects /\ clicks \in 0..MaxClicks /\ changes \in 0..MaxChanges
  OBVIOUS
<1>3. \A i \in 1..FirstRoads : i \in Ids
  BY DEF Ids
<1>4. objects \in SUBSET Objects
  BY <1>3 DEF Objects, Kinds, StrokeSets
<1>5. ServerTypes
  BY <1>2, <1>4 DEF ServerTypes
<1>6. RequestTypes
  BY DEF RequestTypes
<1> QED
  BY <1>1, <1>5, <1>6

LEMMA InitInv == Init => EditorInv
<1> SUFFICES ASSUME Init PROVE EditorInv
  OBVIOUS
<1>1. StoreTypes /\ ServerTypes /\ RequestTypes
  BY InitTypes
<1>2. draft = NoDraft /\ drag = None /\ reads = {} /\ saving = None /\ shown = {}
  BY DEF Init
<1> USE NothingDrawn, <1>2
<1>3. RoadEnds
  BY DEF RoadEnds
<1>4. OnLattice
  BY DEF OnLattice, EndCells
<1>9. Heights
  BY DEF Heights
<1>5. Copies = objects /\ Updated = {}
  BY DEF Copies, Updated
<1>6. Refreshing /\ Meant /\ ClicksApart /\ UpdateMeant
  <2>1. DOMAIN draft.roadSegments = {}
    BY NoDraftTyped
  <2> QED
    BY <1>5, <2>1 DEF Refreshing, Meant, ClicksApart, UpdateMeant
<1>7. Owned
  <2>1. \A o \in objects : o.drawn = {} /\ o.id \in 1..FirstRoads
    BY DEF Init
  <2>2. \A o \in objects : o.id <= lastId
    BY <2>1 DEF Init
  <2> QED
    BY <1>5, <2>1, <2>2 DEF Owned
<1>8. Undelivered /\ CreationMeant
  BY DEF Undelivered, CreationMeant, Creating
<1> QED
  BY <1>1, <1>3, <1>4, <1>6, <1>7, <1>8, <1>9 DEF EditorInv, StrokeInv

LEMMA RoadEndsKept ==
  ASSUME StoreTypes, ServerTypes, RequestTypes, RoadEnds, [Next]_vars
  PROVE  RoadEnds'
<1> DEFINE Proper(ends) == Len(ends) = 2 => ends[1].at # ends[2].at
<1>0. /\ \A ends \in Elements(draft.roadSegments) : Proper(ends)
      /\ Proper(draft.pathCells)
  BY DEF RoadEnds
<1>1. SUFFICES /\ \A ends \in Elements(draft'.roadSegments) : Proper(ends)
               /\ Proper(draft'.pathCells)
  BY DEF RoadEnds
<1>2. /\ draft.pathCells \in Seq(ClickedCell) /\ Len(draft.pathCells) <= 2
      /\ draft.roadSegments \in Seq(ClickedCell \X ClickedCell)
      /\ draft.pendingRoadStart \in ClickedCell \union {None} /\ draft \in Drafts
  BY DEF StoreTypes, Drafts
<1>3. CASE Operator \/ Network \/ PointerUp \/ UNCHANGED vars
  <2>1. DraftKept /\ DragKept
    BY <1>3, DraftKeptBy
  <2>2. Elements(draft'.roadSegments) \subseteq Elements(draft.roadSegments)
    BY <2>1, KeptCells
  <2>3. draft'.pathCells \in Seq(ClickedCell) /\ Prefix(draft'.pathCells, draft.pathCells)
    BY <2>1 DEF DraftKept, Drafts
  <2> DEFINE old == draft.pathCells  new == draft'.pathCells
  <2>4. old \in Seq(ClickedCell) /\ Len(old) <= 2 /\ new \in Seq(ClickedCell) /\ Prefix(new, old)
        /\ Proper(old)
    BY <1>0, <1>2, <2>3
  <2> HIDE DEF old, new
  <2>5. Len(new) = 2 => Len(old) = 2 /\ new[1] = old[1] /\ new[2] = old[2]
    <3> SUFFICES ASSUME Len(new) = 2 PROVE Len(old) = 2 /\ new[1] = old[1] /\ new[2] = old[2]
      OBVIOUS
    <3>1. Len(new) <= Len(old) /\ Len(old) \in Nat /\ DOMAIN new = 1..Len(new)
      BY <2>4, PrefixLength
    <3>2. 1 \in DOMAIN new /\ 2 \in DOMAIN new /\ Len(old) = 2
      BY <2>4, <3>1
    <3> QED
      BY <2>4, <3>2 DEF Prefix
  <2>6. Proper(new)
    BY <2>4, <2>5
  <2> QED
    BY <1>0, <2>2, <2>6 DEF new
<1>4. ASSUME NEW cell, Presses(cell)
      PROVE  /\ \A ends \in Elements(draft'.roadSegments) : Proper(ends)
             /\ Proper(draft'.pathCells)
  <2>1. cell \in ClickedCell
    BY <1>4 DEF Presses
  <2>2. CASE DrawsPoint(cell) \/ DrawsStart(cell) \/ DrawsRegion(cell)
    <3>1. draft'.pathCells = draft.pathCells /\ draft'.roadSegments = draft.roadSegments
      BY <1>2, <2>2 DEF DrawsPoint, DrawsStart, DrawsRegion, Drafts
    <3> QED
      BY <1>0, <3>1
  <2>3. CASE DrawsEnd(cell)
    <3>1. /\ draft'.roadSegments = draft.roadSegments
          /\ draft'.pathCells = Endpoints(draft.pathCells, cell)
          /\ draft.pathCells # <<>> => Last(draft.pathCells).at # cell.at
      BY <1>2, <2>3 DEF DrawsEnd, Drafts
    <3>2. Proper(Endpoints(draft.pathCells, cell))
      BY <1>2, <2>1, <3>1, EndpointsTyped
    <3> QED
      BY <1>0, <3>1, <3>2
  <2>4. CASE DrawsSegment(cell)
    <3> DEFINE pair == <<draft.pendingRoadStart, cell>>
    <3>1. /\ draft'.pathCells = draft.pathCells
          /\ draft'.roadSegments = Append(draft.roadSegments, pair)
          /\ draft.pendingRoadStart.at # cell.at /\ draft.pendingRoadStart \in ClickedCell
      BY <1>2, <2>4 DEF DrawsSegment, Drafts
    <3>2. pair \in ClickedCell \X ClickedCell /\ Proper(pair)
      BY <2>1, <3>1
    <3> HIDE DEF pair
    <3>3. Elements(draft'.roadSegments) = Elements(draft.roadSegments) \union {pair}
      BY <1>2, <3>1, <3>2, AppendElements
    <3> QED
      BY <1>0, <3>1, <3>2, <3>3
  <2> QED
    BY <1>4, <2>2, <2>3, <2>4 DEF Presses
<1>5. CASE \E cell : Moves(cell)
  BY <1>0, <1>5, MoveFacts
<1> QED
  BY <1>3, <1>4, <1>5, StepCases

\* The cells of a configuration are those of its lattice.
LEMMA LatticeCells ==
  ASSUME NEW c, NEW d, ~LatticeChanged(c, d)
  PROVE  Cells(c) = Cells(d)
<1>1. c.origin = d.origin /\ c.extent = d.extent /\ c.mult = d.mult
  BY DEF LatticeChanged
<1>2. \A a : End(c, a) = End(d, a) /\ CellCount(c, a) = CellCount(d, a)
  BY <1>1 DEF End, CellCount
<1>3. Hits(c) = Hits(d)
  BY <1>2 DEF Hits
<1>4. \A hit : SnapGridCell(c, hit) = SnapGridCell(d, hit)
  BY <1>1, <1>2 DEF SnapGridCell
<1> QED
  BY <1>3, <1>4 DEF Cells

\* What moves the cells of the grid that is displayed empties the draft.
LEMMA LatticeKept ==
  ASSUME StoreTypes, ServerTypes, Operator \/ Network \/ PointerUp \/ UNCHANGED vars
  PROVE  draft' = NoDraft \/ ~LatticeChanged(gridConfig, gridConfig')
<1>0. ~LatticeChanged(gridConfig, gridConfig)
  BY DEF LatticeChanged
<1>1. \A config : SetGridConfig(config) =>
        draft' = NoDraft \/ ~LatticeChanged(gridConfig, gridConfig')
  BY DEF SetGridConfig
<1>2. CASE Operator
  BY <1>0, <1>1, <1>2 DEF Operator, Open, Close, BeginPathGeometryEdit, Undo, Clear, SaveGrid,
                         SetMode, Select, Preview, Save, Delete, storeVars
<1>3. CASE Network
  BY <1>0, <1>1, <1>3 DEF Network, Commit, SaveAnswered, SaveFails, CommitGrid, GridSaved,
                         GridSaveFails, OthersSaveGrid, ReadScene, Refreshed, RefreshFails,
                         storeVars
<1>4. CASE PointerUp \/ UNCHANGED vars
  BY <1>0, <1>4 DEF PointerUp, vars, storeVars
<1> QED
  BY <1>2, <1>3, <1>4

LEMMA OnLatticeKept ==
  ASSUME StoreTypes, ServerTypes, RequestTypes, OnLattice, [Next]_vars
  PROVE  OnLattice'
<1> DEFINE Points == ({draft.pointCell, draft.pendingRoadStart} \ {None})
                       \union Elements(draft.pathCells)
<1>0. /\ draft.pathCells \in Seq(ClickedCell) /\ Len(draft.pathCells) <= 2
      /\ draft.roadSegments \in Seq(ClickedCell \X ClickedCell)
      /\ draft.regionSelections \in Seq(Selections) /\ draft \in Drafts
  BY DEF StoreTypes, Drafts
<1>1. /\ \A c \in Points : On(gridConfig, c)
      /\ \A ends \in Elements(draft.roadSegments) :
           On(gridConfig, ends[1]) /\ On(gridConfig, ends[2])
      /\ \A s \in Elements(draft.regionSelections) : On(s.grid, s.start) /\ On(gridConfig, s.end)
      /\ drag # None => On(drag.grid, drag.start)
  BY DEF OnLattice
<1>2. CASE Operator \/ Network \/ PointerUp \/ UNCHANGED vars
  <2>1. DraftKept /\ DragKept
    BY <1>2, DraftKeptBy
  <2>2. /\ Elements(draft'.roadSegments) \subseteq Elements(draft.roadSegments)
        /\ Elements(draft'.regionSelections) \subseteq Elements(draft.regionSelections)
        /\ Points' \subseteq Points
    <3>1. EndCells' \subseteq EndCells
      BY <2>1, KeptCells
    <3> QED
      BY <2>1, <3>1, KeptCells DEF DraftKept, EndCells
  <2>3. drag' # None => On(drag'.grid, drag'.start)
    BY <1>1, <2>1 DEF DragKept
  <2>4. CASE draft' = NoDraft
    <3>1. /\ Points' = {} /\ Elements(draft'.roadSegments) = {}
          /\ Elements(draft'.regionSelections) = {}
      <4>1. Elements(<<>>) = {}
        BY DEF Elements
      <4> QED
        BY <2>4, <4>1, NoDraftTyped
    <3> QED
      BY <2>3, <3>1 DEF OnLattice
  <2>5. CASE ~LatticeChanged(gridConfig, gridConfig')
    <3>1. \A c : On(gridConfig', c) <=> On(gridConfig, c)
      BY <2>5, LatticeCells DEF On
    <3>2. \A c \in Points' : On(gridConfig', c)
      BY <1>1, <2>2, <3>1
    <3>3. /\ \A ends \in Elements(draft'.roadSegments) :
               On(gridConfig', ends[1]) /\ On(gridConfig', ends[2])
          /\ \A s \in Elements(draft'.regionSelections) :
               On(s.grid, s.start) /\ On(gridConfig', s.end)
      BY <1>1, <2>2, <3>1
    <3> QED
      BY <2>3, <3>2, <3>3 DEF OnLattice
  <2> QED
    BY <1>2, <2>4, <2>5, LatticeKept
<1>3. ASSUME NEW cell, Moves(cell) PROVE OnLattice'
  <2>1. /\ gridConfig' = gridConfig /\ drag' = drag /\ On(gridConfig, cell) /\ drag # None
        /\ Points' = Points /\ draft'.roadSegments = draft.roadSegments
    BY <1>3, MoveFacts DEF Moves
  <2>2. \A s \in Elements(draft'.regionSelections) : On(s.grid, s.start) /\ On(gridConfig, s.end)
    BY <1>1, <1>3, <2>1, MoveFacts
  <2> QED
    BY <1>1, <2>1, <2>2 DEF OnLattice
<1>4. ASSUME NEW cell, Presses(cell) PROVE OnLattice'
  <2>1. gridConfig' = gridConfig /\ On(gridConfig, cell) /\ cell \in ClickedCell /\ cell # None
    BY <1>4 DEF Presses
  <2>2. CASE DrawsPoint(cell) \/ DrawsStart(cell)
    <3>1. /\ draft'.pathCells = draft.pathCells /\ draft'.roadSegments = draft.roadSegments
          /\ draft'.regionSelections = draft.regionSelections /\ drag' = drag
          /\ draft'.pointCell \in {draft.pointCell, cell}
          /\ draft'.pendingRoadStart \in {draft.pendingRoadStart, cell}
      BY <1>0, <2>2 DEF DrawsPoint, DrawsStart, Drafts
    <3>2. Points' \subseteq Points \union {cell}
      BY <3>1
    <3> QED
      BY <1>1, <2>1, <3>1, <3>2 DEF OnLattice
  <2>3. CASE DrawsEnd(cell)
    <3>1. /\ draft'.pathCells = Endpoints(draft.pathCells, cell)
          /\ draft'.roadSegments = draft.roadSegments
          /\ draft'.regionSelections = draft.regionSelections /\ drag' = drag
          /\ draft'.pointCell = draft.pointCell
          /\ draft'.pendingRoadStart = draft.pendingRoadStart
      BY <1>0, <2>3 DEF DrawsEnd, Drafts
    <3>2. Elements(draft'.pathCells) \subseteq Elements(draft.pathCells) \union {cell}
      BY <1>0, <2>1, <3>1, EndpointsTyped
    <3>3. Points' \subseteq Points \union {cell}
      BY <3>1, <3>2
    <3> QED
      BY <1>1, <2>1, <3>1, <3>3 DEF OnLattice
  <2>4. CASE DrawsSegment(cell)
    <3> DEFINE pair == <<draft.pendingRoadStart, cell>>
    <3>1. /\ draft'.pathCells = draft.pathCells
          /\ draft'.roadSegments = Append(draft.roadSegments, pair)
          /\ draft'.regionSelections = draft.regionSelections /\ drag' = drag
          /\ draft'.pointCell = draft.pointCell /\ draft'.pendingRoadStart = None
          /\ draft.pendingRoadStart \in ClickedCell /\ draft.pendingRoadStart # None
      BY <1>0, <2>4 DEF DrawsSegment, Drafts
    <3>2. /\ pair \in ClickedCell \X ClickedCell
          /\ pair[1] = draft.pendingRoadStart /\ pair[2] = cell
      BY <2>1, <3>1
    <3>3. draft.pendingRoadStart \in Points
      BY <3>1
    <3>4. On(gridConfig, pair[1]) /\ On(gridConfig, pair[2])
      BY <1>1, <2>1, <3>2, <3>3
    <3> HIDE DEF pair
    <3>5. Elements(draft'.roadSegments) = Elements(draft.roadSegments) \union {pair}
      BY <1>0, <3>1, <3>2, AppendElements
    <3>6. Points' \subseteq Points
      BY <3>1
    <3> QED
      BY <1>1, <2>1, <3>1, <3>4, <3>5, <3>6 DEF OnLattice
  <2>5. CASE DrawsRegion(cell)
    <3> DEFINE r == Record(drag', cell)
    <3>1. /\ drag'.start = cell /\ drag'.grid = gridConfig /\ r \in Selections
          /\ r.start = cell /\ r.end = cell /\ r.grid = gridConfig
      BY <1>4, <2>5, DragTyped
    <3>2. /\ draft'.pathCells = draft.pathCells /\ draft'.roadSegments = draft.roadSegments
          /\ draft'.regionSelections = Append(draft.regionSelections, r)
          /\ draft'.pointCell = draft.pointCell
          /\ draft'.pendingRoadStart = draft.pendingRoadStart
      BY <1>0, <2>5 DEF DrawsRegion, Drafts
    <3> HIDE DEF r
    <3>3. Elements(draft'.regionSelections) = Elements(draft.regionSelections) \union {r}
      BY <1>0, <3>1, <3>2, AppendElements
    <3>4. Points' = Points
      BY <3>2
    <3> QED
      BY <1>1, <2>1, <3>1, <3>2, <3>3, <3>4 DEF OnLattice
  <2> QED
    BY <1>4, <2>2, <2>3, <2>4, <2>5 DEF Presses
<1> QED
  BY <1>2, <1>3, <1>4, StepCases

LEMMA HeightsKept ==
  ASSUME StoreTypes, ServerTypes, Heights, [Next]_vars
  PROVE  Heights'
<1>0. draft \in Drafts /\ draft.regionSelections \in Seq(Selections)
  BY DEF StoreTypes, Drafts
<1>1. /\ \A s \in Elements(draft.regionSelections) : Rises(gridConfig, s)
      /\ drag # None => drag.height # 0
  BY DEF Heights
<1>2. ASSUME NEW d \in Drags, d.height # 0, NEW cell
      PROVE Rises(gridConfig, Record(d, cell))
  <2>1. d.height \in Nat \ {0}
    BY <1>2 DEF Drags
  <2> QED
    BY <2>1 DEF Rises, Record
<1>3. CASE Operator \/ Network \/ PointerUp \/ UNCHANGED vars
  <2>1. DraftKept /\ DragKept
    BY <1>3, DraftKeptBy
  <2>2. Elements(draft'.regionSelections) \subseteq Elements(draft.regionSelections)
    BY <2>1, KeptCells
  <2>3. CASE draft' = NoDraft
    <3>1. Elements(draft'.regionSelections) = {}
      BY <2>3, NoDraftTyped DEF Elements
    <3> QED
      BY <1>1, <2>1, <3>1 DEF Heights, DragKept
  <2>4. CASE ~LatticeChanged(gridConfig, gridConfig')
    <3>1. \A s : Rises(gridConfig', s) <=> Rises(gridConfig, s)
      BY <2>4 DEF LatticeChanged, Rises, End
    <3> QED
      BY <1>1, <2>1, <2>2, <3>1 DEF Heights, DragKept
  <2> QED
    BY <1>3, <2>3, <2>4, LatticeKept
<1>4. ASSUME NEW cell, Moves(cell) PROVE Heights'
  <2>1. gridConfig' = gridConfig /\ drag' = drag /\ drag # None /\ drag \in Drags
    BY <1>4, MoveFacts DEF Moves
  <2>2. \A s \in Elements(draft'.regionSelections) : Rises(gridConfig, s)
    BY <1>1, <1>2, <1>4, <2>1, MoveFacts
  <2> QED
    BY <1>1, <2>1, <2>2 DEF Heights
<1>5. ASSUME NEW cell, Presses(cell) PROVE Heights'
  <2>1. gridConfig' = gridConfig
    BY <1>5 DEF Presses
  <2>2. CASE DrawsPoint(cell) \/ DrawsStart(cell) \/ DrawsEnd(cell) \/ DrawsSegment(cell)
    <3>1. draft'.regionSelections = draft.regionSelections /\ drag' = drag
      BY <1>0, <2>2 DEF DrawsPoint, DrawsStart, DrawsEnd, DrawsSegment, Drafts
    <3> QED
      BY <1>1, <2>1, <3>1 DEF Heights
  <2>3. CASE DrawsRegion(cell)
    <3> DEFINE d == drag'  r == Record(d, cell)
    <3>1. d \in Drags /\ d.height # 0 /\ r \in Selections
      BY <1>5, <2>3, DragTyped
    <3>2. draft'.regionSelections = Append(draft.regionSelections, r)
      BY <1>0, <2>3 DEF DrawsRegion, Drafts
    <3>3. Rises(gridConfig, r)
      BY <1>2, <3>1
    <3> HIDE DEF r
    <3>4. Elements(draft'.regionSelections) = Elements(draft.regionSelections) \union {r}
      BY <1>0, <3>1, <3>2, AppendElements
    <3> QED
      BY <1>1, <2>1, <3>1, <3>3, <3>4 DEF Heights
  <2> QED
    BY <1>5, <2>2, <2>3 DEF Presses
<1> QED
  BY <1>3, <1>4, <1>5, StepCases

\* What the module states of the types and of the lattice follows.
LEMMA TypesStated ==
  ASSUME StoreTypes, ServerTypes, RequestTypes, RoadEnds
  PROVE  TypeOK
<1>1. /\ draft.pointCell \in ClickedCell \union {None}
      /\ draft.regionSelections \in Seq(Selections)
      /\ draft.roadSegments \in Seq(ClickedCell \X ClickedCell)
      /\ draft.pendingRoadStart \in ClickedCell \union {None}
      /\ draft.editingPathId \in Ids \union {None}
      /\ draft.pathCells \in Seq(ClickedCell) /\ Len(draft.pathCells) <= 2
  BY DEF StoreTypes, Drafts
<1>2. \A i \in DOMAIN draft.regionSelections : draft.regionSelections[i].start \in ClickedCell
  <2>1. \A i \in DOMAIN draft.regionSelections : draft.regionSelections[i] \in Selections
    BY <1>1
  <2> QED
    BY <2>1 DEF Selections
<1> QED
  BY <1>1, <1>2 DEF TypeOK, StoreTypes, ServerTypes, RequestTypes, RoadEnds

LEMMA LatticeStated ==
  ASSUME StoreTypes, OnLattice
  PROVE  DraftsOnLattice
<1>1. draft.roadSegments \in Seq(ClickedCell \X ClickedCell)
  BY DEF StoreTypes, Drafts
<1>2. \A ends \in Elements(draft.roadSegments) : \A c \in Elements(ends) : On(gridConfig, c)
  <2>1. Elements(draft.roadSegments) \in SUBSET (ClickedCell \X ClickedCell)
    BY <1>1, ElementsTyped
  <2>2. \A ends \in Elements(draft.roadSegments) : Elements(ends) = {ends[1], ends[2]}
    BY <2>1, PairElements DEF SegmentCells
  <2> QED
    BY <2>2 DEF OnLattice
<1>3. \A s \in WholeDrags : On(gridConfig, s.start) /\ On(gridConfig, s.end)
  <2>1. \A s \in WholeDrags : Cells(s.grid) = Cells(gridConfig)
    BY LatticeCells DEF WholeDrags, SameLattice
  <2> QED
    BY <2>1 DEF WholeDrags, OnLattice, On
<1>4. \A c \in DraftCells : On(gridConfig, c)
  BY <1>2, <1>3 DEF DraftCells, OnLattice
<1> QED
  BY <1>4 DEF DraftsOnLattice, On

(***************************************************************************)
(* Strokes.  Most steps draw nothing; what they leave of the draft keeps   *)
(* what holds of it.                                                       *)
(***************************************************************************)
CellsKept ==
  /\ AreaCells' \subseteq AreaCells /\ RoadCells' \subseteq RoadCells
  /\ EndCells' \subseteq EndCells
  /\ Prefix(draft'.roadSegments, draft.roadSegments)
  /\ draft'.pendingRoadStart \in {draft.pendingRoadStart, None}
  /\ clicks' = clicks

LEMMA StepKeepsCells ==
  ASSUME StoreTypes, ServerTypes, Operator \/ Network \/ PointerUp \/ UNCHANGED vars
  PROVE  CellsKept
<1>1. DraftKept /\ DragKept /\ clicks' = clicks
  BY DraftKeptBy
<1> QED
  BY <1>1, KeptCells DEF CellsKept, DraftKept

LEMMA ClicksStayApart ==
  ASSUME ClicksApart, CellsKept
  PROVE  ClicksApart'
<1>1. \A c \in AreaCells', d \in RoadCells' : c.click # d.click
  BY DEF ClicksApart, CellsKept
<1>2. \A i, j \in DOMAIN draft'.roadSegments :
        i # j => \A c \in SegmentCells(draft'.roadSegments[i]),
                    d \in SegmentCells(draft'.roadSegments[j]) : c.click # d.click
  <2>1. \A i \in DOMAIN draft'.roadSegments :
          i \in DOMAIN draft.roadSegments /\ draft'.roadSegments[i] = draft.roadSegments[i]
    BY DEF CellsKept, Prefix
  <2> QED
    BY <2>1 DEF ClicksApart
<1>3. draft'.pendingRoadStart # None =>
        \A ends \in Elements(draft'.roadSegments) : \A c \in SegmentCells(ends) :
          c.click # draft'.pendingRoadStart.click
  <2>1. Elements(draft'.roadSegments) \subseteq Elements(draft.roadSegments)
    BY PrefixElements DEF CellsKept
  <2> QED
    BY <2>1 DEF ClicksApart, CellsKept
<1> QED
  BY <1>1, <1>2, <1>3 DEF ClicksApart

\* The types of what is drawn and of what was saved.
LEMMA CellsTyped ==
  ASSUME StoreTypes
  PROVE  /\ AreaCells \in SUBSET ClickedCell /\ RoadCells \in SUBSET ClickedCell
         /\ EndCells \in SUBSET ClickedCell
<1>1. /\ draft.pointCell \in ClickedCell \union {None}
      /\ draft.pendingRoadStart \in ClickedCell \union {None}
      /\ draft.pathCells \in Seq(ClickedCell)
      /\ draft.roadSegments \in Seq(ClickedCell \X ClickedCell)
      /\ draft.regionSelections \in Seq(Selections)
  BY DEF StoreTypes, Drafts
<1>2. EndCells \in SUBSET ClickedCell
  BY <1>1, ElementsTyped DEF EndCells
<1>3. RoadCells \in SUBSET ClickedCell
  <2>1. Elements(draft.roadSegments) \in SUBSET (ClickedCell \X ClickedCell)
    BY <1>1, ElementsTyped
  <2>2. \A ends \in Elements(draft.roadSegments) : SegmentCells(ends) \in SUBSET ClickedCell
    BY <2>1, PairElements
  <2> QED
    BY <1>1, <2>2 DEF RoadCells
<1>4. AreaCells \in SUBSET ClickedCell
  <2>1. Elements(draft.regionSelections) \in SUBSET Selections
    BY <1>1, ElementsTyped
  <2>2. {s.start : s \in Elements(draft.regionSelections)} \in SUBSET ClickedCell
    BY <2>1 DEF Selections
  <2>3. drag # None => drag.start \in ClickedCell
    BY DEF StoreTypes, Drags
  <2> QED
    BY <1>1, <2>2, <2>3 DEF AreaCells
<1> QED
  BY <1>2, <1>3, <1>4

LEMMA CopiesTyped ==
  ASSUME ServerTypes, RequestTypes
  PROVE  /\ Copies \in SUBSET Objects
         /\ \A o \in Copies : o.id \in Ids /\ \A s \in o.drawn : s.click \in Nat
<1>1. Copies \in SUBSET Objects
  BY UpdatedTyped DEF Copies, ServerTypes, Answers
<1>2. \A o \in Objects : o.id \in Ids /\ o.drawn \in StrokeSets
  BY DEF Objects
<1>3. \A S \in StrokeSets : \A s \in S : s.click \in Nat
  <2>1. \A n \in 1..MaxClicks : n \in Nat
    BY EditorAssumption
  <2> QED
    BY <2>1 DEF StrokeSets
<1> QED
  BY <1>1, <1>2, <1>3

\* A stroke is the trace of a cell.
LEMMA StrokeFacts ==
  /\ \A cells : Strokes(cells) = {Stroke(c) : c \in cells}
  /\ \A c : Stroke(c).click = c.click /\ Stroke(c).for = c.for
BY DEF Strokes, Stroke

\* Steps that bring no copy of an object, and leave a creation under way alone.
OwnersKept ==
  /\ lost' = lost /\ lastId' = lastId /\ Copies' \subseteq Copies
  /\ saving' = saving \/ (~Creating /\ ~Creating' /\ Updated' \subseteq Updated)

LEMMA RestKept ==
  ASSUME CellsKept, OwnersKept, Owned, Undelivered, CreationMeant, UpdateMeant
  PROVE  Owned' /\ Undelivered' /\ CreationMeant' /\ UpdateMeant'
<1>1. /\ Created' = Created /\ (Creating' => saving' = saving /\ Creating /\ Sent' = Sent)
      /\ Updated' \subseteq Updated
      /\ Created # {} => Sent' = Sent
  BY DEF OwnersKept, Created, Creating, Sent, Updated
<1> USE DEF CellsKept, OwnersKept
<1>2. Owned'
  BY DEF Owned
<1>3. Undelivered'
  BY <1>1 DEF Undelivered
<1>4. CreationMeant'
  BY <1>1 DEF CreationMeant
<1>5. UpdateMeant'
  BY <1>1 DEF UpdateMeant
<1> QED
  BY <1>2, <1>3, <1>4, <1>5

\* The answer to a creation is lost: its objects are.
LEMMA RestLost ==
  ASSUME CellsKept, saving' = None, lost' = lost \union Created, lastId' = lastId,
         Copies' \subseteq Copies, Owned, Undelivered
  PROVE  Owned' /\ Undelivered' /\ CreationMeant' /\ UpdateMeant'
<1>1. ~Creating' /\ Updated' = {}
  BY DEF Creating, Updated
<1> USE DEF CellsKept
<1>2. Owned'
  BY DEF Owned
<1>3. Undelivered'
  BY DEF Undelivered
<1> QED
  BY <1>1, <1>2, <1>3 DEF CreationMeant, UpdateMeant

LEMMA RefreshingKept ==
  ASSUME StoreTypes, ServerTypes, RequestTypes, Refreshing, [Next]_vars
  PROVE  Refreshing'
<1> USE DEF Refreshing
<1>1. ASSUME reads' = reads, saving' = saving \/ saving = None \/ saving.st # "refreshing"
      PROVE  Refreshing'
  BY <1>1
<1>2. CASE \E cell : Presses(cell) \/ Moves(cell)
  BY <1>1, <1>2 DEF Presses, Moves
<1>3. CASE PointerUp \/ UNCHANGED vars
  BY <1>1, <1>3 DEF PointerUp, vars
<1>4. CASE Operator
  BY <1>1, <1>4 DEF Operator, Open, Close, BeginPathGeometryEdit, Undo, Clear, SaveGrid,
                    SetMode, Select, Preview, Save, Delete
<1>5. CASE Network
  <2>1. CASE Commit \/ SaveAnswered \/ SaveFails
    BY <1>1, <2>1 DEF Commit, SaveAnswered, SaveFails
  <2>2. CASE CommitGrid \/ GridSaved \/ GridSaveFails \/ OthersSaveGrid
    BY <1>1, <2>2 DEF CommitGrid, GridSaved, GridSaveFails, OthersSaveGrid
  <2>3. ASSUME NEW to \in Readers, ReadScene(to) PROVE Refreshing'
    <3> DEFINE r == [to |-> to, grid |-> serverGrid,
                     objects |-> IF to = "scene" THEN {} ELSE objects]
    <3>1. /\ reads' = reads \union {r} /\ saving' = saving /\ r.to = to
          /\ to = "save" => /\ saving # None /\ saving.st = "refreshing"
                            /\ \A q \in reads : q.to # "save"
      BY <2>3 DEF ReadScene
    <3> HIDE DEF r
    <3> QED
      BY <3>1
  <2>4. ASSUME NEW r \in reads, Refreshed(r) \/ RefreshFails(r) PROVE Refreshing'
    BY <2>4 DEF Refreshed, RefreshFails
  <2> QED
    BY <1>5, <2>1, <2>2, <2>3, <2>4 DEF Network
<1> QED
  BY <1>2, <1>3, <1>4, <1>5, StepCases

(***************************************************************************)
(* What is drawn stays meant for what it was meant for.                    *)
(***************************************************************************)
\* What a step may do to the selection while something is drawn.
SelectionKept ==
  /\ draft'.editingPathId = draft.editingPathId \/ EndCells' = {}
  /\ \/ /\ selectedEntity' \in {selectedEntity, None}
        /\ draft'.editingPathId \in {draft.editingPathId, None}
     \/ AreaCells' = {} /\ RoadCells' = {}
  /\ draft'.editingPathId # None => mode' = "path"
  /\ drag' # None => mode' # "select"

LEMMA MeantBy ==
  ASSUME CellsKept, SelectionKept, Meant
  PROVE  Meant'
<1>1. /\ \A c \in AreaCells' \union RoadCells' : c.click <= clicks' /\ c.for = None
      /\ \A c \in EndCells' : c.click <= clicks' /\ c.for = draft'.editingPathId /\ c.for # None
  BY DEF CellsKept, SelectionKept, Meant
<1>2. AreaCells' \union RoadCells' # {} =>
        selectedEntity' = None /\ draft'.editingPathId = None
  BY DEF CellsKept, SelectionKept, Meant
<1> QED
  BY <1>1, <1>2 DEF SelectionKept, Meant

\* While nothing is deselected the drawing mode stays.
LEMMA NothingSelected ==
  ASSUME Meant, UNCHANGED <<mode, selectedEntity, draft>>, DragKept
  PROVE  SelectionKept
BY DEF Meant, SelectionKept, DragKept

LEMMA DraftEmptied ==
  ASSUME draft' = NoDraft, drag' = None
  PROVE  /\ AreaCells' = {} /\ RoadCells' = {} /\ EndCells' = {}
         /\ draft'.editingPathId = None /\ SelectionKept
<1>1. Elements(<<>>) = {}
  BY DEF Elements
<1>2. AreaCells' = {} /\ RoadCells' = {} /\ EndCells' = {} /\ draft'.editingPathId = None
  BY <1>1, NoDraftTyped DEF AreaCells, RoadCells, EndCells
<1> QED
  BY <1>2 DEF SelectionKept

LEMMA DraftReset ==
  ASSUME draft' = NoDraft
  PROVE  EndCells' = {} /\ draft'.editingPathId = None
<1>1. Elements(<<>>) = {}
  BY DEF Elements
<1> QED
  BY <1>1, NoDraftTyped DEF EndCells

LEMMA GridKeepsSelection ==
  ASSUME StoreTypes, Meant, NEW config \in Configs, SetGridConfig(config),
         UNCHANGED <<mode, selectedEntity, drag>>
  PROVE  SelectionKept
<1>1. draft' = draft \/ draft' = NoDraft
  BY GridSet
<1>2. CASE draft' = draft
  BY <1>2, NothingSelected DEF DragKept
<1>3. CASE draft' = NoDraft
  BY <1>3, DraftReset DEF SelectionKept, Meant
<1> QED
  BY <1>1, <1>2, <1>3

LEMMA OperatorKeepsSelection ==
  ASSUME StoreTypes, ServerTypes, RequestTypes, Meant, Operator
  PROVE  SelectionKept
<1> USE DEF storeVars
<1>1. CASE Open \/ SaveGrid \/ \E kind \in Kinds : Save(kind) \/ Delete(kind)
  BY <1>1, NothingSelected DEF Open, SaveGrid, Save, Delete, DragKept
<1>2. CASE Close
  BY <1>2, DraftEmptied DEF Close, Unmounted
<1>3. ASSUME NEW m \in Kinds \union {"select"}, SetMode(m) PROVE SelectionKept
  BY <1>3, DraftReset DEF SetMode, SelectionKept, Unmounted
<1>4. CASE \E o \in shown \union objects : Select(o)
  BY <1>4, DraftEmptied DEF Select, SelectEntity, Unmounted
<1>5. CASE BeginPathGeometryEdit
  <2>1. /\ Selected("path").id \in Ids
        /\ draft.editingPathId # None \/ selectedEntity # None
    BY <1>5, SelectedFacts DEF BeginPathGeometryEdit, Kinds
  <2>2. drag = None
    BY <2>1 DEF Meant, AreaCells
  <2>3. /\ draft' = [NoDraft EXCEPT !.editingPathId = Selected("path").id]
        /\ mode' = "path" /\ drag' = None
    BY <1>5, <2>2 DEF BeginPathGeometryEdit, Unmounted
  <2>4. /\ draft'.pointCell = None /\ draft'.regionSelections = <<>>
        /\ draft'.roadSegments = <<>> /\ draft'.pendingRoadStart = None
        /\ draft'.pathCells = <<>>
    BY <2>1, <2>3, Dropped
  <2>5. Elements(<<>>) = {}
    BY DEF Elements
  <2>6. AreaCells' = {} /\ RoadCells' = {} /\ EndCells' = {}
    BY <2>3, <2>4, <2>5 DEF AreaCells, RoadCells, EndCells
  <2> QED
    BY <2>3, <2>6 DEF SelectionKept
<1>6. CASE Undo
  BY <1>6, UndoKeeps DEF Undo, SelectionKept, Meant
<1>7. CASE Clear
  <2>1. UNCHANGED <<mode, selectedEntity, drag>>
    BY <1>7 DEF Clear
  <2>2. CASE ClearPathDraft
    <3>1. draft'.editingPathId = None /\ draft'.pathCells = <<>>
      BY <2>2, PathDraftCleared
    <3>2. EndCells' = {}
      BY <3>1 DEF EndCells, Elements
    <3> QED
      BY <2>1, <3>1, <3>2 DEF SelectionKept, Meant
  <2>3. CASE draft' = [draft EXCEPT !.regionSelections = <<>>]
    <3>1. draft'.editingPathId = draft.editingPathId
      BY <2>3 DEF StoreTypes, Drafts
    <3> QED
      BY <2>1, <3>1 DEF SelectionKept, Meant
  <2> QED
    BY <1>7, <2>2, <2>3 DEF Clear
<1>8. ASSUME NEW c \in Configs, Preview(c) PROVE SelectionKept
  BY <1>8, GridKeepsSelection DEF Preview
<1> QED
  BY <1>1, <1>2, <1>3, <1>4, <1>5, <1>6, <1>7, <1>8 DEF Operator

LEMMA NetworkKeepsSelection ==
  ASSUME StoreTypes, ServerTypes, RequestTypes, Meant, Network
  PROVE  SelectionKept
<1> USE DEF storeVars
<1>1. CASE Commit \/ SaveFails \/ CommitGrid \/ GridSaveFails \/ OthersSaveGrid
           \/ \E to \in Readers : ReadScene(to)
  BY <1>1, NothingSelected
     DEF Commit, SaveFails, CommitGrid, GridSaveFails, OthersSaveGrid, ReadScene, DragKept
<1>2. CASE GridSaved
  BY <1>2, DraftReset DEF GridSaved, SelectionKept, Meant
<1>3. CASE SaveAnswered
  <2>1. ASSUME NEW e, SelectEntity(e) PROVE SelectionKept
    BY <1>3, <2>1, DraftEmptied DEF SaveAnswered, SelectEntity, Unmounted
  <2>2. CASE ClearPathDraft /\ UNCHANGED <<selectedEntity, mode>>
    <3>1. draft'.editingPathId = None /\ draft'.pathCells = <<>>
      BY <2>2, PathDraftCleared
    <3>2. EndCells' = {}
      BY <3>1 DEF EndCells, Elements
    <3>3. drag' # None => mode' # "select"
      BY <1>3 DEF SaveAnswered, Unmounted
    <3> QED
      BY <2>2, <3>1, <3>2, <3>3 DEF SelectionKept
  <2>3. CASE UNCHANGED <<selectedEntity, mode, draft>>
    BY <1>3, <2>3, NothingSelected, DragUnmounted DEF SaveAnswered
  <2> QED
    BY <1>3, <2>1, <2>2, <2>3 DEF SaveAnswered
<1>4. ASSUME NEW r \in reads, Refreshed(r) PROVE SelectionKept
  <2>1. r.grid \in Configs
    BY DEF ServerTypes, Answers
  <2> QED
    BY <1>4, <2>1, GridKeepsSelection DEF Refreshed
<1>5. CASE \E r \in reads : RefreshFails(r)
  BY <1>5, NothingSelected DEF RefreshFails, DragKept
<1> QED
  BY <1>1, <1>2, <1>3, <1>4, <1>5 DEF Network

LEMMA StepKeepsSelection ==
  ASSUME StoreTypes, ServerTypes, RequestTypes, Meant,
         Operator \/ Network \/ PointerUp \/ UNCHANGED vars
  PROVE  SelectionKept
BY OperatorKeepsSelection, NetworkKeepsSelection, NothingSelected
   DEF PointerUp, vars, storeVars, DragKept

(***************************************************************************)
(* Requests and answers.                                                   *)
(***************************************************************************)
Ownership == Owned /\ Undelivered /\ CreationMeant /\ UpdateMeant

\* Steps that concern no object.
LEMMA ObjectsUnchanged ==
  ASSUME UNCHANGED <<objects, shown, reads, saving, lastId, lost>>
  PROVE  OwnersKept
BY DEF OwnersKept, Copies, Updated

\* An object is read, listed, or forgotten.
LEMMA ReadKeepsOwners ==
  ASSUME Refreshing, Network, (\E to \in Readers : ReadScene(to))
                              \/ \E r \in reads : Refreshed(r) \/ RefreshFails(r)
  PROVE  OwnersKept
<1>1. ASSUME NEW to \in Readers, ReadScene(to) PROVE OwnersKept
  <2> DEFINE r == [to |-> to, grid |-> serverGrid,
                   objects |-> IF to = "scene" THEN {} ELSE objects]
  <2>1. /\ reads' = reads \union {r} /\ r.objects \subseteq objects
        /\ UNCHANGED <<objects, shown, saving, lastId, lost>>
    BY <1>1 DEF ReadScene, serverVars
  <2> HIDE DEF r
  <2> QED
    BY <2>1 DEF OwnersKept, Copies, Updated
<1>2. ASSUME NEW r \in reads, Refreshed(r) \/ RefreshFails(r) PROVE OwnersKept
  <2>1. /\ reads' \subseteq reads /\ shown' \in {shown, r.objects}
        /\ UNCHANGED <<objects, lastId, lost>>
        /\ saving' = IF r.to = "save" THEN None ELSE saving
    BY <1>2 DEF Refreshed, RefreshFails, serverVars
  <2>2. r.to = "save" => ~Creating
    BY DEF Refreshing, Creating
  <2>3. saving' = saving \/ (saving' = None /\ ~Creating)
    BY <2>1, <2>2
  <2>4. saving' = None => Updated' = {} /\ ~Creating'
    BY DEF Updated, Creating
  <2>5. Updated' \subseteq Updated
    BY <2>3, <2>4 DEF Updated
  <2>6. Copies' \subseteq Copies
    BY <2>1, <2>5 DEF Copies
  <2> QED
    BY <2>1, <2>3, <2>4, <2>5, <2>6 DEF OwnersKept
<1> QED
  BY <1>1, <1>2

\* A new object is drawn from what was sent for it.
LEMMA CommitKeepsOwnership ==
  ASSUME StoreTypes, ServerTypes, RequestTypes, Ownership, CellsKept, Commit
  PROVE  Ownership'
<1> USE DEF Ownership
<1>1. UNCHANGED <<storeVars, drag, shown, reads, lost>> /\ (CommitsNew \/ CommitsChange)
  BY CommitCases
<1>2. CASE CommitsChange
  <2>1. saving \in Requests /\ saving.op \in {"update", "delete"}
    BY <1>2 DEF CommitsChange, RequestTypes, Requests
  <2>2. /\ saving'.op = saving.op /\ saving'.kind = saving.kind /\ saving'.id = saving.id
        /\ saving'.drawn = saving.drawn /\ saving' \in Requests
    BY <1>2, <2>1 DEF CommitsChange, Requests
  <2>3. saving' # None => Updated' \subseteq Updated
    BY <1>2, <2>2 DEF Updated, CommitsChange
  <2>4. saving' = None => Updated' = {}
    BY DEF Updated
  <2>5. Updated' \subseteq Updated
    BY <2>3, <2>4
  <2>6. ~Creating /\ ~Creating'
    BY <2>1, <2>2 DEF Creating
  <2>7. Copies' \subseteq Copies
    BY <1>1, <1>2, <2>5 DEF Copies, CommitsChange
  <2>8. OwnersKept
    BY <1>1, <1>2, <2>5, <2>6, <2>7 DEF OwnersKept, CommitsChange
  <2> QED
    BY <2>8, RestKept
<1>3. CASE CommitsNew
  <2>1. /\ saving \in Requests /\ saving # None /\ saving.op = "create" /\ saving.st = "sent"
        /\ saving.drawn \in Seq(StrokeSets)
    BY <1>3 DEF CommitsNew, RequestTypes, Requests
  <2> DEFINE n == Len(saving.drawn)
  <2>2. /\ n \in Nat /\ DOMAIN saving.drawn = 1..n /\ lastId \in Nat /\ lastId' = lastId + n
    BY <1>3, <2>1 DEF CommitsNew, ServerTypes
  <2> HIDE DEF n
  <2>3. lastId + 1 \in Ids
    BY <1>3, NewObjectsTyped
  <2>4. /\ saving'.op = "create" /\ saving'.st = "done" /\ saving'.id = lastId + 1
        /\ saving'.kind = saving.kind /\ saving'.drawn = saving.drawn /\ saving' \in Requests
    BY <1>3, <2>1, <2>3 DEF CommitsNew, Requests
  <2>5. Creating /\ Created = {} /\ Sent' = Sent /\ Updated = {}
    BY <2>1, <2>4 DEF Creating, Created, Sent, Updated
  <2>6. Updated' = {} /\ (Creating' => Created' = (lastId + 1)..lastId')
    BY <2>4 DEF Updated, Creating, Created
  <2>7. Copies' = Copies \union NewObjects
    BY <1>1, <1>3, <2>5, <2>6 DEF Copies, CommitsNew
  <2>8. \A o \in NewObjects : \E i \in 1..n : o.id = lastId + i /\ o.drawn = saving.drawn[i]
    BY <2>2 DEF NewObjects
  <2>9. \A i \in 1..n : saving.drawn[i] \subseteq Sent
    BY <2>2 DEF Sent, Elements
  <2>10. /\ \A s \in Sent : s.for = None /\ s.click <= clicks
         /\ \A i, j \in 1..n : i # j => saving.drawn[i] \intersect saving.drawn[j] = {}
         /\ \A o \in Copies : o.drawn \intersect Sent # {} => o.id \in lost
         /\ saving.kind = "path" => \A c \in AreaCells : Stroke(c) \notin Sent
    BY <2>1, <2>2, <2>5 DEF CreationMeant
  <2>11. clicks' = clicks /\ lost' = lost
    BY <1>1 DEF CellsKept
  <2>12. saving' # None /\ Creating'
    <3>1. saving' # None
      BY <2>4, GridAssumption
    <3> QED
      BY <2>4, <3>1 DEF Creating
  <2>13. Owned'
    <3>1. \A o \in Copies' : o.id <= lastId'
      <4>1. \A o \in Copies : o.id <= lastId'
        BY <2>2, CopiesTyped DEF Owned, Ids
      <4>2. \A o \in NewObjects : o.id <= lastId'
        BY <2>2, <2>8
      <4> QED
        BY <2>7, <4>1, <4>2
    <3>2. \A o \in Copies' : \A s \in o.drawn : s.click <= clicks' /\ s.for \in {None, o.id}
      <4>1. \A o \in NewObjects : \A s \in o.drawn : s.click <= clicks /\ s.for = None
        BY <2>8, <2>9, <2>10
      <4> QED
        BY <2>7, <2>11, <4>1 DEF Owned
    <3>3. \A o, p \in Copies' : \A s \in o.drawn \intersect p.drawn :
            o.id = p.id \/ o.id \in lost \/ p.id \in lost
      <4>1. \A o \in NewObjects : \A p \in Copies : \A s \in o.drawn \intersect p.drawn :
              p.id \in lost
        BY <2>8, <2>9, <2>10
      <4>2. \A o, p \in NewObjects : \A s \in o.drawn \intersect p.drawn : o.id = p.id
        BY <2>8, <2>10
      <4> QED
        BY <2>7, <4>1, <4>2 DEF Owned
    <3> QED
      BY <2>11, <3>1, <3>2, <3>3 DEF Owned
  <2>14. Undelivered'
    <3>1. \A o \in NewObjects : \A s \in o.drawn : o.id \in Created' /\ s \in Sent'
      <4>1. \A o \in NewObjects : o.id \in Created'
        BY <2>2, <2>6, <2>8, <2>12
      <4> QED
        BY <2>5, <2>8, <2>9, <4>1
    <3> QED
      BY <2>5, <2>7, <2>11, <3>1 DEF Undelivered, CellsKept
  <2>15. CreationMeant' /\ UpdateMeant'
    <3>1. UpdateMeant'
      BY <2>6 DEF UpdateMeant
    <3>2. CreationMeant'
      BY <2>2, <2>4, <2>5, <2>10, <2>11 DEF CreationMeant, CellsKept
    <3> QED
      BY <3>1, <3>2
  <2> QED
    BY <2>13, <2>14, <2>15
<1> QED
  BY <1>1, <1>2, <1>3

\* What is lost with an answer, and what an answer delivers.
LEMMA FailureKeepsOwnership ==
  ASSUME Ownership, CellsKept, SaveFails
  PROVE  Ownership'
<1> USE DEF Ownership
<1>1. /\ saving # None /\ saving.st \in {"sent", "done"} /\ saving' = None
      /\ UNCHANGED <<objects, shown, reads, lastId>>
      /\ lost' = IF saving.op = "create" /\ saving.st = "done"
                   THEN lost \union (saving.id..lastId) ELSE lost
  BY DEF SaveFails
<1>2. lost' = lost \union Created
  BY <1>1 DEF Created, Creating
<1>3. Updated' = {}
  BY <1>1 DEF Updated
<1>4. Copies' \subseteq Copies
  BY <1>1, <1>3 DEF Copies
<1> QED
  BY <1>1, <1>2, <1>4, RestLost

LEMMA AnswerKeepsOwnership ==
  ASSUME StoreTypes, RequestTypes, Ownership, CellsKept, SaveAnswered
  PROVE  Ownership'
<1> USE DEF Ownership
<1>1. /\ saving # None /\ saving.st = "done" /\ saving' = [saving EXCEPT !.st = "refreshing"]
      /\ UNCHANGED <<objects, shown, reads, lost, lastId>>
  BY DEF SaveAnswered, serverVars
<1>2. saving \in Requests
  BY <1>1 DEF RequestTypes
<1>3. /\ saving' \in Requests /\ saving'.op = saving.op /\ saving'.kind = saving.kind
      /\ saving'.id = saving.id /\ saving'.drawn = saving.drawn /\ saving'.st = "refreshing"
  BY <1>1, <1>2 DEF Requests
<1>4. ~Creating' /\ Updated' = Updated
  BY <1>1, <1>3, GridAssumption DEF Creating, Updated
<1>5. Copies' = Copies
  BY <1>1, <1>4 DEF Copies
<1>6. CASE ~Creating
  <2>1. OwnersKept
    BY <1>1, <1>4, <1>5, <1>6 DEF OwnersKept
  <2> QED
    BY <2>1, RestKept
<1>7. CASE Creating
  <2>1. Owned' /\ CreationMeant' /\ UpdateMeant'
    BY <1>1, <1>4, <1>5 DEF CellsKept, Owned, CreationMeant, UpdateMeant
  <2>2. CASE saving.kind # "path"
    <3>1. draft' = NoDraft /\ drag' = None
      BY <1>7, <2>2 DEF SaveAnswered, SelectEntity, Unmounted, Creating
    <3>2. AreaCells' = {} /\ RoadCells' = {}
      BY <3>1, DraftEmptied
    <3> QED
      BY <2>1, <3>2 DEF Undelivered
  <2>3. CASE saving.kind = "path"
    <3>1. ClearPathDraft
      BY <1>7, <2>3 DEF SaveAnswered, Creating
    <3>2. draft'.roadSegments = <<>> /\ draft'.pendingRoadStart = None
      BY <3>1, PathDraftCleared
    <3>3. RoadCells' = {}
      BY <3>2 DEF RoadCells, Elements
    <3>4. \A c \in AreaCells : Stroke(c) \notin Sent
      BY <1>7, <2>3 DEF CreationMeant
    <3>5. Undelivered'
      BY <1>1, <1>5, <3>3, <3>4 DEF Undelivered, CellsKept
    <3> QED
      BY <2>1, <3>5
  <2> QED
    BY <2>2, <2>3
<1> QED
  BY <1>6, <1>7

\* What is sent was drawn for it, or is listed.
LEMMA UpdateKeepsOwnership ==
  ASSUME StoreTypes, ServerTypes, RequestTypes, Meant, Ownership, CellsKept,
         NEW kind \in Kinds, Save(kind), SavesUpdate(kind), saving = None,
         UNCHANGED <<objects, shown, reads, lost, lastId>>
  PROVE  Ownership'
<1> USE DEF Ownership
<1> DEFINE o == Selected(kind)
           x == IF kind = "path" /\ draft.pathCells # <<>> THEN Strokes(EndCells) ELSE o.drawn
           p == [kind |-> kind, id |-> o.id, drawn |-> x]
<1>1. o \in shown /\ o.id \in Ids /\ (draft.editingPathId # None \/ selectedEntity # None)
      /\ (kind = "path" /\ draft.editingPathId # None => o.id = draft.editingPathId)
  BY SelectedFacts DEF SavesUpdate
<1>2. o \in Copies
  BY <1>1 DEF Copies
<1>3. saving' \in Requests /\ saving'.op = "update" /\ saving'.kind = kind
      /\ saving'.id = o.id /\ saving'.drawn = <<x>>
  <2>1. saving' \in Requests
    BY SaveTyped
  <2> QED
    BY <2>1 DEF SavesUpdate
<1>4. saving' # None
  BY <1>3, GridAssumption
<1>5. ~Creating' /\ Updated' = {p}
  BY <1>3, <1>4 DEF Creating, Updated
<1>6. Updated = {}
  BY DEF Updated
<1>7. Copies' = Copies \union {p}
  BY <1>5, <1>6 DEF Copies
<1>8. AreaCells = {} /\ RoadCells = {}
  BY <1>1 DEF Meant
<1>9. Undelivered' /\ CreationMeant' /\ UpdateMeant'
  BY <1>5, <1>8 DEF CellsKept, Undelivered, CreationMeant, UpdateMeant
<1>10. p.id = o.id /\ p.drawn = x
  OBVIOUS
<1>11. \/ x = o.drawn
       \/ \A s \in x : s.click <= clicks /\ s.for = o.id /\ s.for # None
  <2>1. CASE ~(kind = "path" /\ draft.pathCells # <<>>)
    BY <2>1
  <2>2. CASE kind = "path" /\ draft.pathCells # <<>>
    <3>1. x = {Stroke(c) : c \in EndCells}
      BY <2>2, StrokeFacts
    <3>2. draft.pathCells \in Seq(ClickedCell)
      BY DEF StoreTypes, Drafts
    <3>3. draft.pathCells[1] \in EndCells
      BY <2>2, <3>2 DEF EndCells, Elements
    <3>4. draft.editingPathId # None
      BY <3>3 DEF Meant
    <3>5. o.id = draft.editingPathId
      BY <1>1, <2>2, <3>4
    <3> QED
      BY <3>1, <3>5, StrokeFacts DEF Meant
  <2> QED
    BY <2>1, <2>2
<1> HIDE DEF o, x, p
<1>12. Owned'
  <2>1. /\ p.id <= lastId
        /\ \A s \in p.drawn : s.click <= clicks /\ s.for \in {None, p.id}
    BY <1>2, <1>10, <1>11 DEF Owned
  <2>2. \A q \in Copies : \A s \in q.drawn \intersect p.drawn :
          q.id = p.id \/ q.id \in lost \/ p.id \in lost
    BY <1>2, <1>10, <1>11 DEF Owned
  <2> QED
    BY <1>7, <2>1, <2>2 DEF Owned, CellsKept
<1> QED
  BY <1>9, <1>12

\* The strokes of what the draft holds of a kind.
LEMMA DrawnStrokes ==
  ASSUME StoreTypes, ClicksApart, NEW kind \in Kinds, Drawn(kind) # <<>>
  PROVE  /\ \A s \in UNION Elements(Drawn(kind)) :
              \E c \in AreaCells \union RoadCells : s = Stroke(c)
         /\ \A i, j \in DOMAIN Drawn(kind) : i # j => Drawn(kind)[i] \intersect Drawn(kind)[j] = {}
         /\ kind = "path" => \A c \in AreaCells : Stroke(c) \notin UNION Elements(Drawn(kind))
<1>1. \A x : DOMAIN <<x>> = {1} /\ <<x>>[1] = x /\ UNION Elements(<<x>>) = x
  BY DEF Elements
<1>2. CASE kind = "point"
  <2>1. draft.pointCell # None /\ Drawn(kind) = <<Strokes({draft.pointCell})>>
    BY <1>2, DrawnFacts
  <2>2. draft.pointCell \in AreaCells
    BY <2>1 DEF AreaCells
  <2> QED
    BY <1>1, <1>2, <2>1, <2>2, StrokeFacts
<1>3. CASE kind = "region"
  <2> DEFINE starts == {s.start : s \in Elements(draft.regionSelections)}
  <2>1. Drawn(kind) = <<Strokes(starts)>>
    BY <1>3, DrawnFacts
  <2>2. starts \subseteq AreaCells
    BY DEF AreaCells
  <2> HIDE DEF starts
  <2>3. UNION Elements(Drawn(kind)) = {Stroke(c) : c \in starts} /\ DOMAIN Drawn(kind) = {1}
    BY <1>1, <2>1, StrokeFacts
  <2> QED
    BY <1>3, <2>2, <2>3
<1>4. CASE kind = "path"
  <2> DEFINE roads == draft.roadSegments
  <2>1. /\ DOMAIN Drawn(kind) = DOMAIN roads
        /\ \A i \in DOMAIN roads : Drawn(kind)[i] = {Stroke(c) : c \in SegmentCells(roads[i])}
    BY <1>4, DrawnFacts, StrokeFacts
  <2>2. \A i \in DOMAIN roads : SegmentCells(roads[i]) \subseteq RoadCells
    BY DEF RoadCells, Elements
  <2>3. \A s \in UNION Elements(Drawn(kind)) : \E c \in RoadCells : s = Stroke(c)
    BY <2>1, <2>2 DEF Elements
  <2>4. \A i, j \in DOMAIN roads : i # j =>
          \A c \in SegmentCells(roads[i]), d \in SegmentCells(roads[j]) : c.click # d.click
    BY DEF ClicksApart
  <2>5. \A i, j \in DOMAIN roads : i # j => Drawn(kind)[i] \intersect Drawn(kind)[j] = {}
    BY <2>1, <2>4, StrokeFacts
  <2>6. \A c \in AreaCells : Stroke(c) \notin UNION Elements(Drawn(kind))
    BY <2>3, StrokeFacts DEF ClicksApart
  <2> QED
    BY <2>1, <2>3, <2>5, <2>6
<1> QED
  BY <1>2, <1>3, <1>4 DEF Kinds

LEMMA CreateKeepsOwnership ==
  ASSUME StoreTypes, ServerTypes, RequestTypes, Meant, ClicksApart, Ownership, CellsKept,
         NEW kind \in Kinds, SavesNew(kind), saving = None,
         UNCHANGED <<objects, shown, reads, lost, lastId>>
  PROVE  Ownership'
<1> USE DEF Ownership
<1> DEFINE d == Drawn(kind)
<1>1. /\ Drawn(kind) # <<>> /\ saving'.op = "create" /\ saving'.kind = kind
      /\ saving'.st = "sent" /\ saving'.drawn = Drawn(kind)
  BY DEF SavesNew
<1>2. /\ \A s \in UNION Elements(d) : \E c \in AreaCells \union RoadCells : s = Stroke(c)
      /\ \A i, j \in DOMAIN d : i # j => d[i] \intersect d[j] = {}
      /\ kind = "path" => \A c \in AreaCells : Stroke(c) \notin UNION Elements(d)
  BY <1>1, DrawnStrokes
<1> HIDE DEF d
<1>3. Updated = {} /\ Updated' = {} /\ Created = {} /\ Created' = {}
  BY <1>1 DEF Updated, Created, Creating
<1>4. Copies' = Copies
  BY <1>3 DEF Copies
<1>5. Sent' = UNION Elements(d)
  BY <1>1 DEF Sent, d
<1>6. Owned' /\ Undelivered' /\ UpdateMeant'
  BY <1>3, <1>4 DEF CellsKept, Owned, Undelivered, UpdateMeant
<1>7. \A s \in Sent' : s.for = None /\ s.click <= clicks
  BY <1>2, <1>5, StrokeFacts DEF Meant
<1>8. \A o \in Copies : o.drawn \intersect Sent' # {} => o.id \in lost
  BY <1>2, <1>3, <1>5 DEF Undelivered
<1>9. CreationMeant'
  BY <1>1, <1>2, <1>4, <1>5, <1>7, <1>8 DEF CreationMeant, CellsKept, d
<1> QED
  BY <1>6, <1>9

LEMMA OwnershipKept ==
  ASSUME StoreTypes, ServerTypes, RequestTypes, StrokeInv,
         Operator \/ Network \/ PointerUp \/ UNCHANGED vars
  PROVE  Ownership'
<1> USE DEF StrokeInv
<1>0. Ownership /\ CellsKept
  BY StepKeepsCells DEF Ownership
<1>1. ASSUME OwnersKept PROVE Ownership'
  BY <1>0, <1>1, RestKept DEF Ownership
<1>2. CASE PointerUp \/ UNCHANGED vars
  BY <1>1, <1>2, ObjectsUnchanged DEF PointerUp, vars, serverVars
<1>3. CASE Operator
  <2>1. CASE Open \/ Close \/ BeginPathGeometryEdit \/ Undo \/ Clear \/ SaveGrid
             \/ (\E m \in Kinds \union {"select"} : SetMode(m))
             \/ (\E o \in shown \union objects : Select(o)) \/ \E c \in Configs : Preview(c)
    BY <1>1, <2>1, ObjectsUnchanged
       DEF Open, Close, BeginPathGeometryEdit, Undo, Clear, SaveGrid, SetMode, Select, Preview,
           serverVars
  <2>2. ASSUME NEW kind \in Kinds, Delete(kind) PROVE Ownership'
    <3>1. /\ saving = None /\ saving'.op = "delete"
          /\ UNCHANGED <<objects, shown, reads, lost, lastId>>
      BY <2>2 DEF Delete, serverVars
    <3>2. ~Creating /\ ~Creating' /\ Updated = {} /\ Updated' = {}
      BY <3>1 DEF Creating, Updated
    <3>3. OwnersKept
      BY <3>1, <3>2 DEF OwnersKept, Copies
    <3> QED
      BY <1>1, <3>3
  <2>3. ASSUME NEW kind \in Kinds, Save(kind) PROVE Ownership'
    <3>1. saving = None /\ UNCHANGED <<objects, shown, reads, lost, lastId>>
      BY <2>3 DEF Save, serverVars
    <3> QED
      BY <1>0, <2>3, <3>1, SaveCases, UpdateKeepsOwnership, CreateKeepsOwnership
  <2> QED
    BY <1>3, <2>1, <2>2, <2>3 DEF Operator
<1>4. CASE Network
  <2>1. CASE Commit
    BY <1>0, <2>1, CommitKeepsOwnership
  <2>2. CASE SaveAnswered
    BY <1>0, <2>2, AnswerKeepsOwnership
  <2>3. CASE SaveFails
    BY <1>0, <2>3, FailureKeepsOwnership
  <2>4. CASE CommitGrid \/ GridSaved \/ GridSaveFails \/ OthersSaveGrid
    BY <1>1, <2>4, ObjectsUnchanged
       DEF CommitGrid, GridSaved, GridSaveFails, OthersSaveGrid, serverVars
  <2>5. CASE (\E to \in Readers : ReadScene(to)) \/ \E r \in reads : Refreshed(r) \/ RefreshFails(r)
    BY <1>1, <1>4, <2>5, ReadKeepsOwners
  <2> QED
    BY <1>4, <2>1, <2>2, <2>3, <2>4, <2>5 DEF Network
<1> QED
  BY <1>2, <1>3, <1>4

(***************************************************************************)
(* The pointer draws for the road that is edited, or for something new.    *)
(***************************************************************************)
\* Where a press adds its cell.
Adds(cell) ==
  /\ AreaCells' \subseteq AreaCells \union {cell}
  /\ RoadCells' \subseteq RoadCells \union {cell}
  /\ EndCells' \subseteq EndCells \union {cell}
  /\ draft'.editingPathId = draft.editingPathId

LEMMA PressAdds ==
  ASSUME StoreTypes, Meant, NEW cell, Presses(cell)
  PROVE  /\ Adds(cell) /\ (drag' # None => mode' # "select")
         /\ \/ /\ draft.editingPathId # None /\ AreaCells' = AreaCells /\ RoadCells' = RoadCells
               /\ draft'.roadSegments = draft.roadSegments
               /\ draft'.pendingRoadStart = draft.pendingRoadStart
            \/ /\ draft.editingPathId = None /\ selectedEntity' = None /\ EndCells' = EndCells
               /\ \/ /\ RoadCells' = RoadCells /\ draft'.roadSegments = draft.roadSegments
                     /\ draft'.pendingRoadStart = draft.pendingRoadStart
                  \/ AreaCells' = AreaCells /\ (DrawsStart(cell) \/ DrawsSegment(cell))
<1>0. /\ draft.pathCells \in Seq(ClickedCell) /\ Len(draft.pathCells) <= 2
      /\ draft.roadSegments \in Seq(ClickedCell \X ClickedCell)
      /\ draft.regionSelections \in Seq(Selections) /\ draft \in Drafts
      /\ draft.pendingRoadStart \in ClickedCell \union {None}
  BY DEF StoreTypes, Drafts
<1>1. /\ cell \in ClickedCell /\ cell # None /\ mode # "select" /\ mode' = mode
      /\ draft.editingPathId # None => mode = "path"
  BY DEF Presses, Meant
<1>2. drag' # None => mode' # "select"
  BY <1>1
<1>3. CASE mode = "point" /\ selectedEntity' = None /\ DrawsPoint(cell)
  <2>1. /\ draft'.pointCell = cell /\ draft'.regionSelections = draft.regionSelections
        /\ draft'.roadSegments = draft.roadSegments
        /\ draft'.pendingRoadStart = draft.pendingRoadStart
        /\ draft'.pathCells = draft.pathCells /\ drag' = drag
        /\ draft'.editingPathId = draft.editingPathId
    BY <1>0, <1>3 DEF DrawsPoint, Drafts
  <2>2. /\ RoadCells' = RoadCells /\ EndCells' = EndCells
        /\ AreaCells' \subseteq AreaCells \union {cell}
    BY <2>1 DEF RoadCells, EndCells, AreaCells
  <2> QED
    BY <1>1, <1>2, <1>3, <2>1, <2>2 DEF Adds
<1>4. CASE mode = "path" /\ selectedEntity' = None /\ DrawsStart(cell)
  <2>1. /\ draft'.pointCell = draft.pointCell /\ draft'.regionSelections = draft.regionSelections
        /\ draft'.roadSegments = draft.roadSegments /\ draft'.pendingRoadStart = cell
        /\ draft'.pathCells = draft.pathCells /\ drag' = drag
        /\ draft'.editingPathId = draft.editingPathId /\ draft.editingPathId = None
    BY <1>0, <1>4 DEF DrawsStart, Drafts
  <2>2. /\ AreaCells' = AreaCells /\ EndCells' = EndCells
        /\ RoadCells' \subseteq RoadCells \union {cell}
    BY <2>1 DEF RoadCells, EndCells, AreaCells
  <2> QED
    BY <1>2, <1>4, <2>1, <2>2 DEF Adds
<1>5. CASE mode = "path" /\ selectedEntity' = None /\ DrawsSegment(cell)
  <2> DEFINE pair == <<draft.pendingRoadStart, cell>>
  <2>1. /\ draft'.pointCell = draft.pointCell /\ draft'.regionSelections = draft.regionSelections
        /\ draft'.roadSegments = Append(draft.roadSegments, pair)
        /\ draft'.pendingRoadStart = None /\ draft.pendingRoadStart # None
        /\ draft'.pathCells = draft.pathCells /\ drag' = drag
        /\ draft'.editingPathId = draft.editingPathId /\ draft.editingPathId = None
    BY <1>0, <1>5 DEF DrawsSegment, Drafts
  <2>2. AreaCells' = AreaCells /\ EndCells' = EndCells
    BY <2>1 DEF EndCells, AreaCells
  <2>3. /\ pair \in ClickedCell \X ClickedCell
        /\ SegmentCells(pair) = {draft.pendingRoadStart, cell}
    BY <1>0, <1>1, <2>1 DEF SegmentCells
  <2> HIDE DEF pair
  <2>4. Elements(draft'.roadSegments) = Elements(draft.roadSegments) \union {pair}
    BY <1>0, <2>1, <2>3, AppendElements
  <2>5. RoadCells' \subseteq RoadCells \union {cell}
    BY <2>1, <2>3, <2>4 DEF RoadCells
  <2> QED
    BY <1>2, <1>5, <2>1, <2>2, <2>5 DEF Adds
<1>6. CASE mode = "path" /\ DrawsEnd(cell)
  <2>1. /\ draft'.pointCell = draft.pointCell /\ draft'.regionSelections = draft.regionSelections
        /\ draft'.roadSegments = draft.roadSegments
        /\ draft'.pendingRoadStart = draft.pendingRoadStart
        /\ draft'.pathCells = Endpoints(draft.pathCells, cell) /\ drag' = drag
        /\ draft'.editingPathId = draft.editingPathId /\ draft.editingPathId # None
    BY <1>0, <1>6 DEF DrawsEnd, Drafts
  <2>2. AreaCells' = AreaCells /\ RoadCells' = RoadCells
    BY <2>1 DEF RoadCells, AreaCells
  <2>3. EndCells' \subseteq EndCells \union {cell}
    BY <1>0, <1>1, <2>1, EndpointsTyped DEF EndCells
  <2> QED
    BY <1>2, <2>1, <2>2, <2>3 DEF Adds
<1>7. CASE mode = "region" /\ selectedEntity' = None /\ DrawsRegion(cell)
  <2> DEFINE r == Record(drag', cell)
  <2>1. drag'.start = cell /\ r \in Selections /\ r.start = cell
    BY <1>7, DragTyped
  <2>2. /\ draft'.pathCells = draft.pathCells /\ draft'.roadSegments = draft.roadSegments
        /\ draft'.regionSelections = Append(draft.regionSelections, r)
        /\ draft'.pointCell = draft.pointCell
        /\ draft'.pendingRoadStart = draft.pendingRoadStart
        /\ draft'.editingPathId = draft.editingPathId
    BY <1>0, <1>7 DEF DrawsRegion, Drafts
  <2> HIDE DEF r
  <2>3. Elements(draft'.regionSelections) = Elements(draft.regionSelections) \union {r}
    BY <1>0, <2>1, <2>2, AppendElements
  <2>4. RoadCells' = RoadCells /\ EndCells' = EndCells
    BY <2>2 DEF RoadCells, EndCells
  <2>5. AreaCells' \subseteq AreaCells \union {cell}
    BY <2>1, <2>2, <2>3 DEF AreaCells
  <2> QED
    BY <1>1, <1>2, <1>7, <2>2, <2>4, <2>5 DEF Adds
<1> QED
  BY <1>3, <1>4, <1>5, <1>6, <1>7 DEF Presses

LEMMA SentTyped ==
  ASSUME RequestTypes, saving # None
  PROVE  \A s \in Sent : s.click \in Nat
<1>1. saving.drawn \in Seq(StrokeSets)
  BY DEF RequestTypes, Requests
<1>2. \A S \in StrokeSets : \A s \in S : s.click \in Nat
  <2>1. \A n \in 1..MaxClicks : n \in Nat
    BY EditorAssumption
  <2> QED
    BY <2>1 DEF StrokeSets
<1>3. Elements(saving.drawn) \in SUBSET StrokeSets
  BY <1>1, ElementsTyped
<1> QED
  BY <1>2, <1>3 DEF Sent

LEMMA PressKeepsStrokes ==
  ASSUME StoreTypes, ServerTypes, RequestTypes, StrokeInv, NEW cell, Presses(cell)
  PROVE  Meant' /\ ClicksApart' /\ Ownership'
<1> USE DEF StrokeInv
<1>1. /\ clicks' = clicks + 1 /\ clicks \in Nat /\ cell.click = clicks + 1
      /\ cell.for = draft.editingPathId /\ mode' = mode /\ cell # None
      /\ UNCHANGED <<objects, shown, reads, saving, lastId, lost>>
  BY EditorAssumption DEF Presses, ServerTypes, serverVars
<1>2. /\ AreaCells \in SUBSET ClickedCell /\ RoadCells \in SUBSET ClickedCell
      /\ EndCells \in SUBSET ClickedCell
      /\ \A c \in ClickedCell : c.click \in Nat
  <2>1. \A n \in 1..MaxClicks : n \in Nat
    BY EditorAssumption
  <2> QED
    BY <2>1, CellsTyped DEF ClickedCell
<1>3. /\ \A c \in AreaCells \union RoadCells : c.click < cell.click /\ c.for = None
      /\ \A c \in EndCells : c.click < cell.click /\ c.for = draft.editingPathId /\ c.for # None
  BY <1>1, <1>2 DEF Meant
<1>4. \A o \in Copies : \A s \in o.drawn : s.click < cell.click /\ s.click <= clicks'
  BY <1>1, CopiesTyped DEF Owned
<1>5. /\ Adds(cell) /\ (drag' # None => mode' # "select")
      /\ \/ /\ draft.editingPathId # None /\ AreaCells' = AreaCells /\ RoadCells' = RoadCells
            /\ draft'.roadSegments = draft.roadSegments
            /\ draft'.pendingRoadStart = draft.pendingRoadStart
         \/ /\ draft.editingPathId = None /\ selectedEntity' = None /\ EndCells' = EndCells
            /\ \/ /\ RoadCells' = RoadCells /\ draft'.roadSegments = draft.roadSegments
                  /\ draft'.pendingRoadStart = draft.pendingRoadStart
               \/ AreaCells' = AreaCells /\ (DrawsStart(cell) \/ DrawsSegment(cell))
  BY PressAdds
<1>6. /\ Copies' = Copies /\ Updated' = Updated /\ Created' = Created
      /\ (Creating' <=> Creating) /\ Sent' = Sent
  BY <1>1 DEF Copies, Updated, Created, Creating, Sent
<1>7. Meant'
  <2>1. CASE draft.editingPathId # None
    <3>1. AreaCells' = {} /\ RoadCells' = {}
      BY <1>5, <2>1 DEF Meant
    <3>2. \A c \in EndCells' : c.click <= clicks' /\ c.for = draft'.editingPathId /\ c.for # None
      BY <1>1, <1>2, <1>3, <1>5, <2>1 DEF Adds
    <3> QED
      BY <1>1, <1>5, <3>1, <3>2 DEF Meant, Adds
  <2>2. CASE draft.editingPathId = None
    <3>1. EndCells' = {}
      BY <1>3, <1>5, <2>2
    <3>2. \A c \in AreaCells' \union RoadCells' : c.click <= clicks' /\ c.for = None
      BY <1>1, <1>2, <1>3, <1>5, <2>2 DEF Adds
    <3> QED
      BY <1>1, <1>5, <2>2, <3>1, <3>2 DEF Meant, Adds
  <2> QED
    BY <2>1, <2>2
<1>8. ClicksApart'
  <2>1. \A c \in AreaCells', d \in RoadCells' : c.click # d.click
    BY <1>1, <1>2, <1>3, <1>5 DEF ClicksApart, Adds
  <2>2. CASE /\ draft'.roadSegments = draft.roadSegments
             /\ draft'.pendingRoadStart = draft.pendingRoadStart
    BY <2>1, <2>2 DEF ClicksApart
  <2>3. CASE DrawsStart(cell)
    <3>1. draft'.roadSegments = draft.roadSegments /\ draft'.pendingRoadStart = cell
      BY <2>3 DEF DrawsStart, StoreTypes, Drafts
    <3>2. \A ends \in Elements(draft.roadSegments) : \A c \in SegmentCells(ends) : c \in RoadCells
      BY DEF RoadCells
    <3>3. \A ends \in Elements(draft.roadSegments) : \A c \in SegmentCells(ends) :
            c.click # cell.click
      BY <1>1, <1>2, <1>3, <3>2
    <3> QED
      BY <2>1, <3>1, <3>3 DEF ClicksApart
  <2>4. CASE DrawsSegment(cell)
    <3> DEFINE old == draft.roadSegments  first == draft.pendingRoadStart
               pair == <<first, cell>>
    <3>1. /\ draft'.roadSegments = Append(old, pair) /\ draft'.pendingRoadStart = None
          /\ first # None /\ old \in Seq(ClickedCell \X ClickedCell) /\ first \in ClickedCell
      BY <2>4 DEF DrawsSegment, StoreTypes, Drafts
    <3>2. pair \in ClickedCell \X ClickedCell /\ SegmentCells(pair) = {first, cell}
      BY <3>1 DEF SegmentCells, Presses
    <3> HIDE DEF pair
    <3>3. /\ DOMAIN draft'.roadSegments = 1..(Len(old) + 1) /\ Len(old) \in Nat
          /\ \A i \in 1..Len(old) : draft'.roadSegments[i] = old[i]
          /\ draft'.roadSegments[Len(old) + 1] = pair
          /\ DOMAIN old = 1..Len(old)
      BY <3>1, <3>2, AppendElements
    <3>4. \A i \in DOMAIN old : \A c \in SegmentCells(old[i]) : c \in RoadCells
      BY DEF RoadCells, Elements
    <3>5. \A i \in DOMAIN old : \A c \in SegmentCells(old[i]) :
            c.click # first.click /\ c.click # cell.click
      <4>1. \A i \in DOMAIN old : \A c \in SegmentCells(old[i]) : c.click # first.click
        BY <3>1 DEF ClicksApart, Elements
      <4> QED
        BY <1>1, <1>2, <1>3, <3>4, <4>1
    <3> DEFINE n == Len(old)
    <3>6. n \in Nat /\ DOMAIN old = 1..n
      BY <3>3
    <3>7. \A i, j \in 1..(n + 1) : i # j =>
            \A c \in SegmentCells(draft'.roadSegments[i]),
               d \in SegmentCells(draft'.roadSegments[j]) : c.click # d.click
      <4> SUFFICES ASSUME NEW i \in 1..(n + 1), NEW j \in 1..(n + 1), i # j,
                          NEW c \in SegmentCells(draft'.roadSegments[i]),
                          NEW d \in SegmentCells(draft'.roadSegments[j])
                   PROVE  c.click # d.click
        OBVIOUS
      <4>1. CASE i \in 1..n /\ j \in 1..n
        BY <3>3, <4>1 DEF ClicksApart
      <4>2. CASE i = n + 1
        <5>1. j \in 1..n
          BY <3>6, <4>2
        <5> QED
          BY <3>2, <3>3, <3>5, <4>2, <5>1
      <4>3. CASE j = n + 1
        <5>1. i \in 1..n
          BY <3>6, <4>3
        <5> QED
          BY <3>2, <3>3, <3>5, <4>3, <5>1
      <4> QED
        BY <3>6, <4>1, <4>2, <4>3
    <3> QED
      BY <2>1, <3>1, <3>3, <3>7 DEF ClicksApart
  <2> QED
    BY <1>5, <2>2, <2>3, <2>4
<1>9. Ownership'
  <2>1. Owned'
    BY <1>1, <1>4, <1>6 DEF Owned
  <2>2. \A o \in Copies : Stroke(cell) \notin o.drawn
    BY <1>1, <1>4, StrokeFacts
  <2>3. \A c \in AreaCells' \union RoadCells' : c = cell \/ c \in AreaCells \union RoadCells
    BY <1>5 DEF Adds
  <2>4. Undelivered'
    BY <1>1, <1>6, <2>2, <2>3 DEF Undelivered
  <2>5. UpdateMeant'
    BY <1>6, <2>2, <2>3 DEF UpdateMeant, Copies
  <2>6. CreationMeant'
    <3> SUFFICES ASSUME Creating PROVE CreationMeant'
      BY <1>6 DEF CreationMeant
    <3>1. /\ \A s \in Sent : s.for = None /\ s.click <= clicks
          /\ \A i, j \in DOMAIN saving.drawn :
               i # j => saving.drawn[i] \intersect saving.drawn[j] = {}
          /\ saving.kind = "path" => \A c \in AreaCells : Stroke(c) \notin Sent
          /\ saving.st = "sent" => \A o \in Copies : o.drawn \intersect Sent # {} => o.id \in lost
      BY DEF CreationMeant
    <3>2. \A s \in Sent : s.click \in Nat
      BY SentTyped DEF Creating
    <3>3. \A s \in Sent : s.click <= clicks' /\ s.click < cell.click
      BY <1>1, <3>1, <3>2
    <3>4. Stroke(cell) \notin Sent
      BY <1>1, <3>2, <3>3, StrokeFacts
    <3>5. saving.kind = "path" => \A c \in AreaCells' : Stroke(c) \notin Sent
      BY <1>5, <3>1, <3>4 DEF Adds
    <3> QED
      BY <1>1, <1>6, <3>1, <3>3, <3>5 DEF CreationMeant
  <2> QED
    BY <2>1, <2>4, <2>5, <2>6 DEF Ownership
<1> QED
  BY <1>7, <1>8, <1>9

LEMMA MoveKeepsStrokes ==
  ASSUME StoreTypes, StrokeInv, NEW cell, Moves(cell)
  PROVE  Meant' /\ ClicksApart' /\ Ownership'
<1> USE DEF StrokeInv
<1>1. /\ drag # None /\ drag' = drag /\ Record(drag, cell).start = drag.start
      /\ Elements(draft'.regionSelections) \subseteq
           Elements(draft.regionSelections) \union {Record(drag, cell)}
      /\ draft'.pointCell = draft.pointCell
      /\ draft'.pendingRoadStart = draft.pendingRoadStart
      /\ draft'.roadSegments = draft.roadSegments /\ draft'.pathCells = draft.pathCells
      /\ draft'.editingPathId = draft.editingPathId
      /\ selectedEntity' = None /\ mode' = mode /\ clicks' = clicks
      /\ UNCHANGED <<objects, shown, reads, saving, lastId, lost>>
  BY MoveFacts DEF Moves, serverVars, counts
<1>2. AreaCells' \subseteq AreaCells
  BY <1>1 DEF AreaCells
<1>3. RoadCells' = RoadCells /\ EndCells' = EndCells
  BY <1>1 DEF RoadCells, EndCells
<1>4. CellsKept
  BY <1>1, <1>2, <1>3 DEF CellsKept, Prefix
<1>5. SelectionKept
  BY <1>1 DEF SelectionKept, Meant
<1>6. OwnersKept
  BY <1>1, ObjectsUnchanged
<1> QED
  BY <1>4, <1>5, <1>6, ClicksStayApart, MeantBy, RestKept DEF Ownership

LEMMA StrokeInvKept ==
  ASSUME StoreTypes, ServerTypes, RequestTypes, StrokeInv, [Next]_vars
  PROVE  StrokeInv'
<1>1. Refreshing'
  BY RefreshingKept DEF StrokeInv
<1>2. Meant' /\ ClicksApart' /\ Ownership'
  <2>1. CASE \E cell : Presses(cell)
    BY <2>1, PressKeepsStrokes
  <2>2. CASE \E cell : Moves(cell)
    BY <2>2, MoveKeepsStrokes
  <2>3. CASE Operator \/ Network \/ PointerUp \/ UNCHANGED vars
    <3>1. CellsKept /\ SelectionKept
      BY <2>3, StepKeepsCells, StepKeepsSelection DEF StrokeInv
    <3> QED
      BY <2>3, <3>1, ClicksStayApart, MeantBy, OwnershipKept DEF StrokeInv
  <2> QED
    BY <2>1, <2>2, <2>3, StepCases
<1> QED
  BY <1>1, <1>2 DEF StrokeInv, Ownership

LEMMA EditorStep == EditorInv /\ [Next]_vars => EditorInv'
BY StoreTypesKept, ServerTypesKept, RequestTypesKept, RoadEndsKept, OnLatticeKept, HeightsKept,
   StrokeInvKept
   DEF EditorInv

LEMMA EditorInvAlways == Spec => []EditorInv
BY InitInv, EditorStep, PTL DEF Spec

(***************************************************************************)
(* What the panel sends and what the server stores.                        *)
(***************************************************************************)
\* What is drawn is the cells above.
LEMMA BoardCells ==
  ASSUME StoreTypes
  PROVE  Board \subseteq AreaCells \union RoadCells \union EndCells
<1>1. Elements(draft.roadSegments) \in SUBSET (ClickedCell \X ClickedCell)
  BY ElementsTyped DEF StoreTypes, Drafts
<1>2. \A ends \in Elements(draft.roadSegments) : Elements(ends) = SegmentCells(ends)
  BY <1>1, PairElements
<1>3. UNION {Elements(s) : s \in Elements(draft.roadSegments)} \subseteq RoadCells
  BY <1>2 DEF RoadCells
<1> QED
  BY <1>3 DEF Board, AreaCells, RoadCells, EndCells

\* A request begins with the button.
LEMMA RequestBegins ==
  ASSUME [Next]_vars, StoreTypes, ServerTypes, saving = None, saving' # None
  PROVE  \E kind \in Kinds : Save(kind) \/ Delete(kind)
<1>1. CASE \E cell : Presses(cell) \/ Moves(cell)
  BY <1>1 DEF Presses, Moves
<1>2. CASE PointerUp \/ UNCHANGED vars
  BY <1>2 DEF PointerUp, vars
<1>3. CASE Operator
  BY <1>3 DEF Operator, Open, Close, BeginPathGeometryEdit, Undo, Clear, SaveGrid, SetMode,
              Select, Preview
<1>4. CASE Network
  BY <1>4 DEF Network, Commit, SaveAnswered, SaveFails, CommitGrid, GridSaved, GridSaveFails,
              OthersSaveGrid, ReadScene, Refreshed, RefreshFails
<1> QED
  BY <1>1, <1>2, <1>3, <1>4, StepCases

LEMMA SentMeant ==
  ASSUME EditorInv, [Next]_vars
  PROVE  SentAsMeant
<1> USE DEF EditorInv, StrokeInv
<1> SUFFICES ASSUME saving = None, saving' # None,
                    NEW i \in DOMAIN saving'.drawn, NEW s \in saving'.drawn[i]
             PROVE  s.for = saving'.id \/ \E o \in shown : o.id = saving'.id /\ s \in o.drawn
  BY DEF SentAsMeant
<1>1. PICK kind \in Kinds : Save(kind) \/ Delete(kind)
  BY RequestBegins
<1>2. CASE Delete(kind)
  <2>1. DOMAIN saving'.drawn = {}
    BY <1>2 DEF Delete
  <2> QED
    BY <2>1
<1>3. CASE SavesUpdate(kind)
  <2> DEFINE x == IF kind = "path" /\ draft.pathCells # <<>>
                    THEN Strokes(EndCells) ELSE Selected(kind).drawn
  <2>1. saving'.drawn = <<x>> /\ saving'.id = Selected(kind).id
    BY <1>3 DEF SavesUpdate
  <2>2. s \in x
    <3> HIDE DEF x
    <3>1. DOMAIN <<x>> = {1} /\ <<x>>[1] = x
      OBVIOUS
    <3> QED
      BY <2>1, <3>1
  <2>3. /\ Selected(kind) \in shown
        /\ kind = "path" /\ draft.editingPathId # None => Selected(kind).id = draft.editingPathId
    BY <1>3, SelectedFacts DEF SavesUpdate
  <2>4. CASE ~(kind = "path" /\ draft.pathCells # <<>>)
    BY <2>1, <2>2, <2>3, <2>4
  <2>5. CASE kind = "path" /\ draft.pathCells # <<>>
    <3>1. PICK c \in EndCells : s = Stroke(c)
      BY <2>2, <2>5, StrokeFacts
    <3>2. s.for = draft.editingPathId /\ draft.editingPathId # None
      BY <3>1, StrokeFacts DEF Meant
    <3> QED
      BY <2>1, <2>3, <2>5, <3>2
  <2> QED
    BY <2>4, <2>5
<1>4. CASE SavesNew(kind)
  <2>1. saving'.drawn = Drawn(kind) /\ saving'.id = None /\ Drawn(kind) # <<>>
    BY <1>4 DEF SavesNew
  <2>2. s \in UNION Elements(Drawn(kind))
    BY <2>1 DEF Elements
  <2>3. PICK c \in AreaCells \union RoadCells : s = Stroke(c)
    BY <2>1, <2>2, DrawnStrokes
  <2> QED
    BY <2>1, <2>3, StrokeFacts DEF Meant
<1> QED
  BY <1>1, <1>2, <1>3, <1>4, SaveCases

\* An object of the server is changed by a commit.
LEMMA ObjectsChange ==
  ASSUME [Next]_vars, StoreTypes, ServerTypes
  PROVE  objects' = objects \/ Commit
<1>1. CASE \E cell : Presses(cell) \/ Moves(cell)
  BY <1>1 DEF Presses, Moves, serverVars
<1>2. CASE PointerUp \/ UNCHANGED vars
  BY <1>2 DEF PointerUp, vars, serverVars
<1>3. CASE Operator
  BY <1>3 DEF Operator, Open, Close, BeginPathGeometryEdit, Undo, Clear, SaveGrid, SetMode,
              Select, Preview, Save, Delete, serverVars
<1>4. CASE Network
  BY <1>4 DEF Network, SaveAnswered, SaveFails, CommitGrid, GridSaved, GridSaveFails,
              OthersSaveGrid, ReadScene, Refreshed, RefreshFails, serverVars
<1> QED
  BY <1>1, <1>2, <1>3, <1>4, StepCases

LEMMA StoredMeant ==
  ASSUME EditorInv, [Next]_vars
  PROVE  StoredAsMeant
<1> USE DEF EditorInv, StrokeInv
<1> SUFFICES ASSUME NEW o \in objects', NEW s \in o.drawn, \A p \in objects : s \notin p.drawn
             PROVE  IF \E p \in objects : p.id = o.id
                      THEN s.for = o.id \/ (s.for = None /\ s \notin Strokes(Board))
                      ELSE s.for = None
  BY DEF StoredAsMeant
<1>1. o \notin objects
  OBVIOUS
<1>2. Commit
  BY <1>1, ObjectsChange
<1>3. CASE CommitsChange
  <2>1. o \in Updated /\ \E p \in objects : p.id = saving.id
    BY <1>1, <1>3 DEF CommitsChange
  <2>2. o.id = saving.id
    BY <2>1 DEF Updated
  <2>3. s.for \in {None, o.id}
    BY <2>1 DEF Owned, Copies
  <2>4. s.for = None => s \notin Strokes(Board)
    <3> SUFFICES ASSUME s.for = None, s \in Strokes(Board) PROVE FALSE
      OBVIOUS
    <3>1. PICK c \in Board : s = Stroke(c)
      BY StrokeFacts
    <3>2. c \notin EndCells
      BY <3>1, StrokeFacts DEF Meant
    <3>3. c \in AreaCells \union RoadCells
      BY <3>2, BoardCells
    <3> QED
      BY <2>1, <3>1, <3>3 DEF UpdateMeant
  <2> QED
    BY <2>1, <2>2, <2>3, <2>4
<1>4. CASE CommitsNew
  <2>1. PICK i \in DOMAIN saving.drawn : o.id = lastId + i /\ o.drawn = saving.drawn[i]
    BY <1>1, <1>4 DEF CommitsNew, NewObjects
  <2>2. saving \in Requests /\ Creating
    BY <1>4 DEF CommitsNew, RequestTypes, Creating
  <2>3. s \in Sent
    BY <2>1 DEF Sent, Elements
  <2>4. s.for = None
    BY <2>2, <2>3 DEF CreationMeant
  <2>5. i \in Nat /\ i > 0 /\ lastId \in Nat
    <3>1. saving.drawn \in Seq(StrokeSets)
      BY <2>2 DEF Requests
    <3> QED
      BY <2>1, <3>1 DEF ServerTypes
  <2>6. \A p \in objects : p.id <= lastId /\ p.id \in Nat
    BY CopiesTyped DEF Owned, Copies, Ids
  <2>7. ~ \E p \in objects : p.id = o.id
    BY <2>1, <2>5, <2>6
  <2> QED
    BY <2>4, <2>7
<1> QED
  BY <1>2, <1>3, <1>4, CommitCases

(***************************************************************************)
(* The drags of a draft that no other lattice overtook lie on the grid.    *)
(***************************************************************************)
\* A list has no more members than places, and as many only if they differ.
LEMMA ElementsCount ==
  ASSUME NEW S, NEW s \in Seq(S)
  PROVE  IsFiniteSet(Elements(s)) /\ Cardinality(Elements(s)) <= Len(s)
<1>1. DOMAIN s = 1..Len(s) /\ Len(s) \in Nat
  OBVIOUS
<1>2. IsFiniteSet(1..Len(s)) /\ Cardinality(1..Len(s)) = Len(s)
  BY <1>1, FS_Interval
<1>3. s \in Surjection(1..Len(s), Elements(s))
  <2>1. s \in [1..Len(s) -> Elements(s)]
    BY <1>1 DEF Elements
  <2>2. \A e \in Elements(s) : \E i \in 1..Len(s) : s[i] = e
    BY <1>1 DEF Elements
  <2> QED
    BY <2>1, <2>2, Zenon DEF Surjection
<1> QED
  BY <1>2, <1>3, FS_Surjection

LEMMA WholeDrawing ==
  ASSUME EditorInv, Cardinality(WholeDrags) = Len(draft.regionSelections)
  PROVE  Drawing(gridConfig, draft.regionSelections)
<1> DEFINE list == draft.regionSelections
<1>1. list \in Seq(Selections) /\ gridConfig \in Configs
  BY DEF EditorInv, StoreTypes, Drafts
<1>2. WholeDrags \subseteq Elements(list)
  BY DEF WholeDrags
<1>3. \A s \in WholeDrags : /\ On(gridConfig, s.start) /\ On(gridConfig, s.end)
                            /\ Rises(gridConfig, s)
  <2>1. \A s \in WholeDrags : Cells(s.grid) = Cells(gridConfig)
    BY LatticeCells DEF WholeDrags, SameLattice
  <2> QED
    BY <2>1 DEF WholeDrags, EditorInv, OnLattice, Heights, On
<1>4. Cardinality(WholeDrags) = Len(list)
  OBVIOUS
<1> HIDE DEF list
<1>5. IsFiniteSet(Elements(list)) /\ Cardinality(Elements(list)) <= Len(list)
  BY <1>1, ElementsCount
<1>6. WholeDrags = Elements(list)
  <2>1. Cardinality(WholeDrags) <= Cardinality(Elements(list))
    BY <1>2, <1>5, FS_Subset
  <2>2. Cardinality(Elements(list)) \in Nat /\ Len(list) \in Nat
    BY <1>1, <1>5, FS_CardinalityType
  <2>3. Cardinality(WholeDrags) = Cardinality(Elements(list))
    BY <1>4, <1>5, <2>1, <2>2
  <2> QED
    BY <1>2, <1>5, <2>3, FS_Subset
<1>7. \A i \in DOMAIN list : Whole(gridConfig, list[i])
  <2>1. \A i \in DOMAIN list : list[i] \in WholeDrags
    BY <1>6 DEF Elements
  <2> QED
    BY <1>3, <2>1 DEF Whole, OnGrid, On, Rises
<1>8. Grid(gridConfig)
  BY <1>1, GridAssumption DEF Grid, Place
<1>9. \E n \in Nat : DOMAIN list = 1..n
  BY <1>1
<1> QED
  BY <1>7, <1>8, <1>9 DEF Drawing, list

(***************************************************************************)
(* The theorems.                                                           *)
(***************************************************************************)
\* Types; a road has two ends in different cells, however often it is drawn,
\* undone, replaced and overtaken by another grid (appendPathCell,
\* undoLastPathInput, clearPathDraft of mapEditorStore.ts).
THEOREM EditorTyped == Spec => []TypeOK
<1>1. EditorInv => TypeOK
  BY TypesStated DEF EditorInv
<1> QED
  BY <1>1, EditorInvAlways, PTL

\* setGridConfig: whatever grids are previewed, saved by others and read late,
\* the cells drawn are cells of the grid that is displayed.
THEOREM DraftsOnLatticeAlways == Spec => []DraftsOnLattice
<1>1. EditorInv => DraftsOnLattice
  BY LatticeStated DEF EditorInv
<1> QED
  BY <1>1, EditorInvAlways, PTL

\* savePoint, saveRegion, savePath: a stroke becomes part of one object, unless
\* the answer to a creation was lost.
THEOREM SavedOnceAlways == Spec => []SavedOnce
<1>1. EditorInv => SavedOnce
  BY DEF EditorInv, StrokeInv, Owned, Copies, SavedOnce
<1> QED
  BY <1>1, EditorInvAlways, PTL

\* savePath, editPathGeometry and the answers to saves: a request holds what was
\* drawn for its object or what the panel lists of it, and what the server stores
\* was meant for the object it is stored in.
THEOREM StrokesAsMeantAlways == Spec => StrokesAsMeant
<1>1. EditorInv /\ [Next]_vars => [SentAsMeant /\ StoredAsMeant]_vars
  BY SentMeant, StoredMeant
<1> QED
  BY <1>1, EditorInvAlways, PTL DEF Spec, StrokesAsMeant

\* createRegionSelectionUnion: the volumes of a region being drawn are a partition
\* of what was dragged over, on any grid and for any number of drags, as long as
\* no other lattice came while the pointer was down.
THEOREM UnionIsPartitionAlways == Spec => []UnionIsPartition
<1>1. EditorInv => UnionIsPartition
  <2> SUFFICES ASSUME EditorInv, Cardinality(WholeDrags) = Len(draft.regionSelections)
      PROVE /\ IsPartition(UnionVolumes(draft.regionSelections), draft.regionSelections)
            /\ \A v \in UnionVolumes(draft.regionSelections) : Inside(gridConfig, v)
    BY DEF UnionIsPartition
  <2> QED
    BY WholeDrawing, VolumesPartition
<1> QED
  BY <1>1, EditorInvAlways, PTL
=============================================================================
