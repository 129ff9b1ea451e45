------------------------------ MODULE MapEditor ------------------------------
(***************************************************************************)
(* The map editor of the O&M client: its store (mapEditorStore.ts), the    *)
(* panel that saves points, regions, roads and the grid, the pointer over  *)
(* the scene, and the scene configurations that arrive from the server     *)
(* while the operator draws.                                               *)
(*                                                                         *)
(* The layer edited and the height of a new region are chosen with each    *)
(* click, in the range their setters leave; names, colours and the other   *)
(* attributes of an object are left out, an object is what it was drawn    *)
(* from.                                                                   *)
(***************************************************************************)
EXTENDS VoxelGeometry

CONSTANTS
  Configs,      \* bound: grid configurations: origin, extent, mult and style
  FirstConfigs, \* those the project may have at first
  FirstRoads,   \* the number of roads it has then
  None,
  MaxClicks,    \* bound: presses of the pointer over the scene
  MaxDrags,     \* bound: drags of one region draft
  MaxObjects,   \* bound: objects ever saved
  MaxReads,     \* bound: scene configurations on their way
  MaxChanges    \* bound: grids previewed or saved by others, saves and deletions

ASSUME EditorAssumption ==
  /\ FirstConfigs \subseteq Configs /\ FirstRoads \in 0..MaxObjects
  /\ MaxClicks \in Nat /\ MaxDrags \in Nat /\ MaxObjects \in Nat
  /\ MaxReads \in Nat /\ MaxChanges \in Nat

VARIABLES
  isOpen, mode, gridConfig, selectedEntity,  \* the store
  draft,       \* its fields pointCell .. pathCells
  drag,        \* startCell and selectionHeightCells of VoxelGridSelector
  shown,       \* the objects the panel lists
  saving,      \* the request of the object forms under way
  savingGrid,  \* the configuration saveGrid has sent
  reads,       \* answers to getSceneConfig on their way
  objects, serverGrid,   \* the server's map
  lastId,      \* the last id it gave
  lost,        \* ids of objects whose creation was not answered
  clicks, changes  \* counted for their bounds

storeVars  == <<isOpen, mode, gridConfig, selectedEntity, draft>>
serverVars == <<objects, serverGrid, lastId, lost>>
counts     == <<clicks, changes>>
vars == <<isOpen, mode, gridConfig, selectedEntity, draft, drag, shown, saving, savingGrid,
          reads, objects, serverGrid, lastId, lost, clicks, changes>>

Kinds == {"point", "region", "path"}
Ids   == 1..MaxObjects

Counted == changes < MaxChanges /\ changes' = changes + 1

NoDraft == [pointCell |-> None, regionSelections |-> <<>>, roadSegments |-> <<>>,
            pendingRoadStart |-> None, editingPathId |-> None, pathCells |-> <<>>]

Front(s) == IF s = <<>> THEN s ELSE SubSeq(s, 1, Len(s) - 1)
Last(s)  == s[Len(s)]

\* A cell that was clicked: which click it was and the road it was meant for.
Clicked(cell) == [at |-> cell.at, size |-> cell.size, click |-> clicks + 1,
                  for |-> draft.editingPathId]

\* What an object is drawn from.
Strokes(cells) == {[click |-> c.click, for |-> c.for] : c \in cells}
Elements(s)    == {s[i] : i \in DOMAIN s}

Init ==
  /\ gridConfig \in FirstConfigs /\ serverGrid = gridConfig
  /\ isOpen = FALSE /\ mode = "select"
  /\ selectedEntity = None /\ draft = NoDraft /\ drag = None
  /\ shown = {} /\ saving = None /\ savingGrid = None /\ reads = {}
  /\ objects = {[kind |-> "path", id |-> i, drawn |-> {}] : i \in 1..FirstRoads}
  /\ lastId = FirstRoads /\ lost = {} /\ clicks = 0 /\ changes = 0

(***************************************************************************)
(* The store.                                                              *)
(***************************************************************************)
\* Variant: another multiplier leaves the drafts.
LatticeMoved(previous, next) ==
  previous.origin # next.origin \/ previous.extent # next.extent

\* editingLatticeChanged
LatticeChanged(previous, next) ==
  \/ previous.origin # next.origin \/ previous.extent # next.extent
  \/ previous.mult # next.mult

SetGridConfig(config) ==
  /\ gridConfig' = config
  /\ draft' = IF LatticeChanged(gridConfig, config) THEN NoDraft ELSE draft

\* The selector is mounted while the editor is open in a drawing mode; its refs
\* go with it.
Unmounted == drag' = IF mode' = "select" THEN None ELSE drag

\* Variant: the endpoints of a road being replaced stay.
SelectEntityOnly(entity) ==
  /\ selectedEntity' = entity /\ mode' = "select"
  /\ draft' = [NoDraft EXCEPT !.pathCells = draft.pathCells]

SelectEntity(entity) ==
  selectedEntity' = entity /\ mode' = "select" /\ draft' = NoDraft

\* Variant: the segments of a network stay.
ClearReplacement ==
  draft' = [draft EXCEPT !.editingPathId = None, !.pathCells = <<>>]

ClearPathDraft ==
  draft' = [draft EXCEPT !.roadSegments = <<>>, !.pendingRoadStart = None,
                         !.editingPathId = None, !.pathCells = <<>>]

\* setOpen: an opened panel reads the scene.
Open ==
  /\ ~isOpen /\ isOpen' = TRUE
  /\ UNCHANGED <<mode, gridConfig, selectedEntity, draft, drag, shown, saving, savingGrid,
                 reads, serverVars, counts>>

Close ==
  /\ isOpen /\ isOpen' = FALSE
  /\ mode' = "select" /\ draft' = NoDraft /\ selectedEntity' = None /\ Unmounted
  /\ UNCHANGED <<gridConfig, shown, saving, savingGrid, reads, serverVars, counts>>

\* The tools: setMode, or beginRoadNetwork.
SetMode(m) ==
  /\ isOpen
  /\ mode' = m /\ draft' = NoDraft /\ selectedEntity' = None /\ Unmounted
  /\ UNCHANGED <<isOpen, gridConfig, shown, saving, savingGrid, reads, serverVars, counts>>

\* A click on an object, in a list of the panel or in the scene.
Select(o) ==
  /\ isOpen /\ SelectEntity([kind |-> o.kind, id |-> o.id]) /\ Unmounted
  /\ UNCHANGED <<isOpen, gridConfig, shown, saving, savingGrid, reads, serverVars, counts>>

\* previewGridChange
Preview(config) ==
  /\ isOpen /\ Counted
  /\ SetGridConfig(config)
  /\ UNCHANGED <<isOpen, mode, selectedEntity, drag, shown, saving, savingGrid, reads,
                 serverVars, clicks>>

\* The object the panel has a form for.
Selected(kind) ==
  LET id == IF kind = "path" /\ draft.editingPathId # None THEN draft.editingPathId
            ELSE IF selectedEntity # None /\ selectedEntity.kind = kind THEN selectedEntity.id
            ELSE None
  IN IF \E o \in shown : o.kind = kind /\ o.id = id
       THEN CHOOSE o \in shown : o.kind = kind /\ o.id = id ELSE None

\* editPathGeometry
BeginPathGeometryEdit ==
  /\ isOpen /\ saving = None /\ Selected("path") # None
  /\ mode' = "path"
  /\ draft' = [NoDraft EXCEPT !.editingPathId = Selected("path").id]
  /\ selectedEntity' = [kind |-> "path", id |-> Selected("path").id] /\ Unmounted
  /\ UNCHANGED <<isOpen, gridConfig, shown, saving, savingGrid, reads, serverVars, counts>>

(***************************************************************************)
(* The pointer over the scene (VoxelGridSelector).                         *)
(***************************************************************************)
SetPointCell(cell) == draft' = [draft EXCEPT !.pointCell = cell] /\ selectedEntity' = None

AppendRegionSelection(selection) ==
  draft' = [draft EXCEPT !.regionSelections = Append(@, selection)] /\ selectedEntity' = None

UpdateLastRegionSelection(selection) ==
  /\ draft' = [draft EXCEPT !.regionSelections = Append(Front(@), selection)]
  /\ selectedEntity' = None

\* Variant: only the same click is taken for a repetition.
SameClick(c, d) == c.click = d.click

SameCell(c, d) == c.at = d.at

\* The two new ends of a road; a third click begins again.
Endpoints(cells, cell) == IF Len(cells) = 2 THEN <<cell>> ELSE Append(cells, cell)

AppendPathCell(cell) ==
  LET d == draft
      selected == IF d.editingPathId = None THEN None
                  ELSE [kind |-> "path", id |-> d.editingPathId]
      before == IF d.editingPathId = None THEN d.pendingRoadStart
                ELSE IF d.pathCells = <<>> THEN None ELSE Last(d.pathCells)
  IN
  /\ before # None => ~SameCell(before, cell)
  /\ selectedEntity' = selected
  /\ draft' =
       IF d.editingPathId # None
         THEN [d EXCEPT !.pathCells = Endpoints(@, cell)]
       ELSE IF d.pendingRoadStart # None
         THEN [d EXCEPT !.roadSegments = Append(@, <<d.pendingRoadStart, cell>>),
                        !.pendingRoadStart = None]
       ELSE [d EXCEPT !.pendingRoadStart = cell]

\* A drag record; "grid" remembers the configuration it was begun on.
Record(d, end) ==
  [start |-> d.start, end |-> end, grid |-> d.grid,
   maxZ |-> Least(End(gridConfig, Up), d.start.at[Up] + d.height * gridConfig.mult)]

\* Releasing the pointer elsewhere is not seen: a drag may still be under way.
PointerDown(hit, height) ==
  LET cell == Clicked(SnapGridCell(gridConfig, hit))
      d == [start |-> cell, height |-> height, grid |-> gridConfig] IN
  /\ isOpen /\ mode # "select" /\ clicks < MaxClicks
  /\ clicks' = clicks + 1
  /\ \/ mode = "point" /\ SetPointCell(cell) /\ UNCHANGED drag
     \/ mode = "path" /\ AppendPathCell(cell) /\ UNCHANGED drag
     \/ /\ mode = "region" /\ Len(draft.regionSelections) < MaxDrags
        /\ drag' = d /\ AppendRegionSelection(Record(d, cell))
  /\ UNCHANGED <<isOpen, mode, gridConfig, shown, saving, savingGrid, reads, serverVars,
                 changes>>

\* In any drawing mode.
PointerMove(hit) ==
  /\ isOpen /\ mode # "select" /\ drag # None
  /\ UpdateLastRegionSelection(Record(drag, SnapGridCell(gridConfig, hit)))
  /\ UNCHANGED <<isOpen, mode, gridConfig, drag, shown, saving, savingGrid, reads, serverVars,
                 counts>>

PointerUp ==
  /\ drag # None /\ drag' = None
  /\ UNCHANGED <<storeVars, shown, saving, savingGrid, reads, serverVars, counts>>

UndoLastRegionSelection == draft' = [draft EXCEPT !.regionSelections = Front(@)]

UndoLastPathInput ==
  draft' = IF draft.editingPathId # None THEN [draft EXCEPT !.pathCells = Front(@)]
           ELSE IF draft.pendingRoadStart # None THEN [draft EXCEPT !.pendingRoadStart = None]
           ELSE [draft EXCEPT !.roadSegments = Front(@)]

\* The arrow of the panel.
Undo ==
  /\ isOpen
  /\ \/ mode = "region" /\ draft.regionSelections # <<>> /\ UndoLastRegionSelection
     \/ mode = "path" /\ UndoLastPathInput
  /\ UNCHANGED <<isOpen, mode, gridConfig, selectedEntity, drag, shown, saving, savingGrid,
                 reads, serverVars, counts>>

\* The bin beside it.
Clear ==
  /\ isOpen
  /\ \/ mode = "region" /\ draft' = [draft EXCEPT !.regionSelections = <<>>]
     \/ mode = "path" /\ ClearPathDraft
  /\ UNCHANGED <<isOpen, mode, gridConfig, selectedEntity, drag, shown, saving, savingGrid,
                 reads, serverVars, counts>>

(***************************************************************************)
(* Saving and deleting objects: the panel captures what it sends when the  *)
(* button is pressed; the operator goes on while the request is under way. *)
(***************************************************************************)
\* What the draft holds of a kind: one set of strokes for each new object.
Drawn(kind) ==
  CASE kind = "point"  -> IF draft.pointCell = None THEN <<>>
                          ELSE <<Strokes({draft.pointCell})>>
    [] kind = "region" -> IF draft.regionSelections = <<>> THEN <<>>
                          ELSE <<Strokes({s.start : s \in Elements(draft.regionSelections)})>>
    [] kind = "path"   -> [i \in DOMAIN draft.roadSegments |->
                             Strokes(Elements(draft.roadSegments[i]))]

\* savePoint, saveRegion, savePath
Save(kind) ==
  LET o == Selected(kind) IN
  /\ isOpen /\ saving = None /\ Counted
  /\ \/ /\ o # None /\ (kind = "path" => Len(draft.pathCells) # 1)
        /\ saving' = [op |-> "update", kind |-> kind, id |-> o.id, st |-> "sent",
                      drawn |-> <<IF kind = "path" /\ draft.pathCells # <<>>
                                    THEN Strokes(Elements(draft.pathCells)) ELSE o.drawn>>]
     \/ /\ o = None /\ mode = kind /\ Drawn(kind) # <<>>
        /\ saving' = [op |-> "create", kind |-> kind, id |-> None, st |-> "sent",
                      drawn |-> Drawn(kind)]
  /\ UNCHANGED <<storeVars, drag, shown, savingGrid, reads, serverVars, clicks>>

\* deleteSelected, confirmed
Delete(kind) ==
  /\ isOpen /\ saving = None /\ Selected(kind) # None /\ Counted
  /\ saving' = [op |-> "delete", kind |-> kind, id |-> Selected(kind).id, st |-> "sent",
                drawn |-> <<>>]
  /\ UNCHANGED <<storeVars, drag, shown, savingGrid, reads, serverVars, clicks>>

\* The server: a new object has a new id, an unknown one is not found.
Commit ==
  /\ saving # None /\ saving.st = "sent"
  /\ \/ /\ saving.op = "create" /\ lastId + Len(saving.drawn) <= MaxObjects
        /\ objects' = objects \union
             {[kind |-> saving.kind, id |-> lastId + i, drawn |-> saving.drawn[i]] :
                i \in DOMAIN saving.drawn}
        /\ lastId' = lastId + Len(saving.drawn)
        /\ saving' = [saving EXCEPT !.st = "done", !.id = lastId + 1]
     \/ /\ saving.op # "create" /\ \E o \in objects : o.id = saving.id
        /\ objects' = {o \in objects : o.id # saving.id} \union
             (IF saving.op = "delete" THEN {}
              ELSE {[kind |-> saving.kind, id |-> saving.id, drawn |-> saving.drawn[1]]})
        /\ saving' = [saving EXCEPT !.st = "done"]
        /\ UNCHANGED lastId
  /\ UNCHANGED <<storeVars, drag, shown, savingGrid, reads, serverGrid, lost, counts>>

\* The request or its answer is lost, or the server refuses; the draft stays.
SaveFails ==
  /\ saving # None /\ saving.st \in {"sent", "done"}
  /\ saving' = None
  /\ lost' = IF saving.op = "create" /\ saving.st = "done"
               THEN lost \union (saving.id..lastId) ELSE lost
  /\ UNCHANGED <<storeVars, drag, shown, savingGrid, reads, objects, serverGrid, lastId,
                 counts>>

\* The answer, and the refresh that is awaited then.
SaveAnswered ==
  /\ saving # None /\ saving.st = "done"
  /\ saving' = [saving EXCEPT !.st = "refreshing"]
  /\ CASE saving.op = "delete" -> SelectEntity(None)
       [] saving.op = "create" /\ saving.kind = "path" ->
            ClearPathDraft /\ UNCHANGED <<selectedEntity, mode>>
       [] saving.op = "update" /\ saving.kind # "path" ->
            UNCHANGED <<selectedEntity, mode, draft>>
       [] OTHER -> SelectEntity([kind |-> saving.kind, id |-> saving.id])
  /\ UNCHANGED <<isOpen, gridConfig>> /\ Unmounted
  /\ UNCHANGED <<shown, savingGrid, reads, serverVars, counts>>

(***************************************************************************)
(* The grid, which other operators save too.                               *)
(***************************************************************************)
SaveGrid ==
  /\ isOpen /\ savingGrid = None /\ Counted
  /\ savingGrid' = [config |-> gridConfig, st |-> "sent"]
  /\ UNCHANGED <<storeVars, drag, shown, saving, reads, serverVars, clicks>>

CommitGrid ==
  /\ savingGrid # None /\ savingGrid.st = "sent"
  /\ savingGrid' = [savingGrid EXCEPT !.st = "done"] /\ serverGrid' = savingGrid.config
  /\ UNCHANGED <<storeVars, drag, shown, saving, reads, objects, lastId, lost, counts>>

\* setGridConfig(saved), clearDraft
GridSaved ==
  /\ savingGrid # None /\ savingGrid.st = "done"
  /\ savingGrid' = None /\ gridConfig' = savingGrid.config /\ draft' = NoDraft
  /\ UNCHANGED <<isOpen, mode, selectedEntity, drag, shown, saving, reads, serverVars, counts>>

GridSaveFails ==
  /\ savingGrid # None /\ savingGrid' = None
  /\ UNCHANGED <<storeVars, drag, shown, saving, reads, serverVars, counts>>

OthersSaveGrid ==
  /\ Counted
  /\ serverGrid' \in Configs
  /\ UNCHANGED <<storeVars, drag, shown, saving, savingGrid, reads, objects, lastId, lost,
                 clicks>>

(***************************************************************************)
(* getSceneConfig: asked for by an opened panel, after a save, and by the  *)
(* panel and the scene whenever the map changed, by whomever; answered and *)
(* applied in any order.                                                   *)
(***************************************************************************)
Readers == {"panel", "scene", "save"}

ReadScene(to) ==
  /\ to = "panel" => isOpen
  /\ to = "save" => /\ saving # None /\ saving.st = "refreshing"
                    /\ \A r \in reads : r.to # "save"
  /\ Cardinality(reads) < MaxReads
  /\ reads' = reads \union
       {[to |-> to, grid |-> serverGrid, objects |-> IF to = "scene" THEN {} ELSE objects]}
  /\ UNCHANGED <<storeVars, drag, shown, saving, savingGrid, serverVars, counts>>

\* refresh of MapEditorPanel.tsx and of Scene3D.tsx
Refreshed(r) ==
  /\ reads' = reads \ {r}
  /\ shown' = IF r.to = "scene" THEN shown ELSE r.objects
  /\ SetGridConfig(r.grid)
  /\ saving' = IF r.to = "save" THEN None ELSE saving
  /\ UNCHANGED <<isOpen, mode, selectedEntity, drag, savingGrid, serverVars, counts>>

RefreshFails(r) ==
  /\ reads' = reads \ {r}
  /\ saving' = IF r.to = "save" THEN None ELSE saving
  /\ UNCHANGED <<storeVars, drag, shown, savingGrid, serverVars, counts>>

Operator ==
  \/ Open \/ Close \/ BeginPathGeometryEdit \/ Undo \/ Clear \/ SaveGrid
  \/ \E m \in Kinds \union {"select"} : SetMode(m)
  \/ \E o \in shown \union objects : Select(o)
  \/ \E c \in Configs : Preview(c)
  \/ \E kind \in Kinds : Save(kind) \/ Delete(kind)

Pointer ==
  \/ \E hit \in Hits(gridConfig) :
       \/ PointerMove(hit)
       \/ \E height \in 1..CellCount(gridConfig, Up) : PointerDown(hit, height)
  \/ PointerUp

Network ==
  \/ Commit \/ SaveAnswered \/ SaveFails
  \/ CommitGrid \/ GridSaved \/ GridSaveFails \/ OthersSaveGrid
  \/ \E to \in Readers : ReadScene(to)
  \/ \E r \in reads : Refreshed(r) \/ RefreshFails(r)

Next == Operator \/ Pointer \/ Network

Spec == Init /\ [][Next]_vars

(***************************************************************************)
(* Properties.                                                             *)
(***************************************************************************)
StrokeSets == SUBSET [click: 1..MaxClicks, for: Ids \union {None}]
Objects  == [kind: Kinds, id: Ids, drawn: StrokeSets]
Place    == [Axes -> Int]
ClickedCell == [at: Place, size: Place, click: 1..MaxClicks, for: Ids \union {None}]
Drags    == [start: ClickedCell, height: Nat, grid: Configs]
Requests == [op: {"create", "update", "delete"}, kind: Kinds, id: Ids \union {None},
             st: {"sent", "done", "refreshing"}, drawn: Seq(StrokeSets)]

\* The map has a voxel on each axis and a display cell covers one at least
\* (MapGridConfig, the ranges of the panel, getDisplayGridConfig); null is no id,
\* no cell and no request.
ASSUME GridAssumption ==
  /\ \A c \in Configs : /\ c.origin \in Place /\ c.extent \in [Axes -> Nat \ {0}]
                         /\ c.mult \in Nat \ {0}
  /\ None \notin Ids \union ClickedCell \union Requests

\* Types; a road has two ends, in different cells.
TypeOK ==
  /\ isOpen \in BOOLEAN /\ mode \in Kinds \union {"select"}
  /\ gridConfig \in Configs /\ serverGrid \in Configs
  /\ selectedEntity \in [kind: Kinds, id: Ids] \union {None}
  /\ draft.pointCell \in ClickedCell \union {None}
  /\ \A i \in DOMAIN draft.regionSelections :
       draft.regionSelections[i].start \in ClickedCell
  /\ draft.roadSegments \in Seq(ClickedCell \X ClickedCell)
  /\ draft.pendingRoadStart \in ClickedCell \union {None}
  /\ draft.editingPathId \in Ids \union {None}
  /\ draft.pathCells \in Seq(ClickedCell) /\ Len(draft.pathCells) <= 2
  /\ \A ends \in Elements(draft.roadSegments) \union {draft.pathCells} :
       Len(ends) = 2 => ends[1].at # ends[2].at
  /\ drag \in Drags \union {None}
  /\ shown \in SUBSET Objects /\ objects \in SUBSET Objects
  /\ saving \in Requests \union {None}
  /\ clicks \in 0..MaxClicks /\ changes \in 0..MaxChanges
  /\ lastId \in 0..MaxObjects /\ lost \in SUBSET Ids

SameLattice(c, d) == ~LatticeChanged(c, d)

\* The drags no change of the lattice overtook while the pointer was down.
WholeDrags == {s \in Elements(draft.regionSelections) : SameLattice(s.grid, gridConfig)}

\* voxelSelection.ts:223, "one non-overlapping voxel union", and the decision
\* record (line 83): however drags overlap, cross or end in a cut cell, each
\* base voxel of the selection lies in exactly one volume of the region that is
\* saved, no other voxel does, and no volume leaves the map.
UnionIsPartition ==
  LET selections == draft.regionSelections
      volumes == UnionVolumes(selections) IN
  Cardinality(WholeDrags) = Len(selections) =>
    /\ IsPartition(volumes, selections)
    /\ \A v \in volumes : Inside(gridConfig, v)

DraftCells ==
  ({draft.pointCell, draft.pendingRoadStart} \ {None})
    \union Elements(draft.pathCells)
    \union (UNION {Elements(s) : s \in Elements(draft.roadSegments)})
    \union (UNION {{s.start, s.end} : s \in WholeDrags})

\* setGridConfig and the decision record (line 82): a draft never mixes
\* lattices; whatever previews, saved grids and late scene configurations came
\* in between, all its cells are cells of the grid that is displayed.
DraftsOnLattice ==
  \A c \in DraftCells : [at |-> c.at, size |-> c.size] \in Cells(gridConfig)

\* saveRegion, savePath, savePoint: no stroke becomes two objects, although the
\* refresh after a save may fail and the button be pressed again, except when
\* the answer to a creation was lost.
SavedOnce ==
  \A o, p \in objects :
    o.id # p.id /\ o.drawn \intersect p.drawn # {} => {o.id, p.id} \intersect lost # {}

\* Cells that are drawn and may still be saved.
Board ==
  ({draft.pointCell, draft.pendingRoadStart} \ {None}) \union Elements(draft.pathCells)
    \union (UNION {Elements(s) : s \in Elements(draft.roadSegments)})
    \union {s.start : s \in Elements(draft.regionSelections)}
    \union (IF drag = None THEN {} ELSE {drag.start})

\* What a request holds was clicked for the object it names, none if it creates
\* one, or is what the panel lists of that object.
SentAsMeant ==
  saving = None /\ saving' # None =>
    \A i \in DOMAIN saving'.drawn : \A s \in saving'.drawn[i] :
      s.for = saving'.id \/ \E o \in shown : o.id = saving'.id /\ s \in o.drawn

\* What is new on an object of the server was clicked for that road; else it is
\* the geometry of an outdated list, no stroke that is still drawn.
StoredAsMeant ==
  \A o \in objects' : \A s \in o.drawn :
    (\A p \in objects : s \notin p.drawn) =>
      IF \E p \in objects : p.id = o.id
        THEN s.for = o.id \/ (s.for = None /\ s \notin Strokes(Board))
        ELSE s.for = None

\* A stroke goes where it was meant, whatever the operator selects and clears
\* while a request is under way and whichever answers are lost: clicked as the
\* new end of a road it changes that road and no other, and what is drawn as new
\* never replaces what exists.
StrokesAsMeant == [][SentAsMeant /\ StoredAsMeant]_vars
=============================================================================
