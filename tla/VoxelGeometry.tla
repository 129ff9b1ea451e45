---------------------------- MODULE VoxelGeometry ----------------------------
(***************************************************************************)
(* The geometry of the map editor: the display grid, the cell under the    *)
(* pointer, and the union of the drags of a region as cuboids              *)
(* (utils/voxelSelection.ts).                                              *)
(*                                                                         *)
(* Lengths are in base voxels (0.05 m).  A place or a size is a triple,    *)
(* one number per axis, so that what the code writes for x, y and z stands *)
(* here once.                                                              *)
(***************************************************************************)
EXTENDS Integers, Sequences, FiniteSets

Axes == 1..3
Up   == 3

Least(a, b)    == IF a <= b THEN a ELSE b
Greatest(a, b) == IF a >= b THEN a ELSE b

(***************************************************************************)
(* The grid.  A configuration has the origin and the extent of the map and *)
(* the multiplier of the display cells.                                    *)
(***************************************************************************)
End(config, a) == config.origin[a] + config.extent[a]

\* Display cells on an axis; the last one may be cut by the end of the map.
CellCount(config, a) == (config.extent[a] + config.mult - 1) \div config.mult

\* snapGridCell, for the column, row and layer hit.
SnapGridCell(config, hit) ==
  LET from(a) == config.origin[a] + hit[a] * config.mult IN
  [at   |-> [a \in Axes |-> Least(End(config, a), from(a))],
   size |-> [a \in Axes |-> Least(config.mult, End(config, a) - from(a))]]

Hits(config) ==
  {<<x, y, z>> : x \in 0..(CellCount(config, 1) - 1), y \in 0..(CellCount(config, 2) - 1),
                 z \in 0..(CellCount(config, Up) - 1)}

Cells(config) == {SnapGridCell(config, hit) : hit \in Hits(config)}

(***************************************************************************)
(* The voxels of a drag.                                                   *)
(***************************************************************************)
GridIndexScale == 1000000

\* gridIndex: Math.round(value / size * GRID_INDEX_SCALE)
GridIndex(value, size) == (2 * value * GridIndexScale + size) \div (2 * size)

\* selectedAxisCells: from one place to another in steps, the last one cut.
AxisCells(from, to, step) ==
  {[at |-> from + k * step, size |-> Least(step, to - (from + k * step)),
    index |-> GridIndex(from, step) + k * GridIndexScale] :
      k \in 0..((to - from - 1) \div step)}

\* Along the ground a drag spans both of its end cells, upwards the height
\* that was set when it began.
DragFrom(sel, a) == IF a = Up THEN sel.start.at[a] ELSE Least(sel.start.at[a], sel.end.at[a])
DragTo(sel, a) ==
  IF a = Up THEN sel.maxZ
  ELSE Greatest(sel.start.at[a] + sel.start.size[a], sel.end.at[a] + sel.end.size[a])
DragStep(sel, a) ==
  IF a = Up THEN sel.start.size[a] ELSE Greatest(sel.start.size[a], sel.end.size[a])

\* addSelectionVoxels
SelectionVoxels(sel) ==
  LET cells(a) == AxisCells(DragFrom(sel, a), DragTo(sel, a), DragStep(sel, a)) IN
  {[at |-> <<x.at, y.at, z.at>>, size |-> <<x.size, y.size, z.size>>,
    index |-> <<x.index, y.index, z.index>>] : x \in cells(1), y \in cells(2), z \in cells(Up)}

\* Variant: voxels are told apart by their index.
SameIndex(v, w) == v.index = w.index

\* voxelKey: voxels are told apart by their corners.
SameVoxel(v, w) == v.at = w.at /\ v.size = w.size

\* The map under voxelKey: a later drag replaces the voxel of an earlier one,
\* which may have counted its index from another cell size.
Voxels(selections) ==
  LET of == [i \in DOMAIN selections |-> SelectionVoxels(selections[i])] IN
  UNION {{v \in of[i] : \A j \in DOMAIN selections : \A w \in of[j] :
            j > i => ~SameVoxel(v, w)} : i \in DOMAIN selections}

(***************************************************************************)
(* Voxels of one size are joined into cuboids: runs of a row, equal runs   *)
(* of neighbouring rows, equal rectangles of neighbouring layers.          *)
(***************************************************************************)
\* The longest stretches of neighbouring indexes.
Stretches(S) ==
  {s \in S \X S :
     LET a == s[1]  b == s[2] IN
     /\ b >= a /\ (b - a) % GridIndexScale = 0
     /\ \A k \in 0..((b - a) \div GridIndexScale) : a + k * GridIndexScale \in S
     /\ a - GridIndexScale \notin S /\ b + GridIndexScale \notin S}

\* What several neighbouring lines have in common, with the stretch of lines.
Joined(on) ==
  UNION {{<<part, s>> : s \in Stretches({i \in DOMAIN on : part \in on[i]})} :
           part \in UNION {on[i] : i \in DOMAIN on}}

Indexes(V, a) == {v.index[a] : v \in V}

\* rectanglesForVoxels, of a layer
Rectangles(V, z) ==
  LET layer == {v \in V : v.index[Up] = z} IN
  Joined([y \in Indexes(layer, 2) |-> Stretches(Indexes({v \in layer : v.index[2] = y}, 1))])

\* cuboidsForRectangles: <<<<x stretch, y stretch>>, z stretch>>
Cuboids(V) == Joined([z \in Indexes(V, Up) |-> Rectangles(V, z)])

Volume(V, cuboid) ==
  LET corner(n) == CHOOSE v \in V : v.index = <<cuboid[1][1][n], cuboid[1][2][n], cuboid[2][n]>>
  IN [min |-> corner(1).at, max |-> [a \in Axes |-> corner(2).at[a] + corner(2).size[a]]]

\* createRegionSelectionUnion
UnionVolumes(selections) ==
  LET voxels == Voxels(selections)
      group(size) == {v \in voxels : v.size = size} IN
  UNION {{Volume(group(size), c) : c \in Cuboids(group(size))} :
           size \in {v.size : v \in voxels}}

(***************************************************************************)
(* What the union has to be: every base voxel of a drag lies in one volume *)
(* and in one only, and nothing else does.                                 *)
(***************************************************************************)
BaseVoxels(min, max) ==
  (min[1]..(max[1] - 1)) \X (min[2]..(max[2] - 1)) \X (min[Up]..(max[Up] - 1))

DragBase(sel) ==
  BaseVoxels([a \in Axes |-> DragFrom(sel, a)], [a \in Axes |-> DragTo(sel, a)])

Apart(v, w) == \E a \in Axes : v.max[a] <= w.min[a] \/ w.max[a] <= v.min[a]

IsPartition(volumes, selections) ==
  /\ \A v, w \in volumes : v = w \/ Apart(v, w)
  /\ UNION {BaseVoxels(v.min, v.max) : v \in volumes}
       = UNION {DragBase(selections[i]) : i \in DOMAIN selections}

Inside(config, volume) ==
  \A a \in Axes : config.origin[a] <= volume.min[a] /\ volume.max[a] <= End(config, a)
=============================================================================
