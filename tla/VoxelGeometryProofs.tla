-------------------------- MODULE VoxelGeometryProofs --------------------------
(***************************************************************************)
(* Proofs about the geometry of the map editor: for every grid and any     *)
(* number of drags the volumes of a region are a partition of the voxels   *)
(* selected.                                                               *)
(*                                                                         *)
(* Stretches contain each index once, so cuboids contain each voxel of a   *)
(* group once; voxels of one size lie along the lattice or are all cut at  *)
(* the same place, so a box between two of them has nothing else in it;    *)
(* and the cells of drags on one lattice are equal or apart.               *)
(***************************************************************************)
EXTENDS VoxelGeometry, FiniteSetTheorems, TLAPS

\* A set of natural numbers has a least element.
LEMMA Smallest ==
  ASSUME NEW S \in SUBSET Nat, S # {}
  PROVE  \E n \in S : \A m \in S : n <= m
<1> DEFINE Below(n) == {k \in Nat : k < n}
           T == {Below(n) : n \in S}
<1>1. \A n \in S : Below(n) \in FiniteSubsetsOf(Nat)
  <2> SUFFICES ASSUME NEW n \in S PROVE IsFiniteSet(Below(n)) /\ Below(n) \in SUBSET Nat
    BY DEF FiniteSubsetsOf
  <2>1. \A k \in Below(n) : k <= n
    OBVIOUS
  <2>2. Below(n) \in SUBSET Nat
    OBVIOUS
  <2> HIDE DEF Below
  <2> QED
    BY <2>1, <2>2, FS_BoundedSetOfNaturals
<1>2. T \subseteq FiniteSubsetsOf(Nat) /\ T # {}
  BY <1>1
<1>3. PICK x \in T : \A y \in T : ~(<<y, x>> \in StrictSubsetOrdering(Nat))
  <2> HIDE DEF T
  <2> QED
    BY <1>2, FS_StrictSubsetOrderingWellFounded, WFMin
<1>4. PICK n \in S : x = Below(n)
  BY <1>3
<1>5. ASSUME NEW m \in S, m < n PROVE FALSE
  <2>1. Below(m) \subseteq Below(n) /\ m \in Below(n) /\ m \notin Below(m)
    BY <1>5
  <2>2. <<Below(m), Below(n)>> \in StrictSubsetOrdering(Nat)
    <3> Below(m) \in SUBSET Nat /\ Below(n) \in SUBSET Nat
      OBVIOUS
    <3> HIDE DEF Below
    <3> QED
      BY <2>1 DEF StrictSubsetOrdering
  <2> QED
    BY <2>2, <1>3, <1>4
<1> QED
  BY <1>5

(***************************************************************************)
(* Stretches.  The indexes of a stretch are a scale apart.                 *)
(***************************************************************************)
Within(x, s) == \E k \in Nat : x = s[1] + k * GridIndexScale /\ x <= s[2]

LEMMA StretchFacts ==
  ASSUME NEW S \in SUBSET Int, NEW s \in Stretches(S)
  PROVE  /\ s = <<s[1], s[2]>> /\ s[1] \in Int /\ s[2] \in Int
         /\ s[1] - GridIndexScale \notin S
         /\ \E n \in Nat : /\ s[2] = s[1] + n * GridIndexScale
                           /\ \A k \in 0..n : s[1] + k * GridIndexScale \in S
                           /\ s[1] + (n + 1) * GridIndexScale \notin S
<1>1. /\ s \in S \X S /\ s[2] >= s[1] /\ (s[2] - s[1]) % GridIndexScale = 0
      /\ \A k \in 0..((s[2] - s[1]) \div GridIndexScale) : s[1] + k * GridIndexScale \in S
      /\ s[1] - GridIndexScale \notin S /\ s[2] + GridIndexScale \notin S
  BY DEF Stretches
<1>2. s = <<s[1], s[2]>> /\ s[1] \in Int /\ s[2] \in Int
  <2>1. s \in S \X S
    BY <1>1
  <2>2. S \X S \subseteq Int \X Int
    OBVIOUS
  <2>3. \A t \in Int \X Int : t = <<t[1], t[2]>> /\ t[1] \in Int /\ t[2] \in Int
    OBVIOUS
  <2> QED
    BY <2>1, <2>2, <2>3
<1> USE DEF GridIndexScale
<1> DEFINE a == s[1]  b == s[2]  n == (b - a) \div GridIndexScale
<1>3. /\ a \in Int /\ b \in Int /\ b >= a /\ (b - a) % GridIndexScale = 0
      /\ \A k \in 0..n : a + k * GridIndexScale \in S
      /\ a - GridIndexScale \notin S /\ b + GridIndexScale \notin S
  BY SMT, <1>1, <1>2
<1> HIDE DEF a, b
<1>4. n \in Nat /\ b = a + n * GridIndexScale
  BY SMT, <1>3
<1> HIDE DEF n
<1>5. b + GridIndexScale = a + (n + 1) * GridIndexScale
  BY SMT, <1>3, <1>4
<1> QED
  BY SMT, <1>2, <1>3, <1>4, <1>5 DEF a, b

LEMMA StretchIntro ==
  ASSUME NEW S \in SUBSET Int, NEW a \in Int, NEW n \in Nat,
         \A k \in 0..n : a + k * GridIndexScale \in S,
         a - GridIndexScale \notin S, a + (n + 1) * GridIndexScale \notin S
  PROVE  <<a, a + n * GridIndexScale>> \in Stretches(S)
<1> USE DEF GridIndexScale
<1> DEFINE b == a + n * GridIndexScale
<1>1. /\ a \in S /\ b \in S /\ b >= a /\ (b - a) % GridIndexScale = 0
      /\ (b - a) \div GridIndexScale = n /\ b + GridIndexScale \notin S
  <2>1. a + 0 * GridIndexScale \in S /\ a + n * GridIndexScale \in S
    BY SMT
  <2>2. b + GridIndexScale = a + (n + 1) * GridIndexScale
    BY SMT
  <2> QED
    BY SMT, <2>1, <2>2
<1>2. <<a, b>> \in S \X S /\ <<a, b>>[1] = a /\ <<a, b>>[2] = b
  BY SMT, <1>1
<1> HIDE DEF b
<1>3. <<a, b>> \in Stretches(S)
  BY SMT, <1>1, <1>2 DEF Stretches
<1> QED
  BY SMT, <1>3 DEF b

\* Every index of a bounded set lies in one stretch.
LEMMA StretchOf ==
  ASSUME NEW S \in SUBSET Int, NEW lo \in Int, NEW hi \in Int, S \subseteq lo..hi, NEW x \in S
  PROVE  \E s \in Stretches(S) : Within(x, s)
<1>0. x \in Int /\ lo <= x /\ x <= hi
  BY SMT
<1> DEFINE After  == {n \in Nat : x + (n + 1) * GridIndexScale \notin S}
           Before == {n \in Nat : x - (n + 1) * GridIndexScale \notin S}
<1>1. /\ After \in SUBSET Nat /\ Before \in SUBSET Nat
      /\ \A n \in Nat : /\ n \in After <=> x + (n + 1) * GridIndexScale \notin S
                        /\ n \in Before <=> x - (n + 1) * GridIndexScale \notin S
  OBVIOUS
<1> HIDE DEF After, Before
<1> USE DEF GridIndexScale
<1>2. hi - x \in After /\ x - lo \in Before
  <2>1. hi - x \in Nat /\ x + (hi - x + 1) * GridIndexScale > hi
    BY SMT, <1>0
  <2>2. x - lo \in Nat /\ x - (x - lo + 1) * GridIndexScale < lo
    BY SMT, <1>0
  <2>3. x + (hi - x + 1) * GridIndexScale \notin S /\ x - (x - lo + 1) * GridIndexScale \notin S
    BY SMT, <1>0, <2>1, <2>2
  <2> QED
    BY SMT, <1>1, <2>1, <2>2, <2>3
<1>3. PICK p \in After : \A n \in After : p <= n
  BY SMT, <1>1, <1>2, Smallest
<1>4. PICK q \in Before : \A n \in Before : q <= n
  BY SMT, <1>1, <1>2, Smallest
<1>7. p \in Nat /\ q \in Nat /\ x + (p + 1) * GridIndexScale \notin S
      /\ x - (q + 1) * GridIndexScale \notin S
  BY SMT, <1>1, <1>3, <1>4
<1>5. \A k \in 0..p : x + k * GridIndexScale \in S
  <2> SUFFICES ASSUME NEW k \in 0..p PROVE x + k * GridIndexScale \in S
    BY SMT
  <2>1. CASE k = 0
    BY SMT, <1>0, <2>1
  <2>2. CASE k # 0
    <3>1. k - 1 \in Nat /\ k - 1 < p
      BY SMT, <1>7, <2>2
    <3>2. k - 1 \notin After
      BY SMT, <1>3, <1>7, <3>1
    <3>3. x + (k - 1 + 1) * GridIndexScale \in S
      BY SMT, <1>1, <3>1, <3>2
    <3> QED
      BY SMT, <3>3
  <2> QED
    BY SMT, <2>1, <2>2
<1>6. \A k \in 0..q : x - k * GridIndexScale \in S
  <2> SUFFICES ASSUME NEW k \in 0..q PROVE x - k * GridIndexScale \in S
    BY SMT
  <2>1. CASE k = 0
    BY SMT, <1>0, <2>1
  <2>2. CASE k # 0
    <3>1. k - 1 \in Nat /\ k - 1 < q
      BY SMT, <1>7, <2>2
    <3>2. k - 1 \notin Before
      BY SMT, <1>4, <1>7, <3>1
    <3>3. x - (k - 1 + 1) * GridIndexScale \in S
      BY SMT, <1>1, <3>1, <3>2
    <3> QED
      BY SMT, <3>3
  <2> QED
    BY SMT, <2>1, <2>2
<1> DEFINE a == x - q * GridIndexScale
<1>8. a \in Int /\ a - GridIndexScale \notin S /\ a + (p + q + 1) * GridIndexScale \notin S
  <2>1. /\ a - GridIndexScale = x - (q + 1) * GridIndexScale
        /\ a + (p + q + 1) * GridIndexScale = x + (p + 1) * GridIndexScale
    BY SMT, <1>0, <1>7
  <2> QED
    BY SMT, <1>0, <1>7, <2>1
<1>9. \A k \in 0..(p + q) : a + k * GridIndexScale \in S
  <2> SUFFICES ASSUME NEW k \in 0..(p + q) PROVE a + k * GridIndexScale \in S
    BY SMT
  <2>1. CASE k <= q
    <3>1. q - k \in 0..q /\ a + k * GridIndexScale = x - (q - k) * GridIndexScale
      BY SMT, <1>0, <1>7, <2>1
    <3> QED
      BY SMT, <1>6, <3>1
  <2>2. CASE k > q
    <3>1. k - q \in 0..p /\ a + k * GridIndexScale = x + (k - q) * GridIndexScale
      BY SMT, <1>0, <1>7, <2>2
    <3> QED
      BY SMT, <1>5, <3>1
  <2> QED
    BY SMT, <1>7, <2>1, <2>2
<1>10. x = a + q * GridIndexScale /\ x <= a + (p + q) * GridIndexScale
  BY SMT, <1>0, <1>7
<1> HIDE DEF a
<1> DEFINE n == p + q
<1>11. /\ a \in Int /\ n \in Nat /\ x <= a + n * GridIndexScale
       /\ \A k \in 0..n : a + k * GridIndexScale \in S
       /\ a - GridIndexScale \notin S /\ a + (n + 1) * GridIndexScale \notin S
  BY SMT, <1>7, <1>8, <1>9, <1>10
<1> HIDE DEF n
<1> HIDE DEF GridIndexScale
<1>12. <<a, a + n * GridIndexScale>> \in Stretches(S)
  BY SMT, <1>11, StretchIntro
<1>13. Within(x, <<a, a + n * GridIndexScale>>)
  BY SMT, <1>7, <1>10, <1>11 DEF Within
<1> QED
  BY SMT, <1>12, <1>13

LEMMA StretchUnique ==
  ASSUME NEW S \in SUBSET Int, NEW s \in Stretches(S), NEW t \in Stretches(S),
         NEW x, Within(x, s), Within(x, t)
  PROVE  s = t
<1> USE DEF GridIndexScale
<1>1. PICK n \in Nat : /\ s[2] = s[1] + n * GridIndexScale
                       /\ \A k \in 0..n : s[1] + k * GridIndexScale \in S
                       /\ s[1] + (n + 1) * GridIndexScale \notin S
  BY SMT, StretchFacts
<1>2. PICK p \in Nat : /\ t[2] = t[1] + p * GridIndexScale
                       /\ \A k \in 0..p : t[1] + k * GridIndexScale \in S
                       /\ t[1] + (p + 1) * GridIndexScale \notin S
  BY SMT, StretchFacts
<1>3. /\ s = <<s[1], s[2]>> /\ s[1] \in Int /\ s[1] - GridIndexScale \notin S
      /\ t = <<t[1], t[2]>> /\ t[1] \in Int /\ t[1] - GridIndexScale \notin S
  BY SMT, StretchFacts
<1>4. PICK i \in Nat : x = s[1] + i * GridIndexScale /\ x <= s[2]
  BY SMT DEF Within
<1>5. PICK j \in Nat : x = t[1] + j * GridIndexScale /\ x <= t[2]
  BY SMT DEF Within
<1> DEFINE a == s[1]  b == t[1]
<1>6. /\ a \in Int /\ b \in Int /\ a + i * GridIndexScale = b + j * GridIndexScale
      /\ i <= n /\ j <= p
  BY SMT, <1>1, <1>2, <1>3, <1>4, <1>5
<1>7. ~(a < b)
  <2> SUFFICES ASSUME a < b PROVE FALSE
    BY SMT
  <2>1. i - j - 1 \in 0..n /\ b - GridIndexScale = a + (i - j - 1) * GridIndexScale
    BY SMT, <1>6
  <2> QED
    BY SMT, <1>1, <1>3, <2>1
<1>8. ~(b < a)
  <2> SUFFICES ASSUME b < a PROVE FALSE
    BY SMT
  <2>1. j - i - 1 \in 0..p /\ a - GridIndexScale = b + (j - i - 1) * GridIndexScale
    BY SMT, <1>6
  <2> QED
    BY SMT, <1>2, <1>3, <2>1
<1>9. a = b
  BY SMT, <1>6, <1>7, <1>8
<1>10. n = p
  <2>1. n < p => n + 1 \in 0..p
    BY SMT
  <2>2. p < n => p + 1 \in 0..n
    BY SMT
  <2> QED
    BY SMT, <1>1, <1>2, <1>3, <1>9, <2>1, <2>2
<1> QED
  BY SMT, <1>1, <1>2, <1>3, <1>9, <1>10

LEMMA StretchMembers ==
  ASSUME NEW S \in SUBSET Int, NEW s \in Stretches(S)
  PROVE  /\ Within(s[1], s) /\ Within(s[2], s)
         /\ \A x : Within(x, s) => x \in S
<1> USE DEF GridIndexScale
<1>1. PICK n \in Nat : /\ s[2] = s[1] + n * GridIndexScale
                       /\ \A k \in 0..n : s[1] + k * GridIndexScale \in S
  BY SMT, StretchFacts
<1>2. s[1] \in Int
  BY SMT, StretchFacts
<1>3. Within(s[1], s)
  <2>1. s[1] = s[1] + 0 * GridIndexScale /\ s[1] <= s[2]
    BY SMT, <1>1, <1>2
  <2> QED
    BY SMT, <2>1 DEF Within
<1>4. Within(s[2], s)
  <2>1. s[2] <= s[2]
    BY SMT, <1>1, <1>2
  <2> QED
    BY SMT, <1>1, <2>1 DEF Within
<1>5. ASSUME NEW x, Within(x, s) PROVE x \in S
  <2>1. PICK k \in Nat : x = s[1] + k * GridIndexScale /\ x <= s[2]
    BY SMT, <1>5 DEF Within
  <2>2. k \in 0..n
    BY SMT, <1>1, <1>2, <2>1
  <2> QED
    BY SMT, <1>1, <2>1, <2>2
<1> QED
  BY SMT, <1>3, <1>4, <1>5

(***************************************************************************)
(* Lines that are joined: what a line has lies in one stretch of lines     *)
(* that all have it.                                                       *)
(***************************************************************************)
LEMMA JoinedFacts ==
  ASSUME NEW on, DOMAIN on \in SUBSET Int, NEW c \in Joined(on)
  PROVE  /\ c = <<c[1], c[2]>>
         /\ c[2] \in Stretches({i \in DOMAIN on : c[1] \in on[i]})
         /\ \A i : Within(i, c[2]) => i \in DOMAIN on /\ c[1] \in on[i]
         /\ Within(c[2][1], c[2]) /\ Within(c[2][2], c[2])
<1>1. PICK part, s : s \in Stretches({i \in DOMAIN on : part \in on[i]}) /\ c = <<part, s>>
  BY DEF Joined
<1>2. c = <<c[1], c[2]>> /\ c[1] = part /\ c[2] = s
  BY <1>1
<1> DEFINE S == {i \in DOMAIN on : c[1] \in on[i]}
<1>3. S \in SUBSET Int /\ c[2] \in Stretches(S)
  BY <1>1, <1>2
<1>4. \A i : i \in S => i \in DOMAIN on /\ c[1] \in on[i]
  OBVIOUS
<1> HIDE DEF S
<1>5. Within(c[2][1], c[2]) /\ Within(c[2][2], c[2]) /\ \A i : Within(i, c[2]) => i \in S
  BY <1>3, StretchMembers
<1> QED
  BY <1>2, <1>3, <1>4, <1>5 DEF S

LEMMA JoinedMembers ==
  ASSUME NEW on, DOMAIN on \in SUBSET Int, NEW c \in Joined(on)
  PROVE  /\ c = <<c[1], c[2]>> /\ Within(c[2][1], c[2]) /\ Within(c[2][2], c[2])
         /\ \A i : Within(i, c[2]) => i \in DOMAIN on /\ c[1] \in on[i]
BY JoinedFacts

LEMMA JoinedOf ==
  ASSUME NEW on, NEW lo \in Int, NEW hi \in Int, DOMAIN on \subseteq lo..hi,
         NEW i \in DOMAIN on, NEW part \in on[i]
  PROVE  \E c \in Joined(on) : c[1] = part /\ Within(i, c[2])
<1> DEFINE S == {j \in DOMAIN on : part \in on[j]}
<1>1. S \in SUBSET Int /\ S \subseteq lo..hi /\ i \in S
  OBVIOUS
<1> HIDE DEF S
<1>2. PICK s \in Stretches(S) : Within(i, s)
  BY <1>1, StretchOf
<1>3. <<part, s>> \in Joined(on)
  <2>1. <<part, s>> \in {<<part, t>> : t \in Stretches(S)}
    BY <1>2
  <2>2. part \in UNION {on[j] : j \in DOMAIN on}
    OBVIOUS
  <2> QED
    BY <2>1, <2>2 DEF Joined, S
<1> QED
  BY <1>2, <1>3

LEMMA JoinedUnique ==
  ASSUME NEW on, DOMAIN on \in SUBSET Int, NEW c \in Joined(on), NEW d \in Joined(on),
         c[1] = d[1], NEW i, Within(i, c[2]), Within(i, d[2])
  PROVE  c = d
<1> DEFINE S == {j \in DOMAIN on : c[1] \in on[j]}
<1>1. c[2] \in Stretches(S) /\ d[2] \in Stretches(S) /\ c = <<c[1], c[2]>> /\ d = <<d[1], d[2]>>
  BY JoinedFacts
<1>2. S \in SUBSET Int
  OBVIOUS
<1> HIDE DEF S
<1>3. c[2] = d[2]
  BY <1>1, <1>2, StretchUnique
<1> QED
  BY <1>1, <1>3

(***************************************************************************)
(* The cuboids of voxels with bounded indexes: they have the indexes of    *)
(* the voxels, and every voxel lies in one.                                *)
(***************************************************************************)
Indexed(V, lo, hi) ==
  \A v \in V : v.index = <<v.index[1], v.index[2], v.index[3]>>
               /\ \A a \in Axes : v.index[a] \in lo..hi

InCuboid(t, c) == Within(t[1], c[1][1]) /\ Within(t[2], c[1][2]) /\ Within(t[3], c[2])

Row(V, y, z) == Indexes({v \in {w \in V : w.index[Up] = z} : v.index[2] = y}, 1)
Lines(V, z)  == Indexes({v \in V : v.index[Up] = z}, 2)
Runs(V, z)   == [y \in Lines(V, z) |-> Stretches(Row(V, y, z))]
Layers(V)    == [z \in Indexes(V, Up) |-> Rectangles(V, z)]

LEMMA CuboidLines ==
  ASSUME NEW V
  PROVE  /\ Cuboids(V) = Joined(Layers(V)) /\ DOMAIN Layers(V) = Indexes(V, Up)
         /\ \A z \in Indexes(V, Up) : Layers(V)[z] = Joined(Runs(V, z))
         /\ \A z : DOMAIN Runs(V, z) = Lines(V, z)
         /\ \A z : \A y \in Lines(V, z) : Runs(V, z)[y] = Stretches(Row(V, y, z))
<1>1. \A z : Rectangles(V, z) = Joined(Runs(V, z))
  BY DEF Rectangles, Runs, Lines, Row
<1> QED
  BY <1>1 DEF Cuboids, Layers, Runs

LEMMA LinesBounded ==
  ASSUME NEW V, NEW lo \in Int, NEW hi \in Int, Indexed(V, lo, hi)
  PROVE  /\ Indexes(V, Up) \subseteq lo..hi
         /\ \A z : Lines(V, z) \subseteq lo..hi
         /\ \A y, z : Row(V, y, z) \subseteq lo..hi
         /\ lo..hi \subseteq Int
BY DEF Indexed, Indexes, Lines, Row, Axes, Up

LEMMA CuboidFacts ==
  ASSUME NEW V, NEW lo \in Int, NEW hi \in Int, Indexed(V, lo, hi), NEW c \in Cuboids(V)
  PROVE  /\ c = <<<<c[1][1], c[1][2]>>, c[2]>>
         /\ \A t : InCuboid(t, c) => \E v \in V : v.index = <<t[1], t[2], t[3]>>
         /\ \A n \in {1, 2} : InCuboid(<<c[1][1][n], c[1][2][n], c[2][n]>>, c)
<1>1. /\ c = <<c[1], c[2]>> /\ Within(c[2][1], c[2]) /\ Within(c[2][2], c[2])
      /\ \A z : Within(z, c[2]) => z \in Indexes(V, Up) /\ c[1] \in Joined(Runs(V, z))
  <2>1. /\ DOMAIN Layers(V) \in SUBSET Int /\ c \in Joined(Layers(V))
        /\ DOMAIN Layers(V) = Indexes(V, Up)
    BY LinesBounded, CuboidLines
  <2>2. \A z \in Indexes(V, Up) : Layers(V)[z] = Joined(Runs(V, z))
    BY CuboidLines
  <2> QED
    BY <2>1, <2>2, JoinedMembers
<1>2. \A z : Within(z, c[2]) =>
        /\ c[1] = <<c[1][1], c[1][2]>> /\ Within(c[1][2][1], c[1][2]) /\ Within(c[1][2][2], c[1][2])
        /\ \A y : Within(y, c[1][2]) =>
             y \in Lines(V, z) /\ c[1][1] \in Stretches(Row(V, y, z))
  <2> SUFFICES ASSUME NEW z, Within(z, c[2])
      PROVE /\ c[1] = <<c[1][1], c[1][2]>>
            /\ Within(c[1][2][1], c[1][2]) /\ Within(c[1][2][2], c[1][2])
            /\ \A y : Within(y, c[1][2]) =>
                 y \in Lines(V, z) /\ c[1][1] \in Stretches(Row(V, y, z))
    OBVIOUS
  <2>1. c[1] \in Joined(Runs(V, z)) /\ DOMAIN Runs(V, z) = Lines(V, z) /\ Lines(V, z) \in SUBSET Int
    BY <1>1, LinesBounded, CuboidLines
  <2>2. \A y \in Lines(V, z) : Runs(V, z)[y] = Stretches(Row(V, y, z))
    BY CuboidLines
  <2> QED
    BY <2>1, <2>2, JoinedMembers
<1>3. \A z, y : Within(z, c[2]) /\ Within(y, c[1][2]) =>
        /\ Within(c[1][1][1], c[1][1]) /\ Within(c[1][1][2], c[1][1])
        /\ \A x : Within(x, c[1][1]) => x \in Row(V, y, z)
  <2> SUFFICES ASSUME NEW z, NEW y, Within(z, c[2]), Within(y, c[1][2])
      PROVE /\ Within(c[1][1][1], c[1][1]) /\ Within(c[1][1][2], c[1][1])
            /\ \A x : Within(x, c[1][1]) => x \in Row(V, y, z)
    OBVIOUS
  <2>1. c[1][1] \in Stretches(Row(V, y, z)) /\ Row(V, y, z) \in SUBSET Int
    BY <1>2, LinesBounded
  <2> QED
    BY <2>1, StretchMembers
<1>4. \A x, y, z : x \in Row(V, y, z) => \E v \in V : v.index = <<x, y, z>>
  BY DEF Row, Indexes, Indexed, Up
<1>5. \A t : InCuboid(t, c) => \E v \in V : v.index = <<t[1], t[2], t[3]>>
  BY <1>3, <1>4 DEF InCuboid
<1>6. \A n \in {1, 2} : InCuboid(<<c[1][1][n], c[1][2][n], c[2][n]>>, c)
  BY <1>1, <1>2, <1>3 DEF InCuboid
<1> QED
  BY <1>1, <1>2, <1>5, <1>6

LEMMA CuboidOf ==
  ASSUME NEW V, NEW lo \in Int, NEW hi \in Int, Indexed(V, lo, hi), NEW v \in V
  PROVE  \E c \in Cuboids(V) : InCuboid(v.index, c)
<1> DEFINE x == v.index[1]  y == v.index[2]  z == v.index[3]
<1>1. z \in Indexes(V, Up) /\ y \in Lines(V, z) /\ x \in Row(V, y, z)
  BY DEF Indexes, Lines, Row, Up
<1> HIDE DEF x, y, z
<1>2. PICK s \in Stretches(Row(V, y, z)) : Within(x, s)
  BY <1>1, LinesBounded, StretchOf
<1>3. PICK r \in Joined(Runs(V, z)) : r[1] = s /\ Within(y, r[2])
  <2>1. /\ DOMAIN Runs(V, z) \subseteq lo..hi /\ y \in DOMAIN Runs(V, z)
        /\ s \in Runs(V, z)[y]
    BY <1>1, <1>2, LinesBounded, CuboidLines
  <2> QED
    BY <2>1, JoinedOf
<1>4. PICK c \in Cuboids(V) : c[1] = r /\ Within(z, c[2])
  <2>1. /\ DOMAIN Layers(V) \subseteq lo..hi /\ z \in DOMAIN Layers(V)
        /\ r \in Layers(V)[z] /\ Cuboids(V) = Joined(Layers(V))
    BY <1>1, <1>3, LinesBounded, CuboidLines
  <2> QED
    BY <2>1, JoinedOf
<1> QED
  BY <1>2, <1>3, <1>4 DEF InCuboid, x, y, z

LEMMA CuboidUnique ==
  ASSUME NEW V, NEW lo \in Int, NEW hi \in Int, Indexed(V, lo, hi),
         NEW c \in Cuboids(V), NEW d \in Cuboids(V), NEW t, InCuboid(t, c), InCuboid(t, d)
  PROVE  c = d
<1> DEFINE x == t[1]  y == t[2]  z == t[3]
<1>1. /\ Within(x, c[1][1]) /\ Within(y, c[1][2]) /\ Within(z, c[2])
      /\ Within(x, d[1][1]) /\ Within(y, d[1][2]) /\ Within(z, d[2])
  BY DEF InCuboid
<1> HIDE DEF x, y, z
<1>2. /\ Cuboids(V) = Joined(Layers(V)) /\ DOMAIN Layers(V) \in SUBSET Int
      /\ z \in DOMAIN Layers(V) => Layers(V)[z] = Joined(Runs(V, z))
      /\ DOMAIN Runs(V, z) \in SUBSET Int
      /\ y \in DOMAIN Runs(V, z) => Runs(V, z)[y] = Stretches(Row(V, y, z))
      /\ Row(V, y, z) \in SUBSET Int
  BY CuboidLines, LinesBounded
<1>3. c[1] \in Joined(Runs(V, z)) /\ d[1] \in Joined(Runs(V, z))
  BY <1>1, <1>2, JoinedMembers
<1>4. c[1][1] \in Stretches(Row(V, y, z)) /\ d[1][1] \in Stretches(Row(V, y, z))
  BY <1>1, <1>2, <1>3, JoinedMembers
<1>5. c[1][1] = d[1][1]
  BY <1>1, <1>2, <1>4, StretchUnique
<1>6. c[1] = d[1]
  BY <1>1, <1>2, <1>3, <1>5, JoinedUnique
<1> QED
  BY <1>1, <1>2, <1>6, JoinedUnique

(***************************************************************************)
(* A group of voxels of one size.  On each axis its voxels either lie on a *)
(* lattice, which their indexes count, or are all cut at the same place.   *)
(***************************************************************************)
VoxelTypes(V) ==
  \A v \in V : /\ v.at = <<v.at[1], v.at[2], v.at[3]>>
               /\ v.size = <<v.size[1], v.size[2], v.size[3]>>
               /\ \A a \in Axes : v.at[a] \in Int /\ v.size[a] \in Nat \ {0}

Spaced(V, a, origin, mult, first) ==
  \A v \in V : /\ v.size[a] = mult
               /\ \E h \in Int : /\ v.at[a] = origin + h * mult
                                 /\ v.index[a] = first + h * GridIndexScale

Cut(V, a) == \A v, w \in V : v.at[a] = w.at[a] /\ v.size[a] = w.size[a]

Regular(V) ==
  \A a \in Axes : \/ Cut(V, a)
                  \/ \E origin, mult, first \in Int : mult > 0 /\ Spaced(V, a, origin, mult, first)

Group(V, lo, hi) ==
  lo \in Int /\ hi \in Int /\ Indexed(V, lo, hi) /\ VoxelTypes(V) /\ Regular(V)

Far(v) == [a \in Axes |-> v.at[a] + v.size[a]]

LEMMA SameLine ==
  ASSUME NEW m \in Nat, m > 0, NEW h \in Int, NEW k \in Int, NEW b \in Int,
         h * m <= b, b < h * m + m, k * m <= b, b < k * m + m
  PROVE  h = k
<1>1. ASSUME NEW i \in Int, NEW j \in Int, i < j PROVE i * m + m <= j * m
  <2>1. (j - i - 1) \in Nat /\ (j - i - 1) * m >= 0
    BY SMT, <1>1
  <2> QED
    BY SMT, <2>1
<1>2. ~(h < k)
  BY SMT, <1>1
<1>3. ~(k < h)
  BY SMT, <1>1
<1> QED
  BY SMT, <1>2, <1>3

LEMMA IndexOrder ==
  ASSUME NEW V, NEW lo, NEW hi, Group(V, lo, hi), NEW a \in Axes, NEW v \in V, NEW w \in V,
         v.index[a] <= w.index[a]
  PROVE  v.at[a] <= w.at[a] /\ Far(v)[a] <= Far(w)[a]
<1>1. v.at[a] \in Int /\ v.size[a] \in Nat /\ w.at[a] \in Int /\ w.size[a] \in Nat
  BY DEF Group, VoxelTypes
<1>2. Far(v)[a] = v.at[a] + v.size[a] /\ Far(w)[a] = w.at[a] + w.size[a]
  BY DEF Far
<1>3. CASE Cut(V, a)
  <2>1. v.at[a] = w.at[a] /\ v.size[a] = w.size[a]
    BY <1>3 DEF Cut
  <2> QED
    BY <1>1, <1>2, <2>1
<1>4. CASE \E origin, mult, first \in Int : mult > 0 /\ Spaced(V, a, origin, mult, first)
  <2>1. PICK origin \in Int, mult \in Int, first \in Int :
          mult > 0 /\ Spaced(V, a, origin, mult, first)
    BY <1>4
  <2>2. PICK h \in Int : v.at[a] = origin + h * mult /\ v.index[a] = first + h * GridIndexScale
    BY <2>1 DEF Spaced
  <2>3. PICK k \in Int : w.at[a] = origin + k * mult /\ w.index[a] = first + k * GridIndexScale
    BY <2>1 DEF Spaced
  <2>4. v.size[a] = mult /\ w.size[a] = mult
    BY <2>1 DEF Spaced
  <2>5. h <= k
    BY SMT, <2>2, <2>3 DEF GridIndexScale
  <2>6. (k - h) * mult >= 0
    BY SMT, <2>1, <2>5
  <2>7. k * mult >= h * mult
    BY SMT, <2>1, <2>6
  <2> QED
    BY SMT, <1>1, <1>2, <2>1, <2>2, <2>3, <2>4, <2>7
<1> QED
  BY <1>3, <1>4 DEF Group, Regular

\* What lies between two voxels lies in those whose index lies between theirs.
LEMMA IndexBetween ==
  ASSUME NEW V, NEW lo, NEW hi, Group(V, lo, hi), NEW a \in Axes, NEW v \in V, NEW w \in V,
         NEW s, Within(s[1], s), v.index[a] = s[1], w.index[a] = s[2],
         NEW b \in v.at[a]..(Far(w)[a] - 1)
  PROVE  \E i : /\ Within(i, s)
                /\ \A u \in V : u.index[a] = i => b \in u.at[a]..(Far(u)[a] - 1)
<1>1. \A u \in V : /\ u.at[a] \in Int /\ u.size[a] \in Nat /\ u.index[a] \in Int
                   /\ Far(u)[a] = u.at[a] + u.size[a]
  BY DEF Group, VoxelTypes, Indexed, Far
<1>2. b \in Int /\ v.at[a] <= b /\ b < w.at[a] + w.size[a]
  BY SMT, <1>1
<1>3. CASE Cut(V, a)
  <2>1. \A u \in V : u.at[a] = v.at[a] /\ u.at[a] = w.at[a] /\ u.size[a] = w.size[a]
    BY <1>3 DEF Cut
  <2>2. \A u \in V : b \in u.at[a]..(Far(u)[a] - 1)
    BY SMT, <1>1, <1>2, <2>1
  <2> QED
    BY <2>2
<1>4. CASE \E origin, mult, first \in Int : mult > 0 /\ Spaced(V, a, origin, mult, first)
  <2>1. PICK o \in Int, m \in Int, g \in Int : m > 0 /\ Spaced(V, a, o, m, g)
    BY <1>4
  <2>2. PICK h \in Int : v.at[a] = o + h * m /\ s[1] = g + h * GridIndexScale
    BY <2>1 DEF Spaced
  <2>3. PICK k \in Int : w.at[a] = o + k * m /\ s[2] = g + k * GridIndexScale /\ w.size[a] = m
    BY <2>1 DEF Spaced
  <2> DEFINE n == (b - o) \div m
  <2>4. n \in Int /\ n * m <= b - o /\ b - o < n * m + m
    BY SMT, <1>2, <2>1
  <2> HIDE DEF n
  <2>5. \A i, j \in Int : i < j => i * m + m <= j * m
    <3> SUFFICES ASSUME NEW i \in Int, NEW j \in Int, i < j PROVE i * m + m <= j * m
      OBVIOUS
    <3>1. (j - i - 1) * m >= 0
      BY SMT, <2>1
    <3> QED
      BY SMT, <2>1, <3>1
  <2>6. h <= n /\ n <= k
    <3>1. h * m <= b - o /\ b - o < k * m + m
      BY SMT, <1>2, <2>1, <2>2, <2>3
    <3>2. ~(n < h)
      BY SMT, <2>1, <2>4, <2>5, <3>1
    <3>3. ~(k < n)
      BY SMT, <2>1, <2>4, <2>5, <3>1
    <3> QED
      BY SMT, <2>4, <3>2, <3>3
  <2> DEFINE i == g + n * GridIndexScale
  <2>7. Within(i, s)
    <3>1. n - h \in Nat /\ i = s[1] + (n - h) * GridIndexScale /\ i <= s[2]
      BY SMT, <2>1, <2>2, <2>3, <2>4, <2>6 DEF GridIndexScale
    <3> QED
      BY <3>1 DEF Within
  <2>8. ASSUME NEW u \in V, u.index[a] = i PROVE b \in u.at[a]..(Far(u)[a] - 1)
    <3>1. PICK j \in Int : /\ u.at[a] = o + j * m /\ u.index[a] = g + j * GridIndexScale
                           /\ u.size[a] = m
      BY <2>1 DEF Spaced
    <3>2. j = n
      BY SMT, <2>1, <2>4, <2>8, <3>1 DEF GridIndexScale
    <3> QED
      BY SMT, <1>1, <1>2, <2>1, <2>4, <3>1, <3>2
  <2> QED
    BY <2>7, <2>8
<1> QED
  BY <1>3, <1>4 DEF Group, Regular

(***************************************************************************)
(* The volume of a cuboid is made of its voxels.                           *)
(***************************************************************************)
Side(c) == <<c[1][1], c[1][2], c[2]>>

LEMMA BaseFacts ==
  ASSUME NEW min, NEW max, NEW b
  PROVE  b \in BaseVoxels(min, max) <=>
           b = <<b[1], b[2], b[3]>> /\ \A a \in Axes : b[a] \in min[a]..(max[a] - 1)
BY DEF BaseVoxels, Axes, Up

LEMMA SideFacts ==
  ASSUME NEW t, NEW c
  PROVE  InCuboid(t, c) <=> \A a \in Axes : Within(t[a], Side(c)[a])
BY DEF InCuboid, Side, Axes

LEMMA VolumeCorners ==
  ASSUME NEW V, NEW lo, NEW hi, Group(V, lo, hi), NEW c \in Cuboids(V)
  PROVE  \E v, w \in V : /\ Volume(V, c) = [min |-> v.at, max |-> Far(w)]
                         /\ \A a \in Axes : /\ v.index[a] = Side(c)[a][1]
                                            /\ w.index[a] = Side(c)[a][2]
                                            /\ Within(Side(c)[a][1], Side(c)[a])
<1> DEFINE t(n) == <<c[1][1][n], c[1][2][n], c[2][n]>>
           corner(n) == CHOOSE v \in V : v.index = t(n)
<1>1. \A n \in {1, 2} : InCuboid(t(n), c) /\ \E v \in V : v.index = t(n)
  <2>1. lo \in Int /\ hi \in Int /\ Indexed(V, lo, hi)
    BY DEF Group
  <2>2. /\ \A n \in {1, 2} : InCuboid(t(n), c)
        /\ \A i : InCuboid(i, c) => \E v \in V : v.index = <<i[1], i[2], i[3]>>
    BY <2>1, CuboidFacts
  <2>3. \A n : t(n) = <<t(n)[1], t(n)[2], t(n)[3]>>
    OBVIOUS
  <2> HIDE DEF t
  <2> QED
    BY <2>2, <2>3
<1>2. \A n \in {1, 2} : corner(n) \in V /\ corner(n).index = t(n)
  BY <1>1
<1>3. Volume(V, c) = [min |-> corner(1).at, max |-> Far(corner(2))]
  BY DEF Volume, Far
<1>4. \A n \in {1, 2} : \A a \in Axes : t(n)[a] = Side(c)[a][n]
  BY DEF Side, Axes
<1>5. \A a \in Axes : Within(Side(c)[a][1], Side(c)[a])
  <2> HIDE DEF t
  <2>1. \A a \in Axes : Within(t(1)[a], Side(c)[a])
    BY <1>1, SideFacts
  <2> QED
    BY <1>4, <2>1
<1> HIDE DEF t, corner
<1>6. /\ corner(1) \in V /\ corner(2) \in V
      /\ \A a \in Axes : corner(1).index[a] = Side(c)[a][1] /\ corner(2).index[a] = Side(c)[a][2]
  BY <1>2, <1>4
<1> QED
  BY <1>3, <1>5, <1>6

LEMMA VolumeCovers ==
  ASSUME NEW V, NEW lo, NEW hi, Group(V, lo, hi), NEW c \in Cuboids(V),
         NEW v \in V, InCuboid(v.index, c)
  PROVE  /\ BaseVoxels(v.at, Far(v)) \subseteq BaseVoxels(Volume(V, c).min, Volume(V, c).max)
<1>1. PICK p, q \in V : /\ Volume(V, c) = [min |-> p.at, max |-> Far(q)]
                        /\ \A a \in Axes : /\ p.index[a] = Side(c)[a][1]
                                           /\ q.index[a] = Side(c)[a][2]
  BY VolumeCorners
<1>2. ASSUME NEW a \in Axes PROVE p.at[a] <= v.at[a] /\ Far(v)[a] <= Far(q)[a]
  <2>1. p.index[a] \in Int /\ q.index[a] \in Int /\ v.index[a] \in Int
    BY DEF Group, Indexed
  <2>2. PICK k \in Nat : v.index[a] = p.index[a] + k * GridIndexScale /\ v.index[a] <= q.index[a]
    BY <1>1, SideFacts DEF Within
  <2>3. p.index[a] <= v.index[a] /\ v.index[a] <= q.index[a]
    BY SMT, <2>1, <2>2 DEF GridIndexScale
  <2> QED
    BY <2>3, IndexOrder
<1>3. \A a \in Axes : /\ p.at[a] \in Int /\ v.at[a] \in Int
                      /\ Far(v)[a] \in Int /\ Far(q)[a] \in Int
  BY DEF Group, VoxelTypes, Far
<1>4. \A b, a : a \in Axes /\ b \in v.at[a]..(Far(v)[a] - 1) => b \in p.at[a]..(Far(q)[a] - 1)
  BY SMT, <1>2, <1>3
<1> QED
  BY <1>1, <1>4, BaseFacts

LEMMA VolumeFilled ==
  ASSUME NEW V, NEW lo, NEW hi, Group(V, lo, hi), NEW c \in Cuboids(V),
         NEW b \in BaseVoxels(Volume(V, c).min, Volume(V, c).max)
  PROVE  \E v \in V : InCuboid(v.index, c) /\ b \in BaseVoxels(v.at, Far(v))
<1>1. PICK p, q \in V : /\ Volume(V, c) = [min |-> p.at, max |-> Far(q)]
                        /\ \A a \in Axes : /\ p.index[a] = Side(c)[a][1]
                                           /\ q.index[a] = Side(c)[a][2]
                                           /\ Within(Side(c)[a][1], Side(c)[a])
  BY VolumeCorners
<1>2. b = <<b[1], b[2], b[3]>> /\ \A a \in Axes : b[a] \in p.at[a]..(Far(q)[a] - 1)
  BY <1>1, BaseFacts
<1>3. \A a \in Axes : \E i : /\ Within(i, Side(c)[a])
                             /\ \A u \in V : u.index[a] = i => b[a] \in u.at[a]..(Far(u)[a] - 1)
  BY <1>1, <1>2, IndexBetween
<1> DEFINE Found(a, i) == /\ Within(i, Side(c)[a])
                          /\ \A u \in V : u.index[a] = i => b[a] \in u.at[a]..(Far(u)[a] - 1)
<1>4. PICK x, y, z : Found(1, x) /\ Found(2, y) /\ Found(3, z)
  BY <1>3 DEF Axes
<1> DEFINE t == <<x, y, z>>
<1>5. t[1] = x /\ t[2] = y /\ t[3] = z /\ \A a \in Axes : Found(a, t[a])
  BY <1>4 DEF Axes
<1>6. InCuboid(t, c)
  BY <1>5, SideFacts
<1>7. PICK v \in V : v.index = t
  <2>1. lo \in Int /\ hi \in Int /\ Indexed(V, lo, hi)
    BY DEF Group
  <2> QED
    BY <1>5, <1>6, <2>1, CuboidFacts
<1>8. \A a \in Axes : b[a] \in v.at[a]..(Far(v)[a] - 1)
  BY <1>5, <1>7
<1> QED
  BY <1>2, <1>6, <1>7, <1>8, BaseFacts

(***************************************************************************)
(* Drags on a grid.  A drag begins and ends in cells of the grid; upwards  *)
(* it takes some cells, as far as the map goes.                            *)
(***************************************************************************)
Grid(config) ==
  /\ \A a \in Axes : config.origin[a] \in Int /\ config.extent[a] \in Nat \ {0}
  /\ config.mult \in Nat \ {0}

OnGrid(config, c) == [at |-> c.at, size |-> c.size] \in Cells(config)

Whole(config, sel) ==
  /\ OnGrid(config, sel.start) /\ OnGrid(config, sel.end)
  /\ \E h \in Nat \ {0} : sel.maxZ = Least(End(config, Up), sel.start.at[Up] + h * config.mult)

\* A place of the lattice, the size of the cell there.
LineAt(config, a, h) == config.origin[a] + h * config.mult
SizeAt(config, a, p) == Least(config.mult, End(config, a) - p)

LEMMA LessLines ==
  ASSUME NEW m \in Nat, m > 0, NEW h \in Int, NEW k \in Int, h < k
  PROVE  h * m + m <= k * m
<1>1. k - h - 1 \in Nat /\ (k - h - 1) * m >= 0
  BY SMT
<1> QED
  BY SMT, <1>1

LEMMA Quotient ==
  ASSUME NEW d \in Nat, d > 0, NEW x \in Int
  PROVE  /\ x \div d \in Int /\ (x \div d) * d <= x /\ x < (x \div d) * d + d
         /\ x >= 0 => x \div d >= 0
         /\ \A q \in Int : q * d <= x /\ x < q * d + d => q = x \div d
<1>1. x \div d \in Int /\ (x \div d) * d <= x /\ x < (x \div d) * d + d
  BY SMT
<1>2. x >= 0 => x \div d >= 0
  BY SMT
<1> QED
  BY SMT, <1>1, <1>2, SameLine

LEMMA GridCells ==
  ASSUME NEW config, Grid(config), NEW c, OnGrid(config, c), NEW a \in Axes
  PROVE  \E h \in Nat : /\ c.at[a] = LineAt(config, a, h) /\ c.at[a] < End(config, a)
                        /\ c.size[a] = SizeAt(config, a, c.at[a])
<1>1. PICK hit \in Hits(config) : [at |-> c.at, size |-> c.size] = SnapGridCell(config, hit)
  BY DEF OnGrid, Cells
<1> DEFINE o == config.origin[a]  e == config.extent[a]  m == config.mult  h == hit[a]
<1>2. o \in Int /\ e \in Nat /\ m \in Nat /\ m > 0
  BY DEF Grid
<1>3. End(config, a) = o + e
  BY DEF End
<1>4. h \in 0..((e + m - 1) \div m - 1)
  BY <1>1 DEF Hits, CellCount, Axes, Up
<1>5. /\ c.at[a] = Least(o + e, o + h * m)
      /\ c.size[a] = Least(m, (o + e) - (o + h * m))
  <2>1. /\ c.at = [b \in Axes |-> Least(End(config, b), config.origin[b] + hit[b] * config.mult)]
        /\ c.size = [b \in Axes |-> Least(config.mult, End(config, b)
                                           - (config.origin[b] + hit[b] * config.mult))]
    BY <1>1 DEF SnapGridCell
  <2> QED
    BY <1>3, <2>1
<1>6. LineAt(config, a, h) = o + h * m
  BY DEF LineAt
<1> HIDE DEF o, e, m, h
<1>7. h \in Nat /\ h * m < e
  <2> DEFINE q == (e + m - 1) \div m
  <2>1. q \in Int /\ q * m <= e + m - 1
    BY <1>2, Quotient
  <2>2. h \in Int /\ h < q /\ h >= 0
    BY <1>4, <2>1
  <2> HIDE DEF q
  <2>3. h * m + m <= q * m
    BY <1>2, <2>1, <2>2, LessLines
  <2>4. h * m \in Int /\ q * m \in Int
    BY SMT, <1>2, <2>1, <2>2
  <2> QED
    BY SMT, <1>2, <2>1, <2>2, <2>3, <2>4
<1>8. h * m \in Int
  BY SMT, <1>2, <1>7
<1>9. c.at[a] = o + h * m /\ o + h * m < o + e
  BY SMT, <1>2, <1>5, <1>7, <1>8 DEF Least
<1> QED
  BY <1>2, <1>3, <1>5, <1>6, <1>7, <1>9 DEF SizeAt, m

\* What a drag spans on an axis.
Span(config, a, from, to, step) ==
  /\ \E h \in Nat : from = LineAt(config, a, h)
  /\ from \in Int /\ to \in Int /\ from < to /\ to <= End(config, a) /\ step \in Nat \ {0}
  /\ \/ step = config.mult /\ (to = End(config, a) \/ \E k \in Nat : to = LineAt(config, a, k))
     \/ step < config.mult /\ to = End(config, a) /\ step = to - from

LEMMA DragSpans ==
  ASSUME NEW config, Grid(config), NEW sel, Whole(config, sel), NEW a \in Axes
  PROVE  Span(config, a, DragFrom(sel, a), DragTo(sel, a), DragStep(sel, a))
<1> DEFINE o == config.origin[a]  E == End(config, a)  m == config.mult
           p == sel.start.at[a]  q == sel.end.at[a]
           r == sel.start.size[a]  s == sel.end.size[a]
<1>1. o \in Int /\ E \in Int /\ m \in Nat /\ m > 0
  BY DEF Grid, End
<1>2. PICK h \in Nat : p = LineAt(config, a, h) /\ p < E /\ r = SizeAt(config, a, p)
  BY GridCells DEF Whole
<1>3. PICK k \in Nat : q = LineAt(config, a, k) /\ q < E /\ s = SizeAt(config, a, q)
  BY GridCells DEF Whole
<1>4. /\ p = o + h * m /\ r = Least(m, E - p) /\ q = o + k * m /\ s = Least(m, E - q)
      /\ \A j : LineAt(config, a, j) = o + j * m
  BY <1>2, <1>3 DEF LineAt, SizeAt
<1> HIDE DEF o, E, m, p, q, r, s
<1>5. h * m \in Int /\ k * m \in Int /\ (h + 1) * m = h * m + m /\ (k + 1) * m = k * m + m
  BY SMT, <1>1
<1>6. p \in Int /\ q \in Int /\ r \in Nat /\ r > 0 /\ s \in Nat /\ s > 0 /\ r <= m /\ s <= m
      /\ p + r <= E /\ q + s <= E
  BY SMT, <1>1, <1>2, <1>3, <1>4, <1>5 DEF Least
<1>7. CASE a # Up
  <2>1. /\ DragFrom(sel, a) = Least(p, q) /\ DragTo(sel, a) = Greatest(p + r, q + s)
        /\ DragStep(sel, a) = Greatest(r, s)
    BY <1>7 DEF DragFrom, DragTo, DragStep, p, q, r, s
  <2>2. CASE Greatest(r, s) = m
    <3>1. p + r = E \/ p + r = o + (h + 1) * m
      BY SMT, <1>1, <1>4, <1>5, <1>6 DEF Least
    <3>2. q + s = E \/ q + s = o + (k + 1) * m
      BY SMT, <1>1, <1>4, <1>5, <1>6 DEF Least
    <3>3. /\ Least(p, q) \in {o + h * m, o + k * m}
          /\ Greatest(p + r, q + s) \in {E, o + (h + 1) * m, o + (k + 1) * m}
      BY <1>4, <3>1, <3>2 DEF Least, Greatest
    <3>4. h + 1 \in Nat /\ k + 1 \in Nat
      OBVIOUS
    <3>5. \E j \in Nat : Least(p, q) = LineAt(config, a, j)
      BY <1>4, <3>3
    <3>6. Greatest(p + r, q + s) = E \/ \E j \in Nat : Greatest(p + r, q + s) = LineAt(config, a, j)
      BY <1>4, <3>3, <3>4
    <3>7. /\ Least(p, q) \in Int /\ Greatest(p + r, q + s) \in Int
          /\ Least(p, q) < Greatest(p + r, q + s) /\ Greatest(p + r, q + s) <= E
      BY SMT, <1>1, <1>6 DEF Least, Greatest
    <3> QED
      BY <1>1, <2>1, <2>2, <3>5, <3>6, <3>7 DEF Span, m, E
  <2>3. CASE Greatest(r, s) # m
    <3>1. r < m /\ s < m
      BY SMT, <1>1, <1>6, <2>3 DEF Greatest
    <3>2. r = E - p /\ s = E - q
      BY SMT, <1>1, <1>4, <1>6, <3>1 DEF Least
    <3>3. h * m <= E - o /\ E - o < h * m + m /\ k * m <= E - o /\ E - o < k * m + m
      BY SMT, <1>1, <1>4, <1>5, <1>6, <3>1, <3>2
    <3>4. h = k
      <4>1. h \in Int /\ k \in Int /\ E - o \in Int
        BY <1>1
      <4> QED
        BY <1>1, <3>3, <4>1, SameLine
    <3>5. p = q /\ r = s
      BY <1>4, <3>4
    <3>6. Least(p, q) = p /\ Greatest(p + r, q + s) = E /\ Greatest(r, s) = E - p
      BY SMT, <1>1, <1>6, <3>2, <3>5 DEF Least, Greatest
    <3>7. p < E /\ r # 0 /\ E - p = r
      BY <1>2, <1>6, <3>2
    <3> QED
      BY <1>1, <1>2, <1>6, <2>1, <3>1, <3>6, <3>7 DEF Span, m, E
  <2> QED
    BY <2>2, <2>3
<1>8. CASE a = Up
  <2>1. PICK n \in Nat \ {0} : sel.maxZ = Least(E, p + n * m)
    BY <1>8 DEF Whole, E, m, p
  <2>2. DragFrom(sel, a) = p /\ DragTo(sel, a) = Least(E, p + n * m) /\ DragStep(sel, a) = r
    BY <1>8, <2>1 DEF DragFrom, DragTo, DragStep, p, r
  <2>3. n * m \in Int /\ n * m >= m /\ o + (h + n) * m = p + n * m /\ h + n \in Nat
    <3>1. (n - 1) * m >= 0
      BY SMT, <1>1
    <3> QED
      BY SMT, <1>1, <1>4, <3>1
  <2>4. /\ Least(E, p + n * m) \in Int /\ p < Least(E, p + n * m) /\ Least(E, p + n * m) <= E
        /\ Least(E, p + n * m) = E \/ Least(E, p + n * m) = o + (h + n) * m
    BY SMT, <1>1, <1>2, <1>6, <2>3 DEF Least
  <2>5. CASE r = m
    BY <1>1, <1>2, <1>4, <1>6, <2>2, <2>3, <2>4, <2>5 DEF Span, m, E
  <2>6. CASE r # m
    <3>1. r < m /\ r = E - p /\ Least(E, p + n * m) = E
      BY SMT, <1>1, <1>4, <1>6, <2>3, <2>6 DEF Least
    <3> QED
      BY <1>1, <1>2, <1>6, <2>2, <2>4, <3>1 DEF Span, m, E
  <2> QED
    BY <2>5, <2>6
<1> QED
  BY <1>7, <1>8

(***************************************************************************)
(* The cells a drag has on an axis are those of the grid.                  *)
(***************************************************************************)
\* Indexes count the lines of the grid, from wherever a drag begins.
LEMMA IndexShift ==
  ASSUME NEW o \in Int, NEW m \in Nat, m > 0, NEW h \in Int
  PROVE  GridIndex(o + h * m, m) = GridIndex(o, m) + h * GridIndexScale
<1> USE DEF GridIndexScale
<1> DEFINE d == 2 * m  x == 2 * o * GridIndexScale + m
           y == 2 * (o + h * m) * GridIndexScale + m  q == x \div d
<1>1. d \in Nat /\ d > 0 /\ x \in Int
  BY SMT
<1>2. q \in Int /\ q * d <= x /\ x < q * d + d
  BY <1>1, Quotient
<1>3. y \in Int /\ y = x + (h * GridIndexScale) * d
  BY SMT
<1>4. (q + h * GridIndexScale) * d = q * d + (h * GridIndexScale) * d
  BY SMT, <1>1, <1>2
<1>5. q + h * GridIndexScale \in Int
  BY SMT, <1>2
<1>6. GridIndex(o + h * m, m) = y \div d /\ GridIndex(o, m) = q
  BY SMT DEF GridIndex
<1> HIDE DEF d, x, y, q
<1>8. q * d \in Int /\ (h * GridIndexScale) * d \in Int
  BY SMT, <1>1, <1>2
<1>7. (q + h * GridIndexScale) * d <= y /\ y < (q + h * GridIndexScale) * d + d
  BY SMT, <1>1, <1>2, <1>3, <1>4, <1>8
<1> HIDE DEF GridIndexScale
<1> QED
  BY <1>1, <1>3, <1>5, <1>6, <1>7, Quotient

LEMMA IndexIsInt ==
  ASSUME NEW v \in Int, NEW m \in Nat, m > 0
  PROVE  GridIndex(v, m) \in Int
BY SMT DEF GridIndex, GridIndexScale

\* A cell counts its line, or it is cut and counts from its own size.
OnAxis(config, a, x) ==
  /\ \E j \in Nat :
       /\ x.at = LineAt(config, a, j)
       /\ \/ x.index = GridIndex(config.origin[a], config.mult) + j * GridIndexScale
          \/ x.size < config.mult /\ x.index = GridIndex(x.at, x.size)
  /\ x.at \in Int /\ x.at < End(config, a) /\ x.size = SizeAt(config, a, x.at)

LEMMA AxisCellFacts ==
  ASSUME NEW from \in Int, NEW to \in Int, NEW step \in Nat, step > 0, from < to,
         NEW x \in AxisCells(from, to, step)
  PROVE  \E k \in Nat : /\ x.at = from + k * step /\ x.at < to
                        /\ x.size = Least(step, to - x.at)
                        /\ x.index = GridIndex(from, step) + k * GridIndexScale
<1> DEFINE q == (to - from - 1) \div step
<1>1. PICK k \in 0..q : x = [at |-> from + k * step, size |-> Least(step, to - (from + k * step)),
                             index |-> GridIndex(from, step) + k * GridIndexScale]
  BY DEF AxisCells
<1>2. q \in Int /\ q * step <= to - from - 1
  BY Quotient
<1> HIDE DEF q
<1>3. k \in Nat /\ k <= q
  BY <1>2
<1>4. k * step \in Int /\ k * step <= q * step /\ q * step \in Int
  <2>1. (q - k) * step >= 0
    BY SMT, <1>2, <1>3
  <2> QED
    BY SMT, <1>2, <1>3, <2>1
<1>5. from + k * step < to
  BY SMT, <1>2, <1>4
<1> QED
  BY <1>1, <1>3, <1>5

LEMMA SpanCells ==
  ASSUME NEW config, Grid(config), NEW a \in Axes, NEW from, NEW to, NEW step,
         Span(config, a, from, to, step), NEW x \in AxisCells(from, to, step)
  PROVE  /\ OnAxis(config, a, x)
         /\ x.size \in Nat \ {0} /\ from <= x.at /\ x.at + x.size <= to
<1> DEFINE o == config.origin[a]  E == End(config, a)  m == config.mult
<1>1. o \in Int /\ E \in Int /\ m \in Nat /\ m > 0
  BY DEF Grid, End
<1>2. \A j : LineAt(config, a, j) = o + j * m
  BY DEF LineAt
<1>3. PICK h \in Nat : from = o + h * m
  BY <1>2 DEF Span
<1>4. from \in Int /\ to \in Int /\ from < to /\ to <= E /\ step \in Nat /\ step > 0
  BY DEF Span, E
<1>5. PICK k \in Nat : /\ x.at = from + k * step /\ x.at < to
                       /\ x.size = Least(step, to - x.at)
                       /\ x.index = GridIndex(from, step) + k * GridIndexScale
  BY <1>4, AxisCellFacts
<1>6. k * step \in Nat /\ h * m \in Int
  BY SMT, <1>1, <1>4
<1>7. x.at \in Int /\ x.size \in Nat \ {0} /\ from <= x.at /\ x.at + x.size <= to
  BY SMT, <1>4, <1>5, <1>6 DEF Least
<1>8. CASE step = m /\ (to = E \/ \E n \in Nat : to = o + n * m)
  <2>1. x.at = o + (h + k) * m /\ h + k \in Nat
    BY SMT, <1>1, <1>3, <1>5, <1>8
  <2>2. x.size = Least(m, E - x.at)
    <3>1. CASE to = E
      BY <1>5, <1>8, <3>1
    <3>2. CASE \E n \in Nat : to = o + n * m
      <4>1. PICK n \in Nat : to = o + n * m
        BY <3>2
      <4>2. (h + k) * m \in Int /\ n * m \in Int
        BY SMT, <1>1
      <4>3. h + k < n
        <5> SUFFICES ASSUME n <= h + k PROVE FALSE
          BY SMT
        <5>1. (h + k - n) * m >= 0
          BY SMT, <1>1
        <5>2. (h + k) * m >= n * m
          BY SMT, <1>1, <5>1
        <5> QED
          BY SMT, <1>1, <1>5, <2>1, <4>1, <4>2, <5>2
      <4>4. (h + k) * m + m <= n * m
        <5>1. h + k \in Int /\ n \in Int
          BY <2>1
        <5> QED
          BY <1>1, <4>3, <5>1, LessLines
      <4>5. to - x.at >= m
        BY SMT, <1>1, <2>1, <4>1, <4>2, <4>4
      <4> QED
        BY SMT, <1>1, <1>4, <1>5, <1>7, <1>8, <4>5 DEF Least
    <3> QED
      BY <1>8, <3>1, <3>2
  <2>3. x.index = GridIndex(o, m) + (h + k) * GridIndexScale
    <3>1. GridIndex(from, m) = GridIndex(o, m) + h * GridIndexScale
      <4> HIDE DEF o, E, m
      <4>1. h \in Int
        OBVIOUS
      <4>2. GridIndex(o + h * m, m) = GridIndex(o, m) + h * GridIndexScale
        BY <1>1, <4>1, IndexShift
      <4> QED
        BY <1>3, <4>2
    <3>2. GridIndex(o, m) \in Int
      BY <1>1, IndexIsInt
    <3> QED
      BY SMT, <1>5, <1>8, <3>1, <3>2 DEF GridIndexScale
  <2>4. x.at < E
    BY SMT, <1>1, <1>4, <1>5, <1>7
  <2> QED
    BY <1>2, <1>7, <2>1, <2>2, <2>3, <2>4 DEF OnAxis, SizeAt, o, m, E
<1>9. CASE step < m /\ to = E /\ step = to - from
  <2>1. k = 0
    <3> SUFFICES ASSUME k # 0 PROVE FALSE
      OBVIOUS
    <3>1. (k - 1) * step >= 0
      BY SMT, <1>4
    <3>2. k * step >= step
      BY SMT, <1>4, <3>1
    <3> QED
      BY SMT, <1>4, <1>5, <1>6, <1>9, <3>2
  <2>2. x.at = from /\ x.size = step /\ x.index = GridIndex(from, step)
    <3>1. k * step = 0 /\ k * GridIndexScale = 0
      BY SMT, <1>4, <2>1 DEF GridIndexScale
    <3>2. GridIndex(from, step) \in Int
      BY <1>4, IndexIsInt
    <3> QED
      BY SMT, <1>4, <1>5, <1>9, <3>1, <3>2 DEF Least
  <2>3. x.size = Least(m, E - x.at) /\ x.at < E
    BY SMT, <1>1, <1>4, <1>9, <2>2 DEF Least
  <2> QED
    BY <1>2, <1>3, <1>7, <1>9, <2>2, <2>3 DEF OnAxis, SizeAt, o, m, E
<1> QED
  BY <1>2, <1>7, <1>8, <1>9 DEF Span, o, m, E

LEMMA SpanCovered ==
  ASSUME NEW from \in Int, NEW to \in Int, NEW step \in Nat, step > 0, from < to,
         NEW p \in from..(to - 1)
  PROVE  \E x \in AxisCells(from, to, step) : p \in x.at..(x.at + x.size - 1)
<1> DEFINE k == (p - from) \div step  q == (to - from - 1) \div step
<1>1. p \in Int /\ from <= p /\ p < to /\ p - from >= 0 /\ p - from \in Int
  OBVIOUS
<1>2. k \in Int /\ k * step <= p - from /\ p - from < k * step + step /\ k >= 0
  BY <1>1, Quotient
<1>3. q \in Int /\ q * step <= to - from - 1 /\ to - from - 1 < q * step + step
  BY Quotient
<1> DEFINE x == [at |-> from + k * step, size |-> Least(step, to - (from + k * step)),
                 index |-> GridIndex(from, step) + k * GridIndexScale]
<1> HIDE DEF k
<1>4. k <= q
  <2> HIDE DEF q
  <2> SUFFICES ASSUME q < k PROVE FALSE
    BY <1>2, <1>3
  <2>1. q * step + step <= k * step
    BY <1>2, <1>3, LessLines
  <2>2. q * step \in Int /\ k * step \in Int
    BY SMT, <1>2, <1>3
  <2> QED
    BY SMT, <1>1, <1>2, <1>3, <2>1, <2>2
<1>5. x \in AxisCells(from, to, step)
  <2>1. k \in 0..q
    BY <1>2, <1>3, <1>4
  <2> QED
    BY <2>1 DEF AxisCells
<1>6. p \in x.at..(x.at + x.size - 1)
  <2>1. k * step \in Int
    BY SMT, <1>2
  <2>2. x.at = from + k * step /\ x.size = Least(step, to - (from + k * step))
    OBVIOUS
  <2> HIDE DEF x
  <2> QED
    BY SMT, <1>1, <1>2, <2>1, <2>2 DEF Least
<1> QED
  BY <1>5, <1>6

LEMMA SameCellOfSpan ==
  ASSUME NEW from \in Int, NEW to \in Int, NEW step \in Nat, step > 0, from < to,
         NEW x \in AxisCells(from, to, step), NEW y \in AxisCells(from, to, step), x.at = y.at
  PROVE  x.size = y.size /\ x.index = y.index
<1>1. PICK k \in Nat : /\ x.at = from + k * step /\ x.size = Least(step, to - x.at)
                       /\ x.index = GridIndex(from, step) + k * GridIndexScale
  BY AxisCellFacts
<1>2. PICK j \in Nat : /\ y.at = from + j * step /\ y.size = Least(step, to - y.at)
                       /\ y.index = GridIndex(from, step) + j * GridIndexScale
  BY AxisCellFacts
<1>3. k * step = j * step
  <2> DEFINE c == k * step  d == j * step
  <2>1. c \in Int /\ d \in Int
    BY SMT
  <2>3. from + c = from + d
    BY Zenon, <1>1, <1>2
  <2> HIDE DEF c, d
  <2>2. c = d
    BY <2>1, <2>3
  <2> QED
    BY <2>2 DEF c, d
<1>4. k = j
  <2>1. k * step \in Int /\ k \in Int /\ j \in Int
    BY SMT
  <2>2. k * step < k * step + step
    BY SMT, <2>1
  <2> QED
    BY SMT, <1>3, <2>1, <2>2, SameLine
<1> QED
  BY <1>1, <1>2, <1>4

(***************************************************************************)
(* The voxels of a drag are cells of the grid and make up what it spans.   *)
(***************************************************************************)
AxisOf(v, a) == [at |-> v.at[a], size |-> v.size[a], index |-> v.index[a]]

DragCells(sel, a) == AxisCells(DragFrom(sel, a), DragTo(sel, a), DragStep(sel, a))

Triples(v) ==
  /\ v.at = <<v.at[1], v.at[2], v.at[3]>> /\ v.size = <<v.size[1], v.size[2], v.size[3]>>
  /\ v.index = <<v.index[1], v.index[2], v.index[3]>>

GridVoxel(config, v) ==
  /\ Triples(v)
  /\ \A a \in Axes : OnAxis(config, a, AxisOf(v, a)) /\ v.size[a] \in Nat \ {0}

LEMMA VoxelAxes ==
  ASSUME NEW sel, NEW v \in SelectionVoxels(sel)
  PROVE  /\ v = [at |-> v.at, size |-> v.size, index |-> v.index] /\ Triples(v)
         /\ \A a \in Axes : AxisOf(v, a) \in DragCells(sel, a)
<1>1. PICK x \in DragCells(sel, 1), y \in DragCells(sel, 2), z \in DragCells(sel, 3) :
        v = [at |-> <<x.at, y.at, z.at>>, size |-> <<x.size, y.size, z.size>>,
             index |-> <<x.index, y.index, z.index>>]
  BY DEF SelectionVoxels, DragCells, Up
<1>2. \A a : \A c \in DragCells(sel, a) : c = [at |-> c.at, size |-> c.size, index |-> c.index]
  BY DEF DragCells, AxisCells
<1>3. AxisOf(v, 1) = x /\ AxisOf(v, 2) = y /\ AxisOf(v, 3) = z
  BY <1>1, <1>2 DEF AxisOf
<1>4. v = [at |-> v.at, size |-> v.size, index |-> v.index] /\ Triples(v)
  BY <1>1 DEF Triples
<1> QED
  BY <1>3, <1>4 DEF Axes

LEMMA VoxelFrom ==
  ASSUME NEW sel, NEW x \in DragCells(sel, 1), NEW y \in DragCells(sel, 2),
         NEW z \in DragCells(sel, 3)
  PROVE  \E v \in SelectionVoxels(sel) :
           AxisOf(v, 1) = x /\ AxisOf(v, 2) = y /\ AxisOf(v, 3) = z
<1> DEFINE of(p, q, r) == [at |-> <<p.at, q.at, r.at>>, size |-> <<p.size, q.size, r.size>>,
                           index |-> <<p.index, q.index, r.index>>]
<1>1. SelectionVoxels(sel) = {of(p, q, r) : p \in DragCells(sel, 1), q \in DragCells(sel, 2),
                                            r \in DragCells(sel, 3)}
  BY DEF SelectionVoxels, DragCells, Up
<1>2. \A a : \A c \in DragCells(sel, a) : c = [at |-> c.at, size |-> c.size, index |-> c.index]
  BY DEF DragCells, AxisCells
<1>3. AxisOf(of(x, y, z), 1) = x /\ AxisOf(of(x, y, z), 2) = y /\ AxisOf(of(x, y, z), 3) = z
  BY <1>2 DEF AxisOf
<1> HIDE DEF of
<1>4. of(x, y, z) \in SelectionVoxels(sel)
  BY <1>1
<1> QED
  BY <1>3, <1>4

LEMMA DragVoxels ==
  ASSUME NEW config, Grid(config), NEW sel, Whole(config, sel), NEW v \in SelectionVoxels(sel)
  PROVE  /\ GridVoxel(config, v) /\ BaseVoxels(v.at, Far(v)) \subseteq DragBase(sel)
<1>1. \A a \in Axes : /\ OnAxis(config, a, AxisOf(v, a)) /\ v.size[a] \in Nat \ {0}
                      /\ DragFrom(sel, a) <= v.at[a] /\ v.at[a] + v.size[a] <= DragTo(sel, a)
  <2> SUFFICES ASSUME NEW a \in Axes
      PROVE /\ OnAxis(config, a, AxisOf(v, a)) /\ v.size[a] \in Nat \ {0}
            /\ DragFrom(sel, a) <= v.at[a] /\ v.at[a] + v.size[a] <= DragTo(sel, a)
    OBVIOUS
  <2>1. Span(config, a, DragFrom(sel, a), DragTo(sel, a), DragStep(sel, a))
    BY DragSpans
  <2>2. AxisOf(v, a) \in AxisCells(DragFrom(sel, a), DragTo(sel, a), DragStep(sel, a))
    BY VoxelAxes DEF DragCells
  <2>3. /\ OnAxis(config, a, AxisOf(v, a)) /\ AxisOf(v, a).size \in Nat \ {0}
        /\ DragFrom(sel, a) <= AxisOf(v, a).at
        /\ AxisOf(v, a).at + AxisOf(v, a).size <= DragTo(sel, a)
    BY <2>1, <2>2, SpanCells
  <2>4. AxisOf(v, a).at = v.at[a] /\ AxisOf(v, a).size = v.size[a]
    BY DEF AxisOf
  <2> QED
    BY <2>3, <2>4
<1>2. GridVoxel(config, v)
  BY <1>1, VoxelAxes DEF GridVoxel
<1>3. \A a \in Axes : /\ v.at[a] \in Int /\ Far(v)[a] = v.at[a] + v.size[a]
                      /\ DragFrom(sel, a) \in Int /\ DragTo(sel, a) \in Int
  <2>1. \A a \in Axes : AxisOf(v, a).at = v.at[a]
    BY DEF AxisOf
  <2> QED
    BY <1>1, <2>1, DragSpans DEF OnAxis, Far, Span
<1>4. \A a \in Axes : \A b \in v.at[a]..(Far(v)[a] - 1) :
        b \in DragFrom(sel, a)..(DragTo(sel, a) - 1)
  BY SMT, <1>1, <1>3
<1> DEFINE low == [a \in Axes |-> DragFrom(sel, a)]  high == [a \in Axes |-> DragTo(sel, a)]
<1>5. /\ DragBase(sel) = BaseVoxels(low, high)
      /\ \A a \in Axes : low[a] = DragFrom(sel, a) /\ high[a] = DragTo(sel, a)
  BY DEF DragBase
<1> HIDE DEF low, high
<1>6. BaseVoxels(v.at, Far(v)) \subseteq DragBase(sel)
  BY <1>4, <1>5, BaseFacts
<1> QED
  BY <1>2, <1>6

LEMMA DragCovered ==
  ASSUME NEW config, Grid(config), NEW sel, Whole(config, sel), NEW b \in DragBase(sel)
  PROVE  \E v \in SelectionVoxels(sel) : b \in BaseVoxels(v.at, Far(v))
<1> DEFINE low == [a \in Axes |-> DragFrom(sel, a)]  high == [a \in Axes |-> DragTo(sel, a)]
<1>1. /\ DragBase(sel) = BaseVoxels(low, high)
      /\ \A a \in Axes : low[a] = DragFrom(sel, a) /\ high[a] = DragTo(sel, a)
  BY DEF DragBase
<1> HIDE DEF low, high
<1>2. b = <<b[1], b[2], b[3]>> /\ \A a \in Axes : b[a] \in DragFrom(sel, a)..(DragTo(sel, a) - 1)
  BY <1>1, BaseFacts
<1>3. \A a \in Axes : \E x \in DragCells(sel, a) : b[a] \in x.at..(x.at + x.size - 1)
  <2> SUFFICES ASSUME NEW a \in Axes
      PROVE \E x \in DragCells(sel, a) : b[a] \in x.at..(x.at + x.size - 1)
    OBVIOUS
  <2>1. Span(config, a, DragFrom(sel, a), DragTo(sel, a), DragStep(sel, a))
    BY DragSpans
  <2>2. /\ DragFrom(sel, a) \in Int /\ DragTo(sel, a) \in Int /\ DragStep(sel, a) \in Nat
        /\ DragStep(sel, a) > 0 /\ DragFrom(sel, a) < DragTo(sel, a)
    BY <2>1 DEF Span
  <2> QED
    BY <1>2, <2>2, SpanCovered DEF DragCells
<1>4. PICK x \in DragCells(sel, 1), y \in DragCells(sel, 2), z \in DragCells(sel, 3) :
        /\ b[1] \in x.at..(x.at + x.size - 1) /\ b[2] \in y.at..(y.at + y.size - 1)
        /\ b[3] \in z.at..(z.at + z.size - 1)
  BY <1>3 DEF Axes
<1>5. PICK v \in SelectionVoxels(sel) :
        AxisOf(v, 1) = x /\ AxisOf(v, 2) = y /\ AxisOf(v, 3) = z
  BY VoxelFrom
<1>6. \A a \in Axes : b[a] \in v.at[a]..(Far(v)[a] - 1)
  <2>1. \A a \in Axes : AxisOf(v, a).at = v.at[a] /\ AxisOf(v, a).size = v.size[a]
    BY DEF AxisOf
  <2>2. \A a \in Axes : Far(v)[a] = v.at[a] + v.size[a]
    BY DEF Far
  <2>3. /\ b[1] \in AxisOf(v, 1).at..(AxisOf(v, 1).at + AxisOf(v, 1).size - 1)
        /\ b[2] \in AxisOf(v, 2).at..(AxisOf(v, 2).at + AxisOf(v, 2).size - 1)
        /\ b[3] \in AxisOf(v, 3).at..(AxisOf(v, 3).at + AxisOf(v, 3).size - 1)
    BY <1>4, <1>5
  <2>4. \A a \in Axes : b[a] \in AxisOf(v, a).at..(AxisOf(v, a).at + AxisOf(v, a).size - 1)
    BY <2>3 DEF Axes
  <2>5. ASSUME NEW a \in Axes PROVE b[a] \in v.at[a]..(Far(v)[a] - 1)
    <3>1. AxisOf(v, a).at \in Int /\ AxisOf(v, a).size \in Int
      BY DragVoxels DEF GridVoxel, OnAxis, AxisOf
    <3> QED
      BY SMT, <2>1, <2>2, <2>4, <3>1
  <2> QED
    BY <2>5
<1> QED
  BY <1>2, <1>5, <1>6, BaseFacts

LEMMA DragCorners ==
  ASSUME NEW config, Grid(config), NEW sel, Whole(config, sel),
         NEW v \in SelectionVoxels(sel), NEW w \in SelectionVoxels(sel), v.at = w.at
  PROVE  v = w
<1>1. \A a \in Axes : v.size[a] = w.size[a] /\ v.index[a] = w.index[a]
  <2> SUFFICES ASSUME NEW a \in Axes PROVE v.size[a] = w.size[a] /\ v.index[a] = w.index[a]
    OBVIOUS
  <2>1. Span(config, a, DragFrom(sel, a), DragTo(sel, a), DragStep(sel, a))
    BY DragSpans
  <2>2. /\ DragFrom(sel, a) \in Int /\ DragTo(sel, a) \in Int /\ DragStep(sel, a) \in Nat
        /\ DragStep(sel, a) > 0 /\ DragFrom(sel, a) < DragTo(sel, a)
    BY <2>1 DEF Span
  <2>3. /\ AxisOf(v, a) \in AxisCells(DragFrom(sel, a), DragTo(sel, a), DragStep(sel, a))
        /\ AxisOf(w, a) \in AxisCells(DragFrom(sel, a), DragTo(sel, a), DragStep(sel, a))
    BY VoxelAxes DEF DragCells
  <2>4. AxisOf(v, a).at = AxisOf(w, a).at
    BY DEF AxisOf
  <2>5. AxisOf(v, a).size = AxisOf(w, a).size /\ AxisOf(v, a).index = AxisOf(w, a).index
    BY <2>2, <2>3, <2>4, SameCellOfSpan
  <2> QED
    BY <2>5 DEF AxisOf
<1>2. v.size = w.size /\ v.index = w.index
  BY <1>1, VoxelAxes DEF Axes, Triples
<1> QED
  BY <1>2, VoxelAxes

\* Cells of the grid that share a base voxel are the same cell.
LEMMA GridVoxelsApart ==
  ASSUME NEW config, Grid(config), NEW v, GridVoxel(config, v), NEW w, GridVoxel(config, w),
         NEW b \in BaseVoxels(v.at, Far(v)), b \in BaseVoxels(w.at, Far(w))
  PROVE  SameVoxel(v, w)
<1>1. \A a \in Axes : v.at[a] = w.at[a] /\ v.size[a] = w.size[a]
  <2> SUFFICES ASSUME NEW a \in Axes PROVE v.at[a] = w.at[a] /\ v.size[a] = w.size[a]
    OBVIOUS
  <2> DEFINE o == config.origin[a]  E == End(config, a)  m == config.mult
  <2>1. o \in Int /\ E \in Int /\ m \in Nat /\ m > 0
    BY DEF Grid, End
  <2>2. PICK h \in Nat : /\ v.at[a] = o + h * m /\ v.at[a] \in Int
                         /\ v.size[a] = Least(m, E - v.at[a]) /\ v.size[a] \in Nat
    BY DEF GridVoxel, OnAxis, AxisOf, LineAt, SizeAt
  <2>3. PICK k \in Nat : /\ w.at[a] = o + k * m /\ w.at[a] \in Int
                         /\ w.size[a] = Least(m, E - w.at[a]) /\ w.size[a] \in Nat
    BY DEF GridVoxel, OnAxis, AxisOf, LineAt, SizeAt
  <2>4. b[a] \in v.at[a]..(v.at[a] + v.size[a] - 1) /\ b[a] \in w.at[a]..(w.at[a] + w.size[a] - 1)
    <3>1. b[a] \in v.at[a]..(Far(v)[a] - 1) /\ b[a] \in w.at[a]..(Far(w)[a] - 1)
      BY BaseFacts
    <3>2. Far(v)[a] = v.at[a] + v.size[a] /\ Far(w)[a] = w.at[a] + w.size[a]
      BY DEF Far
    <3> QED
      BY SMT, <2>2, <2>3, <3>1, <3>2
  <2> HIDE DEF o, E, m
  <2>5. v.size[a] <= m /\ w.size[a] <= m
    BY SMT, <2>1, <2>2, <2>3 DEF Least
  <2>6. b[a] - o \in Int /\ h \in Int /\ k \in Int
    BY SMT, <2>1, <2>2, <2>4
  <2>7. h * m <= b[a] - o /\ b[a] - o < h * m + m
    BY SMT, <2>1, <2>2, <2>4, <2>5
  <2>8. k * m <= b[a] - o /\ b[a] - o < k * m + m
    BY SMT, <2>1, <2>3, <2>4, <2>5
  <2>9. h = k
    BY <2>1, <2>6, <2>7, <2>8, SameLine
  <2> QED
    BY <2>2, <2>3, <2>9
<1> QED
  BY <1>1 DEF GridVoxel, Triples, Axes, SameVoxel

(***************************************************************************)
(* The voxels of all drags: of those with the same corners the last stays. *)
(***************************************************************************)
Drawing(config, selections) ==
  /\ Grid(config) /\ \E n \in Nat : DOMAIN selections = 1..n
  /\ \A i \in DOMAIN selections : Whole(config, selections[i])

LEMMA VoxelsKept ==
  ASSUME NEW selections, NEW v
  PROVE  v \in Voxels(selections) <=>
           \E i \in DOMAIN selections :
             /\ v \in SelectionVoxels(selections[i])
             /\ \A j \in DOMAIN selections : \A w \in SelectionVoxels(selections[j]) :
                  j > i => ~SameVoxel(v, w)
BY DEF Voxels

LEMMA VoxelsFacts ==
  ASSUME NEW config, NEW selections, Drawing(config, selections), NEW v \in Voxels(selections)
  PROVE  /\ GridVoxel(config, v)
         /\ \E i \in DOMAIN selections :
              /\ v \in SelectionVoxels(selections[i])
              /\ BaseVoxels(v.at, Far(v)) \subseteq DragBase(selections[i])
<1>1. PICK i \in DOMAIN selections : v \in SelectionVoxels(selections[i])
  BY VoxelsKept
<1>2. Grid(config) /\ Whole(config, selections[i])
  BY <1>1 DEF Drawing
<1> QED
  BY <1>1, <1>2, DragVoxels

LEMMA VoxelsApart ==
  ASSUME NEW config, NEW selections, Drawing(config, selections),
         NEW v \in Voxels(selections), NEW w \in Voxels(selections),
         NEW b \in BaseVoxels(v.at, Far(v)), b \in BaseVoxels(w.at, Far(w))
  PROVE  v = w
<1>1. SameVoxel(v, w) /\ SameVoxel(w, v)
  <2>1. Grid(config) /\ GridVoxel(config, v) /\ GridVoxel(config, w)
    BY VoxelsFacts DEF Drawing
  <2>2. SameVoxel(v, w)
    BY <2>1, GridVoxelsApart
  <2> QED
    BY <2>2 DEF SameVoxel
<1>2. PICK i \in DOMAIN selections :
        /\ v \in SelectionVoxels(selections[i])
        /\ \A j \in DOMAIN selections : \A u \in SelectionVoxels(selections[j]) :
             j > i => ~SameVoxel(v, u)
  BY VoxelsKept
<1>3. PICK k \in DOMAIN selections :
        /\ w \in SelectionVoxels(selections[k])
        /\ \A j \in DOMAIN selections : \A u \in SelectionVoxels(selections[j]) :
             j > k => ~SameVoxel(w, u)
  BY VoxelsKept
<1>4. ~(k > i) /\ ~(i > k)
  BY <1>1, <1>2, <1>3
<1>5. i = k
  <2>1. i \in Int /\ k \in Int
    BY DEF Drawing
  <2> QED
    BY <1>4, <2>1
<1>6. Grid(config) /\ Whole(config, selections[i])
  BY DEF Drawing
<1> QED
  BY <1>1, <1>2, <1>3, <1>5, <1>6, DragCorners DEF SameVoxel

LEMMA VoxelsCover ==
  ASSUME NEW config, NEW selections, Drawing(config, selections), NEW i \in DOMAIN selections,
         NEW v \in SelectionVoxels(selections[i])
  PROVE  \E w \in Voxels(selections) : SameVoxel(v, w)
<1>1. PICK n \in Nat : DOMAIN selections = 1..n
  BY DEF Drawing
<1> DEFINE Has(j) == \E w \in SelectionVoxels(selections[j]) : SameVoxel(v, w)
           T == {n - j : j \in {k \in 1..n : Has(k)}}
<1>2. Has(i) /\ i \in 1..n
  BY <1>1 DEF SameVoxel
<1>3. \A t : t \in T <=> \E j \in 1..n : Has(j) /\ t = n - j
  OBVIOUS
<1> HIDE DEF Has, T
<1>4. T \in SUBSET Nat /\ T # {}
  BY <1>2, <1>3
<1>5. PICK t \in T : \A u \in T : t <= u
  BY <1>4, Smallest
<1>6. PICK j \in 1..n : Has(j) /\ t = n - j
  BY <1>3
<1>7. \A k \in 1..n : Has(k) => ~(k > j)
  BY <1>3, <1>5, <1>6
<1>8. PICK w \in SelectionVoxels(selections[j]) : SameVoxel(v, w)
  BY <1>6 DEF Has
<1>9. \A k \in DOMAIN selections : \A u \in SelectionVoxels(selections[k]) :
        k > j => ~SameVoxel(w, u)
  BY <1>1, <1>7, <1>8 DEF Has, SameVoxel
<1>10. w \in Voxels(selections)
  BY <1>1, <1>6, <1>9, VoxelsKept
<1> QED
  BY <1>8, <1>10

\* The voxels make up what the drags span.
LEMMA VoxelsBase ==
  ASSUME NEW config, NEW selections, Drawing(config, selections)
  PROVE  UNION {DragBase(selections[i]) : i \in DOMAIN selections}
           = UNION {BaseVoxels(v.at, Far(v)) : v \in Voxels(selections)}
<1>1. ASSUME NEW i \in DOMAIN selections, NEW b \in DragBase(selections[i])
      PROVE \E v \in Voxels(selections) : b \in BaseVoxels(v.at, Far(v))
  <2>1. Grid(config) /\ Whole(config, selections[i])
    BY DEF Drawing
  <2>2. PICK v \in SelectionVoxels(selections[i]) : b \in BaseVoxels(v.at, Far(v))
    BY <1>1, <2>1, DragCovered
  <2>3. PICK w \in Voxels(selections) : SameVoxel(v, w)
    BY VoxelsCover
  <2> QED
    BY <2>2, <2>3 DEF SameVoxel, Far
<1>2. ASSUME NEW v \in Voxels(selections), NEW b \in BaseVoxels(v.at, Far(v))
      PROVE \E i \in DOMAIN selections : b \in DragBase(selections[i])
  BY <1>2, VoxelsFacts
<1> QED
  BY <1>1, <1>2

(***************************************************************************)
(* Voxels of one size are a group.                                         *)
(***************************************************************************)
Sized(voxels, size) == {v \in voxels : v.size = size}

LEMMA SizedRegular ==
  ASSUME NEW config, Grid(config), NEW V, \A v \in V : GridVoxel(config, v),
         NEW size, \A v \in V : v.size = size, NEW a \in Axes
  PROVE  \/ Cut(V, a)
         \/ Spaced(V, a, config.origin[a], config.mult, GridIndex(config.origin[a], config.mult))
<1> DEFINE o == config.origin[a]  E == End(config, a)  m == config.mult  g == GridIndex(o, m)
<1>1. o \in Int /\ E \in Int /\ m \in Nat /\ m > 0
  BY DEF Grid, End
<1>2. \A v \in V : \E h \in Nat :
        /\ v.at[a] = o + h * m /\ v.at[a] \in Int /\ v.at[a] < E
        /\ v.size[a] = Least(m, E - v.at[a]) /\ v.size[a] = size[a]
        /\ v.index[a] = g + h * GridIndexScale \/ v.size[a] < m
  BY DEF GridVoxel, OnAxis, AxisOf, LineAt, SizeAt
<1> HIDE DEF o, E, m, g
<1>3. CASE size[a] = m
  <2>1. Spaced(V, a, o, m, g)
    BY <1>1, <1>2, <1>3 DEF Spaced
  <2> QED
    BY <2>1 DEF o, m, g
<1>4. CASE size[a] # m
  <2> SUFFICES ASSUME NEW v \in V, NEW w \in V PROVE v.at[a] = w.at[a] /\ v.size[a] = w.size[a]
    BY DEF Cut
  <2>1. PICK h \in Nat : /\ v.at[a] = o + h * m /\ v.at[a] \in Int /\ v.at[a] < E
                         /\ v.size[a] = Least(m, E - v.at[a]) /\ v.size[a] = size[a]
    BY <1>2
  <2>2. PICK k \in Nat : /\ w.at[a] = o + k * m /\ w.at[a] \in Int /\ w.at[a] < E
                         /\ w.size[a] = Least(m, E - w.at[a]) /\ w.size[a] = size[a]
    BY <1>2
  <2>3. E - v.at[a] < m /\ E - w.at[a] < m
    BY SMT, <1>1, <1>4, <2>1, <2>2 DEF Least
  <2>4. E - o \in Int /\ h \in Int /\ k \in Int
    BY SMT, <1>1
  <2>5. h * m <= E - o /\ E - o < h * m + m
    BY SMT, <1>1, <2>1, <2>3
  <2>6. k * m <= E - o /\ E - o < k * m + m
    BY SMT, <1>1, <2>2, <2>3
  <2>7. h = k
    BY <1>1, <2>4, <2>5, <2>6, SameLine
  <2> QED
    BY <2>1, <2>2, <2>7
<1> QED
  BY <1>3, <1>4

LEMMA SizedBounded ==
  ASSUME NEW config, Grid(config), NEW V, \A v \in V : GridVoxel(config, v), NEW a \in Axes,
         Cut(V, a) \/ Spaced(V, a, config.origin[a], config.mult,
                             GridIndex(config.origin[a], config.mult)), V # {}
  PROVE  \E n \in Nat : \A v \in V : v.index[a] \in (-n)..n
<1> DEFINE o == config.origin[a]  e == config.extent[a]  m == config.mult  g == GridIndex(o, m)
<1>1. o \in Int /\ e \in Nat /\ m \in Nat /\ m > 0 /\ End(config, a) = o + e
  BY DEF Grid, End
<1>2. g \in Int
  BY <1>1, IndexIsInt
<1>3. \A v \in V : \E h \in Nat :
        /\ v.at[a] = o + h * m /\ v.at[a] < o + e /\ v.at[a] \in Int /\ v.size[a] \in Nat \ {0}
        /\ \/ v.index[a] = g + h * GridIndexScale
           \/ v.index[a] = GridIndex(v.at[a], v.size[a]) /\ v.size[a] < m
  BY <1>1 DEF GridVoxel, OnAxis, AxisOf, LineAt
<1>4. \A v \in V : Spaced(V, a, o, m, g) => v.size[a] = m
  BY DEF Spaced
<1>5. Cut(V, a) \/ Spaced(V, a, o, m, g)
  OBVIOUS
<1> HIDE DEF o, e, m, g
<1>6. PICK u \in V : TRUE
  OBVIOUS
<1> DEFINE c == GridIndex(u.at[a], u.size[a])
<1>7. c \in Int
  BY <1>3, IndexIsInt
<1>8. \A v \in V : v.index[a] = c \/ \E h \in Nat : h < e /\ v.index[a] = g + h * GridIndexScale
  <2> SUFFICES ASSUME NEW v \in V
      PROVE v.index[a] = c \/ \E h \in Nat : h < e /\ v.index[a] = g + h * GridIndexScale
    OBVIOUS
  <2>1. PICK h \in Nat :
          /\ v.at[a] = o + h * m /\ v.at[a] < o + e /\ v.at[a] \in Int /\ v.size[a] \in Nat \ {0}
          /\ \/ v.index[a] = g + h * GridIndexScale
             \/ v.index[a] = GridIndex(v.at[a], v.size[a]) /\ v.size[a] < m
    BY <1>3
  <2>2. h < e
    <3>1. h * (m - 1) >= 0
      BY SMT, <1>1
    <3> QED
      BY SMT, <1>1, <2>1, <3>1
  <2>3. CASE v.index[a] = g + h * GridIndexScale
    BY <2>2, <2>3
  <2>4. CASE v.index[a] = GridIndex(v.at[a], v.size[a]) /\ v.size[a] < m
    <3>1. v.size[a] # m
      BY <1>1, <2>1, <2>4
    <3>2. Cut(V, a)
      BY <1>4, <1>5, <3>1
    <3> QED
      BY <2>4, <3>2 DEF Cut
  <2> QED
    BY <2>1, <2>3, <2>4
<1> HIDE DEF c
<1> DEFINE n == (IF g < 0 THEN -g ELSE g) + e * GridIndexScale + (IF c < 0 THEN -c ELSE c)
<1>9. n \in Nat /\ \A v \in V : v.index[a] \in (-n)..n
  BY SMT, <1>1, <1>2, <1>7, <1>8 DEF GridIndexScale
<1> QED
  BY <1>9

LEMMA SizedGroup ==
  ASSUME NEW config, NEW selections, Drawing(config, selections), NEW u \in Voxels(selections)
  PROVE  \E lo, hi : Group(Sized(Voxels(selections), u.size), lo, hi)
<1> DEFINE V == Sized(Voxels(selections), u.size)
<1>1. /\ \A v \in V : GridVoxel(config, v) /\ v.size = u.size
      /\ u \in V /\ Grid(config)
  BY VoxelsFacts DEF Sized, Drawing
<1> HIDE DEF V
<1>2. \A a \in Axes :
        \/ Cut(V, a)
        \/ Spaced(V, a, config.origin[a], config.mult, GridIndex(config.origin[a], config.mult))
  BY <1>1, SizedRegular
<1>3. \A a \in Axes : \E n \in Nat : \A v \in V : v.index[a] \in (-n)..n
  BY <1>1, <1>2, SizedBounded
<1>4. Regular(V)
  <2>1. \A a \in Axes : /\ config.origin[a] \in Int /\ config.mult \in Int /\ config.mult > 0
                        /\ GridIndex(config.origin[a], config.mult) \in Int
    BY <1>1, IndexIsInt DEF Grid
  <2> QED
    BY <1>2, <2>1 DEF Regular
<1>5. VoxelTypes(V)
  BY <1>1 DEF VoxelTypes, GridVoxel, Triples, OnAxis, AxisOf
<1>6. \E lo, hi \in Int : Indexed(V, lo, hi)
  <2>0. 1 \in Axes /\ 2 \in Axes /\ 3 \in Axes
    BY DEF Axes
  <2>1. PICK x \in Nat : \A v \in V : v.index[1] \in (-x)..x
    BY <1>3, <2>0
  <2>5. PICK y \in Nat : \A v \in V : v.index[2] \in (-y)..y
    BY <1>3, <2>0
  <2>6. PICK z \in Nat : \A v \in V : v.index[3] \in (-z)..z
    BY <1>3, <2>0
  <2> DEFINE n == x + y + z
  <2>2. \A v \in V : \A a \in Axes : v.index[a] \in (-n)..n
    BY SMT, <2>1, <2>5, <2>6 DEF Axes
  <2>3. n \in Int /\ -n \in Int
    OBVIOUS
  <2>4. Indexed(V, -n, n)
    BY <1>1, <2>2 DEF Indexed, GridVoxel, Triples
  <2> QED
    BY <2>3, <2>4
<1>7. \E lo, hi : Group(V, lo, hi)
  BY <1>4, <1>5, <1>6 DEF Group
<1> QED
  BY <1>7 DEF V

(***************************************************************************)
(* The union.                                                              *)
(***************************************************************************)
\* Boxes that share nothing are apart on some axis.
LEMMA BoxesApart ==
  ASSUME NEW v, NEW w,
         \A a \in Axes : /\ v.min[a] \in Int /\ v.max[a] \in Int /\ v.min[a] < v.max[a]
                         /\ w.min[a] \in Int /\ w.max[a] \in Int /\ w.min[a] < w.max[a],
         \A b \in BaseVoxels(v.min, v.max) : b \notin BaseVoxels(w.min, w.max)
  PROVE  Apart(v, w)
<1> SUFFICES ASSUME ~Apart(v, w) PROVE FALSE
  OBVIOUS
<1> DEFINE p(a) == Greatest(v.min[a], w.min[a])
           b == <<p(1), p(2), p(3)>>
<1>1. \A a \in Axes : p(a) \in v.min[a]..(v.max[a] - 1) /\ p(a) \in w.min[a]..(w.max[a] - 1)
  BY SMT DEF Apart, Greatest
<1>2. b = <<b[1], b[2], b[3]>> /\ \A a \in Axes : b[a] = p(a)
  BY DEF Axes
<1> HIDE DEF p, b
<1>3. b \in BaseVoxels(v.min, v.max) /\ b \in BaseVoxels(w.min, w.max)
  BY <1>1, <1>2, BaseFacts
<1> QED
  BY <1>3

LEMMA UnionMembers ==
  ASSUME NEW selections, NEW x
  PROVE  x \in UnionVolumes(selections) <=>
           \E u \in Voxels(selections) :
             \E c \in Cuboids(Sized(Voxels(selections), u.size)) :
               x = Volume(Sized(Voxels(selections), u.size), c)
<1> DEFINE G(size) == Sized(Voxels(selections), size)
<1>1. UnionVolumes(selections)
        = UNION {{Volume(G(size), c) : c \in Cuboids(G(size))} :
                   size \in {v.size : v \in Voxels(selections)}}
  BY DEF UnionVolumes, Sized
<1> HIDE DEF G
<1>2. x \in UnionVolumes(selections) <=>
        \E u \in Voxels(selections) : \E c \in Cuboids(G(u.size)) : x = Volume(G(u.size), c)
  BY <1>1
<1> QED
  BY <1>2 DEF G

\* A volume lies in the map and is not empty.
LEMMA VolumeTyped ==
  ASSUME NEW config, NEW selections, Drawing(config, selections), NEW u \in Voxels(selections),
         NEW c \in Cuboids(Sized(Voxels(selections), u.size)), NEW x,
         x = Volume(Sized(Voxels(selections), u.size), c)
  PROVE  /\ Inside(config, x)
         /\ \A a \in Axes : x.min[a] \in Int /\ x.max[a] \in Int /\ x.min[a] < x.max[a]
<1> DEFINE V == Sized(Voxels(selections), u.size)
<1>1. PICK lo, hi : Group(V, lo, hi)
  BY SizedGroup
<1>4. c \in Cuboids(V) /\ x = Volume(V, c) /\ V \subseteq Voxels(selections)
  BY DEF Sized
<1> HIDE DEF V
<1>2. PICK p, q \in V : /\ x = [min |-> p.at, max |-> Far(q)]
                        /\ \A a \in Axes : /\ p.index[a] = Side(c)[a][1]
                                           /\ q.index[a] = Side(c)[a][2]
                                           /\ Within(Side(c)[a][1], Side(c)[a])
  BY <1>1, <1>4, VolumeCorners
<1>3. ASSUME NEW a \in Axes
      PROVE /\ x.min[a] \in Int /\ x.max[a] \in Int /\ x.min[a] < x.max[a]
            /\ config.origin[a] <= x.min[a] /\ x.max[a] <= End(config, a)
  <2>1. /\ p.index[a] <= q.index[a]
    BY <1>2 DEF Within
  <2>2. p.at[a] <= q.at[a]
    BY <1>1, <2>1, IndexOrder
  <2>3. x.min[a] = p.at[a] /\ x.max[a] = q.at[a] + q.size[a]
    BY <1>2 DEF Far
  <2>4. Grid(config) /\ GridVoxel(config, p) /\ GridVoxel(config, q)
    BY <1>4, VoxelsFacts DEF Drawing
  <2>5. config.origin[a] \in Int /\ End(config, a) \in Int /\ config.mult \in Nat
    BY <2>4 DEF Grid, End
  <2>6. PICK h \in Nat : p.at[a] = config.origin[a] + h * config.mult /\ p.at[a] \in Int
    BY <2>4 DEF GridVoxel, OnAxis, AxisOf, LineAt
  <2>7. /\ q.at[a] \in Int /\ q.size[a] \in Nat \ {0}
        /\ q.size[a] = Least(config.mult, End(config, a) - q.at[a])
    BY <2>4 DEF GridVoxel, OnAxis, AxisOf, SizeAt
  <2>8. config.origin[a] <= p.at[a]
    <3>1. h * config.mult \in Nat
      BY SMT, <2>5
    <3> QED
      BY SMT, <2>5, <2>6, <3>1
  <2> QED
    BY SMT, <2>2, <2>3, <2>5, <2>6, <2>7, <2>8 DEF Least
<1> QED
  BY <1>3 DEF Inside

\* createRegionSelectionUnion and voxelSelection.ts:223, "one non-overlapping
\* voxel union": on every grid, however many drags there are, the volumes are a
\* partition of what the drags span, and none leaves the map.
THEOREM VolumesPartition ==
  ASSUME NEW config, NEW selections, Drawing(config, selections)
  PROVE  /\ IsPartition(UnionVolumes(selections), selections)
         /\ \A x \in UnionVolumes(selections) : Inside(config, x)
<1> DEFINE G(u) == Sized(Voxels(selections), u.size)
<1>1. \A x : x \in UnionVolumes(selections) <=>
        \E u \in Voxels(selections) : \E c \in Cuboids(G(u)) : x = Volume(G(u), c)
  BY UnionMembers
<1>2. \A u \in Voxels(selections) : \E lo, hi : Group(G(u), lo, hi)
  BY SizedGroup
<1>3. \A u : G(u) \subseteq Voxels(selections) /\ \A v \in G(u) : v.size = u.size
  BY DEF Sized
<1>4. \A u \in Voxels(selections) : u \in G(u)
  BY DEF Sized
<1>5. \A u, v : u.size = v.size => G(u) = G(v)
  OBVIOUS
<1> HIDE DEF G
<1>6. ASSUME NEW u \in Voxels(selections), NEW c \in Cuboids(G(u)),
             NEW b \in BaseVoxels(Volume(G(u), c).min, Volume(G(u), c).max)
      PROVE \E v \in G(u) : InCuboid(v.index, c) /\ b \in BaseVoxels(v.at, Far(v))
  BY <1>2, <1>6, VolumeFilled
<1>7. ASSUME NEW x \in UnionVolumes(selections), NEW y \in UnionVolumes(selections),
             NEW b \in BaseVoxels(x.min, x.max), b \in BaseVoxels(y.min, y.max)
      PROVE x = y
  <2>1. PICK u \in Voxels(selections) : \E c \in Cuboids(G(u)) : x = Volume(G(u), c)
    BY <1>1, <1>7
  <2>2. PICK c \in Cuboids(G(u)) : x = Volume(G(u), c)
    BY <2>1
  <2>3. PICK w \in Voxels(selections) : \E d \in Cuboids(G(w)) : y = Volume(G(w), d)
    BY <1>1, <1>7
  <2>4. PICK d \in Cuboids(G(w)) : y = Volume(G(w), d)
    BY <2>3
  <2>5. PICK p \in G(u) : InCuboid(p.index, c) /\ b \in BaseVoxels(p.at, Far(p))
    BY <1>6, <1>7, <2>2
  <2>6. PICK q \in G(w) : InCuboid(q.index, d) /\ b \in BaseVoxels(q.at, Far(q))
    BY <1>6, <1>7, <2>4
  <2>7. p = q
    BY <1>3, <2>5, <2>6, VoxelsApart
  <2>8. G(u) = G(w)
    BY <1>3, <1>5, <2>5, <2>6, <2>7
  <2>9. PICK lo, hi : Group(G(u), lo, hi)
    BY <1>2
  <2>10. c = d
    <3>1. lo \in Int /\ hi \in Int /\ Indexed(G(u), lo, hi)
      BY <2>9 DEF Group
    <3> QED
      BY <2>5, <2>6, <2>7, <2>8, <3>1, CuboidUnique
  <2> QED
    BY <2>2, <2>4, <2>8, <2>10
<1>8. ASSUME NEW x \in UnionVolumes(selections)
      PROVE /\ Inside(config, x)
            /\ \A a \in Axes : x.min[a] \in Int /\ x.max[a] \in Int /\ x.min[a] < x.max[a]
  <2>1. PICK u \in Voxels(selections) : \E c \in Cuboids(G(u)) : x = Volume(G(u), c)
    BY <1>1, <1>8
  <2> QED
    BY <2>1, VolumeTyped DEF G
<1>9. \A x, y \in UnionVolumes(selections) : x = y \/ Apart(x, y)
  <2> SUFFICES ASSUME NEW x \in UnionVolumes(selections), NEW y \in UnionVolumes(selections), x # y
      PROVE Apart(x, y)
    OBVIOUS
  <2>1. \A b \in BaseVoxels(x.min, x.max) : b \notin BaseVoxels(y.min, y.max)
    BY <1>7
  <2> QED
    BY <1>8, <2>1, BoxesApart
<1>10. ASSUME NEW v \in Voxels(selections), NEW b \in BaseVoxels(v.at, Far(v))
       PROVE \E x \in UnionVolumes(selections) : b \in BaseVoxels(x.min, x.max)
  <2>1. PICK lo, hi : Group(G(v), lo, hi)
    BY <1>2
  <2>2. PICK c \in Cuboids(G(v)) : InCuboid(v.index, c)
    <3>1. lo \in Int /\ hi \in Int /\ Indexed(G(v), lo, hi)
      BY <2>1 DEF Group
    <3> QED
      BY <1>4, <3>1, CuboidOf
  <2>3. b \in BaseVoxels(Volume(G(v), c).min, Volume(G(v), c).max)
    BY <1>4, <1>10, <2>1, <2>2, VolumeCovers
  <2> QED
    BY <1>1, <2>3
<1>11. ASSUME NEW x \in UnionVolumes(selections), NEW b \in BaseVoxels(x.min, x.max)
       PROVE \E v \in Voxels(selections) : b \in BaseVoxels(v.at, Far(v))
  <2>1. PICK u \in Voxels(selections) : \E c \in Cuboids(G(u)) : x = Volume(G(u), c)
    BY <1>1, <1>11
  <2> QED
    BY <1>3, <1>6, <1>11, <2>1
<1>12. UNION {BaseVoxels(x.min, x.max) : x \in UnionVolumes(selections)}
         = UNION {BaseVoxels(v.at, Far(v)) : v \in Voxels(selections)}
  BY <1>10, <1>11
<1> QED
  BY <1>8, <1>9, <1>12, VoxelsBase DEF IsPartition
=============================================================================
