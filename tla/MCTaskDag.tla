------------------------------ MODULE MCTaskDag ------------------------------
(***************************************************************************)
(* A small instance of TaskDag for TLC: a task split over two devices, and *)
(* a task of one unit that waits for it.                                   *)
(***************************************************************************)
EXTENDS TaskDag, TLC

CONSTANTS t1, t2, d1, d2

UnitsOfEach      == (t1 :> 2) @@ (t2 :> 1)
OneAfterTheOther == (t1 :> {}) @@ (t2 :> {t1})

\* The devices are interchangeable, and every property is one of safety.
EqualDevices == Permutations({d1, d2})
=============================================================================
