---------------------------- MODULE MCOperations ----------------------------
(***************************************************************************)
(* Sticks for model checking Operations: both sides of every boundary of   *)
(* the firmware tables.                                                    *)
(***************************************************************************)
EXTENDS Operations

S(m, v, b) == [model |-> m, minor |-> v, build_iteration |-> b]

AllSticks ==
  { S("PRO", 7, 0), S("PRO", 8, 3), S("LIBREM", 8, 0), S("STORAGE", 49, 0),
    S("STORAGE", 51, 0), S("STORAGE", 53, 0), S("STORAGE", 53, 1),
    S("STORAGE", 255, 1) }

=============================================================================
