----------------------------- MODULE MCPayloads -----------------------------
(***************************************************************************)
(* Sticks for model checking Payloads: both sides of the versions at which *)
(* the format of the counter and the protocol change.                      *)
(***************************************************************************)
EXTENDS Payloads

S(m, v, b) == [model |-> m, minor |-> v, build_iteration |-> b]

AllSticks ==
  { S("PRO", 7, 0), S("LIBREM", 8, 0), S("STORAGE", 51, 0),
    S("STORAGE", 53, 0), S("STORAGE", 53, 1) }

\* The hypothesis of theorem CountersReadBack.
ASSUME DecimalChecked == DecimalRoundTrip

=============================================================================
