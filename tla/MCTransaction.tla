---------------------------- MODULE MCTransaction ---------------------------
(***************************************************************************)
(* Reports for model checking Transaction: one packet for each way run()   *)
(* can look at it.                                                         *)
(***************************************************************************)
EXTENDS Transaction

P(ds, s20, cs, ss, c) ==
  [device_status |-> ds, stick20 |-> s20, last_command_status |-> cs,
   storage_status |-> ss, crc |-> c]

MCReports ==
  { P(0, FALSE, 0, 4, "wrong"),   \* answer with a wrong checksum
    P(0, FALSE, 5, 0, "right"),   \* answer: not authorized
    P(0, FALSE, 0, 0, "zero"),    \* checksum field still zero
    P(1, FALSE, 0, 4, "wrong"),   \* busy, payload byte 23 happens to be 4
    P(2, FALSE, 0, 0, "right"),   \* error
    P(0, TRUE, 0, 1, "right"),    \* Storage: ok
    P(0, TRUE, 0, 2, "right"),    \* Storage: busy
    P(0, TRUE, 0, 3, "right"),    \* Storage: wrong password
    P(0, TRUE, 0, 4, "right"),    \* Storage: long operation
    P(0, TRUE, 0, 7, "right") }   \* Storage: smartcard error

=============================================================================
