------------------------------ MODULE Exchange ------------------------------
(***************************************************************************)
(* What Transaction::run promises its caller: the command is sent at most  *)
(* once, the stick is polled a bounded number of times until it says       *)
(* something, and the result is what it said last.  A success is the       *)
(* stick's own answer to a poll of this exchange; without an answer the    *)
(* caller gets an exception; every exchange ends.  Transaction implements  *)
(* this specification.                                                     *)
(***************************************************************************)
EXTENDS Naturals

CONSTANT MaxPolls   \* polls of one exchange

VARIABLES phase,    \* "idle", "asking" (not sent yet), "waiting"
          heard,    \* what the stick has said in this exchange
          polls,    \* polls of this exchange
          result    \* how the last exchange ended, "none" during an exchange

evars == <<phase, heard, polls, result>>

\* An answer without or with an error code, or the progress of a long operation.
Said == {"done", "refused", "progress"}

\* How an exchange ends that the stick has said nothing to, by its phase.
Failures(p) ==
  IF p = "asking" THEN {"DeviceNotConnected", "DeviceSendingFailure"}
  ELSE {"DeviceNotConnected", "DeviceReceivingFailure",
        "MaximumRetriesReached", "InvalidCRCReceived"}

\* How it ends when the stick has said h.  An answer to the last poll that
\* the budget allows is refused.
Results(h) ==
  CASE h = "done" -> {"success", "MaximumRetriesReached"}
    [] h = "refused" -> {"CommandFailed", "MaximumRetriesReached"}
    [] OTHER -> {"LongOperationInProgress"}

EInit ==
  /\ phase = "idle"
  /\ heard = "nothing"
  /\ polls = 0
  /\ result = "none"

End(o) ==
  /\ phase' = "idle"
  /\ heard' = "nothing"
  /\ polls' = 0
  /\ result' = o

\* There is no device object.
Refuse ==
  /\ phase = "idle"
  /\ End("DeviceNotConnected")

Start ==
  /\ phase = "idle"
  /\ phase' = "asking"
  /\ result' = "none"
  /\ UNCHANGED <<heard, polls>>

Sent ==
  /\ phase = "asking"
  /\ phase' = "waiting"
  /\ UNCHANGED <<heard, polls, result>>

\* A poll; it is the last one when the stick says something.
Hear ==
  /\ phase = "waiting"
  /\ heard = "nothing"
  /\ polls < MaxPolls
  /\ polls' = polls + 1
  /\ heard' \in Said \cup {"nothing"}
  /\ UNCHANGED <<phase, result>>

Fail ==
  /\ phase # "idle"
  /\ heard = "nothing"
  /\ \E o \in Failures(phase) : End(o)

Conclude ==
  /\ phase = "waiting"
  /\ heard # "nothing"
  /\ \E o \in Results(heard) : End(o)

ENext == Refuse \/ Start \/ Sent \/ Hear \/ Fail \/ Conclude

ESpec == EInit /\ [][ENext]_evars

\* An exchange that has begun goes on.
EFairSpec == ESpec /\ WF_evars(Sent \/ Hear \/ Fail \/ Conclude)

=============================================================================
