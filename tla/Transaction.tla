---------------------------- MODULE Transaction ----------------------------
(***************************************************************************)
(* One exchange of a command with a stick: Transaction::run of             *)
(* libnitrokey/device_proto.h.  The host sends one HID report and polls    *)
(* for the answer until the report it reads says the stick is done, spends *)
(* its receiving budget, or learns that a long operation is under way.     *)
(*                                                                         *)
(* The stick is an environment that may return any report of Reports on    *)
(* every poll, fail any transfer, and disappear.  Exchanges of different   *)
(* threads never overlap (send_receive_mtx), so a behaviour is a sequence  *)
(* of exchanges.  The counters are those of Device::ErrorCounters, without *)
(* the two that this function never changes.                               *)
(***************************************************************************)
EXTENDS Integers

CONSTANTS RetryReceivingCount, \* Device::m_retry_receiving_count
          RetryTimeout,        \* Device::m_retry_timeout, in milliseconds
          Reports,             \* the reports the stick can return
          MaxRuns              \* bound: exchanges in a behaviour

VARIABLES pc,           \* "idle", "send", "recv" (head of the loop), "finish"
          model,        \* Device::m_model of the device in use
          resp,         \* the response packet on the stack of run()
          status,       \* "ok" iff the last transfer returned a positive number
          receiving_retry_counter,
          busy_counter,
          retry_timeout,
          successful_communication,
          last_command_status, \* Device::last_command_status
          m_counters,
          outcome,      \* how the last exchange ended
          start         \* history: m_counters when the current exchange began

vars == <<pc, model, resp, status, receiving_retry_counter, busy_counter,
          retry_timeout, successful_communication, last_command_status,
          m_counters, outcome, start>>

locals == <<resp, receiving_retry_counter, busy_counter, retry_timeout,
            successful_communication>>

Byte == 0..255

(***************************************************************************)
(* A response packet, reduced to what run() looks at: `stick20' says that  *)
(* command_id is in [CMD_START_VALUE, CMD_END_VALUE), `storage_status' is  *)
(* the byte storage_status.device_status, and `crc' compares the checksum  *)
(* field with zero and with the checksum of the packet.                    *)
(***************************************************************************)
Packet == [device_status : Byte, stick20 : BOOLEAN,
           last_command_status : Byte, storage_status : Byte,
           crc : {"zero", "wrong", "right"}]

ASSUME ConstantsAssumption ==
  /\ RetryReceivingCount \in Nat \ {0}
  /\ RetryTimeout \in Nat
  /\ Reports \subseteq Packet
  /\ MaxRuns \in Nat

Models == {"PRO", "STORAGE", "LIBREM"}

Outcomes == {"none", "success", "CommandFailed", "LongOperationInProgress",
             "DeviceNotConnected", "DeviceSendingFailure",
             "DeviceReceivingFailure", "MaximumRetriesReached",
             "InvalidCRCReceived"}

CounterNames == {"total_comm_runs", "sends_executed", "sending_error",
                 "recv_executed", "busy", "wrong_CRC", "total_retries",
                 "receiving_error", "busy_progressbar",
                 "communication_successful", "command_result_not_equal_0_recv",
                 "command_successful_recv", "successful_storage_commands"}

\* stick10::device_status and stick20::device_status
Ok == 0
Busy == 1
StorageIdle == 0
StorageOk == 1
StorageBusy == 2
StorageWrongPassword == 3
StorageBusyProgressbar == 4
StorageNoUserPasswordUnlock == 6

\* stick10::command_status
WrongPassword == 4
AESDecFailed == 10

Min2(a, b) == IF a < b THEN a ELSE b

\* ResponsePacket::initialize: a zeroed packet
ZeroPacket == [device_status |-> 0, stick20 |-> FALSE,
               last_command_status |-> 0, storage_status |-> 0,
               crc |-> "zero"]

\* ResponsePacket::isValid and isCRCcorrect
IsValid(r) == r.crc # "zero"
IsCRCcorrect(r) == r.crc = "right"

Bump(S) == [f \in CounterNames |-> IF f \in S THEN m_counters[f] + 1
                                              ELSE m_counters[f]]

(***************************************************************************)
(* A Storage command reports its state in storage_status.  The status      *)
(* bytes of the packet are overwritten in place, so the checksum of a      *)
(* packet in which a byte changes stops matching.                          *)
(***************************************************************************)
IsStorageCommand(r) == model = "STORAGE" /\ r.stick20

TranslatedDeviceStatus(s) ==
  CASE s \in {StorageIdle, StorageOk, StorageWrongPassword,
              StorageNoUserPasswordUnlock} -> Ok
    [] s \in {StorageBusy, StorageBusyProgressbar} -> Busy
    [] OTHER -> s

TranslatedCommandStatus(s) ==
  CASE s = StorageWrongPassword -> WrongPassword
    [] s = StorageNoUserPasswordUnlock -> AESDecFailed
    [] OTHER -> 0

Translate(r) ==
  LET ds == TranslatedDeviceStatus(r.storage_status)
      cs == TranslatedCommandStatus(r.storage_status)
      same == ds = r.device_status /\ cs = r.last_command_status
  IN IF IsStorageCommand(r)
     THEN [device_status |-> ds, stick20 |-> r.stick20,
           last_command_status |-> cs, storage_status |-> r.storage_status,
           crc |-> IF IsCRCcorrect(r) /\ ~same THEN "wrong" ELSE r.crc]
     ELSE r

\* The answer of the stick is there (CRC_equal_awaited is always true).
IsAnswer(r) == r.device_status = Ok /\ IsValid(r)

\* The stick works on a long operation and shows its progress.
IsProgress(r) == r.device_status = Busy /\ r.storage_status = StorageBusyProgressbar

Init ==
  /\ pc = "idle"
  /\ model \in Models
  /\ resp = ZeroPacket
  /\ status = "ok"
  /\ receiving_retry_counter = 0
  /\ busy_counter = 0
  /\ retry_timeout = RetryTimeout
  /\ successful_communication = FALSE
  /\ last_command_status = 0
  /\ m_counters = [f \in CounterNames |-> 0]
  /\ outcome = "none"
  /\ start = [f \in CounterNames |-> 0]

-----------------------------------------------------------------------------

\* The exchange ends: by an exception, or with the answer.
End(o, S) ==
  /\ pc' = "idle"
  /\ outcome' = o
  /\ m_counters' = Bump(S)
  /\ UNCHANGED <<model, start>>

\* run() without a device object.
RunWithoutDevice ==
  /\ pc = "idle"
  /\ End("DeviceNotConnected", {})
  /\ UNCHANGED <<locals, status, last_command_status>>

\* Mutant: the packet of the earlier exchange stays in the buffer.
BeginKeepsPacket ==
  /\ pc = "idle"
  /\ m_counters["total_comm_runs"] < MaxRuns
  /\ pc' = "send"
  /\ m_counters' = Bump({"total_comm_runs"})
  /\ start' = Bump({"total_comm_runs"})
  /\ status' = "failed"
  /\ receiving_retry_counter' = 0
  /\ busy_counter' = 0
  /\ retry_timeout' = RetryTimeout
  /\ successful_communication' = FALSE
  /\ outcome' = "none"
  /\ UNCHANGED <<model, resp, last_command_status>>

Begin ==
  /\ pc = "idle"
  /\ m_counters["total_comm_runs"] < MaxRuns
  /\ pc' = "send"
  /\ m_counters' = Bump({"total_comm_runs"})
  /\ start' = Bump({"total_comm_runs"})
  /\ resp' = ZeroPacket
  /\ status' = "failed"
  /\ receiving_retry_counter' = 0
  /\ busy_counter' = 0
  /\ retry_timeout' = RetryTimeout
  /\ successful_communication' = FALSE
  /\ outcome' = "none"
  /\ UNCHANGED <<model, last_command_status>>

\* Device::send returns.  m_retry_sending_count is 1: the outer loop of
\* run() sends once.
SendOk ==
  /\ pc = "send"
  /\ pc' = "recv"
  /\ status' = "ok"
  /\ m_counters' = Bump({"sends_executed"})
  /\ receiving_retry_counter' = RetryReceivingCount
  /\ busy_counter' = 0
  /\ retry_timeout' = RetryTimeout
  /\ UNCHANGED <<model, resp, successful_communication, last_command_status,
                 outcome, start>>

SendFails ==
  /\ pc = "send"
  /\ End("DeviceSendingFailure", {"sends_executed", "sending_error"})
  /\ status' = "failed"
  /\ UNCHANGED <<locals, last_command_status>>

\* Device::send throws: the handle is gone.
SendThrows ==
  /\ pc = "send"
  /\ End("DeviceNotConnected", {"sends_executed"})
  /\ UNCHANGED <<locals, status, last_command_status>>

(***************************************************************************)
(* One turn of the receiving loop with packet r in the buffer and s the    *)
(* result of Device::recv.  A failed transfer leaves the buffer alone, and *)
(* the loop looks at the packet before it looks at the result.             *)
(***************************************************************************)
\* Mutant: one busy report too many is free.
SparedEleven(t) == t.device_status = Busy /\ busy_counter <= 10

Spared(t) == t.device_status = Busy /\ busy_counter < 10

\* Mutant: a wrong checksum is counted on every report, not only on retries.
PollCountersAlways(t) ==
  {"recv_executed"}
  \cup (IF t.device_status = Busy THEN {"busy"} ELSE {})
  \cup (IF IsAnswer(t) \/ IsProgress(t) THEN {} ELSE {"total_retries"})
  \cup (IF IsCRCcorrect(t) THEN {} ELSE {"wrong_CRC"})

PollCounters(t) ==
  {"recv_executed"}
  \cup (IF t.device_status = Busy THEN {"busy"} ELSE {})
  \cup (IF IsAnswer(t) \/ IsProgress(t) THEN {}
        ELSE {"total_retries"}
             \cup (IF IsCRCcorrect(t) THEN {} ELSE {"wrong_CRC"}))

\* Mutant: busy reports are always free.
PollBusyFree(r, s) ==
  LET t == Translate(r)
      broke == IsAnswer(t) \/ IsProgress(t)
  IN /\ pc = "recv"
     /\ receiving_retry_counter > 0
     /\ resp' = t
     /\ status' = s
     /\ receiving_retry_counter' = IF t.device_status = Busy
                                   THEN receiving_retry_counter
                                   ELSE receiving_retry_counter - 1
     /\ successful_communication' = broke
     /\ m_counters' = Bump(PollCounters(t))
     /\ pc' = IF broke THEN "finish" ELSE "recv"
     /\ UNCHANGED <<model, last_command_status, outcome, start, busy_counter,
                    retry_timeout>>

Poll(r, s) ==
  LET t == Translate(r)
      broke == IsAnswer(t) \/ IsProgress(t)
      backoff == t.device_status = Busy /\ ~Spared(t)
  IN /\ pc = "recv"
     /\ receiving_retry_counter > 0
     /\ resp' = t
     /\ status' = s
     /\ receiving_retry_counter' = IF Spared(t) THEN receiving_retry_counter
                                   ELSE receiving_retry_counter - 1
     /\ busy_counter' = IF Spared(t) THEN busy_counter + 1
                        ELSE IF backoff THEN 0 ELSE busy_counter
     /\ retry_timeout' = IF backoff THEN Min2(2 * retry_timeout, 300)
                         ELSE retry_timeout
     /\ successful_communication' = broke
     /\ m_counters' = Bump(PollCounters(t))
     /\ pc' = IF broke THEN "finish" ELSE "recv"
     /\ UNCHANGED <<model, last_command_status, outcome, start>>

RecvReport == \E r \in Reports : Poll(r, "ok")

RecvFails == Poll(resp, "failed")

\* Device::recv throws: the handle is gone.
RecvThrows ==
  /\ pc = "recv"
  /\ receiving_retry_counter > 0
  /\ End("DeviceNotConnected", {"recv_executed"})
  /\ receiving_retry_counter' = receiving_retry_counter - 1
  /\ UNCHANGED <<resp, busy_counter, retry_timeout, successful_communication,
                 status, last_command_status>>

\* Mutant: the loop spins when its budget is spent.
LoopSpins ==
  /\ pc = "recv"
  /\ receiving_retry_counter <= 0
  /\ UNCHANGED vars

\* The test of the loop fails; the post-decrement happens all the same.
LoopExhausted ==
  /\ pc = "recv"
  /\ receiving_retry_counter <= 0
  /\ receiving_retry_counter' = receiving_retry_counter - 1
  /\ pc' = "finish"
  /\ UNCHANGED <<model, resp, status, busy_counter, retry_timeout,
                 successful_communication, last_command_status, m_counters,
                 outcome, start>>

(***************************************************************************)
(* After the loops: the command status of whatever packet is in the buffer *)
(* is stored in the device, then the first of these that applies.          *)
(***************************************************************************)
\* Mutant: the remaining budget is not looked at.
VerdictIgnoringBudget ==
  CASE status # "ok" -> "DeviceReceivingFailure"
    [] status = "ok" /\ IsProgress(resp) -> "LongOperationInProgress"
    [] status = "ok" /\ ~IsProgress(resp) /\ ~IsValid(resp) -> "InvalidCRCReceived"
    [] status = "ok" /\ ~IsProgress(resp) /\ IsValid(resp)
         /\ resp.last_command_status # 0 -> "CommandFailed"
    [] OTHER -> "success"

Verdict ==
  CASE status # "ok" -> "DeviceReceivingFailure"
    [] status = "ok" /\ IsProgress(resp) -> "LongOperationInProgress"
    [] status = "ok" /\ ~IsProgress(resp) /\ ~IsValid(resp) -> "InvalidCRCReceived"
    [] status = "ok" /\ ~IsProgress(resp) /\ IsValid(resp)
         /\ receiving_retry_counter <= 0 -> "MaximumRetriesReached"
    [] status = "ok" /\ ~IsProgress(resp) /\ IsValid(resp)
         /\ receiving_retry_counter > 0 /\ resp.last_command_status # 0
         -> "CommandFailed"
    [] OTHER -> "success"

VerdictCounters ==
  CASE Verdict = "DeviceReceivingFailure" -> {"receiving_error"}
    [] Verdict = "LongOperationInProgress" -> {"busy_progressbar"}
    [] Verdict = "CommandFailed" ->
         {"communication_successful", "command_result_not_equal_0_recv"}
    [] Verdict = "success" ->
         {"communication_successful", "command_successful_recv"}
         \cup (IF IsStorageCommand(resp) THEN {"successful_storage_commands"}
               ELSE {})
    [] OTHER -> {}

Finish ==
  /\ pc = "finish"
  /\ last_command_status' = resp.last_command_status
  /\ End(Verdict, VerdictCounters)
  /\ UNCHANGED <<locals, status>>

Next ==
  \/ RunWithoutDevice
  \/ Begin
  \/ SendOk
  \/ SendFails
  \/ SendThrows
  \/ RecvReport
  \/ RecvFails
  \/ RecvThrows
  \/ LoopExhausted
  \/ Finish

Spec == Init /\ [][Next]_vars

(***************************************************************************)
(* The thread that is inside run() is not descheduled for ever, and the    *)
(* calls into hidapi return.                                               *)
(***************************************************************************)
Fairness ==
  /\ WF_vars(SendOk \/ SendFails \/ SendThrows)
  /\ WF_vars(RecvReport \/ RecvFails \/ RecvThrows \/ LoopExhausted)
  /\ WF_vars(Finish)

FairSpec == Spec /\ Fairness

-----------------------------------------------------------------------------

\* Type correctness.
TypeOK ==
  /\ pc \in {"idle", "send", "recv", "finish"}
  /\ model \in Models
  /\ resp \in Packet
  /\ status \in {"ok", "failed"}
  /\ receiving_retry_counter \in -1..RetryReceivingCount
  /\ busy_counter \in 0..10
  /\ retry_timeout \in Nat
  /\ successful_communication \in BOOLEAN
  /\ last_command_status \in Byte
  /\ m_counters \in [CounterNames -> Nat]
  /\ outcome \in Outcomes
  /\ start \in [CounterNames -> Nat]

\* Polls and busy polls of the current (or last) exchange.
Polls == m_counters["recv_executed"] - start["recv_executed"]
BusyPolls == m_counters["busy"] - start["busy"]

(***************************************************************************)
(* An exchange that returns data, or the error code of the stick, does so  *)
(* from a report that the last poll of this very exchange delivered and    *)
(* that said the stick was done.  run() looks at the packet before the     *)
(* result of the transfer, and after the loop it never looks at            *)
(* device_status again: only the zeroed packet, the order of the checks    *)
(* and the remaining budget keep a stale or unfinished packet out.         *)
(***************************************************************************)
AnswerIsGenuine ==
  outcome \in {"success", "CommandFailed"} =>
    /\ status = "ok"
    /\ IsAnswer(resp)
    /\ successful_communication

(***************************************************************************)
(* A stick that stays busy is polled for long, but not for ever: ten busy  *)
(* reports in a row are free and the eleventh costs one unit, so an        *)
(* exchange polls at most eleven times the receiving count.                *)
(***************************************************************************)
PollBudget == Polls <= 11 * RetryReceivingCount

(***************************************************************************)
(* The statistics of ErrorCounters add up between exchanges: a finished    *)
(* communication is a success or a failed command; every poll that was not *)
(* retried ended an exchange; checksum errors are only counted on retries; *)
(* and every exchange sends at most once.                                  *)
(***************************************************************************)
CountersConsistent ==
  /\ m_counters["communication_successful"] =
       m_counters["command_successful_recv"]
         + m_counters["command_result_not_equal_0_recv"]
  /\ pc = "idle" =>
       /\ m_counters["communication_successful"]
            + m_counters["busy_progressbar"]
            <= m_counters["recv_executed"] - m_counters["total_retries"]
       /\ m_counters["recv_executed"] - m_counters["total_retries"]
            + m_counters["sending_error"] + m_counters["receiving_error"]
            <= m_counters["total_comm_runs"]
  /\ m_counters["wrong_CRC"] <= m_counters["total_retries"]
  /\ m_counters["busy_progressbar"] <= m_counters["busy"]
  /\ m_counters["sends_executed"] <= m_counters["total_comm_runs"]

(***************************************************************************)
(* Every exchange ends, whatever the stick answers: the loop has a budget  *)
(* although busy reports give a unit back.                                 *)
(***************************************************************************)
RunTerminates == (pc # "idle") ~> (pc = "idle")

(***************************************************************************)
(* Transaction implements Exchange: what run() tells its caller is what    *)
(* the stick said in the last poll of this exchange, once it says anything *)
(* it is polled no more, and the exchange ends.  Resending by the outer    *)
(* loop, a stale packet looked at twice, or a poll after the answer would  *)
(* be steps that the abstract exchange does not have.                      *)
(***************************************************************************)
Phase ==
  IF pc = "idle" THEN "idle" ELSE IF pc = "send" THEN "asking" ELSE "waiting"

Heard ==
  IF pc # "finish" \/ ~successful_communication THEN "nothing"
  ELSE IF IsProgress(resp) THEN "progress"
  ELSE IF resp.last_command_status = 0 THEN "done" ELSE "refused"

PollsNow == IF pc = "idle" THEN 0 ELSE Polls

E == INSTANCE Exchange
       WITH MaxPolls <- 11 * RetryReceivingCount, phase <- Phase,
            heard <- Heard, polls <- PollsNow, result <- outcome

ImplementsExchange == E!EFairSpec

(***************************************************************************)
(* What the exception at the end of run() says: it reports that no answer  *)
(* came within the budget ("Maximum receiving_retry_counter count reached  *)
(* for receiving response from the device!").                              *)
(***************************************************************************)
MaximumMeansNoAnswer ==
  outcome = "MaximumRetriesReached" => ~successful_communication

(***************************************************************************)
(* What CommandFailedException::reason_smartcard_busy presumes and         *)
(* NitrokeyManager::is_smartcard_in_use relies on: a Storage command that  *)
(* ends on a report of smartcard_error (7) fails with that status.         *)
(***************************************************************************)
SmartcardErrorReported ==
  outcome \notin {"none", "DeviceNotConnected", "DeviceSendingFailure",
                  "DeviceReceivingFailure"}
    /\ IsStorageCommand(resp) /\ resp.storage_status = 7 /\ IsValid(resp)
    => outcome = "CommandFailed" /\ last_command_status = 7

=============================================================================
