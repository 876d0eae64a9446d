-------------------------- MODULE TransactionProofs -------------------------
(***************************************************************************)
(* Proofs about Transaction: the properties its runs check for small       *)
(* budgets and few reports hold for every receiving count, every set of    *)
(* reports and any number of exchanges.                                    *)
(***************************************************************************)
EXTENDS Transaction, TLAPS

(***************************************************************************)
(* The inductive invariant.                                                *)
(*  - Fresh: what is in the buffer at the head of the loop has already     *)
(*    been rejected, and is a fixed point of the translation: looking at   *)
(*    it again after a failed transfer rejects it again.                   *)
(*  - Ended: the loop is left by an accepted report, or with a negative    *)
(*    counter.                                                             *)
(*  - Accounting: every poll costs eleven points, a busy one gets ten      *)
(*    back; the points spent are those the two counters of the loop say.   *)
(*  - Statistics: the counters, by the place the exchange has reached.     *)
(***************************************************************************)
Rejected == ~IsAnswer(resp) /\ ~IsProgress(resp)

Fresh ==
  /\ pc = "send" => resp = ZeroPacket
  /\ pc \in {"send", "recv"} =>
       /\ Translate(resp) = resp
       /\ Rejected
       /\ successful_communication = FALSE

Ended ==
  pc = "finish" =>
    \/ /\ successful_communication = TRUE
       /\ status = "ok"
       /\ ~Rejected
    \/ /\ successful_communication = FALSE
       /\ receiving_retry_counter < 0
       /\ Rejected

Reported ==
  /\ pc # "idle" => outcome = "none"
  /\ AnswerIsGenuine

Accounting ==
  /\ BusyPolls <= Polls
  /\ pc = "send" => Polls = 0 /\ BusyPolls = 0
  /\ pc = "recv" =>
       /\ receiving_retry_counter >= 0
       /\ 11 * Polls - 10 * BusyPolls =
            11 * (RetryReceivingCount - receiving_retry_counter) + busy_counter
       /\ receiving_retry_counter = 0 => busy_counter = 0 \/ BusyPolls < Polls
  /\ PollBudget

C(f) == m_counters[f]

Finished == C("recv_executed") - C("total_retries")

Statistics ==
  /\ C("communication_successful") =
       C("command_successful_recv") + C("command_result_not_equal_0_recv")
  /\ C("wrong_CRC") <= C("total_retries")
  /\ C("busy_progressbar") <= C("busy")
  /\ C("sends_executed") <= C("total_comm_runs")
  /\ pc = "send" => C("sends_executed") < C("total_comm_runs")
  /\ C("communication_successful") + C("busy_progressbar") <= Finished
  /\ Finished + C("sending_error") + C("receiving_error") <= C("total_comm_runs")
  /\ pc \in {"send", "recv"} \/ (pc = "finish" /\ ~successful_communication) =>
       Finished + C("sending_error") + C("receiving_error") < C("total_comm_runs")
  /\ pc = "finish" /\ successful_communication =>
       C("communication_successful") + C("busy_progressbar") < Finished
  /\ pc = "finish" /\ IsProgress(resp) => C("busy_progressbar") < C("busy")

IInv == TypeOK /\ Fresh /\ Ended /\ Reported /\ Accounting /\ Statistics

-----------------------------------------------------------------------------

\* Translation (device_proto.h:301-331) maps packets to packets.
LEMMA TranslateType ==
  ASSUME NEW r \in Packet
  PROVE  Translate(r) \in Packet
BY DEF Translate, Packet, Byte, TranslatedDeviceStatus,
       TranslatedCommandStatus, IsStorageCommand, IsCRCcorrect, Ok, Busy,
       StorageIdle, StorageOk, StorageBusy, StorageWrongPassword,
       StorageBusyProgressbar, StorageNoUserPasswordUnlock, WrongPassword,
       AESDecFailed

\* A packet left in the buffer by a failed transfer is translated again;
\* that changes nothing.
LEMMA TranslateIdempotent ==
  ASSUME NEW r \in Packet
  PROVE  Translate(Translate(r)) = Translate(r)
BY DEF Translate, Packet, Byte, TranslatedDeviceStatus,
       TranslatedCommandStatus, IsStorageCommand, IsCRCcorrect, Ok, Busy,
       StorageIdle, StorageOk, StorageBusy, StorageWrongPassword,
       StorageBusyProgressbar, StorageNoUserPasswordUnlock, WrongPassword,
       AESDecFailed

\* What an increment of some of the counters does to each of them.
LEMMA BumpAt ==
  ASSUME m_counters \in [CounterNames -> Nat], NEW S
  PROVE  /\ Bump(S) \in [CounterNames -> Nat]
         /\ \A f \in CounterNames :
              Bump(S)[f] = IF f \in S THEN m_counters[f] + 1
                                      ELSE m_counters[f]
BY DEF Bump

\* The zeroed packet is no answer, no progress report and not translated.
LEMMA ZeroPacketRejected ==
  /\ ZeroPacket \in Packet
  /\ Translate(ZeroPacket) = ZeroPacket
  /\ ~IsAnswer(ZeroPacket)
  /\ ~IsProgress(ZeroPacket)
BY DEF ZeroPacket, Packet, Byte, Translate, IsStorageCommand, IsAnswer,
       IsProgress, IsValid, Ok, Busy, StorageBusyProgressbar

\* The invariant holds before the first exchange.
LEMMA InitIInv == Init => IInv
<1> SUFFICES ASSUME Init PROVE IInv
  OBVIOUS
<1> USE ConstantsAssumption, ZeroPacketRejected
<1>1. TypeOK
  <2>1. successful_communication \in BOOLEAN
    BY DEF Init
  <2>2. receiving_retry_counter \in -1..RetryReceivingCount
    BY DEF Init
  <2> QED
    BY <2>1, <2>2 DEF Init, TypeOK, Models, Outcomes, Byte
<1>2. Fresh /\ Ended /\ Reported
  BY DEF Init, Fresh, Ended, Reported, AnswerIsGenuine
<1>3. Accounting
  BY DEF Init, Accounting, PollBudget, Polls, BusyPolls, CounterNames
<1>4. Statistics
  BY DEF Init, Statistics, C, Finished, CounterNames
<1> QED
  BY <1>1, <1>2, <1>3, <1>4 DEF IInv

-----------------------------------------------------------------------------

\* The body of the receiving loop (device_proto.h:297-390) keeps the
\* invariant, for any packet delivered and for a transfer that failed.
LEMMA PollIInv ==
  ASSUME IInv, NEW r \in Packet, NEW s \in {"ok", "failed"},
         s = "ok" \/ r = resp,
         Poll(r, s)
  PROVE  IInv'
<1> DEFINE t == Translate(r)
<1> DEFINE broke == IsAnswer(t) \/ IsProgress(t)
<1> USE ConstantsAssumption
<1>1. t \in Packet /\ Translate(t) = t
  BY TranslateType, TranslateIdempotent
<1>2. /\ pc = "recv" /\ receiving_retry_counter > 0
      /\ resp' = t /\ status' = s /\ model' = model
      /\ successful_communication' = broke
      /\ m_counters' = Bump(PollCounters(t))
      /\ pc' = IF broke THEN "finish" ELSE "recv"
      /\ UNCHANGED <<last_command_status, outcome, start>>
  BY DEF Poll
<1>3. receiving_retry_counter' = IF Spared(t) THEN receiving_retry_counter
                                 ELSE receiving_retry_counter - 1
  BY DEF Poll
<1>4. busy_counter' = IF Spared(t) THEN busy_counter + 1
                      ELSE IF t.device_status = Busy THEN 0 ELSE busy_counter
  BY DEF Poll, Spared
<1>5. retry_timeout' \in Nat
  BY DEF Poll, IInv, TypeOK, Min2
<1>6. s = "failed" => ~broke
  BY DEF IInv, Fresh, Rejected, Poll
<1>7. /\ m_counters' \in [CounterNames -> Nat]
      /\ \A f \in CounterNames :
           m_counters'[f] = IF f \in PollCounters(t) THEN m_counters[f] + 1
                                                     ELSE m_counters[f]
  BY <1>2, BumpAt DEF IInv, TypeOK
<1>8. (Translate(resp))' = Translate(resp')
  BY <1>2 DEF Translate, IsStorageCommand
<1>9. broke <=> ~Rejected'
  BY <1>2 DEF Rejected, IsAnswer, IsProgress, IsValid
<1>10. TypeOK'
  <2>1. successful_communication' \in BOOLEAN
    BY <1>2 DEF IsAnswer, IsProgress
  <2>2. receiving_retry_counter' \in -1..RetryReceivingCount
    BY <1>2, <1>3 DEF IInv, TypeOK
  <2>3. busy_counter' \in 0..10
    BY <1>4 DEF IInv, TypeOK, Spared
  <2>4. pc' \in {"idle", "send", "recv", "finish"}
    BY <1>2
  <2> QED
    BY <1>1, <1>2, <1>5, <1>7, <2>1, <2>2, <2>3, <2>4 DEF IInv, TypeOK
<1>11. Fresh'
  BY <1>1, <1>2, <1>8, <1>9 DEF Fresh
<1>12. Ended'
  BY <1>2, <1>6, <1>9 DEF Ended
<1>13. Reported'
  BY <1>2 DEF IInv, Reported, AnswerIsGenuine
<1>14. Accounting'
  <2>1. m_counters'["recv_executed"] = m_counters["recv_executed"] + 1
    BY <1>7 DEF PollCounters, CounterNames
  <2>2. m_counters'["busy"] = IF t.device_status = Busy
                              THEN m_counters["busy"] + 1
                              ELSE m_counters["busy"]
    BY <1>7 DEF PollCounters, CounterNames
  <2>3. Polls \in Int /\ BusyPolls \in Int
    BY DEF Polls, BusyPolls, IInv, TypeOK, CounterNames
  <2>4. Polls' = Polls + 1
    BY <1>2, <2>1 DEF Polls, IInv, TypeOK, CounterNames
  <2>5. BusyPolls' = IF t.device_status = Busy THEN BusyPolls + 1
                     ELSE BusyPolls
    BY <1>2, <2>2 DEF BusyPolls, IInv, TypeOK, CounterNames
  <2>6. /\ RetryReceivingCount \in Nat
        /\ receiving_retry_counter \in Int
        /\ busy_counter \in 0..10
    BY DEF IInv, TypeOK
  <2>7. /\ BusyPolls <= Polls
        /\ 11 * Polls - 10 * BusyPolls =
             11 * (RetryReceivingCount - receiving_retry_counter) + busy_counter
    BY <1>2 DEF IInv, Accounting
  <2>8. BusyPolls' <= Polls'
    BY <2>3, <2>4, <2>5, <2>7
  <2>9. /\ receiving_retry_counter' >= 0
        /\ 11 * Polls' - 10 * BusyPolls' =
             11 * (RetryReceivingCount - receiving_retry_counter') + busy_counter'
        /\ receiving_retry_counter' = 0 => busy_counter' = 0 \/ BusyPolls' < Polls'
    BY <1>2, <1>3, <1>4, <2>3, <2>4, <2>5, <2>6, <2>7 DEF Spared
  <2>10. Polls' <= 11 * RetryReceivingCount
    BY <1>2, <2>3, <2>4, <2>6, <2>7
  <2> QED
    BY <1>2, <2>8, <2>9, <2>10 DEF Accounting, PollBudget
<1>15. Statistics'
  <2>1. m_counters \in [CounterNames -> Nat]
    BY DEF IInv, TypeOK
  <2>2. Statistics
    BY DEF IInv
  <2>3. CASE broke
    <3>1. PollCounters(t) = {"recv_executed"}
             \cup (IF t.device_status = Busy THEN {"busy"} ELSE {})
      BY <2>3 DEF PollCounters
    <3>2. IsProgress(resp)' => t.device_status = Busy
      BY <1>2 DEF IsProgress
    <3>3. pc = "recv" /\ pc' = "finish" /\ successful_communication'
      BY <1>2, <2>3
    <3>4. /\ m_counters'["recv_executed"] = m_counters["recv_executed"] + 1
          /\ m_counters'["busy"] = IF t.device_status = Busy
                                   THEN m_counters["busy"] + 1
                                   ELSE m_counters["busy"]
      BY <1>7, <3>1 DEF CounterNames
    <3>5. \A f \in CounterNames \ {"recv_executed", "busy"} :
            m_counters'[f] = m_counters[f]
      BY <1>7, <3>1
    <3> QED
      BY <2>1, <2>2, <3>2, <3>3, <3>4, <3>5
      DEF Statistics, C, Finished, CounterNames
  <2>4. CASE ~broke
    <3>1. /\ "recv_executed" \in PollCounters(t)
          /\ "total_retries" \in PollCounters(t)
          /\ PollCounters(t) \subseteq {"recv_executed", "busy",
                                        "total_retries", "wrong_CRC"}
      BY <2>4 DEF PollCounters
    <3>2. /\ m_counters'["recv_executed"] = m_counters["recv_executed"] + 1
          /\ m_counters'["total_retries"] = m_counters["total_retries"] + 1
          /\ m_counters'["wrong_CRC"] <= m_counters["wrong_CRC"] + 1
          /\ m_counters'["busy"] >= m_counters["busy"]
      BY <1>7, <2>1, <3>1 DEF CounterNames
    <3>3. \A f \in CounterNames \ {"recv_executed", "busy",
                                    "total_retries", "wrong_CRC"} :
            m_counters'[f] = m_counters[f]
      BY <1>7, <3>1
    <3>4. /\ m_counters["wrong_CRC"] \in Nat /\ m_counters'["wrong_CRC"] \in Nat
          /\ m_counters["busy"] \in Nat /\ m_counters'["busy"] \in Nat
      BY <1>7, <2>1 DEF CounterNames
    <3> QED
      BY <1>2, <2>1, <2>2, <2>4, <3>2, <3>3, <3>4
      DEF Statistics, C, Finished, CounterNames
  <2> QED
    BY <2>3, <2>4
<1> QED
  BY <1>10, <1>11, <1>12, <1>13, <1>14, <1>15 DEF IInv

\* What is thrown or returned after the loops (device_proto.h:406-482).
LEMMA FinishIInv ==
  ASSUME IInv, Finish
  PROVE  IInv'
<1> USE ConstantsAssumption
<1>1. /\ pc = "finish" /\ pc' = "idle"
      /\ outcome' = Verdict
      /\ m_counters' = Bump(VerdictCounters)
      /\ last_command_status' = resp.last_command_status
      /\ UNCHANGED <<model, start, locals, status>>
  BY DEF Finish, End
<1>2. /\ m_counters' \in [CounterNames -> Nat]
      /\ \A f \in CounterNames :
           m_counters'[f] = IF f \in VerdictCounters THEN m_counters[f] + 1
                                                     ELSE m_counters[f]
  BY <1>1, BumpAt DEF IInv, TypeOK
<1>3. Verdict \in Outcomes \ {"none"}
  BY DEF Verdict, Outcomes
<1>4. /\ resp' = resp
      /\ receiving_retry_counter' = receiving_retry_counter
      /\ busy_counter' = busy_counter
      /\ retry_timeout' = retry_timeout
      /\ successful_communication' = successful_communication
      /\ status' = status /\ model' = model /\ start' = start
  BY <1>1 DEF locals
<1>5. TypeOK'
  BY <1>1, <1>2, <1>3, <1>4 DEF IInv, TypeOK, Packet
<1>6. Fresh' /\ Ended'
  BY <1>1 DEF Fresh, Ended
<1>7. Verdict \in {"success", "CommandFailed"} =>
        /\ status = "ok"
        /\ ~IsProgress(resp)
        /\ IsValid(resp)
        /\ receiving_retry_counter > 0
  BY DEF Verdict, IInv, TypeOK
<1>8. Verdict \in {"success", "CommandFailed"} =>
        IsAnswer(resp) /\ successful_communication
  BY <1>1, <1>7 DEF IInv, TypeOK, Ended, Rejected
<1>9. Reported'
  BY <1>1, <1>4, <1>7, <1>8 DEF Reported, AnswerIsGenuine, IsAnswer, IsValid
<1>10. Accounting'
  <2>1. VerdictCounters \cap {"recv_executed", "busy"} = {}
    BY DEF VerdictCounters
  <2>2. /\ m_counters'["recv_executed"] = m_counters["recv_executed"]
        /\ m_counters'["busy"] = m_counters["busy"]
    BY <1>2, <2>1 DEF CounterNames
  <2> QED
    BY <1>1, <1>4, <2>2 DEF IInv, Accounting, PollBudget, Polls, BusyPolls
<1>11. Statistics'
  <2>1. m_counters \in [CounterNames -> Nat] /\ Statistics
    BY DEF IInv, TypeOK
  <2>2. CASE Verdict = "DeviceReceivingFailure"
    <3>1. VerdictCounters = {"receiving_error"}
      BY <2>2 DEF VerdictCounters
    <3>2. ~successful_communication
      BY <1>1, <2>2 DEF Verdict, IInv, TypeOK, Ended
    <3>3. /\ m_counters'["receiving_error"] = m_counters["receiving_error"] + 1
          /\ \A f \in CounterNames \ {"receiving_error"} :
               m_counters'[f] = m_counters[f]
      BY <1>2, <3>1 DEF CounterNames
    <3> QED
      BY <1>1, <2>1, <3>2, <3>3 DEF Statistics, C, Finished, CounterNames
  <2>3. CASE Verdict = "LongOperationInProgress"
    <3>1. VerdictCounters = {"busy_progressbar"}
      BY <2>3 DEF VerdictCounters
    <3>2. IsProgress(resp)
      BY <2>3 DEF Verdict
    <3>3. successful_communication
      BY <1>1, <3>2 DEF IInv, Ended, Rejected
    <3>4. /\ m_counters'["busy_progressbar"] = m_counters["busy_progressbar"] + 1
          /\ \A f \in CounterNames \ {"busy_progressbar"} :
               m_counters'[f] = m_counters[f]
      BY <1>2, <3>1 DEF CounterNames
    <3> QED
      BY <1>1, <2>1, <3>2, <3>3, <3>4 DEF Statistics, C, Finished, CounterNames
  <2>4. CASE Verdict = "CommandFailed"
    <3>1. VerdictCounters = {"communication_successful",
                             "command_result_not_equal_0_recv"}
      BY <2>4 DEF VerdictCounters
    <3>2. /\ m_counters'["communication_successful"] =
               m_counters["communication_successful"] + 1
          /\ m_counters'["command_result_not_equal_0_recv"] =
               m_counters["command_result_not_equal_0_recv"] + 1
          /\ \A f \in CounterNames \ {"communication_successful",
                                     "command_result_not_equal_0_recv"} :
               m_counters'[f] = m_counters[f]
      BY <1>2, <3>1 DEF CounterNames
    <3> QED
      BY <1>1, <1>8, <2>1, <2>4, <3>2 DEF Statistics, C, Finished, CounterNames
  <2>5. CASE Verdict = "success"
    <3>1. /\ VerdictCounters \subseteq {"communication_successful",
               "command_successful_recv", "successful_storage_commands"}
          /\ "communication_successful" \in VerdictCounters
          /\ "command_successful_recv" \in VerdictCounters
      BY <2>5 DEF VerdictCounters
    <3>2. /\ m_counters'["communication_successful"] =
               m_counters["communication_successful"] + 1
          /\ m_counters'["command_successful_recv"] =
               m_counters["command_successful_recv"] + 1
          /\ \A f \in CounterNames \ {"communication_successful",
                       "command_successful_recv", "successful_storage_commands"} :
               m_counters'[f] = m_counters[f]
      BY <1>2, <3>1 DEF CounterNames
    <3> QED
      BY <1>1, <1>8, <2>1, <2>5, <3>2 DEF Statistics, C, Finished, CounterNames
  <2>6. CASE Verdict \in {"MaximumRetriesReached", "InvalidCRCReceived"}
    <3>1. VerdictCounters = {}
      BY <2>6 DEF VerdictCounters
    <3>2. \A f \in CounterNames : m_counters'[f] = m_counters[f]
      BY <1>2, <3>1
    <3> QED
      BY <1>1, <2>1, <3>2 DEF Statistics, C, Finished, CounterNames
  <2> QED
    BY <2>2, <2>3, <2>4, <2>5, <2>6 DEF Verdict
<1> QED
  BY <1>5, <1>6, <1>9, <1>10, <1>11 DEF IInv

\* Every step of run() keeps the invariant.
LEMMA NextIInv == IInv /\ [Next]_vars => IInv'
<1> SUFFICES ASSUME IInv, [Next]_vars PROVE IInv'
  OBVIOUS
<1> USE ConstantsAssumption
<1>0. m_counters \in [CounterNames -> Nat]
  BY DEF IInv, TypeOK
<1>1. CASE RunWithoutDevice
  <2>1. /\ pc = "idle" /\ pc' = "idle" /\ outcome' = "DeviceNotConnected"
        /\ UNCHANGED <<model, start, resp, receiving_retry_counter,
              busy_counter, retry_timeout, successful_communication, status,
              last_command_status>>
    BY <1>1 DEF RunWithoutDevice, End, locals
  <2>2. m_counters' = m_counters
    BY <1>0, <1>1 DEF RunWithoutDevice, End, Bump
  <2>3. TypeOK'
    BY <2>1, <2>2 DEF IInv, TypeOK, Outcomes
  <2>4. Fresh' /\ Ended' /\ Reported'
    BY <2>1 DEF Fresh, Ended, Reported, AnswerIsGenuine
  <2>5. Accounting' /\ Statistics'
    BY <2>1, <2>2 DEF IInv, Accounting, Statistics, PollBudget, Polls,
                      BusyPolls, C, Finished
  <2> QED
    BY <2>3, <2>4, <2>5 DEF IInv
<1>2. CASE Begin
  <2>1. /\ pc = "idle" /\ pc' = "send" /\ outcome' = "none"
        /\ resp' = ZeroPacket /\ status' = "failed"
        /\ receiving_retry_counter' = 0 /\ busy_counter' = 0
        /\ retry_timeout' = RetryTimeout
        /\ successful_communication' = FALSE
        /\ m_counters' = Bump({"total_comm_runs"}) /\ start' = m_counters'
        /\ UNCHANGED <<model, last_command_status>>
    BY <1>2 DEF Begin
  <2>2. /\ m_counters' \in [CounterNames -> Nat]
        /\ m_counters'["total_comm_runs"] = m_counters["total_comm_runs"] + 1
        /\ \A f \in CounterNames \ {"total_comm_runs"} :
             m_counters'[f] = m_counters[f]
    BY <1>0, <2>1, BumpAt DEF CounterNames
  <2>3. TypeOK'
    <3>1. successful_communication' \in BOOLEAN
      BY <2>1
    <3> QED
      BY <2>1, <2>2, <3>1, ZeroPacketRejected DEF IInv, TypeOK, Outcomes
  <2>4. (Translate(resp))' = Translate(resp')
    BY <2>1 DEF Translate, IsStorageCommand
  <2>5. Rejected'
    BY <2>1, ZeroPacketRejected DEF Rejected, IsAnswer, IsProgress, IsValid
  <2>6. Fresh' /\ Ended' /\ Reported'
    BY <2>1, <2>4, <2>5, ZeroPacketRejected
    DEF Fresh, Ended, Reported, AnswerIsGenuine
  <2>7. Accounting'
    BY <2>1, <2>2 DEF Accounting, PollBudget, Polls, BusyPolls, CounterNames
  <2>8. Statistics'
    BY <1>0, <2>1, <2>2 DEF IInv, Statistics, C, Finished, CounterNames
  <2> QED
    BY <2>3, <2>6, <2>7, <2>8 DEF IInv
<1>3. CASE SendOk
  <2>1. /\ pc = "send" /\ pc' = "recv" /\ status' = "ok"
        /\ receiving_retry_counter' = RetryReceivingCount
        /\ busy_counter' = 0 /\ retry_timeout' = RetryTimeout
        /\ m_counters' = Bump({"sends_executed"})
        /\ UNCHANGED <<model, resp, successful_communication,
                       last_command_status, outcome, start>>
    BY <1>3 DEF SendOk
  <2>2. /\ m_counters' \in [CounterNames -> Nat]
        /\ m_counters'["sends_executed"] = m_counters["sends_executed"] + 1
        /\ \A f \in CounterNames \ {"sends_executed"} :
             m_counters'[f] = m_counters[f]
    BY <1>0, <2>1, BumpAt DEF CounterNames
  <2>3. TypeOK'
    BY <2>1, <2>2 DEF IInv, TypeOK
  <2>4. (Translate(resp))' = Translate(resp) /\ (Rejected' <=> Rejected)
    BY <2>1 DEF Translate, IsStorageCommand, Rejected, IsAnswer, IsProgress,
                IsValid
  <2>5. Fresh' /\ Ended' /\ Reported'
    BY <2>1, <2>4 DEF IInv, Fresh, Ended, Reported, AnswerIsGenuine
  <2>6. Accounting'
    BY <2>1, <2>2 DEF IInv, TypeOK, Accounting, PollBudget, Polls, BusyPolls,
                      CounterNames
  <2>7. Statistics'
    BY <1>0, <2>1, <2>2 DEF IInv, Statistics, C, Finished, CounterNames
  <2> QED
    BY <2>3, <2>5, <2>6, <2>7 DEF IInv
<1>4. CASE SendFails
  <2>1. /\ pc = "send" /\ pc' = "idle" /\ outcome' = "DeviceSendingFailure"
        /\ status' = "failed"
        /\ m_counters' = Bump({"sends_executed", "sending_error"})
        /\ UNCHANGED <<model, start, resp, receiving_retry_counter,
              busy_counter, retry_timeout, successful_communication,
              last_command_status>>
    BY <1>4 DEF SendFails, End, locals
  <2>2. /\ m_counters' \in [CounterNames -> Nat]
        /\ m_counters'["sends_executed"] = m_counters["sends_executed"] + 1
        /\ m_counters'["sending_error"] = m_counters["sending_error"] + 1
        /\ \A f \in CounterNames \ {"sends_executed", "sending_error"} :
             m_counters'[f] = m_counters[f]
    BY <1>0, <2>1, BumpAt DEF CounterNames
  <2>3. TypeOK'
    BY <2>1, <2>2 DEF IInv, TypeOK, Outcomes
  <2>4. Fresh' /\ Ended' /\ Reported'
    BY <2>1 DEF Fresh, Ended, Reported, AnswerIsGenuine
  <2>5. Accounting'
    BY <2>1, <2>2 DEF IInv, Accounting, PollBudget, Polls, BusyPolls,
                      CounterNames
  <2>6. Statistics'
    BY <1>0, <2>1, <2>2 DEF IInv, Statistics, C, Finished, CounterNames
  <2> QED
    BY <2>3, <2>4, <2>5, <2>6 DEF IInv
<1>5. CASE SendThrows
  <2>1. /\ pc = "send" /\ pc' = "idle" /\ outcome' = "DeviceNotConnected"
        /\ m_counters' = Bump({"sends_executed"})
        /\ UNCHANGED <<model, start, resp, receiving_retry_counter,
              busy_counter, retry_timeout, successful_communication, status,
              last_command_status>>
    BY <1>5 DEF SendThrows, End, locals
  <2>2. /\ m_counters' \in [CounterNames -> Nat]
        /\ m_counters'["sends_executed"] = m_counters["sends_executed"] + 1
        /\ \A f \in CounterNames \ {"sends_executed"} :
             m_counters'[f] = m_counters[f]
    BY <1>0, <2>1, BumpAt DEF CounterNames
  <2>3. TypeOK'
    BY <2>1, <2>2 DEF IInv, TypeOK, Outcomes
  <2>4. Fresh' /\ Ended' /\ Reported'
    BY <2>1 DEF Fresh, Ended, Reported, AnswerIsGenuine
  <2>5. Accounting'
    BY <2>1, <2>2 DEF IInv, Accounting, PollBudget, Polls, BusyPolls,
                      CounterNames
  <2>6. Statistics'
    BY <1>0, <2>1, <2>2 DEF IInv, Statistics, C, Finished, CounterNames
  <2> QED
    BY <2>3, <2>4, <2>5, <2>6 DEF IInv
<1>6. CASE RecvReport
  BY <1>6, PollIInv DEF RecvReport
<1>7. CASE RecvFails
  BY <1>7, PollIInv DEF RecvFails, IInv, TypeOK
<1>8. CASE RecvThrows
  <2>1. /\ pc = "recv" /\ pc' = "idle" /\ outcome' = "DeviceNotConnected"
        /\ receiving_retry_counter > 0
        /\ receiving_retry_counter' = receiving_retry_counter - 1
        /\ m_counters' = Bump({"recv_executed"})
        /\ UNCHANGED <<model, start, resp, busy_counter, retry_timeout,
              successful_communication, status, last_command_status>>
    BY <1>8 DEF RecvThrows, End
  <2>2. /\ m_counters' \in [CounterNames -> Nat]
        /\ m_counters'["recv_executed"] = m_counters["recv_executed"] + 1
        /\ \A f \in CounterNames \ {"recv_executed"} :
             m_counters'[f] = m_counters[f]
    BY <1>0, <2>1, BumpAt DEF CounterNames
  <2>3. TypeOK'
    BY <2>1, <2>2 DEF IInv, TypeOK, Outcomes
  <2>4. Fresh' /\ Ended' /\ Reported'
    BY <2>1 DEF Fresh, Ended, Reported, AnswerIsGenuine
  <2>5. Accounting'
    BY <2>1, <2>2 DEF IInv, TypeOK, Accounting, PollBudget, Polls, BusyPolls,
                      CounterNames
  <2>6. Statistics'
    BY <1>0, <2>1, <2>2 DEF IInv, Statistics, C, Finished, CounterNames
  <2> QED
    BY <2>3, <2>4, <2>5, <2>6 DEF IInv
<1>9. CASE LoopExhausted
  <2>1. /\ pc = "recv" /\ pc' = "finish"
        /\ receiving_retry_counter <= 0
        /\ receiving_retry_counter' = receiving_retry_counter - 1
        /\ UNCHANGED <<model, start, resp, busy_counter, retry_timeout,
              successful_communication, status, last_command_status,
              m_counters, outcome>>
    BY <1>9 DEF LoopExhausted
  <2>2. receiving_retry_counter = 0
    BY <2>1 DEF IInv, TypeOK, Accounting
  <2>3. TypeOK'
    BY <2>1, <2>2 DEF IInv, TypeOK
  <2>4. Rejected' /\ successful_communication' = FALSE
    BY <2>1 DEF IInv, Fresh, Rejected, IsAnswer, IsProgress, IsValid
  <2>5. Fresh' /\ Ended' /\ Reported'
    BY <2>1, <2>2, <2>4 DEF IInv, Fresh, Ended, Reported, AnswerIsGenuine
  <2>6. Accounting'
    BY <2>1 DEF IInv, Accounting, PollBudget, Polls, BusyPolls
  <2>7. Statistics'
    BY <2>1, <2>4 DEF IInv, Statistics, C, Finished, Rejected
  <2> QED
    BY <2>3, <2>5, <2>6, <2>7 DEF IInv
<1>10. CASE Finish
  BY <1>10, FinishIInv
<1>11. CASE UNCHANGED vars
  BY <1>11 DEF vars, IInv, TypeOK, Fresh, Ended, Reported, Accounting,
     Statistics, AnswerIsGenuine, PollBudget, Polls, BusyPolls, C, Finished,
     Rejected, IsAnswer, IsProgress, IsValid, Translate, IsStorageCommand
<1> QED
  BY <1>1, <1>2, <1>3, <1>4, <1>5, <1>6, <1>7, <1>8, <1>9, <1>10, <1>11
  DEF Next

\* The invariant holds in every reachable state.
LEMMA Invariance == Spec => []IInv
<1> QED
  BY InitIInv, NextIInv, PTL DEF Spec

-----------------------------------------------------------------------------

(***************************************************************************)
(* The variables of run() and the statistics keep their types; the         *)
(* receiving counter stays in -1..RetryReceivingCount and busy_counter in  *)
(* 0..10 (device_proto.h:275-297, 344-351).                                *)
(***************************************************************************)
THEOREM TypeCorrect == Spec => []TypeOK
<1>1. IInv => TypeOK
  BY DEF IInv
<1> QED
  BY <1>1, Invariance, PTL

(***************************************************************************)
(* For every device and every budget, run() returns data or throws         *)
(* CommandFailedException only on a report that the last poll of the same  *)
(* call delivered and that said the stick was done.                        *)
(***************************************************************************)
THEOREM AnswersAreGenuine == Spec => []AnswerIsGenuine
<1>1. IInv => AnswerIsGenuine
  BY DEF IInv, Reported
<1> QED
  BY <1>1, Invariance, PTL

(***************************************************************************)
(* run() polls at most eleven times the receiving count, however long the  *)
(* stick says it is busy: 165 polls for the Pro and 605 for the Storage.   *)
(***************************************************************************)
THEOREM PollsAreBounded == Spec => []PollBudget
<1>1. IInv => PollBudget
  BY DEF IInv, Accounting
<1> QED
  BY <1>1, Invariance, PTL

(***************************************************************************)
(* The statistics add up after any number of calls.                        *)
(***************************************************************************)
THEOREM CountersAddUp == Spec => []CountersConsistent
<1>1. IInv => CountersConsistent
  BY DEF IInv, TypeOK, Statistics, CountersConsistent, C, Finished, CounterNames
<1> QED
  BY <1>1, Invariance, PTL

-----------------------------------------------------------------------------

\* A poll (device_proto.h:297-385) is a poll of the abstract exchange.
LEMMA PollHears ==
  ASSUME IInv, NEW r \in Packet, NEW s \in {"ok", "failed"}, Poll(r, s),
         s = "ok" \/ r = resp
  PROVE  E!Hear
<1> DEFINE t == Translate(r)
           broke == IsAnswer(t) \/ IsProgress(t)
<1>1. /\ pc = "recv"
      /\ receiving_retry_counter > 0
      /\ resp' = t
      /\ successful_communication' = broke
      /\ pc' = IF broke THEN "finish" ELSE "recv"
      /\ m_counters' = Bump(PollCounters(t))
      /\ UNCHANGED <<outcome, start>>
  BY DEF Poll
<1>2. t \in Packet
  BY TranslateType
<1>3. PollsNow' = PollsNow + 1 /\ PollsNow < 11 * RetryReceivingCount
  <2>1. "recv_executed" \in PollCounters(t)
    BY DEF PollCounters
  <2>2. m_counters'["recv_executed"] = m_counters["recv_executed"] + 1
    BY <1>1, <2>1, BumpAt DEF IInv, TypeOK, CounterNames
  <2>3. Polls' = Polls + 1
    BY <1>1, <2>2 DEF Polls, IInv, TypeOK, CounterNames
  <2>4. PollsNow' = Polls' /\ PollsNow = Polls
    BY <1>1 DEF PollsNow
  <2>5. /\ Polls \in Int /\ BusyPolls \in Int /\ BusyPolls <= Polls
        /\ receiving_retry_counter \in Int /\ busy_counter \in 0..10
        /\ RetryReceivingCount \in Nat
        /\ 11 * Polls - 10 * BusyPolls =
             11 * (RetryReceivingCount - receiving_retry_counter) + busy_counter
    BY <1>1, ConstantsAssumption
       DEF IInv, TypeOK, Accounting, Polls, BusyPolls, CounterNames
  <2>6. Polls < 11 * RetryReceivingCount
    BY <1>1, <2>5
  <2> QED
    BY <2>3, <2>4, <2>6
<1>4. Phase = "waiting" /\ Phase' = "waiting"
  BY <1>1 DEF Phase
<1>5. Heard = "nothing"
  BY <1>1 DEF Heard
<1>6. Heard' \in {"nothing", "done", "refused", "progress"}
  BY DEF Heard
<1> QED
  BY <1>1, <1>3, <1>4, <1>5, <1>6 DEF E!Hear, E!Said

\* The verdict (device_proto.h:399-463) ends the abstract exchange as it may end.
LEMMA FinishConcludes ==
  ASSUME IInv, Finish
  PROVE  E!Fail \/ E!Conclude
<1>1. /\ pc = "finish" /\ pc' = "idle" /\ outcome' = Verdict
  BY DEF Finish, End
<1>2. /\ Phase = "waiting" /\ Phase' = "idle" /\ Heard' = "nothing"
      /\ PollsNow' = 0
  BY <1>1 DEF Phase, Heard, PollsNow
<1>3. CASE successful_communication = FALSE
  <2>1. Rejected /\ receiving_retry_counter < 0
    BY <1>1, <1>3 DEF IInv, Ended
  <2>2. Verdict \in {"DeviceReceivingFailure", "InvalidCRCReceived",
                     "MaximumRetriesReached"}
    BY <2>1 DEF Verdict, Rejected, IInv, TypeOK
  <2>3. Heard = "nothing"
    BY <1>3 DEF Heard
  <2> QED
    BY <1>1, <1>2, <2>2, <2>3 DEF E!Fail, E!End, E!Failures
<1>4. CASE successful_communication = TRUE
  <2>1. status = "ok" /\ ~Rejected
    BY <1>1, <1>4 DEF IInv, Ended
  <2>2. CASE IsProgress(resp)
    <3>1. Verdict = "LongOperationInProgress" /\ Heard = "progress"
      BY <1>1, <1>4, <2>1, <2>2 DEF Verdict, Heard
    <3> QED
      BY <1>1, <1>2, <3>1 DEF E!Conclude, E!End, E!Results
  <2>3. CASE ~IsProgress(resp)
    <3>1. IsAnswer(resp) /\ IsValid(resp)
      BY <2>1, <2>3 DEF Rejected, IsAnswer
    <3>2. CASE resp.last_command_status = 0
      <4>1. Verdict \in {"success", "MaximumRetriesReached"}
        BY <2>1, <2>3, <3>1, <3>2 DEF Verdict, IInv, TypeOK
      <4>2. Heard = "done"
        BY <1>1, <1>4, <2>3, <3>2 DEF Heard
      <4> QED
        BY <1>1, <1>2, <4>1, <4>2 DEF E!Conclude, E!End, E!Results
    <3>3. CASE resp.last_command_status # 0
      <4>1. Verdict \in {"CommandFailed", "MaximumRetriesReached"}
        BY <2>1, <2>3, <3>1, <3>3 DEF Verdict, IInv, TypeOK
      <4>2. Heard = "refused"
        BY <1>1, <1>4, <2>3, <3>3 DEF Heard
      <4> QED
        BY <1>1, <1>2, <4>1, <4>2 DEF E!Conclude, E!End, E!Results
    <3> QED
      BY <3>2, <3>3
  <2> QED
    BY <2>2, <2>3
<1> QED
  BY <1>3, <1>4 DEF IInv, TypeOK

\* Every step of run() is a step of the abstract exchange or leaves it alone.
LEMMA NextSimulates == IInv /\ IInv' /\ [Next]_vars => [E!ENext]_E!evars
<1> SUFFICES ASSUME IInv, IInv', [Next]_vars PROVE [E!ENext]_E!evars
  OBVIOUS
<1>1. CASE RunWithoutDevice
  <2>1. pc = "idle" /\ pc' = "idle" /\ outcome' = "DeviceNotConnected"
    BY <1>1 DEF RunWithoutDevice, End
  <2> QED
    BY <2>1 DEF E!ENext, E!Refuse, E!End, Phase, Heard, PollsNow
<1>2. CASE Begin
  <2>1. pc = "idle" /\ pc' = "send" /\ outcome' = "none"
    BY <1>2 DEF Begin
  <2>2. Phase = "idle" /\ Phase' = "asking" /\ Heard = "nothing" /\ Heard' = "nothing"
    BY <2>1 DEF Phase, Heard
  <2>3. PollsNow = 0 /\ PollsNow' = 0
    BY <2>1 DEF PollsNow, IInv, Accounting
  <2> QED
    BY <2>1, <2>2, <2>3 DEF E!ENext, E!Start
<1>3. CASE SendOk
  <2>1. /\ pc = "send" /\ pc' = "recv" /\ UNCHANGED <<outcome, start>>
        /\ m_counters' = Bump({"sends_executed"})
    BY <1>3 DEF SendOk
  <2>2. m_counters'["recv_executed"] = m_counters["recv_executed"]
    BY <2>1, BumpAt DEF CounterNames, IInv, TypeOK
  <2>3. PollsNow' = PollsNow
    BY <2>1, <2>2 DEF PollsNow, Polls
  <2>4. Phase = "asking" /\ Phase' = "waiting" /\ Heard = "nothing" /\ Heard' = "nothing"
    BY <2>1 DEF Phase, Heard
  <2> QED
    BY <2>1, <2>3, <2>4 DEF E!ENext, E!Sent
<1>4. CASE SendFails \/ SendThrows
  <2>1. /\ pc = "send" /\ pc' = "idle"
        /\ outcome' \in {"DeviceNotConnected", "DeviceSendingFailure"}
    BY <1>4 DEF SendFails, SendThrows, End
  <2>2. Phase = "asking" /\ Phase' = "idle" /\ Heard = "nothing" /\ Heard' = "nothing"
    BY <2>1 DEF Phase, Heard
  <2>3. PollsNow' = 0
    BY <2>1 DEF PollsNow
  <2> QED
    BY <2>1, <2>2, <2>3 DEF E!ENext, E!Fail, E!Failures, E!End
<1>5. CASE RecvReport
  BY <1>5, PollHears, ConstantsAssumption DEF RecvReport, E!ENext
<1>6. CASE RecvFails
  BY <1>6, PollHears DEF RecvFails, E!ENext, IInv, TypeOK
<1>7. CASE RecvThrows
  <2>1. pc = "recv" /\ pc' = "idle" /\ outcome' = "DeviceNotConnected"
    BY <1>7 DEF RecvThrows, End
  <2>2. Phase = "waiting" /\ Phase' = "idle" /\ Heard = "nothing" /\ Heard' = "nothing"
    BY <2>1 DEF Phase, Heard
  <2>3. PollsNow' = 0
    BY <2>1 DEF PollsNow
  <2> QED
    BY <2>1, <2>2, <2>3 DEF E!ENext, E!Fail, E!Failures, E!End
<1>8. CASE LoopExhausted
  <2>1. /\ pc = "recv" /\ pc' = "finish"
        /\ UNCHANGED <<m_counters, start, outcome, successful_communication>>
    BY <1>8 DEF LoopExhausted
  <2>2. successful_communication = FALSE
    BY <2>1 DEF IInv, Fresh
  <2>3. Heard = "nothing" /\ Heard' = "nothing" /\ Phase' = Phase
    BY <2>1, <2>2 DEF Heard, Phase
  <2>4. PollsNow' = PollsNow
    BY <2>1 DEF PollsNow, Polls
  <2> QED
    BY <2>1, <2>3, <2>4 DEF E!evars
<1>9. CASE Finish
  BY <1>9, FinishConcludes DEF E!ENext
<1>10. CASE UNCHANGED vars
  BY <1>10 DEF vars, E!evars, Phase, Heard, PollsNow, Polls, IsProgress
<1> QED
  BY <1>1, <1>2, <1>3, <1>4, <1>5, <1>6, <1>7, <1>8, <1>9, <1>10 DEF Next

(***************************************************************************)
(* run() (device_proto.h:235-480) implements the abstract exchange for     *)
(* every receiving count and every set of reports: the safety part of      *)
(* ImplementsExchange.  That every exchange ends stays with TLC.           *)
(***************************************************************************)
THEOREM RefinesExchange == Spec => E!ESpec
<1>1. Init => E!EInit
  BY DEF Init, E!EInit, Phase, Heard, PollsNow
<1> QED
  BY <1>1, Invariance, NextSimulates, PTL DEF Spec, E!ESpec

=============================================================================
