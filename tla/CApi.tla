-------------------------------- MODULE CApi --------------------------------
(***************************************************************************)
(* The C API (NK_C_API.cc): every function runs an operation of            *)
(* NitrokeyManager inside get_with_status or get_without_result, which     *)
(* turn exceptions into the static variable NK_last_command_status, into   *)
(* the value that the function returns and into what it writes through its *)
(* output pointer.                                                         *)
(*                                                                         *)
(* The operation is any that returns or throws.  NK_last_command_status is *)
(* read and written without a lock: each access is a step of its own.      *)
(***************************************************************************)
EXTENDS Integers

(***************************************************************************)
(* The functions and how they report, in the order of the source:          *)
(*   code    get_without_result: the error code is returned                *)
(*   config  the same, with an output pointer that the operation fills     *)
(*   struct  get_with_status: code returned, output pointer filled after   *)
(*   value   get_with_status: the data or a fallback is returned ("" for a *)
(*           string, nullptr, 0, or -2), the code is not                   *)
(*   login   NK_login: 1 or 0                                              *)
(***************************************************************************)
SessionFunctions ==
  [NK_login |-> "login", NK_login_enum |-> "login", NK_logout |-> "code",
   NK_first_authenticate |-> "code", NK_user_authenticate |-> "code",
   NK_factory_reset |-> "code", NK_build_aes_key |-> "code"]

ConfigFunctions ==
  [NK_unlock_user_password |-> "code", NK_write_config |-> "code",
   NK_write_config_struct |-> "code", NK_read_config |-> "value",
   NK_read_config_struct |-> "config"]

StatusAndCodeFunctions ==
  [NK_status |-> "value", NK_get_status_as_string |-> "value",
   NK_get_status |-> "struct", NK_device_serial_number |-> "value",
   NK_device_serial_number_as_u32 |-> "value", NK_get_hotp_code |-> "value",
   NK_get_hotp_code_PIN |-> "value", NK_get_totp_code |-> "value",
   NK_get_totp_code_PIN |-> "value"]

SlotFunctions ==
  [NK_erase_hotp_slot |-> "code", NK_erase_totp_slot |-> "code",
   NK_write_hotp_slot |-> "code", NK_write_totp_slot |-> "code",
   NK_get_totp_slot_name |-> "value", NK_get_hotp_slot_name |-> "value",
   NK_totp_set_time |-> "code", NK_totp_set_time_soft |-> "code"]

PinAndSafeFunctions ==
  [NK_change_admin_PIN |-> "code", NK_change_user_PIN |-> "code",
   NK_enable_password_safe |-> "code",
   NK_get_password_safe_slot_status |-> "value",
   NK_get_user_retry_count |-> "value", NK_get_admin_retry_count |-> "value",
   NK_lock_device |-> "code", NK_get_password_safe_slot_name |-> "value",
   NK_get_password_safe_slot_login |-> "value",
   NK_get_password_safe_slot_password |-> "value",
   NK_write_password_safe_slot |-> "code",
   NK_erase_password_safe_slot |-> "code",
   NK_is_AES_supported |-> "value", NK_login_auto |-> "value"]

VolumeFunctions ==
  [NK_send_startup |-> "code", NK_unlock_encrypted_volume |-> "code",
   NK_lock_encrypted_volume |-> "code", NK_unlock_hidden_volume |-> "code",
   NK_lock_hidden_volume |-> "code", NK_create_hidden_volume |-> "code",
   NK_set_unencrypted_read_only |-> "code",
   NK_set_unencrypted_read_write |-> "code",
   NK_set_unencrypted_read_only_admin |-> "code",
   NK_set_unencrypted_read_write_admin |-> "code",
   NK_set_encrypted_read_only |-> "code",
   NK_set_encrypted_read_write |-> "code", NK_export_firmware |-> "code",
   NK_clear_new_sd_card_warning |-> "code",
   NK_fill_SD_card_with_random_data |-> "code",
   NK_change_update_password |-> "code", NK_enable_firmware_update |-> "code"]

StorageStatusFunctions ==
  [NK_get_status_storage_as_string |-> "value",
   NK_get_status_storage |-> "struct",
   NK_get_storage_production_info |-> "struct",
   NK_get_SD_usage_data |-> "struct",
   NK_get_SD_usage_data_as_string |-> "value",
   NK_get_progress_bar_value |-> "value",
   NK_get_major_firmware_version |-> "value",
   NK_get_minor_firmware_version |-> "value",
   NK_set_unencrypted_volume_rorw_pin_type_user |-> "value"]

DeviceFunctions ==
  [NK_list_devices_by_cpuID |-> "value", NK_list_devices |-> "value",
   NK_connect_with_ID |-> "value", NK_connect_with_path |-> "value",
   NK_wink |-> "code", NK_enable_firmware_update_pro |-> "code",
   NK_change_firmware_password_pro |-> "code", NK_get_random |-> "struct",
   NK_read_HOTP_slot |-> "struct"]

Tables == {SessionFunctions, ConfigFunctions, StatusAndCodeFunctions,
           SlotFunctions, PinAndSafeFunctions, VolumeFunctions,
           StorageStatusFunctions, DeviceFunctions}

Functions == UNION {DOMAIN T : T \in Tables}

KindOf == [f \in Functions |-> (CHOOSE T \in Tables : f \in DOMAIN T)[f]]

Kind(f) == IF f \in Functions THEN KindOf[f] ELSE "query"

-----------------------------------------------------------------------------

CONSTANTS Threads,       \* callers of the C API
          Called,        \* the functions that they call
          CommandStatus  \* the error codes that a stick can report

ASSUME ConstantsAssumption ==
  Called \subseteq Functions /\ CommandStatus \subseteq 1..255

VARIABLES NK_last_command_status,
          pc,     \* per thread: "idle", "func", "set", "return" or "clear"
          fn,     \* per thread: the function it is in, or was in last
          thrown, \* per thread: the exception of its last wrapped operation
          ret,    \* per thread: the code of its last call
          data    \* per thread: where the data of its last call came from

vars == <<NK_last_command_status, pc, fn, thrown, ret, data>>

\* The exceptions that NitrokeyManager throws, with the byte they carry.
Exception == [class : {"Nothing", "CommandFailed", "Library", "runtime_error",
                       "InvalidCRCReceived", "DeviceCommunication"},
              byte : 0..255]

Nothing == [class |-> "Nothing", byte |-> 0]

(***************************************************************************)
(* A long operation is a CommandFailedException with device_status as its  *)
(* status (1); a LibraryException has an id of its own (200-203); the      *)
(* type of a DeviceCommunicationException is 1 for all its subclasses,     *)
(* because getType() is not virtual.  connect(model), the operation of     *)
(* NK_login, only throws for an unknown model.                             *)
(***************************************************************************)
Throwable(k) ==
  IF k = "login" THEN [class : {"runtime_error"}, byte : {0}]
  ELSE [class : {"CommandFailed"}, byte : CommandStatus \cup {1}]
       \cup [class : {"Library"}, byte : 200..203]
       \cup [class : {"InvalidCRCReceived", "DeviceCommunication"}, byte : {1}]

\* Mutant: the type of a communication error counts from zero.
HandlerCodeFromZero(e) ==
  IF e.class \in {"CommandFailed", "Library"} THEN e.byte
  ELSE 256 - (e.byte - 1)

\* What the handlers of both wrappers store in the status variable.
HandlerCode(e) ==
  IF e.class \in {"CommandFailed", "Library"} THEN e.byte ELSE 256 - e.byte

\* The handlers that store nothing.
Swallowed(k, e) ==
  \/ k \in {"code", "config"} /\ e.class = "InvalidCRCReceived"
  \/ k = "login" /\ e.class = "runtime_error"

\* Mutant: the output pointer is filled without a look at the code.
DataAfterThrowFilling(k, c) ==
  IF k \in {"value", "struct"} THEN "fallback" ELSE "untouched"

\* The data of a function of kind k whose operation threw, code c.
DataAfterThrow(k, c) ==
  CASE k = "value" -> "fallback"
    [] k = "struct" -> IF c = 0 THEN "fallback" ELSE "untouched"
    [] OTHER -> "untouched"

Init ==
  /\ NK_last_command_status = 0
  /\ pc = [t \in Threads |-> "idle"]
  /\ fn = [t \in Threads |-> "none"]
  /\ thrown = [t \in Threads |-> Nothing]
  /\ ret = [t \in Threads |-> 0]
  /\ data = [t \in Threads |-> "none"]

-----------------------------------------------------------------------------

\* A function refuses its arguments before it resets the status: no output
\* pointer, or no such model.
Refuse(t, f) ==
  /\ pc[t] = "idle"
  /\ Kind(f) \in {"struct", "config"} \/ f = "NK_login_enum"
  /\ fn' = [fn EXCEPT ![t] = f]
  /\ ret' = [ret EXCEPT ![t] = IF f = "NK_login_enum" THEN 0 ELSE -1]
  /\ data' = [data EXCEPT ![t] = "untouched"]
  /\ UNCHANGED <<NK_last_command_status, pc, thrown>>

\* A function of the API is called: the status is reset.
Enter(t, f) ==
  /\ pc[t] = "idle"
  /\ fn' = [fn EXCEPT ![t] = f]
  /\ NK_last_command_status' = 0
  /\ pc' = [pc EXCEPT ![t] = "func"]
  /\ thrown' = [thrown EXCEPT ![t] = Nothing]
  /\ data' = [data EXCEPT ![t] = "none"]
  /\ UNCHANGED ret

\* The operation returns: so does the function, with code 0 and the data.
FuncReturns(t) ==
  /\ pc[t] = "func"
  /\ pc' = [pc EXCEPT ![t] = "idle"]
  /\ ret' = [ret EXCEPT ![t] = 0]
  /\ data' = [data EXCEPT ![t] = "operation"]
  /\ UNCHANGED <<NK_last_command_status, fn, thrown>>

FuncThrows(t) ==
  /\ pc[t] = "func"
  /\ \E e \in Throwable(Kind(fn[t])) :
       /\ thrown' = [thrown EXCEPT ![t] = e]
       /\ pc' = [pc EXCEPT ![t] = IF Swallowed(Kind(fn[t]), e) THEN "return"
                                  ELSE "set"]
  /\ UNCHANGED <<NK_last_command_status, fn, ret, data>>

SetStatus(t) ==
  /\ pc[t] = "set"
  /\ NK_last_command_status' = HandlerCode(thrown[t])
  /\ pc' = [pc EXCEPT ![t] = "return"]
  /\ UNCHANGED <<fn, thrown, ret, data>>

\* Mutant: the status is reset when it is returned.
ReturnResetting(t) ==
  /\ pc[t] = "return"
  /\ ret' = [ret EXCEPT ![t] = NK_last_command_status]
  /\ NK_last_command_status' = 0
  /\ data' = [data EXCEPT ![t] = DataAfterThrow(Kind(fn[t]),
                                                NK_last_command_status)]
  /\ pc' = [pc EXCEPT ![t] = "idle"]
  /\ UNCHANGED <<fn, thrown>>

\* The code that is returned is read back from the static variable, except
\* by NK_login, which returns 0.
Return(t) ==
  LET code == IF Kind(fn[t]) = "login" THEN 0 ELSE NK_last_command_status
  IN /\ pc[t] = "return"
     /\ ret' = [ret EXCEPT ![t] = code]
     /\ data' = [data EXCEPT ![t] = DataAfterThrow(Kind(fn[t]), code)]
     /\ pc' = [pc EXCEPT ![t] = "idle"]
     /\ UNCHANGED <<NK_last_command_status, fn, thrown>>

\* NK_get_last_command_status: copies the status, then resets it.
GetLastCopy(t) ==
  /\ pc[t] = "idle"
  /\ fn' = [fn EXCEPT ![t] = "NK_get_last_command_status"]
  /\ ret' = [ret EXCEPT ![t] = NK_last_command_status]
  /\ pc' = [pc EXCEPT ![t] = "clear"]
  /\ UNCHANGED <<NK_last_command_status, thrown, data>>

GetLastClear(t) ==
  /\ pc[t] = "clear"
  /\ NK_last_command_status' = 0
  /\ thrown' = [thrown EXCEPT ![t] = Nothing]
  /\ data' = [data EXCEPT ![t] = "none"]
  /\ pc' = [pc EXCEPT ![t] = "idle"]
  /\ UNCHANGED <<fn, ret>>

Next ==
  \/ \E t \in Threads, f \in Called : Refuse(t, f)
  \/ \E t \in Threads, f \in Called : Enter(t, f)
  \/ \E t \in Threads : FuncReturns(t)
  \/ \E t \in Threads : FuncThrows(t)
  \/ \E t \in Threads : SetStatus(t)
  \/ \E t \in Threads : Return(t)
  \/ \E t \in Threads : GetLastCopy(t)
  \/ \E t \in Threads : GetLastClear(t)

Spec == Init /\ [][Next]_vars

-----------------------------------------------------------------------------

\* Type correctness.
TypeOK ==
  /\ NK_last_command_status \in 0..255
  /\ pc \in [Threads -> {"idle", "func", "set", "return", "clear"}]
  /\ fn \in [Threads -> Functions \cup {"none", "NK_get_last_command_status"}]
  /\ thrown \in [Threads -> Exception]
  /\ ret \in [Threads -> -1..255]
  /\ data \in [Threads -> {"none", "operation", "fallback", "untouched"}]

(***************************************************************************)
(* NK_C_API.h, NK_get_status and NK_get_status_storage: "If the code is    *)
(* zero, i. e. the command was successful, the storage status is written   *)
(* to the output pointer's target."  Code zero comes with the data of the  *)
(* stick, never with the zeros that get_with_status falls back to; with    *)
(* any other code the target keeps what it had.                            *)
(***************************************************************************)
ResultGenuine ==
  \A t \in Threads :
    pc[t] = "idle" /\ Kind(fn[t]) = "struct" =>
      data[t] = IF ret[t] = 0 THEN "operation" ELSE "untouched"

(***************************************************************************)
(* A function that could not return its error leaves it for                *)
(* NK_get_last_command_status: between two calls the status is the code of *)
(* the last wrapped operation, not zero if that threw, until it is asked   *)
(* for; also when a function refused its arguments in between.             *)
(***************************************************************************)
StatusKept ==
  \A t \in Threads :
    pc[t] = "idle" /\ thrown[t] # Nothing =>
      /\ thrown[t].class \notin {"InvalidCRCReceived", "runtime_error"} =>
           NK_last_command_status = HandlerCode(thrown[t])
      /\ data[t] = "fallback" => NK_last_command_status # 0

(***************************************************************************)
(* NK_C_API.h, NK_lock_device and every function that returns no data:     *)
(* "@return command processing error code".  An operation that threw does  *)
(* not return zero.                                                        *)
(***************************************************************************)
FailureReported ==
  \A t \in Threads :
    pc[t] = "idle" /\ Kind(fn[t]) \in {"code", "config"}
      /\ data[t] # "operation" => ret[t] # 0

=============================================================================
