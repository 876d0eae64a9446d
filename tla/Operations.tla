----------------------------- MODULE Operations -----------------------------
(***************************************************************************)
(* The operations of NitrokeyManager (NitrokeyManager.cc): each checks its *)
(* arguments, asks the stick for its firmware version where the protocol   *)
(* depends on it, and makes one or several exchanges (module Transaction). *)
(* An exception of a check or of an exchange ends the operation where it   *)
(* is; nothing is undone on the stick.                                     *)
(*                                                                         *)
(* One caller runs operations one after the other on a connected stick.    *)
(* An operation is the sequence of its checks (names that end in "?") and  *)
(* commands still to do.  Data is the number of the call it came from; a   *)
(* byte of an OTP secret is that number and its place in the secret.       *)
(*                                                                         *)
(* The stick is external: it is modelled by what the operations rely on.   *)
(***************************************************************************)
EXTENDS Firmware, Sequences

CONSTANTS Sticks,    \* the sticks: model, firmware minor and build_iteration
          Lengths,   \* lengths in bytes of the OTP secrets that are written
          MaxCalls   \* bound: operations in a behaviour

ASSUME ConstantsAssumption ==
  /\ Sticks \subseteq Stick
  /\ Lengths \subseteq 0..128
  /\ MaxCalls \in Nat

VARIABLES call,      \* number of the current (or last) call; 0 before the first
          op,        \* its operation
          bad,       \* the argument that is too long or malformed, or "none"
          length,    \* per call, the length of the secret it writes
          todo,      \* checks and commands still to do
          remaining, \* remaining_secret_length
          id,        \* payload2.id
          outcome,   \* "running", or how the call ended
          sent,      \* history: commands of this call that the stick executed
          committed, \* history: calls whose write command the stick executed
          before,    \* history: what the stick kept when the call began
          stick,     \* the stick in use
          authorized, \* the call whose packet Authorize has announced
          staged,    \* OTP data received with SEND_OTP_DATA
          current,   \* the call whose PIN came with SEND_PASSWORD
          kept       \* what the stick keeps: OTP slot, safe slot, PIN

host == <<call, op, bad, length, todo, remaining, id, outcome, sent, committed,
          before>>

vars == <<host, stick, authorized, staged, current, kept>>

Calls == 0..MaxCalls

-----------------------------------------------------------------------------
\* Operations that make one exchange, in the order of the source.

StatusOperations == {"get_status", "get_status_as_string"}

SlotAndTimeOperations ==
  {"get_totp_slot_name", "get_hotp_slot_name", "first_authenticate",
   "set_time", "set_time_soft"}

PasswordSafeOperations ==
  {"get_password_safe_slot_status", "lock_device",
   "get_password_safe_slot_name", "get_password_safe_slot_login",
   "get_password_safe_slot_password"}

EraseAndResetOperations ==
  {"erase_password_safe_slot", "user_authenticate", "factory_reset"}

VolumeOperations ==
  {"send_startup", "unlock_encrypted_volume", "unlock_hidden_volume",
   "set_encrypted_volume_read_only", "set_encrypted_volume_read_write",
   "create_hidden_volume"}

FirmwareAndCardOperations ==
  {"export_firmware", "enable_firmware_update", "clear_new_sd_card_warning",
   "fill_SD_card_with_random_data", "change_update_password",
   "get_status_storage", "get_SD_usage_data", "get_progress_bar_value"}

LastOperations ==
  {"lock_encrypted_volume", "lock_hidden_volume", "get_SD_card_size", "wink",
   "production_info", "enable_firmware_update_pro", "get_random_pro",
   "change_firmware_update_password_pro"}

SingleOperations ==
  StatusOperations \cup SlotAndTimeOperations \cup PasswordSafeOperations
    \cup EraseAndResetOperations \cup VolumeOperations
    \cup FirmwareAndCardOperations \cup LastOperations
    \cup {"read_config", "is_smartcard_in_use", "is_AES_supported"}

\* The ones among them that check no argument.
Unchecked ==
  StatusOperations \cup
  {"set_time", "set_time_soft", "get_password_safe_slot_status", "lock_device",
   "read_config", "is_smartcard_in_use", "send_startup", "get_status_storage",
   "get_SD_usage_data", "get_progress_bar_value", "lock_encrypted_volume",
   "lock_hidden_volume", "get_SD_card_size", "wink", "production_info",
   "get_random_pro"}

\* Mutant: every operation takes a failed command for a result.
CaughtByAll(o) == {"CommandFailed"}

\* The exceptions of an exchange that an operation turns into a result.
Caught(o) ==
  CASE o = "is_smartcard_in_use" -> {"CommandFailed", "LongOperationInProgress"}
    [] o = "get_progress_bar_value" -> {"LongOperationInProgress"}
    [] o = "get_serial_number" -> {"DeviceNotConnected"}
    [] OTHER -> {}

-----------------------------------------------------------------------------
\* Operations that make several exchanges, or ask for the version first.

\* authorize_packet: the version is asked for again, and only logged.
AuthorizePacket(auth) == <<"status", "password?", auth>>

GetCode(o) ==
  IF IsAuthorizationCommandSupported(stick)
  THEN (IF o = "get_code_PIN" THEN AuthorizePacket("UserAuthorize") ELSE <<>>)
         \o <<"GetCode">>
  ELSE <<"password?", "GetCode08">>

EraseSlot ==
  IF IsAuthorizationCommandSupported(stick)
  THEN AuthorizePacket("Authorize") \o <<"EraseSlot">>
  ELSE <<"password?", "EraseSlot08">>

\* write_HOTP_slot_authorize and write_TOTP_slot_authorize; a Storage gets the
\* counter of a HOTP slot as a decimal number of at most eight digits.
WriteAuthorize ==
  <<"secret?", "length20?", "name?", "token?">>
    \o (IF stick.model = "STORAGE" THEN <<"counter?">> ELSE <<>>)
    \o AuthorizePacket("Authorize") \o <<"WriteToSlot">>

\* Mutant: the token id is checked last.
WriteNoAuthorizeTokenLast ==
  <<"password?", "name?", "SendName", "secret?", "length40?", "SendSecret",
    "WriteToOTPSlot", "token?">>

\* write_OTP_slot_no_authorize
WriteNoAuthorize ==
  <<"password?", "name?", "SendName", "secret?", "length40?", "SendSecret",
    "token?", "WriteToOTPSlot">>

WriteSlot ==
  IF IsAuthorizationCommandSupported(stick) THEN WriteAuthorize
  ELSE WriteNoAuthorize

WriteConfig ==
  (IF IsAuthorizationCommandSupported(stick) THEN AuthorizePacket("Authorize")
   ELSE <<"password?">>)
  \o <<"WriteGeneralConfig">>

\* Mutant: the two commands of a Storage in the wrong order.
ChangePINSwapped ==
  <<"password?", "new_password?">>
    \o IF stick.model = "STORAGE" THEN <<"SendNewPassword", "SendPassword">>
       ELSE <<"ChangePin">>

\* change_PIN_general: both arguments are copied before anything is sent.
ChangePIN ==
  <<"password?", "new_password?">>
    \o IF stick.model = "STORAGE" THEN <<"SendPassword", "SendNewPassword">>
       ELSE <<"ChangePin">>

UnlockUserPassword ==
  IF stick.model = "STORAGE"
  THEN <<"password?", "SendPassword", "new_password?", "UnlockUserPin">>
  ELSE <<"password?", "new_password?", "UnlockUserPassword">>

EnablePasswordSafe ==
  <<"password?", "IsAESSupported", "password?", "EnablePasswordSafe">>

\* get_user_retry_count and get_admin_retry_count
RetryCount ==
  (IF stick.model = "STORAGE" THEN <<"status">> ELSE <<>>) \o <<"RetryCount">>

WritePasswordSafeSlot ==
  <<"slot?", "name?", "password?", "SetPasswordSafeSlotData",
    "login?", "SetPasswordSafeSlotData2">>

BuildAESKey ==
  <<"password?",
    IF stick.model = "STORAGE" THEN "CreateNewKeys" ELSE "BuildAESKey">>

\* set_unencrypted_read_only and _read_write, with _admin and without
SetUnencrypted(o) ==
  IF RorwPinTypeUser(stick) = (o = "set_unencrypted_admin") THEN <<>>
  ELSE <<"password?", o>>

\* get_OTP_slot_data
ReadSlot ==
  <<"ReadSlot">> \o IF stick.model = "STORAGE" THEN <<"status">> ELSE <<>>

Gated == {"get_code", "get_code_PIN", "erase_slot", "write_slot",
          "write_config", "set_unencrypted_admin", "set_unencrypted_user"}

SerialAndVersion == {"get_serial_number", "get_serial_number_as_u32",
                     "get_minor_firmware_version", "get_major_firmware_version",
                     "is_authorization_command_supported",
                     "is_320_OTP_secret_supported"}

OperationNames ==
  SingleOperations \cup Gated \cup SerialAndVersion
    \cup {"change_PIN", "unlock_user_password", "enable_password_safe",
          "get_retry_count", "write_password_safe_slot", "build_aes_key",
          "get_OTP_slot_data"}

\* What an operation does, up to the answer to its question for the version.
Script(o) ==
  CASE o \in Unchecked -> <<o>>
    [] o \in SingleOperations \ Unchecked -> <<"arguments?", o>>
    [] o \in {"get_code", "get_code_PIN", "erase_slot", "write_slot"}
         -> <<"slot?", "version">>
    [] o \in {"write_config", "set_unencrypted_admin", "set_unencrypted_user"}
         -> <<"version">>
    [] o \in SerialAndVersion -> <<"status">>
    [] o = "change_PIN" -> ChangePIN
    [] o = "unlock_user_password" -> UnlockUserPassword
    [] o = "enable_password_safe" -> EnablePasswordSafe
    [] o = "get_retry_count" -> RetryCount
    [] o = "write_password_safe_slot" -> WritePasswordSafeSlot
    [] o = "build_aes_key" -> BuildAESKey
    [] o = "get_OTP_slot_data" -> ReadSlot

\* ... and from there on.
AfterVersion(o) ==
  CASE o \in {"get_code", "get_code_PIN"} -> GetCode(o)
    [] o = "erase_slot" -> EraseSlot
    [] o = "write_slot" -> WriteSlot
    [] o = "write_config" -> WriteConfig
    [] OTHER -> SetUnencrypted(o)

-----------------------------------------------------------------------------
\* OTP secrets.

MaximumSecret == 40  \* maximum_OTP_secret_size
ChunkSize == 30      \* sizeof SendOTPData::CommandPayload::data

Zero == <<0, 0>>
NoSecret == [i \in 0..MaximumSecret - 1 |-> Zero]

\* The secret of n bytes that call c writes, padded with zeros.
Secret(c, n) ==
  [i \in 0..MaximumSecret - 1 |-> IF i < n THEN <<c, i>> ELSE Zero]

\* Mutant: every chunk is full.
BytesToCopyFull == ChunkSize

BytesToCopy == IF remaining < ChunkSize THEN remaining ELSE ChunkSize

\* payload2.data of the next chunk: bytes from `start', then zeros.
ChunkData ==
  LET start == length[call] - remaining
  IN [j \in 0..ChunkSize - 1 |-> IF j < BytesToCopy THEN <<call, start + j>>
                                 ELSE Zero]

\* The stick puts chunk n of a secret in its place.
Store(secret, n, data) ==
  [i \in 0..MaximumSecret - 1 |->
     IF i \div ChunkSize = n THEN data[i % ChunkSize] ELSE secret[i]]

\* What a stick keeps when it leaves the factory, and after factory_reset.
FactoryState == [name |-> 0, secret |-> NoSecret, data |-> 0, login |-> 0,
                 pin |-> 0, pin_by |-> 0]

-----------------------------------------------------------------------------

Init ==
  /\ call = 0
  /\ op = "get_status"
  /\ bad = "none"
  /\ length = [c \in Calls |-> 0]
  /\ todo = <<>>
  /\ remaining = 0
  /\ id = 0
  /\ outcome = "ok"
  /\ sent = {}
  /\ committed = {}
  /\ kept = FactoryState
  /\ before = kept
  /\ stick \in Sticks
  /\ authorized = 0
  /\ staged = [name |-> 0, secret |-> NoSecret, given |-> FALSE]
  /\ current = 0

Idle == outcome # "running"

BadArguments == {"none", "arguments?", "slot?", "name?", "secret?", "token?",
                 "counter?", "login?", "password?", "new_password?"}

\* The arguments of an operation, of which one may be bad.
Arguments(o) ==
  CASE o \in SingleOperations \ Unchecked -> {"arguments?"}
    [] o = "write_slot" ->
         {"slot?", "name?", "secret?", "token?", "counter?", "password?"}
    [] o = "write_password_safe_slot" -> {"slot?", "name?", "login?", "password?"}
    [] o \in {"change_PIN", "unlock_user_password"}
         -> {"password?", "new_password?"}
    [] o \in {"get_code_PIN", "erase_slot"} -> {"slot?", "password?"}
    [] o = "get_code" -> {"slot?"}
    [] o \in {"write_config", "set_unencrypted_admin", "set_unencrypted_user",
              "enable_password_safe", "build_aes_key"} -> {"password?"}
    [] OTHER -> {}

Begin(o, n, b) ==
  /\ Idle
  /\ call < MaxCalls
  /\ o # "write_slot" => n = 0
  /\ b \in Arguments(o) \cup {"none"}
  /\ call' = call + 1
  /\ op' = o
  /\ bad' = b
  /\ length' = [length EXCEPT ![call + 1] = n]
  /\ todo' = Script(o)
  /\ remaining' = n
  /\ id' = 0
  /\ outcome' = "running"
  /\ sent' = {}
  /\ before' = kept
  /\ UNCHANGED <<committed, stick, authorized, staged, current, kept>>

\* The next thing to do is e.
Doing(e) == ~Idle /\ todo # <<>> /\ Head(todo) = e

\* strcpyT, vector_copy, hex_string_to_byte and the tests of slot numbers
Rejects(e) ==
  \/ bad = e
  \/ e = "length20?" /\ length[call] > 20
  \/ e = "length40?" /\ length[call] > MaximumSecret

Checks == (BadArguments \ {"none"}) \cup {"length20?", "length40?"}

Check(e) ==
  /\ Doing(e)
  /\ todo' = Tail(todo)
  /\ outcome' = IF Rejects(e) THEN "LibraryException" ELSE "running"
  /\ UNCHANGED <<call, op, bad, length, remaining, id, sent, committed, before,
                 stick, authorized, staged, current, kept>>

Return ==
  /\ ~Idle
  /\ todo = <<>>
  /\ outcome' = "ok"
  /\ UNCHANGED <<call, op, bad, length, todo, remaining, id, sent, committed,
                 before, stick, authorized, staged, current, kept>>

-----------------------------------------------------------------------------

\* With an old firmware these commands must have been announced by Authorize.
NeedsAuthorization(c) ==
  \/ c \in {"EraseSlot", "WriteToSlot"}
  \/ c = "WriteGeneralConfig" /\ IsAuthorizationCommandSupported(stick)

Accepts(c) == NeedsAuthorization(c) => authorized = call

\* What the stick keeps once it has executed command c.
Executed(c) ==
  CASE c = "WriteToSlot" ->
         [kept EXCEPT !.name = call,
                      !.secret = IF length[call] = 0 THEN @
                                 ELSE Secret(call, length[call])]
    [] c = "WriteToOTPSlot" ->
         [kept EXCEPT !.name = staged.name,
                      !.secret = IF staged.given THEN staged.secret ELSE @]
    [] c \in {"EraseSlot", "EraseSlot08"} ->
         [kept EXCEPT !.name = 0, !.secret = NoSecret]
    [] c = "SetPasswordSafeSlotData" -> [kept EXCEPT !.data = call]
    [] c = "SetPasswordSafeSlotData2" -> [kept EXCEPT !.login = call]
    [] c = "erase_password_safe_slot" ->
         [kept EXCEPT !.data = 0, !.login = 0]
    [] c = "factory_reset" -> FactoryState
    [] c \in {"ChangePin", "UnlockUserPassword"} ->
         [kept EXCEPT !.pin = call, !.pin_by = call]
    [] c \in {"SendNewPassword", "UnlockUserPin"} ->
         [kept EXCEPT !.pin = call, !.pin_by = current]
    [] OTHER -> kept

\* A name begins a new record; a chunk of a secret goes where its id says.
Received(c) ==
  CASE c = "SendName" -> [name |-> call, secret |-> NoSecret, given |-> FALSE]
    [] c = "SendSecret" -> [name |-> staged.name, given |-> TRUE,
                            secret |-> Store(staged.secret, id, ChunkData)]
    [] OTHER -> staged

\* The stick executes command c.
Execute(c) ==
  /\ Accepts(c)
  /\ kept' = Executed(c)
  /\ staged' = Received(c)
  /\ authorized' = CASE c \in {"Authorize", "UserAuthorize"} -> call
                     [] NeedsAuthorization(c) -> 0
                     [] OTHER -> authorized
  /\ current' = IF c = "SendPassword" THEN call ELSE current
  /\ sent' = sent \cup {c}
  /\ committed' = IF c \in {"WriteToSlot", "WriteToOTPSlot"}
                  THEN committed \cup {call} ELSE committed

\* The loop over the secret does not start when there is nothing left.
LoopDone(c) == c = "SendSecret" /\ remaining = 0

SecretSent ==
  /\ Doing("SendSecret")
  /\ LoopDone("SendSecret")
  /\ todo' = Tail(todo)
  /\ UNCHANGED <<call, op, bad, length, remaining, id, outcome, sent,
                 committed, before, stick, authorized, staged, current, kept>>

Sends(c) == Doing(c) /\ c \notin Checks /\ ~LoopDone(c)

\* Mutant: the id of the chunks is not incremented.
ExchangeOkSameId(c) ==
  /\ Sends(c)
  /\ Execute(c)
  /\ IF c = "SendSecret"
     THEN /\ remaining' = remaining - BytesToCopy
          /\ UNCHANGED <<todo, id>>
     ELSE /\ todo' = IF c = "version" THEN AfterVersion(op) ELSE Tail(todo)
          /\ UNCHANGED <<remaining, id>>
  /\ UNCHANGED <<call, op, bad, length, outcome, before, stick>>

\* The exchange succeeds: the operation goes on.
ExchangeOk(c) ==
  /\ Sends(c)
  /\ Execute(c)
  /\ IF c = "SendSecret"
     THEN /\ remaining' = remaining - BytesToCopy
          /\ id' = id + 1
          /\ UNCHANGED todo
     ELSE /\ todo' = IF c = "version" THEN AfterVersion(op) ELSE Tail(todo)
          /\ UNCHANGED <<remaining, id>>
  /\ UNCHANGED <<call, op, bad, length, outcome, before, stick>>

\* The exchange throws exception e: the operation ends.
Throw(e) ==
  /\ outcome' = IF e \in Caught(op) THEN "ok" ELSE e
  /\ todo' = <<>>
  /\ UNCHANGED <<call, op, bad, length, remaining, id, before, stick>>

Exceptions == {"CommandFailed", "LongOperationInProgress",
               "DeviceNotConnected", "DeviceCommunication"}

\* The command did not reach the stick, or the stick refused it.
ExchangeFails(c, e) ==
  /\ Sends(c)
  /\ Throw(e)
  /\ UNCHANGED <<sent, committed, authorized, staged, current, kept>>

\* The stick executed the command and its answer was lost.
AnswerLost(c) ==
  /\ Sends(c)
  /\ Execute(c)
  /\ Throw("DeviceCommunication")

(***************************************************************************)
(* Device::send repeats a transfer that was reported as failed, and the    *)
(* stick executes the command twice.  What it keeps is the same as after   *)
(* once, but the second time a command that needs it is not announced, and *)
(* the answer says that it failed.                                         *)
(***************************************************************************)
ExecutedTwice(c) ==
  /\ Sends(c)
  /\ NeedsAuthorization(c)
  /\ Execute(c)
  /\ Throw("CommandFailed")

Next ==
  \/ \E o \in OperationNames, n \in Lengths \cup {0}, b \in BadArguments :
       Begin(o, n, b)
  \/ \E e \in Checks : Check(e)
  \/ Return
  \/ SecretSent
  \/ ~Idle /\ todo # <<>> /\ ExchangeOk(Head(todo))
  \/ ~Idle /\ todo # <<>> /\ \E e \in Exceptions : ExchangeFails(Head(todo), e)
  \/ ~Idle /\ todo # <<>> /\ AnswerLost(Head(todo))
  \/ ~Idle /\ todo # <<>> /\ ExecutedTwice(Head(todo))

Spec == Init /\ [][Next]_vars

-----------------------------------------------------------------------------

Commands ==
  SingleOperations \cup
  {"version", "status", "Authorize", "UserAuthorize", "GetCode", "GetCode08",
   "EraseSlot", "EraseSlot08", "WriteToSlot", "SendName", "SendSecret",
   "WriteToOTPSlot", "WriteGeneralConfig", "ChangePin", "SendPassword",
   "SendNewPassword", "UnlockUserPin", "UnlockUserPassword", "IsAESSupported",
   "EnablePasswordSafe", "RetryCount", "SetPasswordSafeSlotData",
   "SetPasswordSafeSlotData2", "CreateNewKeys", "BuildAESKey", "ReadSlot",
   "set_unencrypted_admin", "set_unencrypted_user"}

SecretBytes == [0..MaximumSecret - 1 -> Calls \X (0..127)]
Kept == [name : Calls, secret : SecretBytes, data : Calls, login : Calls,
         pin : Calls, pin_by : Calls]

\* Type correctness.
TypeOK ==
  /\ call \in Calls
  /\ op \in OperationNames
  /\ bad \in BadArguments
  /\ length \in [Calls -> 0..128]
  /\ todo \in Seq(Checks \cup Commands)
  /\ remaining \in 0..128
  /\ id \in 0..255
  /\ outcome \in {"running", "ok", "LibraryException"} \cup Exceptions
  /\ sent \subseteq Commands
  /\ committed \subseteq Calls
  /\ stick \in Sticks
  /\ authorized \in Calls
  /\ staged \in [name : Calls, secret : SecretBytes, given : BOOLEAN]
  /\ current \in Calls
  /\ kept \in Kept
  /\ before \in Kept

(***************************************************************************)
(* The secret in an OTP slot is always the whole secret, in order and      *)
(* padded with zeros, of one call whose write command the stick executed.  *)
(* It is never put together from chunks of several calls, cut short by an  *)
(* exception between two chunks, or left over from a call that failed,     *)
(* also when a later call with an empty secret edits the slot.             *)
(***************************************************************************)
SlotWhole ==
  \E c \in committed \cup {0} : kept.secret = Secret(c, length[c])

\* The work of the operation, as its caller means it.
WorkDone ==
  CASE op = "write_slot" ->
         /\ kept.name = call
         /\ kept.secret = IF length[call] = 0 THEN before.secret
                          ELSE Secret(call, length[call])
    [] op = "erase_slot" -> kept.name = 0 /\ kept.secret = NoSecret
    [] op = "write_password_safe_slot" -> kept.data = call /\ kept.login = call
    [] op = "erase_password_safe_slot" -> kept.data = 0 /\ kept.login = 0
    [] op = "factory_reset" -> kept = FactoryState
    [] op \in {"change_PIN", "unlock_user_password"} -> kept.pin = call
    [] OTHER -> kept = before

(***************************************************************************)
(* An operation that returns has done all of its work on the stick,        *)
(* whichever protocol the firmware speaks: the slot has the name and the   *)
(* secret of this call, an edit with an empty secret keeps the old one,    *)
(* both halves of the password safe slot are new, and so is the PIN.  The  *)
(* set_unencrypted calls, one of which does nothing by design on each      *)
(* firmware, and the others that write none of this leave it as it was.    *)
(***************************************************************************)
SuccessMeansDone == outcome = "ok" => WorkDone

(***************************************************************************)
(* A call that is rejected for its arguments has not touched an OTP slot   *)
(* or a PIN, although several operations check an argument only after they *)
(* have sent the first commands.  (The password safe is not in here:       *)
(* write_password_safe_slot overwrites the name and the password before it *)
(* looks at the login.)                                                    *)
(***************************************************************************)
RejectedChangesNothing ==
  outcome = "LibraryException" =>
    /\ kept.name = before.name /\ kept.secret = before.secret
    /\ kept.pin = before.pin /\ kept.pin_by = before.pin_by

(***************************************************************************)
(* A PIN is only ever changed on the strength of the PIN that came with    *)
(* the same call: on a Storage, where the two travel in two commands, the  *)
(* current PIN of an earlier call that failed half-way is never used.      *)
(***************************************************************************)
PinChangedByItsCall == kept.pin = kept.pin_by

(***************************************************************************)
(* The two tables of firmware versions agree: the commands of the new      *)
(* protocol go to the sticks that is_320_OTP_secret_supported names and    *)
(* the announced ones to the others, and a secret is refused as too long   *)
(* exactly when it exceeds what that function promises.                    *)
(***************************************************************************)
ProtocolMatchesFirmware ==
  /\ sent \cap {"GetCode08", "EraseSlot08", "SendName", "WriteToOTPSlot"} # {}
       => Is320OTPSecretSupported(stick)
  /\ sent \cap {"Authorize", "UserAuthorize", "EraseSlot", "WriteToSlot"} # {}
       => ~Is320OTPSecretSupported(stick)
  /\ op = "write_slot" /\ bad = "none" =>
       LET limit == IF Is320OTPSecretSupported(stick) THEN 40 ELSE 20
       IN /\ outcome = "ok" => length[call] <= limit
          /\ outcome = "LibraryException" => length[call] > limit

=============================================================================
