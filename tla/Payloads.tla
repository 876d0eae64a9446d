------------------------------ MODULE Payloads ------------------------------
(***************************************************************************)
(* The fixed-size fields of the HID reports (stick10_commands.h,           *)
(* stick10_commands_0.8.h, stick20_commands.h, command.h), how strings and *)
(* numbers get into them (strcpyT, NitrokeyManager.cc) and how they are    *)
(* read back (strndup, get_OTP_slot_data, NK_read_HOTP_slot).              *)
(*                                                                         *)
(* One caller writes to a stick, reads back, sets PINs and passwords and   *)
(* uses them.  Exchanges succeed here; module Operations is about the ones *)
(* that do not.  A character is named by the call that wrote it and by its *)
(* place; 0 is NUL.                                                        *)
(*                                                                         *)
(* The stick is external: it keeps the bytes of the fields it is sent.     *)
(***************************************************************************)
EXTENDS Firmware, Integers, Sequences, SequencesExt

CONSTANTS Sticks,         \* the sticks: model, minor, build_iteration
          Counters,       \* values of hotp_counter
          SecretLengths,  \* lengths of PINs and passwords
          TextLengths,    \* lengths of strings, besides those around a width
          MaxWrites       \* bound: writes in a behaviour

VARIABLES stick,    \* the stick in use
          writes,   \* number of calls that write
          given,    \* history: what the stick was last given, per datum
          kept,     \* the bytes that the stick keeps, per datum
          secret,   \* per kind, the length of the PIN or password in force
          got,      \* what the last call read
          last,     \* the command of the last call that brought a secret
          outcome   \* how the last call ended

vars == <<stick, writes, given, kept, secret, got, last, outcome>>

\* f, and g where f has nothing.
f ++ g == [x \in DOMAIN f \cup DOMAIN g |->
             IF x \in DOMAIN f THEN f[x] ELSE g[x]]

\* One table of several that have no entry in common.
Joined(tables) ==
  [c \in UNION {DOMAIN T : T \in tables} |->
     (CHOOSE T \in tables : c \in DOMAIN T)[c]]

-----------------------------------------------------------------------------
\* Fields of the commands, with their widths in bytes.

SlotCommands ==
  [GetSlotName |-> [slot_number |-> 1],
   EraseSlot |-> [slot_number |-> 1],
   SetTime |-> [reset |-> 1, time |-> 8],
   WriteToHOTPSlot |->
     [slot_number |-> 1, slot_name |-> 15, slot_secret |-> 20,
      slot_config |-> 1, slot_token_id |-> 13, slot_counter |-> 8]]

CodeCommands ==
  [WriteToTOTPSlot |->
     [slot_number |-> 1, slot_name |-> 15, slot_secret |-> 20,
      slot_config |-> 1, slot_token_id |-> 13, slot_interval |-> 2],
   GetTOTP |-> [slot_number |-> 1, challenge |-> 8, last_totp_time |-> 8,
                last_interval |-> 1],
   GetHOTP |-> [slot_number |-> 1],
   ReadSlot |-> [slot_number |-> 1, data_format |-> 4]]

PasswordSafeCommands ==
  [SetPasswordSafeSlotData |->
     [slot_number |-> 1, slot_name |-> 11, slot_password |-> 20],
   SetPasswordSafeSlotData2 |-> [slot_number |-> 1, slot_login_name |-> 32],
   ErasePasswordSafeSlot |-> [slot_number |-> 1],
   EnablePasswordSafe |-> [user_password |-> 30]]

PinCommands ==
  [FirstAuthenticate |-> [card_password |-> 25, temporary_password |-> 25],
   UserAuthenticate |-> [card_password |-> 25, temporary_password |-> 25],
   Authorize |-> [crc_to_authorize |-> 4, temporary_password |-> 25],
   UserAuthorize |-> [crc_to_authorize |-> 4, temporary_password |-> 25],
   UnlockUserPassword |-> [admin_password |-> 25, user_new_password |-> 25],
   ChangeUserPin |-> [old_pin |-> 25, new_pin |-> 25],
   IsAESSupported |-> [user_password |-> 20],
   ChangeAdminPin |-> [old_pin |-> 25, new_pin |-> 25]]

ResetAndFirmwareCommands ==
  [FactoryReset |-> [admin_password |-> 20],
   BuildAESKey |-> [admin_password |-> 20],
   GetRandom |-> [size_requested |-> 1],
   FirmwareUpdate |-> [firmware_password |-> 20],
   FirmwarePasswordChange |-> [firmware_password_current |-> 20,
                               firmware_password_new |-> 20]]

\* Firmware 0.8 of the Pro and 0.54 of the Storage.
SlotCommands08 ==
  [EraseSlot08 |-> [slot_number |-> 1, temporary_admin_password |-> 25],
   SendOTPData |-> [temporary_admin_password |-> 25, type |-> 1, id |-> 1,
                    data |-> 30],
   WriteToOTPSlot |->
     [temporary_admin_password |-> 25, slot_number |-> 1, slot_counter |-> 8,
      slot_config |-> 1, slot_token_id |-> 13]]

CodeCommands08 ==
  [GetHOTP08 |-> [slot_number |-> 1, unused |-> 17,
                  temporary_user_password |-> 25],
   GetTOTP08 |-> [slot_number |-> 1, challenge |-> 8, last_totp_time |-> 8,
                  last_interval |-> 1, temporary_user_password |-> 25],
   WriteGeneralConfig08 |-> [config |-> 5, temporary_admin_password |-> 25]]

\* PasswordCommand<cmd_id, kind, password_length>
PasswordCommand(password_length) == [kind |-> 1, password |-> password_length]

StorageCommands ==
  [ChangeAdminUserPin20Current |-> PasswordCommand(20),
   ChangeAdminUserPin20New |-> PasswordCommand(20),
   UnlockUserPin |-> PasswordCommand(20),
   EnableEncryptedPartition |-> PasswordCommand(20),
   EnableHiddenEncryptedPartition |-> PasswordCommand(20),
   SetUnencryptedVolumeAdmin |-> PasswordCommand(20),
   SetEncryptedVolume |-> PasswordCommand(20),
   EnableFirmwareUpdate |-> PasswordCommand(20),
   ChangeUpdatePassword |-> [gap |-> 1, current_update_password |-> 20,
                             gap2 |-> 1, new_update_password |-> 20],
   ExportFirmware |-> PasswordCommand(20),
   CreateNewKeys |-> PasswordCommand(30),
   FillSDCardWithRandomChars |-> [volume_flag |-> 1, kind |-> 1,
                                  admin_pin |-> 20]]

VolumeCommands ==
  [SendStartup |-> [localtime |-> 8],
   SendSetToUncryptedVolume |-> PasswordCommand(20),
   SendClearNewSdCardFound |-> PasswordCommand(20),
   SetupHiddenVolume |-> [SlotNr_u8 |-> 1, StartBlockPercent_u8 |-> 1,
                          EndBlockPercent_u8 |-> 1,
                          HiddenVolumePassword_au8 |-> 20]]

CommandTables ==
  {SlotCommands, CodeCommands, PasswordSafeCommands, PinCommands,
   ResetAndFirmwareCommands, SlotCommands08, CodeCommands08, StorageCommands,
   VolumeCommands}

Commands == Joined(CommandTables)

Width(c, f) == Commands[c][f]

-----------------------------------------------------------------------------
\* Responses: fields in their order, with their widths in bytes.

SlotResponses ==
  [GetSlotName |-> << <<"slot_name", 15>> >>,
   ReadSlot |-> << <<"slot_name", 15>>, <<"slot_config", 1>>,
                   <<"slot_token_id", 13>>, <<"slot_counter", 8>> >>]

StatusResponses ==
  [GetStatus |-> << <<"firmware_version", 2>>, <<"card_serial", 4>>,
                    <<"general_config", 5>> >>,
   GetPasswordRetryCount |-> << <<"password_retry_count", 1>> >>,
   GetUserPasswordRetryCount |-> << <<"password_retry_count", 1>> >>]

CodeResponses ==
  [GetTOTP |-> << <<"code", 4>>, <<"slot_config", 1>>, <<"reserved", 13>> >>,
   GetHOTP |-> << <<"code", 4>>, <<"slot_config", 1>>, <<"reserved", 13>> >>]

GetRandomResponse ==
  << <<"op_success", 1>>, <<"size_effective", 1>>, <<"data", 64 - 13>> >>

PasswordSafeResponses ==
  [GetPasswordSafeSlotStatus |-> << <<"password_safe_status", 16>> >>,
   GetPasswordSafeSlotName |-> << <<"slot_name", 11>> >>,
   GetPasswordSafeSlotPassword |-> << <<"slot_password", 20>> >>,
   GetPasswordSafeSlotLogin |-> << <<"slot_login", 32>> >>]

\* DeviceResponseConstants, "magic numbers from firmware": addresses in the
\* report of the status of a Storage and of the data of its commands.
StorageStatusAbsoluteAddress == 21
StorageDataAbsoluteAddress == StorageStatusAbsoluteAddress + 5
HeaderSize == 8
FooterSize == 4
HidReportSize == 65
PayloadSize == HidReportSize - HeaderSize - FooterSize

\* StorageCommandResponsePayload::padding_size
PaddingSize == StorageDataAbsoluteAddress - HeaderSize

TransmissionData ==
  << <<"_padding", PaddingSize>>, <<"SendCounter_u8", 1>>,
     <<"SendDataType_u8", 1>>, <<"FollowBytesFlag_u8", 1>>,
     <<"SendSize_u8", 1>> >>

DeviceConfigurationResponse ==
  TransmissionData \o
  << <<"MagicNumber_StickConfig_u16", 2>>,
     <<"ReadWriteFlagUncryptedVolume_u8", 1>>,
     <<"ReadWriteFlagCryptedVolume_u8", 1>>, <<"VersionInfo_au8", 4>>,
     <<"ReadWriteFlagHiddenVolume_u8", 1>>, <<"FirmwareLocked_u8", 1>>,
     <<"NewSDCardFound_u8", 1>>, <<"SDFillWithRandomChars_u8", 1>>,
     <<"ActiveSD_CardID_u32", 4>>, <<"VolumeActiceFlag_u8", 1>>,
     <<"NewSmartCardFound_u8", 1>>, <<"UserPwRetryCount", 1>>,
     <<"AdminPwRetryCount", 1>>, <<"ActiveSmartCardID_u32", 4>>,
     <<"StickKeysNotInitiated", 1>> >>

ProductionTestResponse ==
  TransmissionData \o
  << <<"FirmwareVersion_au8", 2>>, <<"FirmwareVersionInternal_u8", 1>>,
     <<"SD_Card_Size_u8", 1>>, <<"CPU_CardID_u32", 4>>,
     <<"SmartCardID_u32", 4>>, <<"SD_CardID_u32", 4>>,
     <<"SC_UserPwRetryCount", 1>>, <<"SC_AdminPwRetryCount", 1>>,
     <<"SD_Card_ManufacturingYear_u8", 1>>,
     <<"SD_Card_ManufacturingMonth_u8", 1>>, <<"SD_Card_OEM_u16", 2>>,
     <<"SD_WriteSpeed_u16", 2>>, <<"SD_Card_Manufacturer_u8", 1>> >>

StorageResponses ==
  [GetDeviceStatus |-> DeviceConfigurationResponse,
   ProductionTest |-> ProductionTestResponse]

ResponseTables ==
  {SlotResponses, StatusResponses, CodeResponses, PasswordSafeResponses,
   [GetRandom |-> GetRandomResponse], StorageResponses}

Responses == Joined(ResponseTables)

\* The width of the first k fields of a layout, for every k.
Widths(layout) ==
  LET W[k \in 0..Len(layout)] == IF k = 0 THEN 0 ELSE W[k - 1] + layout[k][2]
  IN W

WidthsOf(layout) == Widths(layout)[Len(layout)]

IndexOf(layout, f) == CHOOSE k \in DOMAIN layout : layout[k][1] = f

\* Where field f begins in the payload of a response, from 0.
Offset(c, f) == Widths(Responses[c])[IndexOf(Responses[c], f) - 1]

ResponseWidth(c, f) == Responses[c][IndexOf(Responses[c], f)][2]

\* The static_asserts of Transaction: payloads fit in a report.
ASSUME LayoutsFit ==
  /\ \A c \in DOMAIN Commands :
       FoldFunction(LAMBDA w, n : w + n, 0, Commands[c]) <= HidReportSize - 6
  /\ \A c \in DOMAIN Responses : WidthsOf(Responses[c]) \in 0..PayloadSize

ASSUME PayloadsAssumption ==
  /\ Sticks \subseteq Stick
  /\ SecretLengths \subseteq 0..99
  /\ TextLengths \subseteq Nat
  /\ MaxWrites \in Nat

\* uint64_t, below 2^64.
UInt64 == {n \in Nat : ((n \div 65536) \div 65536) \div 65536 < 65536}

ASSUME CountersAssumption == Counters \subseteq UInt64

-----------------------------------------------------------------------------
\* Strings and numbers in fields.

NUL == 0

\* The string of n characters that write w brings.
Text(w, n) == [i \in 1..n |-> 100 * w + i]

\* Mutant: strcpyT does not look at the length.
TooLongNever(text, width) == FALSE

\* strcpyT throws TooLongStringException.
TooLong(text, width) == Len(text) > width

\* Mutant: the terminator is copied too.
FieldTerminated(text, width) ==
  [i \in 1..width + 1 |-> IF i <= Len(text) THEN text[i] ELSE NUL]

\* strncpy: a string as wide as the field is not terminated.
Field(text, width) ==
  [i \in 1..width |-> IF i <= Len(text) THEN text[i] ELSE NUL]

\* std::to_string
Digits[n \in Nat] ==
  IF n < 10 THEN <<48 + n>> ELSE Append(Digits[n \div 10], 48 + (n % 10))

\* A uint64_t in memory, and read from there.
Binary(n) ==
  LET n2 == n \div 256
      n3 == n2 \div 256
      n4 == n3 \div 256
      n5 == n4 \div 256
      n6 == n5 \div 256
      n7 == n6 \div 256
      n8 == n7 \div 256
  IN <<n % 256, n2 % 256, n3 % 256, n4 % 256, n5 % 256, n6 % 256, n7 % 256,
       n8 % 256>>

FromBinary(b) ==
  b[1] + 256 * (b[2] + 256 * (b[3] + 256 * (b[4] + 256 * (b[5] +
    256 * (b[6] + 256 * (b[7] + 256 * b[8]))))))

\* What precedes the first element that passes Test.
Before(seq, Test(_)) ==
  LET k == SelectInSeq(seq, Test)
  IN IF k = 0 THEN seq ELSE SubSeq(seq, 1, k - 1)

\* std::stoull: the leading digits; without any it throws (-1).
Stoull(bytes) ==
  LET digits == Before(bytes, LAMBDA b : b \notin 48..57)
  IN IF digits = <<>> THEN -1
     ELSE FoldLeft(LAMBDA n, d : 10 * n + d - 48, 0, digits)

\* stoull inverts to_string on the digits that fit in slot_counter.
DecimalRoundTrip ==
  \A n \in Counters :
    ~(Len(Digits[n]) > 8) => Stoull(Field(Digits[n], 8)) = n

\* strndup, with a limit far beyond the report.
Strndup(report, offset) ==
  Before(SubSeq(report, offset + 1, Len(report)), LAMBDA b : b = NUL)

-----------------------------------------------------------------------------
\* PINs and passwords: <<kind, command, field>> of every field that sets a new
\* one, and of every field that one is given in to be verified.

TemporarySetters ==
  {<<"temporary_admin", "FirstAuthenticate", "temporary_password">>,
   <<"temporary_user", "UserAuthenticate", "temporary_password">>}

ProSetters ==
  {<<"user", "ChangeUserPin", "new_pin">>,
   <<"admin", "ChangeAdminPin", "new_pin">>,
   <<"user", "UnlockUserPassword", "user_new_password">>,
   <<"update", "FirmwarePasswordChange", "firmware_password_new">>}

StorageSetters ==
  {<<"user", "ChangeAdminUserPin20New", "password">>,
   <<"admin", "ChangeAdminUserPin20New", "password">>,
   <<"user", "UnlockUserPin", "password">>,
   <<"update", "ChangeUpdatePassword", "new_update_password">>,
   <<"hidden", "SetupHiddenVolume", "HiddenVolumePassword_au8">>}

\* Mutant: every stick gets the commands of the Pro.
SettersOfPro(s) == TemporarySetters \cup ProSetters

Setters(s) ==
  TemporarySetters
    \cup IF s.model = "STORAGE" THEN StorageSetters ELSE ProSetters

TemporaryUsers(s) ==
  IF IsAuthorizationCommandSupported(s)
  THEN {<<"temporary_admin", "Authorize", "temporary_password">>,
        <<"temporary_user", "UserAuthorize", "temporary_password">>}
  ELSE {<<"temporary_admin", c, "temporary_admin_password">> :
          c \in {"EraseSlot08", "SendOTPData", "WriteToOTPSlot",
                 "WriteGeneralConfig08"}}
       \cup {<<"temporary_user", c, "temporary_user_password">> :
               c \in {"GetHOTP08", "GetTOTP08"}}

ProUsers ==
  {<<"user", "ChangeUserPin", "old_pin">>,
   <<"admin", "ChangeAdminPin", "old_pin">>,
   <<"admin", "UnlockUserPassword", "admin_password">>,
   <<"admin", "BuildAESKey", "admin_password">>,
   <<"update", "FirmwareUpdate", "firmware_password">>,
   <<"update", "FirmwarePasswordChange", "firmware_password_current">>}

StorageUsers(s) ==
  {<<"user", "EnableEncryptedPartition", "password">>,
   <<"hidden", "EnableHiddenEncryptedPartition", "password">>,
   <<"update", "EnableFirmwareUpdate", "password">>,
   <<"update", "ChangeUpdatePassword", "current_update_password">>,
   <<"user", "ChangeAdminUserPin20Current", "password">>,
   <<"admin", "FillSDCardWithRandomChars", "admin_pin">>,
   IF RorwPinTypeUser(s)
   THEN <<"user", "SendSetToUncryptedVolume", "password">>
   ELSE <<"admin", "SetUnencryptedVolumeAdmin", "password">>}
  \cup {<<"admin", c, "password">> :
          c \in {"ChangeAdminUserPin20Current", "CreateNewKeys",
                 "SetEncryptedVolume", "ExportFirmware",
                 "SendClearNewSdCardFound"}}

Users(s) ==
  {<<"user", "UserAuthenticate", "card_password">>,
   <<"admin", "FirstAuthenticate", "card_password">>,
   <<"user", "IsAESSupported", "user_password">>,
   <<"user", "EnablePasswordSafe", "user_password">>,
   <<"admin", "FactoryReset", "admin_password">>}
  \cup TemporaryUsers(s)
  \cup IF s.model = "STORAGE" THEN StorageUsers(s) ELSE ProUsers

Kinds == {"user", "admin", "temporary_user", "temporary_admin", "update",
          "hidden"}

-----------------------------------------------------------------------------

PasswordSafeData == {"pws_name", "pws_password", "pws_login"}
SlotData == {"slot_name", "slot_token_id", "slot_counter"}

Init ==
  /\ stick \in Sticks
  /\ writes = 0
  /\ given = <<>>
  /\ kept = <<>>
  /\ secret = [k \in Kinds |-> 6]
  /\ got = <<>>
  /\ last = "none"
  /\ outcome = "ok"

\* A write call that has sent the data of `texts' to the stick, which keeps
\* the bytes of `fields', and then ended with o.
Sent(texts, fields, o) ==
  /\ writes < MaxWrites
  /\ writes' = writes + 1
  /\ given' = texts ++ given
  /\ kept' = fields ++ kept
  /\ outcome' = o
  /\ got' = <<>>
  /\ last' = "none"
  /\ UNCHANGED <<stick, secret>>

Rejected == Sent(<<>>, <<>>, "TooLongString")

(***************************************************************************)
(* write_password_safe_slot: name and password have been sent when the     *)
(* login turns out to be too long.                                         *)
(***************************************************************************)
WritePasswordSafeSlot(name, password, login) ==
  LET n == Width("SetPasswordSafeSlotData", "slot_name")
      p == Width("SetPasswordSafeSlotData", "slot_password")
      l == Width("SetPasswordSafeSlotData2", "slot_login_name")
      texts == [pws_name |-> name, pws_password |-> password]
      fields == [pws_name |-> Field(name, n),
                 pws_password |-> Field(password, p)]
  IN CASE TooLong(name, n) \/ TooLong(password, p) -> Rejected
       [] ~(TooLong(name, n) \/ TooLong(password, p)) /\ TooLong(login, l)
            -> Sent(texts, fields, "TooLongString")
       [] OTHER -> Sent([pws_login |-> login] ++ texts,
                        [pws_login |-> Field(login, l)] ++ fields, "ok")

\* The stick has this many bytes for the name of an OTP slot.
SlotNameKept == 15

\* write_HOTP_slot_authorize: everything is checked before it is sent.
WriteHOTPSlotAuthorize(name, token, counter) ==
  LET n == Width("WriteToHOTPSlot", "slot_name")
      t == Width("WriteToHOTPSlot", "slot_token_id")
      c == Width("WriteToHOTPSlot", "slot_counter")
      ascii == stick.model = "STORAGE"
  IN IF \/ TooLong(name, n) \/ TooLong(token, t)
        \/ ascii /\ TooLong(Digits[counter], c)
     THEN Rejected
     ELSE Sent([slot_name |-> name, slot_token_id |-> token,
                slot_counter |-> <<counter>>],
               [slot_name |-> Field(name, SlotNameKept),
                slot_token_id |-> Field(token, t),
                slot_counter |-> IF ascii THEN Field(Digits[counter], c)
                                 ELSE Binary(counter)], "ok")

\* write_OTP_slot_no_authorize: the name goes ahead with SendOTPData, but the
\* stick puts it in the slot with WriteToOTPSlot only.
WriteOTPSlotNoAuthorize(name, token, counter) ==
  LET n == Width("SendOTPData", "data")
      t == Width("WriteToOTPSlot", "slot_token_id")
  IN IF TooLong(name, n) \/ TooLong(token, t) THEN Rejected
     ELSE Sent([slot_name |-> name, slot_token_id |-> token,
                slot_counter |-> <<counter>>],
               [slot_name |-> Field(name, SlotNameKept),
                slot_token_id |-> Field(token, t),
                slot_counter |-> Binary(counter)], "ok")

WriteHOTPSlot(name, token, counter) ==
  IF IsAuthorizationCommandSupported(stick)
  THEN WriteHOTPSlotAuthorize(name, token, counter)
  ELSE WriteOTPSlotNoAuthorize(name, token, counter)

-----------------------------------------------------------------------------
\* Reading back.

\* The payload and the checksum (of any value but NUL) of the report in which
\* the stick answers c, with the given bytes in the given fields.
Report(c, bytes) ==
  LET FieldAt(i) == {f \in DOMAIN bytes :
                       i - Offset(c, f) \in 1..ResponseWidth(c, f)}
      ByteAt(f, i) == bytes[f][i - Offset(c, f)]
  IN [i \in 1..PayloadSize + FooterSize |->
        CASE i > PayloadSize -> 255
          [] i <= PayloadSize /\ FieldAt(i) = {} -> NUL
          [] OTHER -> ByteAt(CHOOSE f \in FieldAt(i) : TRUE, i)]

CommandId ==
  [GetSlotName |-> 2, ReadSlot |-> 3, GetDeviceStatus |-> 32 + 14,
   ProductionTest |-> 32 + 24, GetPasswordSafeSlotName |-> 97,
   GetPasswordSafeSlotPassword |-> 98, GetPasswordSafeSlotLogin |-> 99]

\* Mutant: every answer of a Storage is taken for one with a Storage status.
HasStorageStatusAlways(c) == stick.model = "STORAGE"

\* run() looks for storage_status in the answers to the commands from
\* CMD_START_VALUE up to, not including, CMD_END_VALUE.
HasStorageStatus(c) == stick.model = "STORAGE" /\ CommandId[c] \in 32..95

\* resp.storage_status.device_status, which must be idle or ok.
StatusOk(c, report) ==
  HasStorageStatus(c) =>
    report[StorageStatusAbsoluteAddress - HeaderSize + 3] \in {0, 1}

\* The answer to c has come in `report'; the call makes `what' of it.
Answered(c, report, what) ==
  /\ IF StatusOk(c, report) THEN got' = what /\ outcome' = "ok"
     ELSE got' = <<>> /\ outcome' = "DeviceCommunication"
  /\ last' = "none"
  /\ UNCHANGED <<stick, writes, given, kept, secret>>

\* An operation that makes a string of field f of the answer to c.
GetString(c, f, datum) ==
  /\ datum \in DOMAIN kept
  /\ LET report == Report(c, [x \in {f} |-> kept[datum]])
     IN Answered(c, report,
                 [x \in {datum} |-> Strndup(report, Offset(c, f))])

GetSlotName == GetString("GetSlotName", "slot_name", "slot_name")

GetPasswordSafeSlotName ==
  GetString("GetPasswordSafeSlotName", "slot_name", "pws_name")

GetPasswordSafeSlotPassword ==
  GetString("GetPasswordSafeSlotPassword", "slot_password", "pws_password")

GetPasswordSafeSlotLogin ==
  GetString("GetPasswordSafeSlotLogin", "slot_login", "pws_login")

\* Mutant: a development build is taken for the version it precedes.
CounterOfReleased(bytes) ==
  IF stick.model = "STORAGE" /\ stick.minor <= 53 THEN Stoull(bytes)
  ELSE FromBinary(bytes)

\* The conversion in get_OTP_slot_data, for a HOTP slot.
CounterOf(bytes) ==
  IF stick.model = "STORAGE" /\ MinorFirmwareVersion(stick) <= 53
  THEN Stoull(bytes) ELSE FromBinary(bytes)

\* NK_read_HOTP_slot; the caller takes name and token id up to a NUL.
ReadHOTPSlot ==
  /\ "slot_counter" \in DOMAIN kept
  /\ LET report == Report("ReadSlot", [d \in SlotData |-> kept[d]])
         FieldOf(f) == LET o == Offset("ReadSlot", f)
                       IN SubSeq(report, o + 1,
                                 o + ResponseWidth("ReadSlot", f))
     IN Answered("ReadSlot", report,
                 [slot_name |-> Strndup(FieldOf("slot_name"), 0),
                  slot_token_id |-> Strndup(FieldOf("slot_token_id"), 0),
                  slot_counter |-> <<CounterOf(FieldOf("slot_counter"))>>])

\* The report of a Storage that executed a command of its own: the third byte
\* of the status is "ok", and the bytes of the data are numbered from 1.
StorageReport ==
  [i \in 1..PayloadSize |->
     LET address == i - 1 + HeaderSize
     IN CASE address = StorageStatusAbsoluteAddress + 2 -> 1
          [] address >= StorageDataAbsoluteAddress
               -> address - StorageDataAbsoluteAddress + 1
          [] OTHER -> 0]

\* get_status_storage and production_info: the fields after the padding.
AskStorage(c) ==
  /\ stick.model = "STORAGE"
  /\ Answered(c, StorageReport,
              [storage_data |->
                 SubSeq(StorageReport, PaddingSize + 1,
                        WidthsOf(Responses[c]))])

-----------------------------------------------------------------------------
\* PINs and passwords.

\* A call that sets a new one of n characters.
SetSecret(x, n) ==
  LET long == TooLong(Text(1, n), Width(x[2], x[3]))
  IN /\ writes < MaxWrites
     /\ writes' = writes + 1
     /\ secret' = IF long THEN secret ELSE [secret EXCEPT ![x[1]] = n]
     /\ outcome' = IF long THEN "TooLongString" ELSE "ok"
     /\ got' = <<>>
     /\ last' = "none"
     /\ UNCHANGED <<stick, given, kept>>

\* A call that gives the one in force to the stick.
UseSecret(x) ==
  /\ outcome' = IF TooLong(Text(1, secret[x[1]]), Width(x[2], x[3]))
                THEN "TooLongString" ELSE "ok"
  /\ last' = x[2]
  /\ got' = <<>>
  /\ UNCHANGED <<stick, writes, given, kept, secret>>

-----------------------------------------------------------------------------

\* Strings that fill a field, stay below its width, or exceed it.
Around(width) ==
  {Text(writes + 1, n) : n \in TextLengths \cup {width, width + 1}}

Next ==
  \/ \E name \in Around(11), password \in Around(20), login \in Around(32) :
       WritePasswordSafeSlot(name, password, login)
  \/ \E name \in Around(15) \cup {Text(writes + 1, 31)},
        token \in Around(13), counter \in Counters :
       WriteHOTPSlot(name, token, counter)
  \/ GetSlotName
  \/ GetPasswordSafeSlotName
  \/ GetPasswordSafeSlotPassword
  \/ GetPasswordSafeSlotLogin
  \/ ReadHOTPSlot
  \/ \E c \in {"GetDeviceStatus", "ProductionTest"} : AskStorage(c)
  \/ \E x \in Setters(stick), n \in SecretLengths : SetSecret(x, n)
  \/ \E x \in Users(stick) : UseSecret(x)

Spec == Init /\ [][Next]_vars

-----------------------------------------------------------------------------

\* Type correctness; a datum is kept in as many bytes as the stick has for it.
TypeOK ==
  /\ stick \in Sticks
  /\ writes \in 0..MaxWrites
  /\ DOMAIN kept \subseteq PasswordSafeData \cup SlotData
  /\ DOMAIN given = DOMAIN kept
  /\ \A d \in DOMAIN kept : Len(kept[d]) \in {8, 11, 13, 15, 20, 32}
  /\ secret \in [Kinds -> 0..99]
  /\ DOMAIN got \subseteq DOMAIN given \cup {"storage_data"}
  /\ outcome \in {"ok", "TooLongString", "DeviceCommunication"}

(***************************************************************************)
(* A string that is read back is the one that the stick was last given:    *)
(* no character of an earlier and longer one is left, a string that fills  *)
(* its field, and so has no terminator on the stick, neither loses its end *)
(* nor brings along what follows it in the report, and one that does not   *)
(* fit is refused and not cut.  (Names of OTP slots up to the documented   *)
(* 15 characters: firmware that takes the name with SendOTPData is sent up *)
(* to 30.)                                                                 *)
(***************************************************************************)
ReadsBack ==
  \A d \in DOMAIN got \ {"slot_counter", "storage_data"} :
    got[d] = given[d] \/ (d = "slot_name" /\ Len(given[d]) > 15)

(***************************************************************************)
(* The counter of a HOTP slot reads back as the number that was written,   *)
(* whichever of the formats, decimal or binary, the two protocols and the  *)
(* models use, and the conversion never throws (-1).                       *)
(***************************************************************************)
CounterReadsBack ==
  "slot_counter" \in DOMAIN got => got.slot_counter = given.slot_counter

(***************************************************************************)
(* An answer is understood for what it is: strings of the password safe    *)
(* lie where a Storage reports the status of its own commands, and are not *)
(* taken for a status; the data of a Storage command is complete and holds *)
(* no byte of the status.                                                  *)
(***************************************************************************)
AnswersUnderstood ==
  /\ outcome # "DeviceCommunication"
  /\ "storage_data" \in DOMAIN got =>
       \A i \in DOMAIN got.storage_data : got.storage_data[i] = i

(***************************************************************************)
(* A PIN or password that the library let the user set is never too long   *)
(* for a command that needs it, although the commands have fields of 20,   *)
(* 25 and 30 bytes for it.  Three commands are an exception on a Pro or    *)
(* Librem, which takes PINs of up to 25: they refuse more than 20.         *)
(***************************************************************************)
SecretUsable ==
  outcome = "TooLongString" /\ last # "none" =>
    /\ last \in {"IsAESSupported", "FactoryReset", "BuildAESKey"}
    /\ stick.model # "STORAGE"
    /\ secret["user"] > 20 \/ secret["admin"] > 20

=============================================================================
