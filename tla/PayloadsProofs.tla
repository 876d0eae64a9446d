--------------------------- MODULE PayloadsProofs ---------------------------
(***************************************************************************)
(* Proofs about the fields of the reports, for any set of sticks, texts,   *)
(* counters and lengths of secrets, and any number of writes.              *)
(*                                                                         *)
(* The invariant relates what the caller gave to the bytes that the stick  *)
(* keeps (Faithful): a string, cut to its field, or a counter in the       *)
(* format of the stick; and it bounds a secret by the widest field that    *)
(* can set it (MaxSecret).  The lemmas before it compute the tables: where *)
(* a field of a report begins, how wide it is, and what strndup finds      *)
(* there.                                                                  *)
(***************************************************************************)
EXTENDS Payloads, SequenceTheorems, TLAPS

-----------------------------------------------------------------------------
\* The tables of commands.

\* The commands in each table.
LEMMA TableDomains ==
  /\ DOMAIN SlotCommands =
       {"GetSlotName", "EraseSlot", "SetTime", "WriteToHOTPSlot"}
  /\ DOMAIN CodeCommands =
       {"WriteToTOTPSlot", "GetTOTP", "GetHOTP", "ReadSlot"}
  /\ DOMAIN PasswordSafeCommands =
       {"SetPasswordSafeSlotData", "SetPasswordSafeSlotData2",
        "ErasePasswordSafeSlot", "EnablePasswordSafe"}
  /\ DOMAIN PinCommands =
       {"FirstAuthenticate", "UserAuthenticate", "Authorize", "UserAuthorize",
        "UnlockUserPassword", "ChangeUserPin", "IsAESSupported",
        "ChangeAdminPin"}
  /\ DOMAIN ResetAndFirmwareCommands =
       {"FactoryReset", "BuildAESKey", "GetRandom", "FirmwareUpdate",
        "FirmwarePasswordChange"}
  /\ DOMAIN SlotCommands08 = {"EraseSlot08", "SendOTPData", "WriteToOTPSlot"}
  /\ DOMAIN CodeCommands08 = {"GetHOTP08", "GetTOTP08", "WriteGeneralConfig08"}
  /\ DOMAIN StorageCommands =
       {"ChangeAdminUserPin20Current", "ChangeAdminUserPin20New",
        "UnlockUserPin", "EnableEncryptedPartition",
        "EnableHiddenEncryptedPartition", "SetUnencryptedVolumeAdmin",
        "SetEncryptedVolume", "EnableFirmwareUpdate", "ChangeUpdatePassword",
        "ExportFirmware", "CreateNewKeys", "FillSDCardWithRandomChars"}
  /\ DOMAIN VolumeCommands =
       {"SendStartup", "SendSetToUncryptedVolume", "SendClearNewSdCardFound",
        "SetupHiddenVolume"}
BY DEF SlotCommands, CodeCommands, PasswordSafeCommands, PinCommands,
       ResetAndFirmwareCommands, SlotCommands08, CodeCommands08,
       StorageCommands, VolumeCommands

\* An entry that only one of the joined tables has.
LEMMA JoinedEntry ==
  ASSUME NEW tables, NEW T \in tables, NEW c \in DOMAIN T,
         \A U \in tables : c \in DOMAIN U => U = T
  PROVE  Joined(tables)[c] = T[c] /\ c \in DOMAIN Joined(tables)
<1>1. (CHOOSE U \in tables : c \in DOMAIN U) = T
  OBVIOUS
<1> QED BY <1>1 DEF Joined

\* No command is in two tables.
LEMMA Disjoint ==
  ASSUME NEW T \in CommandTables, NEW U \in CommandTables,
         NEW c \in DOMAIN T, c \in DOMAIN U
  PROVE  T = U
BY TableDomains DEF CommandTables

\* The width of a field is the one in the table of its command.
LEMMA WidthOf ==
  ASSUME NEW T \in CommandTables, NEW c \in DOMAIN T, NEW f
  PROVE  Width(c, f) = T[c][f]
BY JoinedEntry, Disjoint DEF Commands, Width

\* Fields of WriteToHOTPSlot.
LEMMA SlotWidths ==
  /\ Width("WriteToHOTPSlot", "slot_name") = 15
  /\ Width("WriteToHOTPSlot", "slot_token_id") = 13
  /\ Width("WriteToHOTPSlot", "slot_counter") = 8
<1>1. \A c \in DOMAIN SlotCommands :
        \A f : Width(c, f) = SlotCommands[c][f]
  BY WidthOf DEF CommandTables
<1> QED
  BY <1>1, TableDomains DEF SlotCommands

\* Fields of the password safe commands.
LEMMA PasswordSafeWidths ==
  /\ Width("SetPasswordSafeSlotData", "slot_name") = 11
  /\ Width("SetPasswordSafeSlotData", "slot_password") = 20
  /\ Width("SetPasswordSafeSlotData2", "slot_login_name") = 32
  /\ Width("EnablePasswordSafe", "user_password") = 30
<1>1. \A c \in DOMAIN PasswordSafeCommands :
        \A f : Width(c, f) = PasswordSafeCommands[c][f]
  BY WidthOf DEF CommandTables
<1> QED
  BY <1>1, TableDomains DEF PasswordSafeCommands

\* Fields for PINs and temporary passwords.
LEMMA PinWidths ==
  /\ Width("FirstAuthenticate", "card_password") = 25
  /\ Width("FirstAuthenticate", "temporary_password") = 25
  /\ Width("UserAuthenticate", "card_password") = 25
  /\ Width("UserAuthenticate", "temporary_password") = 25
  /\ Width("Authorize", "temporary_password") = 25
  /\ Width("UserAuthorize", "temporary_password") = 25
  /\ Width("UnlockUserPassword", "admin_password") = 25
  /\ Width("UnlockUserPassword", "user_new_password") = 25
  /\ Width("ChangeUserPin", "old_pin") = 25
  /\ Width("ChangeUserPin", "new_pin") = 25
  /\ Width("ChangeAdminPin", "old_pin") = 25
  /\ Width("ChangeAdminPin", "new_pin") = 25
  /\ Width("IsAESSupported", "user_password") = 20
<1>1. \A c \in DOMAIN PinCommands :
        \A f : Width(c, f) = PinCommands[c][f]
  BY WidthOf DEF CommandTables
<1> QED
  BY <1>1, TableDomains DEF PinCommands

\* Fields for the passwords of resets and firmware updates.
LEMMA ResetWidths ==
  /\ Width("FactoryReset", "admin_password") = 20
  /\ Width("BuildAESKey", "admin_password") = 20
  /\ Width("FirmwareUpdate", "firmware_password") = 20
  /\ Width("FirmwarePasswordChange", "firmware_password_current") = 20
  /\ Width("FirmwarePasswordChange", "firmware_password_new") = 20
<1>1. \A c \in DOMAIN ResetAndFirmwareCommands :
        \A f : Width(c, f) = ResetAndFirmwareCommands[c][f]
  BY WidthOf DEF CommandTables
<1> QED
  BY <1>1, TableDomains DEF ResetAndFirmwareCommands

\* Fields of the slot commands of firmware 0.8.
LEMMA SlotWidths08 ==
  /\ Width("EraseSlot08", "temporary_admin_password") = 25
  /\ Width("SendOTPData", "temporary_admin_password") = 25
  /\ Width("SendOTPData", "data") = 30
  /\ Width("WriteToOTPSlot", "temporary_admin_password") = 25
  /\ Width("WriteToOTPSlot", "slot_token_id") = 13
<1>1. \A c \in DOMAIN SlotCommands08 :
        \A f : Width(c, f) = SlotCommands08[c][f]
  BY WidthOf DEF CommandTables
<1> QED
  BY <1>1, TableDomains DEF SlotCommands08

\* Fields for temporary passwords in firmware 0.8.
LEMMA CodeWidths08 ==
  /\ Width("GetHOTP08", "temporary_user_password") = 25
  /\ Width("GetTOTP08", "temporary_user_password") = 25
  /\ Width("WriteGeneralConfig08", "temporary_admin_password") = 25
<1>1. \A c \in DOMAIN CodeCommands08 :
        \A f : Width(c, f) = CodeCommands08[c][f]
  BY WidthOf DEF CommandTables
<1> QED
  BY <1>1, TableDomains DEF CodeCommands08

\* Fields for the passwords of a Storage.
LEMMA StorageWidths ==
  /\ Width("ChangeAdminUserPin20Current", "password") = 20
  /\ Width("ChangeAdminUserPin20New", "password") = 20
  /\ Width("UnlockUserPin", "password") = 20
  /\ Width("EnableEncryptedPartition", "password") = 20
  /\ Width("EnableHiddenEncryptedPartition", "password") = 20
  /\ Width("SetUnencryptedVolumeAdmin", "password") = 20
  /\ Width("SetEncryptedVolume", "password") = 20
  /\ Width("EnableFirmwareUpdate", "password") = 20
  /\ Width("ExportFirmware", "password") = 20
  /\ Width("CreateNewKeys", "password") = 30
  /\ Width("ChangeUpdatePassword", "current_update_password") = 20
  /\ Width("ChangeUpdatePassword", "new_update_password") = 20
  /\ Width("FillSDCardWithRandomChars", "admin_pin") = 20
<1>1. \A c \in DOMAIN StorageCommands :
        \A f : Width(c, f) = StorageCommands[c][f]
  BY WidthOf DEF CommandTables
<1> QED
  BY <1>1, TableDomains DEF StorageCommands, PasswordCommand

\* Fields for the passwords of its volumes.
LEMMA VolumeWidths ==
  /\ Width("SendSetToUncryptedVolume", "password") = 20
  /\ Width("SendClearNewSdCardFound", "password") = 20
  /\ Width("SetupHiddenVolume", "HiddenVolumePassword_au8") = 20
<1>1. \A c \in DOMAIN VolumeCommands :
        \A f : Width(c, f) = VolumeCommands[c][f]
  BY WidthOf DEF CommandTables
<1> QED
  BY <1>1, TableDomains DEF VolumeCommands, PasswordCommand

-----------------------------------------------------------------------------
\* The longest secret of kind k that stick s can have got.
MaxSecret(s, k) ==
  IF \/ k \in {"update", "hidden"}
     \/ s.model = "STORAGE" /\ k \in {"user", "admin"}
  THEN 20 ELSE 25

\* No field that sets a secret takes a longer one.
LEMMA SettersBounded ==
  ASSUME NEW s \in Stick, NEW x \in Setters(s)
  PROVE  /\ x[1] \in Kinds
         /\ Width(x[2], x[3]) \in 0..MaxSecret(s, x[1])
<1>1. CASE x \in TemporarySetters
  BY <1>1, PinWidths DEF TemporarySetters, MaxSecret, Kinds
<1>2. CASE s.model = "STORAGE" /\ x \in StorageSetters
  BY <1>2, StorageWidths, VolumeWidths DEF StorageSetters, MaxSecret, Kinds
<1>3. CASE s.model # "STORAGE" /\ x \in ProSetters
  BY <1>3, PinWidths, ResetWidths DEF ProSetters, MaxSecret, Kinds
<1> QED
  BY <1>1, <1>2, <1>3 DEF Setters

\* A field that is narrower than the PIN it takes: the three commands that
\* SecretUsable names.
Narrow(s, x) ==
  /\ x[2] \in {"IsAESSupported", "FactoryReset", "BuildAESKey"}
  /\ s.model # "STORAGE"
  /\ x[1] \in {"user", "admin"}
  /\ Width(x[2], x[3]) = 20

\* Every other field that takes a secret has room for the longest one.
LEMMA UsersWide ==
  ASSUME NEW s \in Stick, NEW x \in Users(s)
  PROVE  /\ x[1] \in Kinds
         /\ Width(x[2], x[3]) \in Nat
         /\ Width(x[2], x[3]) >= MaxSecret(s, x[1]) \/ Narrow(s, x)
<1> DEFINE Goal == /\ x[1] \in Kinds
                   /\ Width(x[2], x[3]) \in Nat
                   /\ Width(x[2], x[3]) >= MaxSecret(s, x[1]) \/ Narrow(s, x)
<1>1. CASE x \in TemporaryUsers(s)
  BY <1>1, PinWidths, SlotWidths08, CodeWidths08
  DEF TemporaryUsers, MaxSecret, Kinds
<1>2. CASE s.model = "STORAGE" /\ x \in StorageUsers(s)
  BY <1>2, StorageWidths, VolumeWidths DEF StorageUsers, MaxSecret, Kinds
<1>3. CASE s.model # "STORAGE" /\ x \in ProUsers
  BY <1>3, PinWidths, ResetWidths DEF ProUsers, MaxSecret, Kinds, Narrow
<1>4. CASE x \in {<<"user", "UserAuthenticate", "card_password">>,
                  <<"admin", "FirstAuthenticate", "card_password">>,
                  <<"user", "IsAESSupported", "user_password">>,
                  <<"user", "EnablePasswordSafe", "user_password">>,
                  <<"admin", "FactoryReset", "admin_password">>}
  BY <1>4, PinWidths, ResetWidths, PasswordSafeWidths
  DEF MaxSecret, Kinds, Narrow
<1> QED
  BY <1>1, <1>2, <1>3, <1>4 DEF Users

-----------------------------------------------------------------------------

\* A function on 1..n is a sequence.
LEMMA FcnIsSeq ==
  ASSUME NEW n \in Nat, NEW S, NEW f \in [1..n -> S]
  PROVE  f \in Seq(S) /\ Len(f) = n
OBVIOUS

\* The string of n characters has n, none of them NUL.
LEMMA TextTyped ==
  ASSUME NEW w \in Nat, NEW n \in Nat
  PROVE  Text(w, n) \in Seq(Nat \ {0}) /\ Len(Text(w, n)) = n
<1>1. Text(w, n) \in [1..n -> Nat \ {0}]
  BY DEF Text
<1> QED
  BY <1>1, FcnIsSeq

\* The minimum of a set of integers.
LEMMA MinIs ==
  ASSUME NEW I, I \subseteq Int, NEW m \in I, \A i \in I : m <= i
  PROVE  Min(I) = m
<1>1. \A x \in I : (\A y \in I : x <= y) => x = m
  OBVIOUS
<1> QED
  BY <1>1 DEF Min

\* A part of a sequence, element by element.
LEMMA SubSeqIs ==
  ASSUME NEW S, NEW r \in Seq(S), NEW s \in Seq(S), NEW o \in Nat,
         o + Len(s) <= Len(r), \A i \in 1..Len(s) : r[o + i] = s[i]
  PROVE  SubSeq(r, o + 1, o + Len(s)) = s
<1>1. Len(s) \in Nat /\ Len(r) \in Nat
  OBVIOUS
<1>2. SubSeq(r, o + 1, o + Len(s)) = [i \in 1..Len(s) |-> r[o + i]]
  BY <1>1
<1>3. s = [i \in 1..Len(s) |-> s[i]]
  OBVIOUS
<1> QED
  BY <1>2, <1>3

\* strndup finds s, if s lies at offset o, has no NUL, and is followed by a NUL
\* or ends the report.
LEMMA StrndupText ==
  ASSUME NEW S, NEW r \in Seq(S), NEW s \in Seq(S), NEW o \in Nat,
         o + Len(s) <= Len(r),
         \A i \in 1..Len(s) : r[o + i] = s[i] /\ s[i] # NUL,
         o + Len(s) < Len(r) => r[o + Len(s) + 1] = NUL
  PROVE  Strndup(r, o) = s
<1> DEFINE t == SubSeq(r, o + 1, Len(r))
           I == {i \in 1..Len(t) : t[i] = NUL}
<1>1. Len(s) \in Nat /\ Len(r) \in Nat
  OBVIOUS
<1>2. \A i \in o + 1..Len(r) : r[i] \in S
  BY <1>1
<1>3. /\ t \in Seq(S) /\ Len(t) = Len(r) - o
      /\ \A i \in 1..Len(t) : t[i] = r[o + i]
  BY <1>1, <1>2, SubSeqProperties
<1>4. Strndup(r, o) = IF (IF I # {} THEN Min(I) ELSE 0) = 0 THEN t
                      ELSE SubSeq(t, 1, (IF I # {} THEN Min(I) ELSE 0) - 1)
  BY DEF Strndup, Before, SelectInSeq
<1>5. I \subseteq Int
  BY <1>1, <1>3
<1>6. \A i \in 1..Len(t) : i \in I <=> r[o + i] = NUL
  BY <1>3
<1>7. I \subseteq 1..Len(t)
  OBVIOUS
<1> HIDE DEF t, I
<1>8. CASE o + Len(s) = Len(r)
  <2>1. I = {}
    BY <1>1, <1>3, <1>6, <1>7, <1>8
  <2>2. Strndup(r, o) = t
    BY <1>4, <2>1
  <2>3. Len(t) = Len(s) /\ \A i \in 1..Len(t) : t[i] = s[i]
    BY <1>1, <1>3, <1>8
  <2>4. t = s
    BY <1>3, <2>3, SeqEqual
  <2> QED
    BY <2>2, <2>4
<1>9. CASE o + Len(s) < Len(r)
  <2>1. Len(s) + 1 \in I
    BY <1>1, <1>3, <1>6, <1>9
  <2>2. ASSUME NEW i \in I PROVE Len(s) + 1 <= i
    <3>1. i \in 1..Len(t) /\ r[o + i] = NUL
      BY <1>6, <1>7
    <3>2. i \notin 1..Len(s)
      BY <3>1
    <3> QED
      BY <1>1, <1>3, <3>1, <3>2
  <2>3. Min(I) = Len(s) + 1
    BY <2>1, <2>2, <1>5, MinIs
  <2>4. Strndup(r, o) = SubSeq(t, 1, Len(s))
    BY <2>1, <2>3, <1>1, <1>4
  <2>5. SubSeq(t, 0 + 1, 0 + Len(s)) = s
    <3>1. \A i \in 1..Len(s) : t[0 + i] = s[i]
      BY <1>1, <1>3, <1>9
    <3> QED
      BY <1>1, <1>3, <1>9, <3>1, SubSeqIs
  <2> QED
    BY <2>4, <2>5, <1>1
<1> QED
  BY <1>1, <1>8, <1>9

-----------------------------------------------------------------------------

\* The responses in each table.
LEMMA ResponseDomains ==
  /\ DOMAIN SlotResponses = {"GetSlotName", "ReadSlot"}
  /\ DOMAIN StatusResponses =
       {"GetStatus", "GetPasswordRetryCount", "GetUserPasswordRetryCount"}
  /\ DOMAIN CodeResponses = {"GetTOTP", "GetHOTP"}
  /\ DOMAIN PasswordSafeResponses =
       {"GetPasswordSafeSlotStatus", "GetPasswordSafeSlotName",
        "GetPasswordSafeSlotPassword", "GetPasswordSafeSlotLogin"}
  /\ DOMAIN [GetRandom |-> GetRandomResponse] = {"GetRandom"}
  /\ DOMAIN StorageResponses = {"GetDeviceStatus", "ProductionTest"}
BY DEF SlotResponses, StatusResponses, CodeResponses, PasswordSafeResponses,
       StorageResponses

\* The layout of a response is the one in its table.
LEMMA ResponseOf ==
  ASSUME NEW T \in ResponseTables, NEW c \in DOMAIN T
  PROVE  Responses[c] = T[c] /\ c \in DOMAIN Responses
<1>1. \A U \in ResponseTables : c \in DOMAIN U => U = T
  BY ResponseDomains DEF ResponseTables
<1> QED
  BY <1>1, JoinedEntry DEF Responses

\* The layout of the answer to ReadSlot.
LEMMA ReadSlotLayout ==
  /\ Responses["ReadSlot"] =
       << <<"slot_name", 15>>, <<"slot_config", 1>>, <<"slot_token_id", 13>>,
          <<"slot_counter", 8>> >>
<1>1. SlotResponses \in ResponseTables
  BY DEF ResponseTables
<1> QED
  BY <1>1, ResponseOf, ResponseDomains DEF SlotResponses

\* The layouts of the answers that are strings.
LEMMA StringLayouts ==
  /\ Responses["GetSlotName"] = << <<"slot_name", 15>> >>
  /\ Responses["GetPasswordSafeSlotName"] = << <<"slot_name", 11>> >>
  /\ Responses["GetPasswordSafeSlotPassword"] = << <<"slot_password", 20>> >>
  /\ Responses["GetPasswordSafeSlotLogin"] = << <<"slot_login", 32>> >>
<1>1. /\ SlotResponses \in ResponseTables
      /\ PasswordSafeResponses \in ResponseTables
  BY DEF ResponseTables
<1> QED
  BY <1>1, ResponseOf, ResponseDomains DEF SlotResponses, PasswordSafeResponses

\* A layout of one field, which begins at 0.
LEMMA OneField ==
  ASSUME NEW f, NEW w \in Nat, NEW l, l = << <<f, w>> >>
  PROVE  Widths(l)[0] = 0 /\ IndexOf(l, f) = 1
<1> DEFINE G(g) == [k \in 0..Len(l) |->
                      IF k = 0 THEN 0 ELSE g[k - 1] + l[k][2]]
           h == [k \in 0..1 |-> IF k = 0 THEN 0 ELSE w]
<1>1. Len(l) = 1 /\ DOMAIN l = {1} /\ l[1][2] = w /\ l[1][1] = f
  OBVIOUS
<1>2. h = G(h)
  BY <1>1
<1>3. Widths(l) = CHOOSE g : g = G(g)
  BY DEF Widths
<1>4. Widths(l) = G(Widths(l))
  <2> HIDE DEF G, h
  <2> QED
    BY <1>2, <1>3
<1>5. Widths(l)[0] = 0
  BY <1>1, <1>4
<1> QED
  BY <1>1, <1>5 DEF IndexOf

\* Where the fields of a layout of four begin.
LEMMA FourFields ==
  ASSUME NEW l, Len(l) = 4, DOMAIN l = 1..4, \A k \in 1..4 : l[k][2] \in Nat
  PROVE  /\ Widths(l)[0] = 0
         /\ Widths(l)[1] = l[1][2]
         /\ Widths(l)[2] = l[1][2] + l[2][2]
         /\ Widths(l)[3] = l[1][2] + l[2][2] + l[3][2]
<1> DEFINE G(g) == [k \in 0..Len(l) |->
                      IF k = 0 THEN 0 ELSE g[k - 1] + l[k][2]]
           h == [k \in 0..4 |->
                   CASE k = 0 -> 0
                     [] k = 1 -> l[1][2]
                     [] k = 2 -> l[1][2] + l[2][2]
                     [] k = 3 -> l[1][2] + l[2][2] + l[3][2]
                     [] k = 4 -> l[1][2] + l[2][2] + l[3][2] + l[4][2]]
<1>1. h = G(h)
  OBVIOUS
<1>2. Widths(l) = CHOOSE g : g = G(g)
  BY DEF Widths
<1>3. Widths(l) = G(Widths(l))
  <2> HIDE DEF G, h
  <2> QED
    BY <1>1, <1>2
<1>4. Widths(l)[0] = 0
  BY <1>3
<1>5. \A k \in 1..4 : Widths(l)[k] = Widths(l)[k - 1] + l[k][2]
  BY <1>3
<1> QED
  BY <1>4, <1>5

\* Where the fields of the answer to ReadSlot lie.
LEMMA ReadSlotPlaces ==
  /\ Offset("ReadSlot", "slot_name") = 0
  /\ Offset("ReadSlot", "slot_token_id") = 16
  /\ Offset("ReadSlot", "slot_counter") = 29
  /\ ResponseWidth("ReadSlot", "slot_name") = 15
  /\ ResponseWidth("ReadSlot", "slot_token_id") = 13
  /\ ResponseWidth("ReadSlot", "slot_counter") = 8
<1> DEFINE l == Responses["ReadSlot"]
<1>1. /\ Len(l) = 4 /\ DOMAIN l = 1..4
      /\ l[1][1] = "slot_name" /\ l[1][2] = 15
      /\ l[2][1] = "slot_config" /\ l[2][2] = 1
      /\ l[3][1] = "slot_token_id" /\ l[3][2] = 13
      /\ l[4][1] = "slot_counter" /\ l[4][2] = 8
  BY ReadSlotLayout
<1> HIDE DEF l
<1>2. /\ IndexOf(l, "slot_name") = 1
      /\ IndexOf(l, "slot_token_id") = 3
      /\ IndexOf(l, "slot_counter") = 4
  BY <1>1 DEF IndexOf
<1>3. Widths(l)[0] = 0 /\ Widths(l)[2] = 16 /\ Widths(l)[3] = 29
  BY <1>1, FourFields
<1> QED
  BY <1>1, <1>2, <1>3 DEF Offset, ResponseWidth, l

\* The place of an only field.
LEMMA FirstField ==
  ASSUME NEW c, NEW f, NEW w \in Nat, Responses[c] = << <<f, w>> >>
  PROVE  Offset(c, f) = 0 /\ ResponseWidth(c, f) = w
<1>1. Widths(Responses[c])[0] = 0 /\ IndexOf(Responses[c], f) = 1
  BY OneField
<1> QED
  BY <1>1 DEF Offset, ResponseWidth

\* Where the strings lie.
LEMMA StringPlaces ==
  /\ Offset("GetSlotName", "slot_name") = 0
  /\ ResponseWidth("GetSlotName", "slot_name") = 15
  /\ Offset("GetPasswordSafeSlotName", "slot_name") = 0
  /\ ResponseWidth("GetPasswordSafeSlotName", "slot_name") = 11
  /\ Offset("GetPasswordSafeSlotPassword", "slot_password") = 0
  /\ ResponseWidth("GetPasswordSafeSlotPassword", "slot_password") = 20
  /\ Offset("GetPasswordSafeSlotLogin", "slot_login") = 0
  /\ ResponseWidth("GetPasswordSafeSlotLogin", "slot_login") = 32
BY StringLayouts, FirstField

\* A report has 57 bytes after its header.
LEMMA ReportTyped ==
  ASSUME NEW c, NEW bytes
  PROVE  /\ DOMAIN Report(c, bytes) = 1..57
         /\ \A S : (\A i \in 1..57 : Report(c, bytes)[i] \in S) =>
              Report(c, bytes) \in Seq(S) /\ Len(Report(c, bytes)) = 57
<1> DEFINE r == Report(c, bytes)
<1>1. DOMAIN r = 1..57 /\ r = [i \in 1..57 |-> r[i]]
  BY DEF Report, PayloadSize, FooterSize, HidReportSize, HeaderSize
<1> HIDE DEF r
<1>2. ASSUME NEW S, \A i \in 1..57 : r[i] \in S
      PROVE  r \in Seq(S) /\ Len(r) = 57
  <2>1. r \in [1..57 -> S]
    BY <1>1, <1>2
  <2> QED
    BY <2>1, FcnIsSeq
<1> QED
  BY <1>1, <1>2 DEF r

\* A byte of the only field there, and a byte of none.
LEMMA ReportByte ==
  ASSUME NEW c, NEW bytes, NEW i \in 1..53, NEW f \in DOMAIN bytes,
         \A g \in DOMAIN bytes :
           i - Offset(c, g) \in 1..ResponseWidth(c, g) <=> g = f
  PROVE  Report(c, bytes)[i] = bytes[f][i - Offset(c, f)]
<1> DEFINE here == {g \in DOMAIN bytes :
                      i - Offset(c, g) \in 1..ResponseWidth(c, g)}
<1>1. here = {f}
  OBVIOUS
<1>2. (CHOOSE g \in here : TRUE) = f
  BY <1>1
<1>3. i \in 1..57 /\ ~(i > 53)
  OBVIOUS
<1>4. Report(c, bytes)[i] = bytes[CHOOSE g \in here : TRUE]
                                 [i - Offset(c, CHOOSE g \in here : TRUE)]
  BY <1>1, <1>3
  DEF Report, PayloadSize, FooterSize, HidReportSize, HeaderSize
<1> QED
  BY <1>2, <1>4

\* A byte that is in no field.
LEMMA ReportPadding ==
  ASSUME NEW c, NEW bytes, NEW i \in 1..53,
         \A g \in DOMAIN bytes : i - Offset(c, g) \notin 1..ResponseWidth(c, g)
  PROVE  Report(c, bytes)[i] = NUL
<1>1. i \in 1..57 /\ ~(i > 53) /\ i <= 53
  OBVIOUS
<1>2. {g \in DOMAIN bytes : i - Offset(c, g) \in 1..ResponseWidth(c, g)} = {}
  OBVIOUS
<1> QED
  BY <1>1, <1>2
  DEF Report, PayloadSize, FooterSize, HidReportSize, HeaderSize

\* The bytes of the checksum.
LEMMA ReportChecksum ==
  ASSUME NEW c, NEW bytes, NEW i \in 54..57
  PROVE  Report(c, bytes)[i] = 255
BY DEF Report, PayloadSize, FooterSize, HidReportSize, HeaderSize

-----------------------------------------------------------------------------
\* Characters of a string.
Chars == Nat \ {0}

\* A field has its width; characters come first, then NULs.
LEMMA FieldTyped ==
  ASSUME NEW text \in Seq(Chars), NEW w \in Nat
  PROVE  /\ Field(text, w) \in Seq(Nat) /\ Len(Field(text, w)) = w
         /\ \A i \in 1..w : Field(text, w)[i] =
              IF i <= Len(text) THEN text[i] ELSE NUL
<1>1. Field(text, w) \in [1..w -> Nat]
  BY DEF Field, NUL, Chars
<1>2. \A i \in 1..w :
        Field(text, w)[i] = IF i <= Len(text) THEN text[i] ELSE NUL
  BY DEF Field
<1> QED
  BY <1>1, <1>2, FcnIsSeq

\* A string contains no NUL.
LEMMA CharsAreNotNul ==
  ASSUME NEW text \in Seq(Chars)
  PROVE  /\ text \in Seq(Nat) /\ Len(text) \in Nat
         /\ \A i \in 1..Len(text) : text[i] # NUL
BY DEF Chars, NUL

\* strndup finds a string at the front of a report.
LEMMA TextInFront ==
  ASSUME NEW text \in Seq(Nat), NEW r \in Seq(Nat),
         Len(text) <= Len(r),
         \A i \in 1..Len(text) : r[i] = text[i] /\ text[i] # NUL,
         Len(text) < Len(r) => r[Len(text) + 1] = NUL
  PROVE  Strndup(r, 0) = text
<1>1. Len(text) \in Nat /\ Len(r) \in Nat
  OBVIOUS
<1>2. \A i \in 1..Len(text) : r[0 + i] = text[i] /\ text[i] # NUL
  BY <1>1
<1>3. 0 + Len(text) < Len(r) => r[0 + Len(text) + 1] = NUL
  BY <1>1
<1>4. 0 + Len(text) <= Len(r)
  BY <1>1
<1> QED
  BY <1>2, <1>3, <1>4, StrndupText

\* Read from its field alone.
LEMMA FieldReadsBack ==
  ASSUME NEW text \in Seq(Chars), NEW w \in Nat, Len(text) <= w
  PROVE  Strndup(Field(text, w), 0) = text
<1> DEFINE r == Field(text, w)
<1>1. r \in Seq(Nat) /\ Len(r) = w
  BY FieldTyped
<1>2. \A i \in 1..w : r[i] = IF i <= Len(text) THEN text[i] ELSE NUL
  BY FieldTyped
<1>3. text \in Seq(Nat) /\ Len(text) \in Nat
  BY CharsAreNotNul
<1> HIDE DEF r
<1>4. \A i \in 1..Len(text) : r[i] = text[i] /\ text[i] # NUL
  BY <1>2, <1>3, CharsAreNotNul
<1>5. Len(text) < Len(r) => r[Len(text) + 1] = NUL
  BY <1>1, <1>2, <1>3
<1>6. Len(text) <= Len(r)
  BY <1>1, <1>3
<1> QED
  BY <1>1, <1>3, <1>4, <1>5, <1>6, TextInFront DEF r

\* The bytes of a report with one field, at the front.
LEMMA OneFieldReport ==
  ASSUME NEW c, NEW f, Offset(c, f) = 0, ResponseWidth(c, f) \in 1..52,
         NEW b, DOMAIN b = {f}, NEW i \in 1..53
  PROVE  Report(c, b)[i] = IF i <= ResponseWidth(c, f) THEN b[f][i] ELSE NUL
<1>1. DOMAIN b = {f}
  OBVIOUS
<1>2. i - Offset(c, f) = i
  OBVIOUS
<1>3. CASE i <= ResponseWidth(c, f)
  <2>1. i - Offset(c, f) \in 1..ResponseWidth(c, f)
    BY <1>2, <1>3
  <2>2. Report(c, b)[i] = b[f][i - Offset(c, f)]
    BY <1>1, <2>1, ReportByte
  <2> QED
    BY <1>2, <1>3, <2>2
<1>4. CASE ~(i <= ResponseWidth(c, f))
  <2>1. i - Offset(c, f) \notin 1..ResponseWidth(c, f)
    BY <1>2, <1>4
  <2>2. Report(c, b)[i] = NUL
    BY <1>1, <2>1, ReportPadding
  <2> QED
    BY <1>4, <2>2
<1> QED
  BY <1>3, <1>4

\* The bytes of a report, with the checksum.
LEMMA AllBytes ==
  ASSUME NEW S, NEW r, \A i \in 1..53 : r[i] \in S,
         \A i \in 54..57 : r[i] = 255, 255 \in S
  PROVE  \A i \in 1..57 : r[i] \in S
OBVIOUS

\* The bytes of a string and the NULs that follow it.
LEMMA BytesTyped ==
  ASSUME NEW n, NEW text, NEW r, \A i \in 1..n : text[i] \in Nat,
         n \in Nat, \A i \in 1..53 : r[i] = IF i <= n THEN text[i] ELSE 0
  PROVE  \A i \in 1..53 : r[i] \in Nat
OBVIOUS

\* Read from the report.
LEMMA StringReadsBack ==
  \A c, f, w, text :
    /\ w \in 1..52 /\ Offset(c, f) = 0 /\ ResponseWidth(c, f) = w
    /\ text \in Seq(Chars) /\ Len(text) <= w
    => Strndup(Report(c, [y \in {f} |-> Field(text, w)]), 0) = text
<1>1. SUFFICES ASSUME NEW c, NEW f, NEW w, NEW text,
                      w \in 1..52, Offset(c, f) = 0, ResponseWidth(c, f) = w,
                      text \in Seq(Chars), Len(text) <= w
               PROVE  Strndup(Report(c, [y \in {f} |-> Field(text, w)]), 0)
                        = text
  OBVIOUS
<1> DEFINE v == Field(text, w)
           b == [y \in {f} |-> v]
           r == Report(c, b)
           n == Len(text)
<1>2. text \in Seq(Nat) /\ n \in Nat /\ n <= w
  BY <1>1, CharsAreNotNul
<1>3. \A i \in 1..w : v[i] = IF i <= n THEN text[i] ELSE NUL
  BY <1>1, FieldTyped
<1>4. \A i \in 1..n : text[i] \in Nat /\ text[i] # NUL
  BY <1>1, CharsAreNotNul
<1>5. n = Len(text)
  OBVIOUS
<1> HIDE DEF b, r, v, n
<1>6. \A i \in 1..53 : r[i] = IF i <= w THEN v[i] ELSE NUL
  <2>1. w \in 1..52 /\ Offset(c, f) = 0 /\ ResponseWidth(c, f) = w
    BY <1>1
  <2>2. DOMAIN b = {f} /\ b[f] = v
    BY DEF b
  <2> QED
    BY <2>1, <2>2, OneFieldReport DEF r
<1>7. \A i \in 54..57 : r[i] = 255
  BY ReportChecksum DEF r
<1>8. w \in 1..52
  BY <1>1
<1>9. n \in Nat /\ n <= w
  BY <1>2
<1>10. /\ \A i \in 1..n : r[i] = text[i]
       /\ r[n + 1] = NUL /\ n < 57
       /\ \A i \in 1..53 : r[i] = IF i <= n THEN text[i] ELSE NUL
  BY <1>3, <1>6, <1>8, <1>9
<1>11. \A i \in 1..53 : r[i] \in Nat
  BY <1>4, <1>9, <1>10, BytesTyped DEF NUL
<1>12. \A i \in 1..57 : r[i] \in Nat
  BY <1>7, <1>11, AllBytes
<1>13. r \in Seq(Nat) /\ Len(r) = 57
  BY <1>12, ReportTyped DEF r
<1>14. /\ Len(text) <= Len(r) /\ r[Len(text) + 1] = NUL
       /\ \A i \in 1..Len(text) : r[i] = text[i] /\ text[i] # NUL
  BY <1>4, <1>5, <1>9, <1>10, <1>13
<1>15. Strndup(r, 0) = text
  BY <1>2, <1>13, <1>14, TextInFront
<1> QED
  BY <1>15 DEF r, b, v

\* The bytes of the answer to ReadSlot.
LEMMA SlotBytes ==
  ASSUME NEW b, DOMAIN b = SlotData
  PROVE  /\ \A i \in 1..15 : Report("ReadSlot", b)[i] = b["slot_name"][i]
         /\ \A i \in 17..29 :
              Report("ReadSlot", b)[i] = b["slot_token_id"][i - 16]
         /\ \A i \in 30..37 :
              Report("ReadSlot", b)[i] = b["slot_counter"][i - 29]
         /\ Report("ReadSlot", b)[16] = NUL
         /\ \A i \in 38..53 : Report("ReadSlot", b)[i] = NUL
<1> DEFINE O(g) == Offset("ReadSlot", g)
           W(g) == ResponseWidth("ReadSlot", g)
           r == Report("ReadSlot", b)
<1>1. /\ O("slot_name") = 0 /\ O("slot_token_id") = 16
      /\ O("slot_counter") = 29
      /\ W("slot_name") = 15 /\ W("slot_token_id") = 13
      /\ W("slot_counter") = 8
  BY ReadSlotPlaces
<1>2. \A g \in DOMAIN b : g \in {"slot_name", "slot_token_id", "slot_counter"}
  BY DEF SlotData
<1>3. ASSUME NEW i \in 1..53, NEW f \in DOMAIN b,
             \A g \in DOMAIN b : i - O(g) \in 1..W(g) <=> g = f
      PROVE  r[i] = b[f][i - O(f)]
  BY <1>3, ReportByte, Zenon
<1>4. ASSUME NEW i \in 1..53, \A g \in DOMAIN b : i - O(g) \notin 1..W(g)
      PROVE  r[i] = NUL
  BY <1>4, ReportPadding, Zenon
<1>5. /\ "slot_name" \in DOMAIN b /\ "slot_token_id" \in DOMAIN b
      /\ "slot_counter" \in DOMAIN b
  BY DEF SlotData
<1> HIDE DEF O, W, r
<1>6. ASSUME NEW i \in 1..15 PROVE r[i] = b["slot_name"][i]
  <2>1. \A g \in DOMAIN b : i - O(g) \in 1..W(g) <=> g = "slot_name"
    BY <1>1, <1>2
  <2>2. r[i] = b["slot_name"][i - O("slot_name")]
    BY <1>3, <1>5, <2>1
  <2> QED
    BY <1>1, <2>2
<1>7. ASSUME NEW i \in 17..29 PROVE r[i] = b["slot_token_id"][i - 16]
  <2>1. \A g \in DOMAIN b : i - O(g) \in 1..W(g) <=> g = "slot_token_id"
    BY <1>1, <1>2
  <2>2. r[i] = b["slot_token_id"][i - O("slot_token_id")]
    BY <1>3, <1>5, <2>1
  <2> QED
    BY <1>1, <2>2
<1>8. ASSUME NEW i \in 30..37 PROVE r[i] = b["slot_counter"][i - 29]
  <2>1. \A g \in DOMAIN b : i - O(g) \in 1..W(g) <=> g = "slot_counter"
    BY <1>1, <1>2
  <2>2. r[i] = b["slot_counter"][i - O("slot_counter")]
    BY <1>3, <1>5, <2>1
  <2> QED
    BY <1>1, <2>2
<1>9. ASSUME NEW i \in {16} \cup 38..53 PROVE r[i] = NUL
  <2>1. \A g \in DOMAIN b : i - O(g) \notin 1..W(g)
    BY <1>1, <1>2
  <2> QED
    BY <1>4, <2>1
<1> QED
  BY <1>6, <1>7, <1>8, <1>9 DEF r

\* Their set.
LEMMA SlotBytesIn ==
  ASSUME NEW S, NEW b, DOMAIN b = SlotData,
         \A i \in 1..15 : b["slot_name"][i] \in S,
         \A i \in 1..13 : b["slot_token_id"][i] \in S,
         \A i \in 1..8 : b["slot_counter"][i] \in S, 0 \in S, 255 \in S
  PROVE  \A i \in 1..57 : Report("ReadSlot", b)[i] \in S
<1> DEFINE r == Report("ReadSlot", b)
<1>1. /\ \A i \in 1..15 : r[i] = b["slot_name"][i]
      /\ \A i \in 17..29 : r[i] = b["slot_token_id"][i - 16]
      /\ \A i \in 30..37 : r[i] = b["slot_counter"][i - 29]
      /\ r[16] = 0
      /\ \A i \in 38..53 : r[i] = 0
  BY SlotBytes DEF NUL
<1> HIDE DEF r
<1>2. ASSUME NEW i \in 1..53 PROVE r[i] \in S
  <2>1. CASE i \in 1..15
    BY <1>1, <2>1
  <2>2. CASE i \in 17..29
    <3>1. i - 16 \in 1..13 /\ r[i] = b["slot_token_id"][i - 16]
      BY <1>1, <2>2
    <3> QED
      BY <3>1
  <2>3. CASE i \in 30..37
    <3>1. i - 29 \in 1..8 /\ r[i] = b["slot_counter"][i - 29]
      BY <1>1, <2>3
    <3> QED
      BY <3>1
  <2>4. CASE i \in {16} \cup 38..53
    BY <1>1, <2>4
  <2> QED
    BY <2>1, <2>2, <2>3, <2>4
<1>3. \A i \in 54..57 : r[i] = 255
  BY ReportChecksum DEF r
<1> QED
  BY <1>2, <1>3, AllBytes DEF r

\* The elements of a sequence of length n.
LEMMA ElementsTyped ==
  ASSUME NEW S, NEW s \in Seq(S), NEW n, Len(s) = n
  PROVE  \A i \in 1..n : s[i] \in S
OBVIOUS

\* The three fields that NK_read_HOTP_slot takes from it.
LEMMA SlotFieldsRead ==
  \A b, name, token, counter, S :
    /\ DOMAIN b = SlotData
    /\ b["slot_name"] = name /\ name \in Seq(S) /\ Len(name) = 15
    /\ b["slot_token_id"] = token /\ token \in Seq(S) /\ Len(token) = 13
    /\ b["slot_counter"] = counter /\ counter \in Seq(S) /\ Len(counter) = 8
    => /\ SubSeq(Report("ReadSlot", b), 0 + 1, 0 + 15) = name
       /\ SubSeq(Report("ReadSlot", b), 16 + 1, 16 + 13) = token
       /\ SubSeq(Report("ReadSlot", b), 29 + 1, 29 + 8) = counter
<1> TAKE b, name, token, counter, S
<1>1. HAVE
        /\ DOMAIN b = SlotData
        /\ b["slot_name"] = name /\ name \in Seq(S) /\ Len(name) = 15
        /\ b["slot_token_id"] = token /\ token \in Seq(S) /\ Len(token) = 13
        /\ b["slot_counter"] = counter /\ counter \in Seq(S)
        /\ Len(counter) = 8
<1> DEFINE r == Report("ReadSlot", b)
           T == S \cup {0, 255}
<1>2. /\ DOMAIN b = SlotData /\ b["slot_name"] = name
      /\ b["slot_token_id"] = token /\ b["slot_counter"] = counter
  BY <1>1
<1>3. \A i \in 1..15 : r[0 + i] = name[i]
  BY <1>2, SlotBytes
<1>4. \A i \in 17..29 : r[i] = token[i - 16]
  BY <1>2, SlotBytes
<1>5. \A i \in 30..37 : r[i] = counter[i - 29]
  BY <1>2, SlotBytes
<1>6. \A i \in 1..57 : r[i] \in T
  <2>1. /\ \A i \in 1..15 : name[i] \in S
        /\ \A i \in 1..13 : token[i] \in S
        /\ \A i \in 1..8 : counter[i] \in S
    BY <1>1, ElementsTyped
  <2>2. \A i \in 1..15 : b["slot_name"][i] \in T
    BY <1>2, <2>1
  <2>3. \A i \in 1..13 : b["slot_token_id"][i] \in T
    BY <1>2, <2>1
  <2>4. \A i \in 1..8 : b["slot_counter"][i] \in T
    BY <1>2, <2>1
  <2>5. 0 \in T /\ 255 \in T
    OBVIOUS
  <2> HIDE DEF T
  <2> QED
    BY <1>2, <2>2, <2>3, <2>4, <2>5, SlotBytesIn
<1>7. name \in Seq(T) /\ token \in Seq(T) /\ counter \in Seq(T)
  BY <1>1
<1> HIDE DEF r, T
<1>8. r \in Seq(T) /\ Len(r) = 57
  BY <1>6, ReportTyped DEF r
<1>9. \A i \in 1..13 : r[16 + i] = token[i]
  <2>1. \A i \in 1..13 : 16 + i \in 17..29 /\ (16 + i) - 16 = i
    OBVIOUS
  <2> QED
    BY <1>4, <2>1
<1>10. \A i \in 1..8 : r[29 + i] = counter[i]
  <2>1. \A i \in 1..8 : 29 + i \in 30..37 /\ (29 + i) - 29 = i
    OBVIOUS
  <2> QED
    BY <1>5, <2>1
<1>11. /\ 0 + Len(name) <= Len(r) /\ 16 + Len(token) <= Len(r)
       /\ 29 + Len(counter) <= Len(r)
  BY <1>1, <1>8
<1>12. SubSeq(r, 0 + 1, 0 + Len(name)) = name
  BY <1>1, <1>3, <1>7, <1>8, <1>11, SubSeqIs
<1>13. SubSeq(r, 16 + 1, 16 + Len(token)) = token
  BY <1>1, <1>7, <1>8, <1>9, <1>11, SubSeqIs
<1>14. SubSeq(r, 29 + 1, 29 + Len(counter)) = counter
  BY <1>1, <1>7, <1>8, <1>10, <1>11, SubSeqIs
<1> QED
  BY <1>1, <1>12, <1>13, <1>14 DEF r

-----------------------------------------------------------------------------
\* The data that are strings.
StringData == PasswordSafeData \cup {"slot_name", "slot_token_id"}

\* The bytes that the stick has for a string.
KeptWidth(d) ==
  CASE d = "pws_name" -> 11
    [] d = "pws_password" -> 20
    [] d = "pws_login" -> 32
    [] d = "slot_name" -> 15
    [] d = "slot_token_id" -> 13

\* The formats of the counter: decimal as long as Authorize is in use.
Decimal(s) == s.model = "STORAGE" /\ MinorFirmwareVersion(s) <= 53

\* g was given for datum d, and k is what stick s keeps of it.
Faithful(s, d, g, k) ==
  /\ d \in StringData =>
       /\ g \in Seq(Chars) /\ k = Field(g, KeptWidth(d))
       /\ Len(g) <= KeptWidth(d) \/ d = "slot_name"
  /\ d = "slot_counter" =>
       \E n \in Counters :
         /\ g = <<n>>
         /\ IF Decimal(s)
            THEN k = Field(Digits[n], 8) /\ ~TooLong(Digits[n], 8)
            ELSE k = Binary(n)

\* The stick keeps all that it was given.
AllFaithful == \A d \in DOMAIN given : Faithful(stick, d, given[d], kept[d])

\* Nothing else is kept, and the data of a slot come together.
Domains ==
  /\ DOMAIN given = DOMAIN kept
  /\ DOMAIN given \subseteq PasswordSafeData \cup SlotData
  /\ "slot_counter" \in DOMAIN given => SlotData \subseteq DOMAIN given

\* No secret is longer than a setter allows.
SecretsFit ==
  /\ secret \in [Kinds -> Nat]
  /\ \A k \in Kinds : secret[k] <= MaxSecret(stick, k)

\* What lasts from call to call.
Base ==
  /\ stick \in Sticks
  /\ writes \in 0..MaxWrites
  /\ Domains
  /\ AllFaithful
  /\ SecretsFit

\* The inductive invariant.
PInv ==
  /\ Base
  /\ DOMAIN got \subseteq DOMAIN given \cup {"storage_data"}
  /\ outcome \in {"ok", "TooLongString"}
  /\ ReadsBack /\ AnswersUnderstood /\ SecretUsable

-----------------------------------------------------------------------------
\* Nothing was read.
LEMMA NothingRead ==
  ASSUME got' = <<>>, outcome' \in {"ok", "TooLongString"}
  PROVE  /\ (DOMAIN got \subseteq DOMAIN given \cup {"storage_data"})'
         /\ ReadsBack' /\ AnswersUnderstood' /\ CounterReadsBack'
<1>1. DOMAIN got' = {}
  OBVIOUS
<1> QED
  BY <1>1 DEF ReadsBack, AnswersUnderstood, CounterReadsBack

\* A call that only reads keeps it.
LEMMA BaseUnchanged ==
  ASSUME Base, UNCHANGED <<stick, writes, given, kept, secret>>
  PROVE  Base'
BY DEF Base, Domains, AllFaithful, SecretsFit

\* What a write has to send.
SendsFaithfully(texts, fields) ==
  /\ DOMAIN texts = DOMAIN fields
  /\ DOMAIN texts \subseteq PasswordSafeData \cup SlotData
  /\ "slot_counter" \in DOMAIN texts => SlotData \subseteq DOMAIN texts
  /\ \A d \in DOMAIN texts : Faithful(stick, d, texts[d], fields[d])

\* Entries of a merged function.
LEMMA MergeDomain ==
  ASSUME NEW f, NEW g
  PROVE  /\ DOMAIN (f ++ g) = DOMAIN f \cup DOMAIN g
         /\ \A x \in DOMAIN f : (f ++ g)[x] = f[x]
         /\ \A x \in DOMAIN g : x \notin DOMAIN f => (f ++ g)[x] = g[x]
BY DEF ++

\* A write that sends what it was given.
LEMMA SentKeeps ==
  ASSUME PInv, NEW texts, NEW fields, NEW o \in {"ok", "TooLongString"},
         Sent(texts, fields, o), SendsFaithfully(texts, fields)
  PROVE  PInv' /\ CounterReadsBack'
<1>1. /\ given' = texts ++ given /\ kept' = fields ++ kept
      /\ UNCHANGED <<stick, secret>>
      /\ got' = <<>> /\ outcome' = o /\ last' = "none"
      /\ writes < MaxWrites /\ writes' = writes + 1
  BY DEF Sent
<1>2. Domains'
  <2>1. /\ DOMAIN given' = DOMAIN texts \cup DOMAIN given
        /\ DOMAIN kept' = DOMAIN fields \cup DOMAIN kept
    BY <1>1, MergeDomain
  <2> QED
    BY <2>1 DEF PInv, Base, Domains, SendsFaithfully
<1>3. AllFaithful'
  <2>1. ASSUME NEW d \in DOMAIN given'
        PROVE  Faithful(stick, d, given'[d], kept'[d])
    <3>1. DOMAIN given' = DOMAIN texts \cup DOMAIN given
      BY <1>1, MergeDomain
    <3>2. CASE d \in DOMAIN texts
      <4>1. given'[d] = texts[d] /\ kept'[d] = fields[d]
        <5>1. d \in DOMAIN texts /\ d \in DOMAIN fields
          BY <3>2 DEF SendsFaithfully
        <5>2. given'[d] = texts[d]
          BY <1>1, <5>1 DEF ++
        <5>3. kept'[d] = fields[d]
          BY <1>1, <5>1 DEF ++
        <5> QED
          BY <5>2, <5>3
      <4> QED
        BY <3>2, <4>1 DEF SendsFaithfully
    <3>3. CASE d \notin DOMAIN texts
      <4>1. d \in DOMAIN given /\ d \in DOMAIN kept /\ d \notin DOMAIN fields
        BY <3>1, <3>3 DEF PInv, Base, Domains, SendsFaithfully
      <4>2. given'[d] = given[d] /\ kept'[d] = kept[d]
        <5>1. given'[d] = given[d]
          BY <1>1, <3>3, <4>1 DEF ++
        <5>2. kept'[d] = kept[d]
          BY <1>1, <4>1 DEF ++
        <5> QED
          BY <5>1, <5>2
      <4> QED
        BY <4>1, <4>2 DEF PInv, Base, AllFaithful
    <3> QED
      BY <3>2, <3>3
  <2> QED
    BY <1>1, <2>1 DEF AllFaithful
<1>4. writes' \in 0..MaxWrites
  BY <1>1, PayloadsAssumption DEF PInv, Base
<1>5. SecretsFit' /\ stick' \in Sticks
  BY <1>1 DEF PInv, Base, SecretsFit
<1>6. SecretUsable'
  BY <1>1 DEF SecretUsable
<1> QED
  BY <1>1, <1>2, <1>3, <1>4, <1>5, <1>6, NothingRead DEF PInv, Base

\* A call that sets a PIN or a password.
LEMMA SetSecretKeeps ==
  ASSUME PInv, NEW x \in Setters(stick), NEW n \in SecretLengths,
         SetSecret(x, n)
  PROVE  PInv' /\ CounterReadsBack'
<1>1. stick \in Stick /\ n \in Nat
  BY PayloadsAssumption DEF PInv, Base
<1>2. x[1] \in Kinds /\ Width(x[2], x[3]) \in 0..MaxSecret(stick, x[1])
  BY <1>1, SettersBounded
<1>3. Len(Text(1, n)) = n
  BY <1>1, TextTyped
<1>4. TooLong(Text(1, n), Width(x[2], x[3])) \/ n <= MaxSecret(stick, x[1])
  BY <1>1, <1>2, <1>3 DEF TooLong, MaxSecret
<1>5. secret' = secret \/ (/\ secret' = [secret EXCEPT ![x[1]] = n]
                           /\ n <= MaxSecret(stick, x[1]))
  BY <1>4 DEF SetSecret
<1>6. stick' = stick /\ writes' \in 0..MaxWrites
  BY PayloadsAssumption DEF SetSecret, PInv, Base
<1>7. SecretsFit'
  BY <1>1, <1>2, <1>5, <1>6 DEF SecretsFit, PInv, Base
<1>8. Domains' /\ AllFaithful'
  BY DEF SetSecret, PInv, Base, Domains, AllFaithful
<1>9. SecretUsable' /\ got' = <<>> /\ outcome' \in {"ok", "TooLongString"}
  BY DEF SetSecret, SecretUsable
<1> QED
  BY <1>6, <1>7, <1>8, <1>9, NothingRead DEF PInv, Base

\* A call that uses it.
LEMMA UseSecretKeeps ==
  ASSUME PInv, NEW x \in Users(stick), UseSecret(x)
  PROVE  PInv' /\ CounterReadsBack'
<1>1. stick \in Stick
  BY PayloadsAssumption DEF PInv, Base
<1>2. /\ x[1] \in Kinds
      /\ Width(x[2], x[3]) \in Nat
      /\ Width(x[2], x[3]) >= MaxSecret(stick, x[1]) \/ Narrow(stick, x)
  BY <1>1, UsersWide
<1>3. secret[x[1]] \in Nat /\ secret[x[1]] <= MaxSecret(stick, x[1])
  BY <1>2 DEF PInv, Base, SecretsFit
<1>4. Len(Text(1, secret[x[1]])) = secret[x[1]]
  BY <1>3, TextTyped
<1>5. TooLong(Text(1, secret[x[1]]), Width(x[2], x[3])) =>
        Narrow(stick, x) /\ secret[x[1]] > 20
  BY <1>2, <1>3, <1>4 DEF TooLong, MaxSecret, Narrow
<1>6. SecretUsable'
  BY <1>5 DEF UseSecret, SecretUsable, Narrow
<1>7. Base'
  BY BaseUnchanged DEF UseSecret, PInv
<1>8. got' = <<>> /\ outcome' \in {"ok", "TooLongString"}
  BY DEF UseSecret
<1> QED
  BY <1>6, <1>7, <1>8, NothingRead DEF PInv

-----------------------------------------------------------------------------
\* A string that is sent after its length was checked.
LEMMA CheckedString ==
  ASSUME NEW s, NEW d \in StringData, NEW text, text \in Seq(Chars),
         NEW w, w = KeptWidth(d), ~TooLong(text, w)
  PROVE  Faithful(s, d, text, Field(text, w))
<1>1. KeptWidth(d) \in Nat /\ d # "slot_counter"
  BY DEF StringData, PasswordSafeData, KeptWidth
<1>2. Len(text) <= KeptWidth(d)
  BY <1>1 DEF TooLong
<1> QED
  BY <1>1, <1>2 DEF Faithful

\* A write that is refused before anything is sent.
LEMMA RejectedKeeps ==
  ASSUME PInv, Rejected
  PROVE  PInv' /\ CounterReadsBack'
<1>1. DOMAIN <<>> = {}
  OBVIOUS
<1>2. SendsFaithfully(<<>>, <<>>)
  BY <1>1 DEF SendsFaithfully
<1> QED
  BY <1>2, SentKeeps DEF Rejected

\* The strings of the callers.
LEMMA AroundTyped ==
  ASSUME PInv, NEW w \in Nat, NEW text \in Around(w)
  PROVE  text \in Seq(Chars)
<1>1. PICK n \in TextLengths \cup {w, w + 1} : text = Text(writes + 1, n)
  BY DEF Around
<1>2. n \in Nat /\ writes + 1 \in Nat
  BY PayloadsAssumption DEF PInv, Base
<1> QED
  BY <1>1, <1>2, TextTyped DEF Chars

\* write_password_safe_slot, also when only a part has been sent.
LEMMA WritePasswordSafeSlotKeeps ==
  ASSUME PInv, NEW name, NEW password, NEW login,
         name \in Seq(Chars), password \in Seq(Chars), login \in Seq(Chars),
         WritePasswordSafeSlot(name, password, login)
  PROVE  PInv' /\ CounterReadsBack'
<1> DEFINE texts == [pws_name |-> name, pws_password |-> password]
           fields == [pws_name |-> Field(name, 11),
                      pws_password |-> Field(password, 20)]
           texts3 == [pws_login |-> login] ++ texts
           fields3 == [pws_login |-> Field(login, 32)] ++ fields
<1>1. \/ Rejected
      \/ /\ ~TooLong(name, 11) /\ ~TooLong(password, 20)
         /\ Sent(texts, fields, "TooLongString")
      \/ /\ ~TooLong(name, 11) /\ ~TooLong(password, 20) /\ ~TooLong(login, 32)
         /\ Sent(texts3, fields3, "ok")
  BY PasswordSafeWidths DEF WritePasswordSafeSlot
<1>2. /\ ~TooLong(name, 11) =>
           Faithful(stick, "pws_name", name, Field(name, 11))
      /\ ~TooLong(password, 20) =>
           Faithful(stick, "pws_password", password, Field(password, 20))
      /\ ~TooLong(login, 32) =>
           Faithful(stick, "pws_login", login, Field(login, 32))
  BY CheckedString DEF KeptWidth, StringData, PasswordSafeData
<1>3. CASE Rejected
  BY <1>3, RejectedKeeps
<1>4. CASE /\ ~TooLong(name, 11) /\ ~TooLong(password, 20)
           /\ Sent(texts, fields, "TooLongString")
  <2>1. SendsFaithfully(texts, fields)
    BY <1>2, <1>4 DEF SendsFaithfully, PasswordSafeData, SlotData
  <2> HIDE DEF texts, fields
  <2> QED
    BY <1>4, <2>1, SentKeeps
<1>5. CASE /\ ~TooLong(name, 11) /\ ~TooLong(password, 20)
           /\ ~TooLong(login, 32) /\ Sent(texts3, fields3, "ok")
  <2>1. /\ DOMAIN texts3 = PasswordSafeData
        /\ DOMAIN fields3 = PasswordSafeData
        /\ texts3["pws_login"] = login /\ texts3["pws_name"] = name
        /\ texts3["pws_password"] = password
        /\ fields3["pws_login"] = Field(login, 32)
        /\ fields3["pws_name"] = Field(name, 11)
        /\ fields3["pws_password"] = Field(password, 20)
    BY DEF ++, PasswordSafeData
  <2> HIDE DEF texts3, fields3
  <2>2. SendsFaithfully(texts3, fields3)
    BY <1>2, <1>5, <2>1 DEF SendsFaithfully, PasswordSafeData, SlotData
  <2> QED
    BY <1>5, <2>2, SentKeeps
<1> QED
  BY <1>1, <1>3, <1>4, <1>5

\* A HOTP slot, with its counter in the format of the stick.
LEMMA SlotSent ==
  ASSUME PInv, NEW name, NEW token, NEW counter \in Counters, NEW bytes,
         name \in Seq(Chars), token \in Seq(Chars), ~TooLong(token, 13),
         IF Decimal(stick)
         THEN bytes = Field(Digits[counter], 8) /\ ~TooLong(Digits[counter], 8)
         ELSE bytes = Binary(counter),
         Sent([slot_name |-> name, slot_token_id |-> token,
               slot_counter |-> <<counter>>],
              [slot_name |-> Field(name, SlotNameKept),
               slot_token_id |-> Field(token, 13),
               slot_counter |-> bytes], "ok")
  PROVE  PInv' /\ CounterReadsBack'
<1> DEFINE texts == [slot_name |-> name, slot_token_id |-> token,
                     slot_counter |-> <<counter>>]
           fields == [slot_name |-> Field(name, SlotNameKept),
                      slot_token_id |-> Field(token, 13),
                      slot_counter |-> bytes]
<1>1. Faithful(stick, "slot_token_id", token, Field(token, 13))
  BY CheckedString DEF KeptWidth, StringData, PasswordSafeData
<1>2. Faithful(stick, "slot_name", name, Field(name, SlotNameKept))
  BY DEF Faithful, KeptWidth, SlotNameKept
<1>3. Faithful(stick, "slot_counter", <<counter>>, bytes)
  BY DEF Faithful, StringData, PasswordSafeData
<1>4. /\ DOMAIN texts = SlotData /\ DOMAIN fields = SlotData
      /\ texts["slot_name"] = name /\ texts["slot_token_id"] = token
      /\ texts["slot_counter"] = <<counter>>
      /\ fields["slot_name"] = Field(name, SlotNameKept)
      /\ fields["slot_token_id"] = Field(token, 13)
      /\ fields["slot_counter"] = bytes
  BY DEF SlotData
<1>5. Sent(texts, fields, "ok")
  OBVIOUS
<1> HIDE DEF texts, fields
<1>6. SendsFaithfully(texts, fields)
  BY <1>1, <1>2, <1>3, <1>4 DEF SendsFaithfully, SlotData
<1> QED
  BY <1>5, <1>6, SentKeeps

\* write_HOTP_slot, in both protocols: each writes the counter in the format
\* that get_OTP_slot_data expects of the same stick.
LEMMA WriteHOTPSlotKeeps ==
  ASSUME PInv, NEW name, NEW token, NEW counter \in Counters,
         name \in Seq(Chars), token \in Seq(Chars),
         WriteHOTPSlot(name, token, counter)
  PROVE  PInv' /\ CounterReadsBack'
<1>1. CASE Rejected
  BY <1>1, RejectedKeeps
<1>2. CASE /\ IsAuthorizationCommandSupported(stick) /\ ~Rejected
  <2>1. Decimal(stick) <=> stick.model = "STORAGE"
    BY <1>2 DEF Decimal, IsAuthorizationCommandSupported
  <2> QED
    BY <1>2, <2>1, SlotWidths, SlotSent
    DEF WriteHOTPSlot, WriteHOTPSlotAuthorize
<1>3. CASE ~IsAuthorizationCommandSupported(stick) /\ ~Rejected
  <2>1. ~Decimal(stick)
    BY <1>3 DEF Decimal, IsAuthorizationCommandSupported
  <2> QED
    BY <1>3, <2>1, SlotWidths08, SlotSent
    DEF WriteHOTPSlot, WriteOTPSlotNoAuthorize
<1> QED
  BY <1>1, <1>2, <1>3

-----------------------------------------------------------------------------
\* The answer to a command that carries no Storage status.
LEMMA PlainAnswer ==
  ASSUME PInv, NEW c, NEW report, NEW what, CommandId[c] \notin 32..95,
         Answered(c, report, what)
  PROVE  /\ got' = what /\ outcome' = "ok" /\ given' = given
         /\ Base' /\ SecretUsable'
<1>1. StatusOk(c, report)
  BY DEF StatusOk, HasStorageStatus
<1>2. UNCHANGED <<stick, writes, given, kept, secret>> /\ last' = "none"
  BY DEF Answered
<1>3. got' = what /\ outcome' = "ok"
  BY <1>1 DEF Answered
<1> QED
  BY <1>2, <1>3, BaseUnchanged DEF PInv, SecretUsable

\* A string that is read from its answer.
LEMMA GetStringKeeps ==
  ASSUME PInv, NEW c, NEW f, NEW d \in StringData, GetString(c, f, d),
         CommandId[c] \notin 32..95, Offset(c, f) = 0,
         ResponseWidth(c, f) = KeptWidth(d)
  PROVE  PInv' /\ CounterReadsBack'
<1> DEFINE report == Report(c, [x \in {f} |-> kept[d]])
           what == [x \in {d} |-> Strndup(report, Offset(c, f))]
<1>1. Answered(c, report, what) /\ d \in DOMAIN given
  BY DEF GetString, PInv, Base, Domains
<1>2. DOMAIN what = {d} /\ what[d] = Strndup(report, Offset(c, f))
  OBVIOUS
<1> HIDE DEF what
<1>3. /\ got' = what /\ outcome' = "ok" /\ given' = given
      /\ Base' /\ SecretUsable'
  BY <1>1, PlainAnswer
<1>4. Faithful(stick, d, given[d], kept[d])
  BY <1>1 DEF PInv, Base, AllFaithful
<1>5. /\ given[d] \in Seq(Chars) /\ kept[d] = Field(given[d], KeptWidth(d))
      /\ Len(given[d]) <= KeptWidth(d) \/ d = "slot_name"
  BY <1>4 DEF Faithful
<1>6. KeptWidth(d) \in 1..52
  BY DEF StringData, PasswordSafeData, KeptWidth
<1>7. what[d] = given[d] \/ (d = "slot_name" /\ Len(given[d]) > 15)
  <2>1. CASE Len(given[d]) <= KeptWidth(d)
    <3>1. Strndup(Report(c, [x \in {f} |-> Field(given[d], KeptWidth(d))]), 0)
            = given[d]
      BY <1>5, <1>6, <2>1, StringReadsBack
    <3>2. Strndup(report, Offset(c, f)) =
            Strndup(Report(c, [x \in {f} |-> Field(given[d], KeptWidth(d))]),
                    0)
      BY <1>5
    <3> QED
      BY <1>2, <3>1, <3>2
  <2>2. CASE ~(Len(given[d]) <= KeptWidth(d))
    <3>1. d = "slot_name" /\ KeptWidth("slot_name") = 15
      BY <1>5, <2>2 DEF KeptWidth
    <3>2. Len(given[d]) \in Nat
      BY <1>5
    <3> QED
      BY <2>2, <3>1, <3>2
  <2> QED
    BY <2>1, <2>2
<1>8. d \notin {"slot_counter", "storage_data"}
  BY DEF StringData, PasswordSafeData
<1>9. ReadsBack'
  BY <1>2, <1>3, <1>7 DEF ReadsBack
<1>10. AnswersUnderstood' /\ CounterReadsBack'
  BY <1>2, <1>3, <1>8 DEF AnswersUnderstood, CounterReadsBack
<1> QED
  BY <1>1, <1>2, <1>3, <1>9, <1>10 DEF PInv

\* The operations that read one.
LEMMA StringOperationsKeep ==
  ASSUME PInv,
         \/ GetSlotName \/ GetPasswordSafeSlotName
         \/ GetPasswordSafeSlotPassword \/ GetPasswordSafeSlotLogin
  PROVE  PInv' /\ CounterReadsBack'
<1>1. /\ CommandId["GetSlotName"] \notin 32..95
      /\ CommandId["GetPasswordSafeSlotName"] \notin 32..95
      /\ CommandId["GetPasswordSafeSlotPassword"] \notin 32..95
      /\ CommandId["GetPasswordSafeSlotLogin"] \notin 32..95
  BY DEF CommandId
<1>2. {"slot_name", "pws_name", "pws_password", "pws_login"}
        \subseteq StringData
  BY DEF StringData, PasswordSafeData
<1>3. /\ KeptWidth("slot_name") = 15 /\ KeptWidth("pws_name") = 11
      /\ KeptWidth("pws_password") = 20 /\ KeptWidth("pws_login") = 32
  BY DEF KeptWidth
<1>4. CASE GetSlotName
  BY <1>1, <1>2, <1>3, <1>4, StringPlaces, GetStringKeeps DEF GetSlotName
<1>5. CASE GetPasswordSafeSlotName
  BY <1>1, <1>2, <1>3, <1>5, StringPlaces, GetStringKeeps
  DEF GetPasswordSafeSlotName
<1>6. CASE GetPasswordSafeSlotPassword
  BY <1>1, <1>2, <1>3, <1>6, StringPlaces, GetStringKeeps
  DEF GetPasswordSafeSlotPassword
<1>7. CASE GetPasswordSafeSlotLogin
  BY <1>1, <1>2, <1>3, <1>7, StringPlaces, GetStringKeeps
  DEF GetPasswordSafeSlotLogin
<1> QED
  BY <1>4, <1>5, <1>6, <1>7

\* The bytes of the counter that the stick keeps.
LEMMA CounterBytes ==
  ASSUME PInv, "slot_counter" \in DOMAIN given
  PROVE  \E S : /\ kept["slot_counter"] \in Seq(S)
                /\ Len(kept["slot_counter"]) = 8
<1>1. Faithful(stick, "slot_counter", given["slot_counter"],
               kept["slot_counter"])
  BY DEF PInv, Base, AllFaithful
<1>2. PICK n \in Counters :
        IF Decimal(stick) THEN kept["slot_counter"] = Field(Digits[n], 8)
        ELSE kept["slot_counter"] = Binary(n)
  BY <1>1 DEF Faithful
<1>3. CASE Decimal(stick)
  <2> DEFINE v == Field(Digits[n], 8)
             S == {v[i] : i \in 1..8}
  <2>1. v \in [1..8 -> S]
    BY DEF Field
  <2> HIDE DEF v, S
  <2>2. v \in Seq(S) /\ Len(v) = 8
    BY <2>1, FcnIsSeq
  <2>3. kept["slot_counter"] = v
    BY <1>2, <1>3 DEF v
  <2> QED
    BY <2>2, <2>3
<1>4. CASE ~Decimal(stick)
  <2>1. n \in Nat
    BY CountersAssumption DEF UInt64
  <2>2. Binary(n) \in Seq(Int) /\ Len(Binary(n)) = 8
    BY <2>1, SMT DEF Binary
  <2> QED
    BY <1>2, <1>4, <2>2
<1> QED
  BY <1>3, <1>4

\* Division by 256 loses no more than the byte it cuts off.
LEMMA OneByte ==
  ASSUME NEW n \in Nat
  PROVE  n \div 256 \in Nat /\ (n % 256) + 256 * (n \div 256) = n
BY SMT

\* A uint64_t that is stored in memory is read from there.
LEMMA BinaryRoundTrip ==
  ASSUME NEW n \in UInt64
  PROVE  FromBinary(Binary(n)) = n
<1> DEFINE n2 == n \div 256
           n3 == n2 \div 256
           n4 == n3 \div 256
           n5 == n4 \div 256
           n6 == n5 \div 256
           n7 == n6 \div 256
           n8 == n7 \div 256
<1>0. n \in Nat /\ ((n \div 65536) \div 65536) \div 65536 < 65536
  BY DEF UInt64
<1>1. n2 \in Nat /\ (n % 256) + 256 * n2 = n
  BY <1>0, OneByte
<1>2. n3 \in Nat /\ (n2 % 256) + 256 * n3 = n2
  BY <1>1, OneByte
<1>3. n4 \in Nat /\ (n3 % 256) + 256 * n4 = n3
  BY <1>2, OneByte
<1>4. n5 \in Nat /\ (n4 % 256) + 256 * n5 = n4
  BY <1>3, OneByte
<1>5. n6 \in Nat /\ (n5 % 256) + 256 * n6 = n5
  BY <1>4, OneByte
<1>6. n7 \in Nat /\ (n6 % 256) + 256 * n7 = n6
  BY <1>5, OneByte
<1>7. n8 \in Nat /\ (n7 % 256) + 256 * n8 = n7
  BY <1>6, OneByte
<1>8. /\ n3 = n \div 65536 /\ n5 = n3 \div 65536 /\ n7 = n5 \div 65536
  BY <1>0, <1>2, <1>4, SMT
<1>9. n8 % 256 = n8
  BY <1>0, <1>6, <1>7, <1>8, SMT
<1>10. FromBinary(Binary(n)) =
         (n % 256) + 256 * ((n2 % 256) + 256 * ((n3 % 256) +
           256 * ((n4 % 256) + 256 * ((n5 % 256) +
             256 * ((n6 % 256) + 256 * ((n7 % 256) + 256 * (n8 % 256)))))))
  BY SMT DEF FromBinary, Binary
<1> HIDE DEF n2, n3, n4, n5, n6, n7, n8
<1> QED
  BY <1>1, <1>2, <1>3, <1>4, <1>5, <1>6, <1>7, <1>9, <1>10, SMT

\* get_OTP_slot_data reads the counter in the format it was written in.
LEMMA CounterUnderstood ==
  ASSUME PInv, DecimalRoundTrip, "slot_counter" \in DOMAIN given
  PROVE  <<CounterOf(kept["slot_counter"])>> = given["slot_counter"]
<1>1. Faithful(stick, "slot_counter", given["slot_counter"],
               kept["slot_counter"])
  BY DEF PInv, Base, AllFaithful
<1>2. PICK n \in Counters :
        /\ given["slot_counter"] = <<n>>
        /\ IF Decimal(stick) THEN /\ kept["slot_counter"] = Field(Digits[n], 8)
                                  /\ ~TooLong(Digits[n], 8)
           ELSE kept["slot_counter"] = Binary(n)
  BY <1>1 DEF Faithful
<1>3. CASE Decimal(stick)
  <2>1. CounterOf(kept["slot_counter"]) = Stoull(kept["slot_counter"])
    BY <1>3 DEF CounterOf, Decimal
  <2> QED
    BY <1>2, <1>3, <2>1 DEF DecimalRoundTrip, TooLong
<1>4. CASE ~Decimal(stick)
  <2>1. CounterOf(kept["slot_counter"]) = FromBinary(kept["slot_counter"])
    BY <1>4 DEF CounterOf, Decimal
  <2>2. n \in UInt64
    BY CountersAssumption
  <2>3. FromBinary(Binary(n)) = n
    BY <2>2, BinaryRoundTrip
  <2> QED
    BY <1>2, <1>4, <2>1, <2>3
<1> QED
  BY <1>3, <1>4

\* A sequence over S is one over a larger set.
LEMMA SeqWider ==
  ASSUME NEW S, NEW T, NEW s \in Seq(S)
  PROVE  s \in Seq(S \cup T) /\ s \in Seq(T \cup S)
OBVIOUS

\* NK_read_HOTP_slot.
LEMMA ReadHOTPSlotKeeps ==
  ASSUME PInv, ReadHOTPSlot
  PROVE  PInv' /\ (DecimalRoundTrip => CounterReadsBack')
<1> DEFINE b == [d \in SlotData |-> kept[d]]
           report == Report("ReadSlot", b)
           F(f) == SubSeq(report, Offset("ReadSlot", f) + 1,
                          Offset("ReadSlot", f) + ResponseWidth("ReadSlot", f))
           what == [slot_name |-> Strndup(F("slot_name"), 0),
                    slot_token_id |-> Strndup(F("slot_token_id"), 0),
                    slot_counter |-> <<CounterOf(F("slot_counter"))>>]
<1>1. Answered("ReadSlot", report, what) /\ "slot_counter" \in DOMAIN given
  BY DEF ReadHOTPSlot, PInv, Base, Domains
<1>2. /\ DOMAIN what = SlotData
      /\ what["slot_name"] = Strndup(F("slot_name"), 0)
      /\ what["slot_token_id"] = Strndup(F("slot_token_id"), 0)
      /\ what["slot_counter"] = <<CounterOf(F("slot_counter"))>>
  BY DEF SlotData
<1>3. /\ DOMAIN b = SlotData /\ b["slot_name"] = kept["slot_name"]
      /\ b["slot_token_id"] = kept["slot_token_id"]
      /\ b["slot_counter"] = kept["slot_counter"]
  BY DEF SlotData
<1> HIDE DEF what, b, F
<1>4. CommandId["ReadSlot"] \notin 32..95
  BY DEF CommandId
<1>5. /\ got' = what /\ outcome' = "ok" /\ given' = given
      /\ Base' /\ SecretUsable'
  BY <1>1, <1>4, PlainAnswer
<1>6. SlotData \subseteq DOMAIN given
  BY <1>1 DEF PInv, Base, Domains
<1>7. /\ given["slot_name"] \in Seq(Chars)
      /\ kept["slot_name"] = Field(given["slot_name"], 15)
  BY <1>6
  DEF PInv, Base, AllFaithful, Faithful, StringData, KeptWidth, SlotData
<1>8. /\ given["slot_token_id"] \in Seq(Chars)
      /\ kept["slot_token_id"] = Field(given["slot_token_id"], 13)
      /\ Len(given["slot_token_id"]) <= 13
  BY <1>6
  DEF PInv, Base, AllFaithful, Faithful, StringData, KeptWidth, SlotData
<1>9. /\ kept["slot_name"] \in Seq(Nat) /\ Len(kept["slot_name"]) = 15
      /\ kept["slot_token_id"] \in Seq(Nat) /\ Len(kept["slot_token_id"]) = 13
  <2>1. /\ Field(given["slot_name"], 15) \in Seq(Nat)
        /\ Len(Field(given["slot_name"], 15)) = 15
    BY <1>7, FieldTyped
  <2>2. /\ Field(given["slot_token_id"], 13) \in Seq(Nat)
        /\ Len(Field(given["slot_token_id"], 13)) = 13
    BY <1>8, FieldTyped
  <2> QED
    BY <1>7, <1>8, <2>1, <2>2, Zenon
<1>10. /\ F("slot_name") = kept["slot_name"]
       /\ F("slot_token_id") = kept["slot_token_id"]
       /\ F("slot_counter") = kept["slot_counter"]
  <2>1. PICK S : /\ kept["slot_counter"] \in Seq(S)
                 /\ Len(kept["slot_counter"]) = 8
    BY <1>1, CounterBytes
  <2>2. /\ kept["slot_name"] \in Seq(S \cup Nat)
        /\ kept["slot_token_id"] \in Seq(S \cup Nat)
        /\ kept["slot_counter"] \in Seq(S \cup Nat)
    BY <1>9, <2>1, SeqWider
  <2>3. /\ SubSeq(report, 0 + 1, 0 + 15) = kept["slot_name"]
        /\ SubSeq(report, 16 + 1, 16 + 13) = kept["slot_token_id"]
        /\ SubSeq(report, 29 + 1, 29 + 8) = kept["slot_counter"]
    BY <1>3, <1>9, <2>1, <2>2, SlotFieldsRead
  <2> QED
    BY <2>3, ReadSlotPlaces DEF F
<1>11. what["slot_token_id"] = given["slot_token_id"]
  BY <1>2, <1>8, <1>10, FieldReadsBack
<1>12. \/ what["slot_name"] = given["slot_name"]
       \/ Len(given["slot_name"]) > 15
  <2>1. Len(given["slot_name"]) \in Nat
    BY <1>7
  <2> QED
    BY <1>2, <1>7, <1>10, <2>1, FieldReadsBack
<1>13. ReadsBack'
  BY <1>2, <1>5, <1>11, <1>12 DEF ReadsBack, SlotData
<1>14. AnswersUnderstood' /\ DOMAIN got' \subseteq DOMAIN given'
  BY <1>2, <1>5, <1>6 DEF AnswersUnderstood, SlotData
<1>15. DecimalRoundTrip => CounterReadsBack'
  <2>1. HAVE DecimalRoundTrip
  <2>2. what["slot_counter"] = given["slot_counter"]
    BY <1>1, <1>2, <1>10, <2>1, CounterUnderstood
  <2> QED
    BY <1>5, <2>2 DEF CounterReadsBack
<1> QED
  BY <1>5, <1>13, <1>14, <1>15 DEF PInv

-----------------------------------------------------------------------------
\* The report of a Storage that executed a command of its own.
LEMMA StorageBytes ==
  /\ StorageReport[16] = 1
  /\ \A i \in 1..35 : StorageReport[i + 18] = i
<1>1. \A i \in 1..53 :
        StorageReport[i] = CASE i - 1 + 8 = 21 + 2 -> 1
                             [] i - 1 + 8 >= 26 -> i - 1 + 8 - 26 + 1
                             [] OTHER -> 0
  BY DEF StorageReport, PayloadSize, FooterSize, HidReportSize, HeaderSize,
         StorageStatusAbsoluteAddress, StorageDataAbsoluteAddress
<1>2. StorageReport[16] = 1
  BY <1>1
<1>3. ASSUME NEW i \in 1..35 PROVE StorageReport[i + 18] = i
  <2>1. i + 18 \in 1..53 /\ i + 18 - 1 + 8 # 21 + 2 /\ i + 18 - 1 + 8 >= 26
    OBVIOUS
  <2>2. StorageReport[i + 18] = i + 18 - 1 + 8 - 26 + 1
    BY <1>1, <2>1
  <2> QED
    BY <2>2
<1> QED
  BY <1>2, <1>3

\* What is taken from it: its data, from the first byte.
LEMMA StorageDataRead ==
  ASSUME NEW w \in 0..53
  PROVE  \A i \in DOMAIN SubSeq(StorageReport, 19, w) :
           SubSeq(StorageReport, 19, w)[i] = i
<1>1. SubSeq(StorageReport, 19, w) =
        [i \in 1..(1 + w - 19) |-> StorageReport[i + 19 - 1]]
  OBVIOUS
<1>2. ASSUME NEW i \in 1..(1 + w - 19) PROVE StorageReport[i + 19 - 1] = i
  <2>1. i \in 1..35 /\ i + 19 - 1 = i + 18
    OBVIOUS
  <2> QED
    BY <2>1, StorageBytes
<1> QED
  BY <1>1, <1>2

\* get_status_storage and production_info.
LEMMA AskStorageKeeps ==
  ASSUME PInv, NEW c \in {"GetDeviceStatus", "ProductionTest"}, AskStorage(c)
  PROVE  PInv' /\ CounterReadsBack'
<1> DEFINE w == WidthsOf(Responses[c])
           data == SubSeq(StorageReport, 19, w)
           what == [storage_data |-> data]
<1>1. Answered(c, StorageReport, what)
  BY DEF AskStorage, PaddingSize, StorageDataAbsoluteAddress,
         StorageStatusAbsoluteAddress, HeaderSize
<1>2. DOMAIN what = {"storage_data"} /\ what["storage_data"] = data
  OBVIOUS
<1>3. w \in 0..53
  <2>1. StorageResponses \in ResponseTables /\ c \in DOMAIN StorageResponses
    BY ResponseDomains DEF ResponseTables
  <2>2. c \in DOMAIN Responses
    BY <2>1, ResponseOf
  <2>3. PayloadSize = 53
    BY DEF PayloadSize, FooterSize, HidReportSize, HeaderSize
  <2>4. \A a \in DOMAIN Responses : WidthsOf(Responses[a]) \in 0..PayloadSize
    BY LayoutsFit, Zenon
  <2> QED
    BY <2>2, <2>3, <2>4
<1>4. \A i \in DOMAIN data : data[i] = i
  BY <1>3, StorageDataRead
<1> HIDE DEF w, data, what
<1>5. StatusOk(c, StorageReport)
  <2>1. StorageStatusAbsoluteAddress - HeaderSize + 3 = 16
    BY DEF StorageStatusAbsoluteAddress, HeaderSize
  <2> QED
    BY <2>1, StorageBytes DEF StatusOk
<1>6. /\ got' = what /\ outcome' = "ok" /\ last' = "none"
      /\ UNCHANGED <<stick, writes, given, kept, secret>>
  BY <1>1, <1>5 DEF Answered
<1>7. Base' /\ SecretUsable'
  BY <1>6, BaseUnchanged DEF PInv, SecretUsable
<1>8. ReadsBack' /\ CounterReadsBack'
  BY <1>2, <1>6 DEF ReadsBack, CounterReadsBack
<1>9. AnswersUnderstood'
  BY <1>2, <1>4, <1>6 DEF AnswersUnderstood
<1>10. (DOMAIN got \subseteq DOMAIN given \cup {"storage_data"})'
  BY <1>2, <1>6
<1> QED
  BY <1>6, <1>7, <1>8, <1>9, <1>10 DEF PInv

-----------------------------------------------------------------------------

\* The invariant holds initially.
LEMMA InitHolds ==
  ASSUME Init PROVE PInv /\ CounterReadsBack
<1>1. DOMAIN given = {} /\ DOMAIN kept = {} /\ DOMAIN got = {}
  BY DEF Init
<1>2. SecretsFit
  BY DEF Init, SecretsFit, MaxSecret
<1>3. Base
  BY <1>1, <1>2, PayloadsAssumption DEF Init, Base, Domains, AllFaithful
<1> QED
  BY <1>1, <1>3
  DEF Init, PInv, ReadsBack, AnswersUnderstood, SecretUsable, CounterReadsBack

\* Stuttering keeps it.
LEMMA StutterKeeps ==
  ASSUME PInv, UNCHANGED vars
  PROVE  PInv' /\ (CounterReadsBack => CounterReadsBack')
BY BaseUnchanged
DEF vars, PInv, ReadsBack, AnswersUnderstood, SecretUsable, CounterReadsBack

\* Every call keeps it.
LEMMA NextKeeps ==
  ASSUME PInv, Next PROVE PInv' /\ (DecimalRoundTrip => CounterReadsBack')
<1>1. ASSUME NEW name \in Around(11), NEW password \in Around(20),
             NEW login \in Around(32),
             WritePasswordSafeSlot(name, password, login)
      PROVE  PInv' /\ CounterReadsBack'
  <2>1. name \in Seq(Chars) /\ password \in Seq(Chars) /\ login \in Seq(Chars)
    BY AroundTyped
  <2> QED
    BY <1>1, <2>1, WritePasswordSafeSlotKeeps
<1>2. ASSUME NEW name \in Around(15) \cup {Text(writes + 1, 31)},
             NEW token \in Around(13), NEW counter \in Counters,
             WriteHOTPSlot(name, token, counter)
      PROVE  PInv' /\ CounterReadsBack'
  <2>1. token \in Seq(Chars)
    BY AroundTyped
  <2>2. writes + 1 \in Nat
    BY PayloadsAssumption DEF PInv, Base
  <2>3. Text(writes + 1, 31) \in Seq(Chars)
    BY <2>2, TextTyped DEF Chars
  <2>4. name \in Seq(Chars)
    BY <2>3, AroundTyped
  <2> QED
    BY <1>2, <2>1, <2>4, WriteHOTPSlotKeeps
<1>3. CASE \/ GetSlotName \/ GetPasswordSafeSlotName
           \/ GetPasswordSafeSlotPassword \/ GetPasswordSafeSlotLogin
  BY <1>3, StringOperationsKeep
<1>4. CASE ReadHOTPSlot
  BY <1>4, ReadHOTPSlotKeeps
<1>5. ASSUME NEW c \in {"GetDeviceStatus", "ProductionTest"}, AskStorage(c)
      PROVE  PInv' /\ CounterReadsBack'
  BY <1>5, AskStorageKeeps
<1>6. ASSUME NEW x \in Setters(stick), NEW n \in SecretLengths, SetSecret(x, n)
      PROVE  PInv' /\ CounterReadsBack'
  BY <1>6, SetSecretKeeps
<1>7. ASSUME NEW x \in Users(stick), UseSecret(x)
      PROVE  PInv' /\ CounterReadsBack'
  BY <1>7, UseSecretKeeps
<1> QED
  BY <1>1, <1>2, <1>3, <1>4, <1>5, <1>6, <1>7 DEF Next

\* A datum is kept in as many bytes as the stick has for it.
LEMMA KeptLengths ==
  ASSUME PInv, NEW d \in DOMAIN kept
  PROVE  Len(kept[d]) \in {8, 11, 13, 15, 20, 32}
<1>1. d \in DOMAIN given /\ d \in StringData \cup {"slot_counter"}
  BY DEF PInv, Base, Domains, StringData, SlotData, PasswordSafeData
<1>2. CASE d \in StringData
  <2>1. KeptWidth(d) \in {11, 13, 15, 20, 32}
    BY <1>2 DEF StringData, PasswordSafeData, KeptWidth
  <2>2. given[d] \in Seq(Chars) /\ kept[d] = Field(given[d], KeptWidth(d))
    BY <1>1, <1>2 DEF PInv, Base, AllFaithful, Faithful
  <2>3. Len(Field(given[d], KeptWidth(d))) = KeptWidth(d)
    <3>1. KeptWidth(d) \in Nat
      BY <2>1
    <3> QED
      BY <2>2, <3>1, FieldTyped
  <2> QED
    BY <2>1, <2>2, <2>3
<1>3. CASE d = "slot_counter"
  BY <1>1, <1>3, CounterBytes
<1> QED
  BY <1>1, <1>2, <1>3

\* The invariant implies type correctness.
LEMMA TypeFollows ==
  ASSUME PInv PROVE TypeOK
<1>1. secret \in [Kinds -> 0..99]
  BY DEF PInv, Base, SecretsFit, MaxSecret
<1>2. \A d \in DOMAIN kept : Len(kept[d]) \in {8, 11, 13, 15, 20, 32}
  BY KeptLengths
<1> QED
  BY <1>1, <1>2 DEF PInv, Base, Domains, TypeOK

\* The invariant holds in every state.
THEOREM InvariantHolds == Spec => []PInv
<1>1. Init => PInv
  BY InitHolds
<1>2. PInv /\ [Next]_vars => PInv'
  BY NextKeeps, StutterKeeps
<1> QED
  BY <1>1, <1>2, PTL DEF Spec

\* Type correctness: the strncpy and to_string conversions always leave as many
\* bytes on the stick as the field of the report has.
THEOREM TypeCorrect == Spec => []TypeOK
BY InvariantHolds, TypeFollows, PTL

\* A string that strcpyT lets through is read back whole, and nothing else with
\* it, whether or not its field has room for a terminator; a longer one is
\* refused and never cut (names of OTP slots: up to 15 characters).
THEOREM StringsReadBack == Spec => []ReadsBack
<1>1. PInv => ReadsBack
  BY DEF PInv
<1> QED
  BY <1>1, InvariantHolds, PTL

\* Transaction::run never takes bytes of a string for a Storage status, and the
\* data of a Storage command begins at its first byte.
THEOREM EveryAnswerUnderstood == Spec => []AnswersUnderstood
<1>1. PInv => AnswersUnderstood
  BY DEF PInv
<1> QED
  BY <1>1, InvariantHolds, PTL

\* A PIN or password that a setter accepted fits in every field that takes it,
\* but for the three commands that refuse a Pro PIN of more than 20 characters.
THEOREM EverySecretUsable == Spec => []SecretUsable
<1>1. PInv => SecretUsable
  BY DEF PInv
<1> QED
  BY <1>1, InvariantHolds, PTL

\* The counter of a HOTP slot is read back as it was written: every uint64_t in
\* the binary format, and in the decimal one if stoull inverts to_string on
\* Counters (an induction over digits, which TLC evaluates for its counters).
THEOREM CountersReadBack ==
  ASSUME DecimalRoundTrip
  PROVE  Spec => []CounterReadsBack
<1>1. Init => PInv /\ CounterReadsBack
  BY InitHolds
<1>2. PInv /\ CounterReadsBack /\ [Next]_vars => PInv' /\ CounterReadsBack'
  BY NextKeeps, StutterKeeps
<1> QED
  BY <1>1, <1>2, PTL DEF Spec

=============================================================================
