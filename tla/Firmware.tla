------------------------------ MODULE Firmware ------------------------------
(***************************************************************************)
(* The tables of firmware versions by which NitrokeyManager chooses what   *)
(* it sends to a stick and how it reads the answer.                        *)
(***************************************************************************)
EXTENDS Naturals

Stick == [model : {"PRO", "STORAGE", "LIBREM"}, minor : 0..255,
          build_iteration : 0..255]

\* get_minor_firmware_version
MinorFirmwareVersion(s) ==
  IF s.model = "STORAGE"
  THEN (s.minor + (IF s.build_iteration # 0 THEN 1 ELSE 0)) % 256
  ELSE s.minor

\* Mutant: off by one in the table.
IsAuthorizationCommandSupportedOneMore(s) ==
  MinorFirmwareVersion(s) <= IF s.model = "STORAGE" THEN 54 ELSE 8

IsAuthorizationCommandSupported(s) ==
  MinorFirmwareVersion(s) <= IF s.model = "STORAGE" THEN 53 ELSE 7

Is320OTPSecretSupported(s) ==
  MinorFirmwareVersion(s) >= IF s.model = "STORAGE" THEN 54 ELSE 8

\* set_unencrypted_volume_rorw_pin_type_user
RorwPinTypeUser(s) ==
  MinorFirmwareVersion(s) <= 48 \/ MinorFirmwareVersion(s) \in {50, 51}

=============================================================================
