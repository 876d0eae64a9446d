-------------------------- MODULE OperationsProofs --------------------------
(***************************************************************************)
(* Proofs about the operations, for any set of sticks and secret lengths   *)
(* and any number of calls.                                                *)
(*                                                                         *)
(* An invariant of an operation that is half-way says what the steps still *)
(* to do will find and what they will leave.  What is fixed about the rest *)
(* of an operation is Plan: a command that changes a slot or a PIN is the  *)
(* last one, whatever comes before it.  The rest relates the steps to come *)
(* to the state of the stick.                                              *)
(***************************************************************************)
EXTENDS Operations, SequenceTheorems, TLAPS

\* The steps of q, a rest of an operation.
StepsOf(q) == {q[i] : i \in 1..Len(q)}

\* One of S is still to be done.
Pending(S) == StepsOf(todo) \cap S # {}

\* Commands after which the OTP slot or the PIN is another.
Finals == {"WriteToSlot", "WriteToOTPSlot", "EraseSlot", "EraseSlot08",
           "factory_reset", "ChangePin", "UnlockUserPassword",
           "SendNewPassword", "UnlockUserPin"}

\* The ones that change anything the stick keeps.
Changers == Finals \cup {"SetPasswordSafeSlotData", "SetPasswordSafeSlotData2",
                         "erase_password_safe_slot"}

\* The ones that use the PIN which SendPassword brought.
PinUsers == {"SendNewPassword", "UnlockUserPin"}

\* Steps of the protocol of firmware 0.8 and later, and of the one before.
NewProtocol == {"GetCode08", "EraseSlot08", "SendName", "WriteToOTPSlot",
                "length40?"}
OldProtocol == {"Authorize", "UserAuthorize", "EraseSlot", "WriteToSlot",
                "length20?"}

\* Operations that are meant to change something.
Writing == {"write_slot", "erase_slot", "write_password_safe_slot",
            "erase_password_safe_slot", "factory_reset", "change_PIN",
            "unlock_user_password"}

\* With stick s operation o may have c among its steps.
Allowed(s, o, c) ==
  /\ c \in Changers => o \in Writing
  /\ c = "erase_password_safe_slot" => o = c
  /\ c \in NewProtocol => Is320OTPSecretSupported(s)
  /\ c \in OldProtocol => ~Is320OTPSecretSupported(s)
  /\ c = "version" => o \in Gated

\* Operation o may end with c (or with what follows the version).
MayEnd(o, c) ==
  /\ o = "write_slot" => c \in {"version", "WriteToSlot", "WriteToOTPSlot"}
  /\ o = "erase_slot" => c \in {"version", "EraseSlot", "EraseSlot08"}
  /\ o = "write_password_safe_slot" => c = "SetPasswordSafeSlotData2"
  /\ o \in {"erase_password_safe_slot", "factory_reset"} => c = o
  /\ o = "change_PIN" => c \in {"ChangePin", "SendNewPassword"}
  /\ o = "unlock_user_password" => c \in {"UnlockUserPassword", "UnlockUserPin"}

\* q can be what is left to do of operation o on stick s.
Plan(s, o, q) ==
  /\ q \in Seq(Checks \cup Commands)
  /\ \A i \in 1..Len(q) :
       /\ q[i] \in Finals => i = Len(q)
       /\ i = Len(q) => MayEnd(o, q[i])
       /\ Allowed(s, o, q[i])
       /\ q[i] = "SendSecret" => \A j \in i..Len(q) :
            q[j] \notin {"version", "SendName", "length40?"}

\* q is the whole of an operation, or all of it after the version.
Whole(s, o, q) ==
  /\ Plan(s, o, q)
  /\ o \in Writing => q # <<>>
  /\ StepsOf(q) \cap PinUsers # {} => "SendPassword" \in StepsOf(q)
  /\ StepsOf(q) \cap {"SendSecret", "WriteToOTPSlot"} # {} =>
       {"SendName", "length40?", "SendSecret"} \subseteq StepsOf(q)
  /\ o = "write_password_safe_slot" => "SetPasswordSafeSlotData" \in StepsOf(q)
  /\ o = "write_slot" =>
       StepsOf(q) \cap {"version", "length20?", "length40?"} # {}

-----------------------------------------------------------------------------
\* The parts of the inductive invariant.

\* A call is under way.
Running == outcome = "running"

\* The chunks of a secret: none sent, the first of two, or all.
Chunks ==
  \/ remaining = length[call] /\ id = 0
  \/ length[call] \in 31..40 /\ remaining = length[call] - 30 /\ id = 1
  \/ remaining = 0 /\ id \in {1, 2}

\* A secret is sent after its length was checked and after the name, and the
\* record on the stick is what has been sent of this call so far.
Assembled ==
  Running =>
    /\ Pending({"version", "SendName"}) => remaining = length[call] /\ id = 0
    /\ Pending({"SendSecret"}) =>
         length[call] <= MaximumSecret \/ Pending({"length40?"})
    /\ Pending({"SendSecret", "WriteToOTPSlot"}) =>
         \/ Pending({"SendName"})
         \/ /\ staged.name = call
            /\ staged.secret = Secret(call, length[call] - remaining)
            /\ staged.given <=> (remaining < length[call])
    /\ Pending({"WriteToOTPSlot"}) => Pending({"SendSecret"}) \/ remaining = 0

\* What is in the slot was committed by a call that has been made.
Committed == committed \subseteq 0..call /\ length[0] = 0

\* The current PIN is this call's when a command that needs it is next.
Armed ==
  Running /\ Pending(PinUsers) => current = call \/ Pending({"SendPassword"})

\* The OTP slot and the PIN are as the call found them.
SameSlotAndPin ==
  /\ kept.name = before.name /\ kept.secret = before.secret
  /\ kept.pin = before.pin /\ kept.pin_by = before.pin_by

\* Until its last step an operation has not touched the slot and the PIN;
\* after it, its work is done.
Untouched == Running /\ todo # <<>> => SameSlotAndPin
Finished == Running /\ todo = <<>> => WorkDone

\* An operation that only reads leaves the stick alone.
ReadOnly == op \notin Writing => kept = before

\* The first half of a password safe slot is written once it is not pending.
HalfSafe ==
  Running /\ op = "write_password_safe_slot" =>
    Pending({"SetPasswordSafeSlotData"}) \/ kept.data = call

\* The longest secret that the protocol of this stick takes.
Limit == IF Is320OTPSecretSupported(stick) THEN 40 ELSE 20

\* A secret that is too long has not yet passed its check.
LengthChecked ==
  Running /\ op = "write_slot" =>
    Pending({"version", "length20?", "length40?"}) \/ length[call] <= Limit

\* The inductive invariant.
OInv ==
  /\ TypeOK /\ Plan(stick, op, todo)
  /\ Chunks /\ Assembled /\ Committed /\ Armed
  /\ Untouched /\ Finished /\ ReadOnly /\ HalfSafe /\ LengthChecked
  /\ SlotWhole /\ SuccessMeansDone /\ RejectedChangesNothing
  /\ PinChangedByItsCall /\ ProtocolMatchesFirmware

-----------------------------------------------------------------------------
\* Sequences of steps.

\* The steps of what is left when one has been done.
LEMMA StepsOfTail ==
  ASSUME NEW S, NEW q \in Seq(S), q # <<>>
  PROVE  /\ Head(q) \in S
         /\ Head(q) = q[1] /\ Len(q) \in Nat \ {0}
         /\ Tail(q) \in Seq(S) /\ Len(Tail(q)) = Len(q) - 1
         /\ \A i \in 1..Len(Tail(q)) : Tail(q)[i] = q[i + 1]
         /\ StepsOf(q) = {Head(q)} \cup StepsOf(Tail(q))
<1>1. /\ Head(q) \in S
      /\ Head(q) = q[1] /\ Len(q) \in Nat \ {0}
      /\ Tail(q) \in Seq(S) /\ Len(Tail(q)) = Len(q) - 1
      /\ \A i \in 1..Len(Tail(q)) : Tail(q)[i] = q[i + 1]
  OBVIOUS
<1>2. ASSUME NEW x \in StepsOf(q)
      PROVE  x \in {Head(q)} \cup StepsOf(Tail(q))
  <2>1. PICK i \in 1..Len(q) : x = q[i]
    BY <1>2 DEF StepsOf
  <2>2. CASE i = 1
    BY <1>1, <2>1, <2>2
  <2>3. CASE i # 1
    <3>1. i - 1 \in 1..Len(Tail(q)) /\ Tail(q)[i - 1] = x
      BY <1>1, <2>1, <2>3
    <3>2. QED
      BY <3>1 DEF StepsOf
  <2>4. QED
    BY <2>2, <2>3
<1>3. ASSUME NEW x \in {Head(q)} \cup StepsOf(Tail(q))
      PROVE  x \in StepsOf(q)
  <2>1. CASE x = Head(q)
    <3>1. 1 \in 1..Len(q)
      BY <1>1
    <3>2. QED
      BY <1>1, <2>1, <3>1 DEF StepsOf
  <2>2. CASE x \in StepsOf(Tail(q))
    <3>1. PICK i \in 1..Len(Tail(q)) : x = Tail(q)[i]
      BY <2>2 DEF StepsOf
    <3>2. i + 1 \in 1..Len(q) /\ q[i + 1] = x
      BY <1>1, <3>1
    <3>3. QED
      BY <3>2 DEF StepsOf
  <2>3. QED
    BY <1>3, <2>1, <2>2
<1>4. QED
  BY <1>1, <1>2, <1>3

\* An operation that has done a step can still be finished as it should.
LEMMA PlanTail ==
  ASSUME NEW s, NEW o, NEW q, Plan(s, o, q), q # <<>>
  PROVE  /\ Plan(s, o, Tail(q))
         /\ Head(q) \in Finals => Tail(q) = <<>>
         /\ Tail(q) = <<>> => MayEnd(o, Head(q))
         /\ Allowed(s, o, Head(q))
         /\ Head(q) = "SendSecret" =>
              StepsOf(q) \cap {"version", "SendName", "length40?"} = {}
<1>1. q \in Seq(Checks \cup Commands)
  BY DEF Plan
<1>2. /\ Head(q) = q[1] /\ Len(q) \in Nat \ {0}
      /\ Tail(q) \in Seq(Checks \cup Commands) /\ Len(Tail(q)) = Len(q) - 1
      /\ \A i \in 1..Len(Tail(q)) : Tail(q)[i] = q[i + 1]
  BY <1>1, StepsOfTail
<1>3. ASSUME NEW i \in 1..Len(Tail(q))
      PROVE  /\ Tail(q)[i] \in Finals => i = Len(Tail(q))
             /\ i = Len(Tail(q)) => MayEnd(o, Tail(q)[i])
             /\ Allowed(s, o, Tail(q)[i])
             /\ Tail(q)[i] = "SendSecret" => \A j \in i..Len(Tail(q)) :
                  Tail(q)[j] \notin {"version", "SendName", "length40?"}
  <2>1. i + 1 \in 1..Len(q) /\ Tail(q)[i] = q[i + 1]
    BY <1>2
  <2>2. /\ q[i + 1] \in Finals => i + 1 = Len(q)
        /\ i + 1 = Len(q) => MayEnd(o, q[i + 1])
        /\ Allowed(s, o, q[i + 1])
    BY <2>1 DEF Plan
  <2>3. ASSUME Tail(q)[i] = "SendSecret", NEW j \in i..Len(Tail(q))
        PROVE  Tail(q)[j] \notin {"version", "SendName", "length40?"}
    <3>1. j + 1 \in (i + 1)..Len(q) /\ j \in 1..Len(Tail(q))
      BY <1>2
    <3>2. q[j + 1] \notin {"version", "SendName", "length40?"}
      BY <2>1, <2>3, <3>1 DEF Plan
    <3>3. QED
      BY <1>2, <3>1, <3>2
  <2>4. i = Len(Tail(q)) <=> i + 1 = Len(q)
    BY <1>2
  <2>5. /\ Tail(q)[i] \in Finals => i = Len(Tail(q))
        /\ i = Len(Tail(q)) => MayEnd(o, Tail(q)[i])
        /\ Allowed(s, o, Tail(q)[i])
    BY <2>1, <2>2, <2>4
  <2>6. QED
    BY <2>3, <2>5
<1>4. 1 \in 1..Len(q)
  BY <1>2
<1>5. /\ q[1] \in Finals => 1 = Len(q)
      /\ 1 = Len(q) => MayEnd(o, q[1])
      /\ Allowed(s, o, q[1])
  BY <1>4 DEF Plan
<1>6. ASSUME q[1] = "SendSecret"
      PROVE  StepsOf(q) \cap {"version", "SendName", "length40?"} = {}
  BY <1>4, <1>6 DEF Plan, StepsOf
<1>7. Len(Tail(q)) = 0 <=> Tail(q) = <<>>
  BY <1>2, EmptySeq
<1>8. Plan(s, o, Tail(q))
  BY <1>2, <1>3 DEF Plan
<1>9. QED
  BY <1>2, <1>5, <1>6, <1>7, <1>8

-----------------------------------------------------------------------------
\* The scripts.

\* A sequence that begins with p and goes on with r is the two together.
LEMMA Joined ==
  ASSUME NEW S, NEW p \in Seq(S), NEW r \in Seq(S), NEW t \in Seq(S),
         Len(t) = Len(p) + Len(r),
         \A i \in 1..Len(p) : t[i] = p[i],
         \A i \in 1..Len(r) : t[Len(p) + i] = r[i]
  PROVE  p \o r = t
<1>1. p \o r \in Seq(S) /\ Len(p \o r) = Len(t)
  BY ConcatProperties
<1>2. ASSUME NEW i \in 1..Len(p \o r)
      PROVE  (p \o r)[i] = t[i]
  <2>1. CASE i <= Len(p)
    BY <1>1, <2>1, ConcatProperties
  <2>2. CASE ~(i <= Len(p))
    <3>1. /\ i - Len(p) \in 1..Len(r) /\ i \in 1..(Len(p) + Len(r))
          /\ Len(p) + (i - Len(p)) = i
      BY <1>1, <2>2
    <3>2. (p \o r)[i] = r[i - Len(p)]
      BY <2>2, <3>1, ConcatProperties
    <3>3. QED
      BY <3>1, <3>2
  <2>3. QED
    BY <2>1, <2>2
<1>3. QED
  BY <1>1, <1>2, SeqEqual

\* Two parts of one step.
LEMMA OneAndOne ==
  ASSUME NEW a, NEW b
  PROVE  <<a>> \o <<b>> = <<a, b>>
<1> DEFINE S == {a, b}
           p == <<a>>
           r == <<b>>
           t == <<a, b>>
<1>1. /\ p \in Seq(S) /\ r \in Seq(S) /\ t \in Seq(S)
      /\ Len(p) = 1 /\ Len(r) = 1 /\ Len(t) = 2
  OBVIOUS
<1>2. \A i \in 1..Len(p) : t[i] = p[i]
  OBVIOUS
<1>3. \A i \in 1..Len(r) : t[Len(p) + i] = r[i]
  OBVIOUS
<1>4. Len(t) = Len(p) + Len(r)
  BY <1>1
<1> HIDE DEF S, p, r, t
<1>5. p \o r = t
  BY <1>1, <1>2, <1>3, <1>4, Joined
<1>6. QED
  BY <1>5 DEF p, r, t

\* change_PIN_general on a Storage, and on the others.
LEMMA TwoMore ==
  ASSUME NEW a, NEW b, NEW c, NEW d
  PROVE  /\ <<a, b>> \o <<c>> = <<a, b, c>>
         /\ <<a, b>> \o <<c, d>> = <<a, b, c, d>>
<1> DEFINE S == {a, b, c, d}
           p == <<a, b>>
           r1 == <<c>>
           r2 == <<c, d>>
           t1 == <<a, b, c>>
           t2 == <<a, b, c, d>>
<1>1. /\ p \in Seq(S) /\ r1 \in Seq(S) /\ r2 \in Seq(S)
      /\ t1 \in Seq(S) /\ t2 \in Seq(S)
      /\ Len(p) = 2 /\ Len(r1) = 1 /\ Len(r2) = 2 /\ Len(t1) = 3 /\ Len(t2) = 4
  OBVIOUS
<1>2. \A i \in 1..Len(p) : t1[i] = p[i] /\ t2[i] = p[i]
  OBVIOUS
<1>3. /\ \A i \in 1..Len(r1) : t1[Len(p) + i] = r1[i]
      /\ \A i \in 1..Len(r2) : t2[Len(p) + i] = r2[i]
  OBVIOUS
<1>4. Len(t1) = Len(p) + Len(r1) /\ Len(t2) = Len(p) + Len(r2)
  BY <1>1
<1> HIDE DEF S, p, r1, r2, t1, t2
<1>5. p \o r1 = t1
  BY <1>1, <1>2, <1>3, <1>4, Joined
<1>6. p \o r2 = t2
  BY <1>1, <1>2, <1>3, <1>4, Joined
<1>7. QED
  BY <1>5, <1>6 DEF p, r1, r2, t1, t2

\* authorize_packet and the command that it announces.
LEMMA Announced ==
  ASSUME NEW a, NEW c
  PROVE  AuthorizePacket(a) \o <<c>> = <<"status", "password?", a, c>>
<1> DEFINE S == {"status", "password?", a, c}
           p == AuthorizePacket(a)
           r == <<c>>
           t == <<"status", "password?", a, c>>
<1>1. /\ p \in Seq(S) /\ r \in Seq(S) /\ t \in Seq(S)
      /\ Len(p) = 3 /\ Len(r) = 1 /\ Len(t) = 4
  BY DEF AuthorizePacket
<1>2. \A i \in 1..Len(p) : t[i] = p[i]
  BY DEF AuthorizePacket
<1>3. \A i \in 1..Len(r) : t[Len(p) + i] = r[i]
  BY DEF AuthorizePacket
<1>4. Len(t) = Len(p) + Len(r)
  BY <1>1
<1> HIDE DEF S, p, r, t
<1>5. p \o r = t
  BY <1>1, <1>2, <1>3, <1>4, Joined
<1>6. QED
  BY <1>5 DEF p, r, t

\* write_HOTP_slot_authorize and write_TOTP_slot_authorize.
LEMMA WriteAuthorizeSteps ==
  WriteAuthorize =
    IF stick.model = "STORAGE"
    THEN <<"secret?", "length20?", "name?", "token?", "counter?",
           "status", "password?", "Authorize", "WriteToSlot">>
    ELSE <<"secret?", "length20?", "name?", "token?",
           "status", "password?", "Authorize", "WriteToSlot">>
<1> DEFINE S == {"secret?", "length20?", "name?", "token?", "counter?",
                 "status", "password?", "Authorize", "WriteToSlot"}
           a == <<"secret?", "length20?", "name?", "token?">>
           b == <<"counter?">>
           c == AuthorizePacket("Authorize")
           d == <<"WriteToSlot">>
           q == a \o b \o c \o d
           r == a \o <<>> \o c \o d
           t == <<"secret?", "length20?", "name?", "token?", "counter?",
                  "status", "password?", "Authorize", "WriteToSlot">>
           u == <<"secret?", "length20?", "name?", "token?",
                  "status", "password?", "Authorize", "WriteToSlot">>
<1>1. /\ a \in Seq(S) /\ b \in Seq(S) /\ d \in Seq(S) /\ <<>> \in Seq(S)
      /\ t \in Seq(S) /\ u \in Seq(S)
  OBVIOUS
<1>2. c \in Seq(S)
  BY DEF AuthorizePacket
<1>3. q \in Seq(S) /\ r \in Seq(S)
  <2> HIDE DEF S, a, b, c, d
  <2>1. a \o b \in Seq(S) /\ a \o <<>> \in Seq(S)
    BY <1>1, ConcatProperties
  <2>2. (a \o b) \o c \in Seq(S) /\ (a \o <<>>) \o c \in Seq(S)
    BY <1>2, <2>1, ConcatProperties
  <2>3. QED
    BY <1>1, <2>2, ConcatProperties
<1>4. Len(q) = 9 /\ Len(t) = 9 /\ Len(r) = 8 /\ Len(u) = 8
  BY DEF AuthorizePacket
<1>5. /\ \A i \in 1..9 : q[i] = t[i]
      /\ \A i \in 1..8 : r[i] = u[i]
  BY DEF AuthorizePacket
<1>6. WriteAuthorize = IF stick.model = "STORAGE" THEN q ELSE r
  BY DEF WriteAuthorize
<1> HIDE DEF S, q, r, t, u
<1>7. q = t
  BY <1>1, <1>3, <1>4, <1>5, SeqEqual
<1>8. r = u
  BY <1>1, <1>3, <1>4, <1>5, SeqEqual
<1>9. QED
  BY <1>6, <1>7, <1>8 DEF t, u

\* The two tables of firmware versions are complements of each other.
LEMMA TablesAgree ==
  ASSUME NEW s \in Stick
  PROVE  Is320OTPSecretSupported(s) <=> ~IsAuthorizationCommandSupported(s)
<1>1. MinorFirmwareVersion(s) \in Nat
  BY DEF Stick, MinorFirmwareVersion
<1>2. QED
  BY <1>1 DEF Is320OTPSecretSupported, IsAuthorizationCommandSupported

\* An operation that makes one exchange sends no command of the others.
LEMMA SingleFacts ==
  ASSUME NEW o \in SingleOperations
  PROVE  /\ o \notin Gated \cup SerialAndVersion
         /\ o \notin {"change_PIN", "unlock_user_password",
              "enable_password_safe", "get_retry_count",
              "write_password_safe_slot", "build_aes_key", "get_OTP_slot_data"}
         /\ o \notin Checks \cup NewProtocol \cup OldProtocol \cup PinUsers
         /\ o \notin {"version", "SendSecret", "WriteToOTPSlot"}
         /\ o \in Changers => o \in {"factory_reset", "erase_password_safe_slot"}
  BY DEF SingleOperations, StatusOperations, SlotAndTimeOperations,
         PasswordSafeOperations, EraseAndResetOperations, VolumeOperations,
         FirmwareAndCardOperations, LastOperations, Gated, SerialAndVersion,
         Checks, BadArguments, NewProtocol, OldProtocol, PinUsers, Changers,
         Finals

\* The operations that make one exchange.
LEMMA SingleWhole ==
  ASSUME NEW s, NEW o \in SingleOperations
  PROVE  Whole(s, o, <<o>>) /\ Whole(s, o, <<"arguments?", o>>)
<1>1. o \in Checks \cup Commands /\ "arguments?" \in Checks
  BY DEF Checks, BadArguments, Commands
<1>2. <<o>> \in Seq(Checks \cup Commands)
  BY <1>1
<1>3. <<"arguments?", o>> \in Seq(Checks \cup Commands)
  BY <1>1
<1>4. "arguments?" \notin Finals \cup Changers \cup NewProtocol \cup OldProtocol
  BY DEF Finals, Changers, NewProtocol, OldProtocol
<1>5. Allowed(s, o, "arguments?") /\ Allowed(s, o, o) /\ MayEnd(o, o)
  BY <1>4, SingleFacts DEF Allowed, MayEnd, Writing, Gated
<1>6. o \notin PinUsers /\ o # "SendSecret" /\ o # "WriteToOTPSlot"
      /\ o # "write_password_safe_slot" /\ o # "write_slot"
  BY SingleFacts DEF Gated
<1>7. Plan(s, o, <<o>>) /\ Plan(s, o, <<"arguments?", o>>)
  BY <1>2, <1>3, <1>4, <1>5, <1>6 DEF Plan
<1>8. StepsOf(<<o>>) = {o} /\ StepsOf(<<"arguments?", o>>) = {"arguments?", o}
  BY DEF StepsOf
<1>9. QED
  BY <1>6, <1>7, <1>8 DEF Whole, PinUsers

\* The checks and commands of an operation, spelt out.
LEMMA ScriptShape ==
  ASSUME NEW o \in OperationNames
  PROVE  /\ o \in SingleOperations =>
              Script(o) = <<o>> \/ Script(o) = <<"arguments?", o>>
         /\ o \in {"get_code", "get_code_PIN", "erase_slot", "write_slot"} =>
              Script(o) = <<"slot?", "version">>
         /\ o \in {"write_config", "set_unencrypted_admin",
                   "set_unencrypted_user"} => Script(o) = <<"version">>
         /\ o \in SerialAndVersion => Script(o) = <<"status">>
         /\ o = "change_PIN" => Script(o) = ChangePIN
         /\ o = "unlock_user_password" => Script(o) = UnlockUserPassword
         /\ o = "enable_password_safe" => Script(o) = EnablePasswordSafe
         /\ o = "get_retry_count" => Script(o) = RetryCount
         /\ o = "write_password_safe_slot" => Script(o) = WritePasswordSafeSlot
         /\ o = "build_aes_key" => Script(o) = BuildAESKey
         /\ o = "get_OTP_slot_data" => Script(o) = ReadSlot
<1>1. CASE o \in SingleOperations
  <2>1. o \in Unchecked \/ o \in SingleOperations \ Unchecked
    BY <1>1
  <2>2. QED
    BY <1>1, <2>1, SingleFacts DEF Script, Gated
<1>2. CASE o \notin SingleOperations
  <2>1. o \notin Unchecked
    BY <1>2 DEF Unchecked, SingleOperations, StatusOperations,
         SlotAndTimeOperations, PasswordSafeOperations,
         EraseAndResetOperations, VolumeOperations, FirmwareAndCardOperations,
         LastOperations
  <2>2. QED
    BY <1>2, <2>1 DEF Script, SerialAndVersion
<1>3. QED
  BY <1>1, <1>2


\* What operations do up to the version is a whole, on every stick.
LEMMA ScriptWhole ==
  ASSUME NEW o \in OperationNames
  PROVE  Whole(stick, o, Script(o))
<1> DEFINE s == stick
<1> USE DEF Whole, Plan, StepsOf, Checks, BadArguments, Commands, Finals,
            Changers, PinUsers, NewProtocol, OldProtocol, Writing, MayEnd,
            Allowed, Gated
<1>1. /\ Whole(s, "change_PIN", <<"password?", "new_password?",
           "SendPassword", "SendNewPassword">>)
      /\ Whole(s, "change_PIN", <<"password?", "new_password?", "ChangePin">>)
  OBVIOUS
<1>2. /\ Whole(s, "unlock_user_password", <<"password?", "SendPassword",
           "new_password?", "UnlockUserPin">>)
      /\ Whole(s, "unlock_user_password", <<"password?", "new_password?",
           "UnlockUserPassword">>)
  OBVIOUS
<1>3. Whole(s, "write_password_safe_slot", WritePasswordSafeSlot)
  BY DEF WritePasswordSafeSlot
<1>4. ASSUME NEW g \in {"get_code", "get_code_PIN", "erase_slot", "write_slot"}
      PROVE  Whole(s, g, <<"slot?", "version">>)
  OBVIOUS
<1>5. ASSUME NEW g \in {"write_config", "set_unencrypted_admin",
                        "set_unencrypted_user"}
      PROVE  Whole(s, g, <<"version">>)
  OBVIOUS
<1>6. ASSUME NEW g \in SerialAndVersion
      PROVE  Whole(s, g, <<"status">>)
  BY DEF SerialAndVersion
<1>7. Whole(s, "enable_password_safe", EnablePasswordSafe)
  BY DEF EnablePasswordSafe
<1>8. /\ Whole(s, "get_retry_count", <<"status", "RetryCount">>)
      /\ Whole(s, "get_retry_count", <<"RetryCount">>)
  OBVIOUS
<1>9. /\ Whole(s, "build_aes_key", <<"password?", "CreateNewKeys">>)
      /\ Whole(s, "build_aes_key", <<"password?", "BuildAESKey">>)
  OBVIOUS
<1>10. /\ Whole(s, "get_OTP_slot_data", <<"ReadSlot", "status">>)
       /\ Whole(s, "get_OTP_slot_data", <<"ReadSlot">>)
  OBVIOUS
<1> HIDE DEF Whole
<1>11. /\ <<>> \o <<"RetryCount">> = <<"RetryCount">>
       /\ <<"ReadSlot">> \o <<>> = <<"ReadSlot">>
  BY <<"RetryCount">> \in Seq({"RetryCount"}),
     <<"ReadSlot">> \in Seq({"ReadSlot"}), ConcatEmptySeq
<1>12. CASE o \in SingleOperations
  BY <1>12, ScriptShape, SingleWhole
<1>13. CASE o \in Gated
  BY <1>4, <1>5, <1>13, ScriptShape
<1>14. CASE o \in SerialAndVersion
  BY <1>6, <1>14, ScriptShape
<1>15. CASE o \in {"change_PIN", "unlock_user_password"}
  <2> HIDE DEF Plan, StepsOf, MayEnd, Allowed
  <2>1. CASE o = "change_PIN"
    <3>1. \/ ChangePIN = <<"password?", "new_password?", "SendPassword",
                           "SendNewPassword">>
          \/ ChangePIN = <<"password?", "new_password?", "ChangePin">>
      BY TwoMore DEF ChangePIN
    <3>2. QED
      BY <1>1, <2>1, <3>1, ScriptShape
  <2>2. CASE o = "unlock_user_password"
    BY <1>2, <2>2, ScriptShape DEF UnlockUserPassword
  <2>3. QED
    BY <1>15, <2>1, <2>2
<1>16. CASE o \in {"enable_password_safe", "write_password_safe_slot"}
  BY <1>3, <1>7, <1>16, ScriptShape
<1>17. CASE o \in {"get_retry_count", "get_OTP_slot_data"}
  BY <1>8, <1>10, <1>11, <1>17, ScriptShape, OneAndOne DEF RetryCount, ReadSlot
<1>18. CASE o = "build_aes_key"
  BY <1>9, <1>18, ScriptShape DEF BuildAESKey
<1>19. QED
  BY <1>12, <1>13, <1>14, <1>15, <1>16, <1>17, <1>18 DEF OperationNames

\* So is what they do after it; the firmware decides which commands it has.
LEMMA AfterVersionWhole ==
  ASSUME stick \in Sticks, NEW o \in Gated
  PROVE  Whole(stick, o, AfterVersion(o))
<1> DEFINE s == stick
           new == Is320OTPSecretSupported(stick)
<1>1. new <=> ~IsAuthorizationCommandSupported(stick)
  BY TablesAgree, ConstantsAssumption
<1> USE DEF Whole, Plan, StepsOf, Checks, BadArguments, Commands, Finals,
            Changers, PinUsers, NewProtocol, OldProtocol, Writing, MayEnd,
            Allowed, Gated
<1>2. ASSUME new
      PROVE  Whole(s, "write_slot", WriteNoAuthorize)
  BY <1>2 DEF WriteNoAuthorize
<1>3. ASSUME new
      PROVE  /\ \A g \in {"get_code", "get_code_PIN"} :
                  Whole(s, g, <<"password?", "GetCode08">>)
             /\ Whole(s, "erase_slot", <<"password?", "EraseSlot08">>)
  BY <1>3
<1>4. ASSUME ~new
      PROVE  /\ Whole(s, "write_slot",
                  <<"secret?", "length20?", "name?", "token?", "counter?",
                    "status", "password?", "Authorize", "WriteToSlot">>)
             /\ Whole(s, "write_slot",
                  <<"secret?", "length20?", "name?", "token?",
                    "status", "password?", "Authorize", "WriteToSlot">>)
  BY <1>4
<1>5. ASSUME ~new
      PROVE  /\ \A g \in {"get_code", "get_code_PIN"} :
                  Whole(s, g, <<"GetCode">>)
             /\ Whole(s, "get_code_PIN",
                  <<"status", "password?", "UserAuthorize", "GetCode">>)
             /\ Whole(s, "write_config",
                  <<"status", "password?", "Authorize", "WriteGeneralConfig">>)
             /\ Whole(s, "erase_slot",
                  <<"status", "password?", "Authorize", "EraseSlot">>)
  BY <1>5
<1>6. Whole(s, "write_config", <<"password?", "WriteGeneralConfig">>)
  OBVIOUS
<1>7. ASSUME NEW g \in {"set_unencrypted_admin", "set_unencrypted_user"}
      PROVE  Whole(s, g, <<>>) /\ Whole(s, g, <<"password?", g>>)
  OBVIOUS
<1> HIDE DEF Whole
<1>8. <<>> \o <<"GetCode">> = <<"GetCode">>
  BY <<"GetCode">> \in Seq({"GetCode"}), ConcatEmptySeq
<1>9. CASE o \in {"get_code", "get_code_PIN"}
  BY <1>1, <1>3, <1>5, <1>8, <1>9, Announced DEF AfterVersion, GetCode
<1>10. CASE o = "erase_slot"
  BY <1>1, <1>3, <1>5, <1>10, Announced DEF AfterVersion, EraseSlot
<1>11. CASE o = "write_slot"
  BY <1>1, <1>2, <1>4, <1>11, WriteAuthorizeSteps DEF AfterVersion, WriteSlot
<1>12. CASE o = "write_config"
  BY <1>1, <1>5, <1>6, <1>12, Announced, OneAndOne DEF AfterVersion, WriteConfig
<1>13. CASE o \in {"set_unencrypted_admin", "set_unencrypted_user"}
  BY <1>7, <1>13 DEF AfterVersion, SetUnencrypted
<1>14. QED
  BY <1>9, <1>10, <1>11, <1>12, <1>13

-----------------------------------------------------------------------------
\* Secrets.

\* Secrets have their type.
LEMMA SecretType ==
  ASSUME NEW c \in Calls, NEW n \in 0..128
  PROVE  Secret(c, n) \in SecretBytes /\ NoSecret \in SecretBytes
<1>1. 0 \in Calls
  BY ConstantsAssumption DEF Calls
<1>2. ASSUME NEW i \in 0..39
      PROVE  /\ (IF i < n THEN <<c, i>> ELSE <<0, 0>>) \in Calls \X (0..127)
             /\ <<0, 0>> \in Calls \X (0..127)
  BY <1>1
<1>3. Secret(c, n) = [i \in 0..39 |-> IF i < n THEN <<c, i>> ELSE <<0, 0>>]
      /\ NoSecret = [i \in 0..39 |-> <<0, 0>>]
      /\ SecretBytes = [0..39 -> Calls \X (0..127)]
  <2>1. MaximumSecret - 1 = 39
    BY DEF MaximumSecret
  <2> QED
    BY <2>1 DEF Secret, NoSecret, SecretBytes, Zero
<1>4. [i \in 0..39 |-> IF i < n THEN <<c, i>> ELSE <<0, 0>>]
        \in [0..39 -> Calls \X (0..127)]
  BY <1>2
<1>5. [i \in 0..39 |-> <<0, 0>>] \in [0..39 -> Calls \X (0..127)]
  BY <1>1
<1> QED
  BY <1>3, <1>4, <1>5

\* Before the first byte there is nothing, nor in a secret of call 0.
LEMMA NoSecretIs ==
  \A c : Secret(c, 0) = NoSecret
  BY DEF Secret, NoSecret, MaximumSecret

(***************************************************************************)
(* The arithmetic of the loop in write_OTP_slot_no_authorize: a chunk that *)
(* is stored at its number continues the secret where the last one ended,  *)
(* and the padding of the last one stays within the 40 bytes.              *)
(***************************************************************************)
LEMMA ChunkStored ==
  ASSUME TypeOK, Chunks, remaining # 0, length[call] <= MaximumSecret
  PROVE  /\ BytesToCopy \in 1..remaining
         /\ Store(Secret(call, length[call] - remaining), id, ChunkData)
              = Secret(call, length[call] - (remaining - BytesToCopy))
         /\ \/ length[call] \in 31..40
               /\ remaining - BytesToCopy = length[call] - 30 /\ id = 0
            \/ remaining - BytesToCopy = 0 /\ id \in {0, 1}
<1> DEFINE L == length[call]
           B == BytesToCopy
           D == ChunkData
           P == Secret(call, L - remaining)
           N == Secret(call, L - (remaining - B))
<1>1. L \in 0..40 /\ remaining \in 1..40 /\ call \in Calls
  <2>1. length \in [Calls -> 0..128] /\ call \in Calls /\ remaining \in 0..128
    BY DEF TypeOK
  <2>2. L \in 0..128 /\ L <= 40
    BY <2>1 DEF MaximumSecret
  <2>3. QED
    BY <2>1, <2>2 DEF Chunks
<1>2. B = IF remaining < 30 THEN remaining ELSE 30
  BY DEF BytesToCopy, ChunkSize
<1>3. D = [j \in 0..29 |-> IF j < B THEN <<call, (L - remaining) + j>>
                           ELSE <<0, 0>>]
  BY DEF ChunkData, ChunkSize, Zero
<1>4. /\ P = [i \in 0..39 |-> IF i < L - remaining THEN <<call, i>> ELSE <<0, 0>>]
      /\ N = [i \in 0..39 |-> IF i < L - (remaining - B) THEN <<call, i>>
                              ELSE <<0, 0>>]
  BY DEF Secret, MaximumSecret, Zero
<1>5. Store(P, id, D) = [i \in 0..39 |->
                           IF i \div 30 = id THEN D[i % 30] ELSE P[i]]
  BY DEF Store, MaximumSecret, ChunkSize
<1>6. \/ remaining = L /\ id = 0
      \/ L \in 31..40 /\ remaining = L - 30 /\ id = 1
  BY DEF Chunks
<1> HIDE DEF L, B, D, P, N
<1>7. ASSUME NEW i \in 0..39
      PROVE  (IF i \div 30 = id THEN D[i % 30] ELSE P[i]) = N[i]
  <2>1. CASE i < 30
    <3>1. i \div 30 = 0 /\ i % 30 = i
      BY <2>1
    <3>2. /\ P[i] = IF i < L - remaining THEN <<call, i>> ELSE <<0, 0>>
          /\ N[i] = IF i < L - (remaining - B) THEN <<call, i>> ELSE <<0, 0>>
      BY <1>4
    <3>3. D[i] = IF i < B THEN <<call, (L - remaining) + i>> ELSE <<0, 0>>
      BY <1>3, <2>1
    <3>4. CASE remaining = L /\ id = 0
      <4>1. L - remaining = 0 /\ L - (remaining - B) = B /\ 0 + i = i
        BY <1>1, <1>2, <3>4
      <4>2. QED
        BY <3>1, <3>2, <3>3, <3>4, <4>1
    <3>5. CASE L \in 31..40 /\ remaining = L - 30 /\ id = 1
      <4>1. i < L - remaining /\ i < L - (remaining - B)
        BY <1>1, <1>2, <2>1, <3>5
      <4>2. QED
        BY <3>1, <3>2, <3>5, <4>1
    <3>6. QED
      BY <1>6, <3>4, <3>5
  <2>2. CASE i >= 30
    <3>1. i \div 30 = 1 /\ i % 30 = i - 30
      BY <2>2
    <3>2. /\ P[i] = IF i < L - remaining THEN <<call, i>> ELSE <<0, 0>>
          /\ N[i] = IF i < L - (remaining - B) THEN <<call, i>> ELSE <<0, 0>>
      BY <1>4
    <3>3. D[i - 30] = IF i - 30 < B THEN <<call, (L - remaining) + (i - 30)>>
                      ELSE <<0, 0>>
      BY <1>3, <2>2
    <3>4. CASE remaining = L /\ id = 0
      <4>1. ~(i < L - remaining) /\ ~(i < L - (remaining - B))
        BY <1>1, <1>2, <2>2, <3>4
      <4>2. QED
        BY <3>1, <3>2, <3>4, <4>1
    <3>5. CASE L \in 31..40 /\ remaining = L - 30 /\ id = 1
      <4>1. /\ B = remaining /\ (i - 30 < B <=> i < L - (remaining - B))
            /\ (L - remaining) + (i - 30) = i
        BY <1>1, <1>2, <3>5
      <4>2. QED
        BY <3>1, <3>2, <3>3, <3>5, <4>1
    <3>6. QED
      BY <1>6, <3>4, <3>5
  <2>3. QED
    BY <2>1, <2>2
<1>8. Store(P, id, D) = N
  BY <1>4, <1>5, <1>7
<1>9. /\ B \in 1..remaining
      /\ \/ L \in 31..40 /\ remaining - B = L - 30 /\ id = 0
         \/ remaining - B = 0 /\ id \in {0, 1}
  BY <1>1, <1>2, <1>6
<1>10. QED
  BY <1>8, <1>9 DEF L, B, D, P, N

-----------------------------------------------------------------------------
\* One command.

\* What the plan says of the step that is next.
LEMMA NextStep ==
  ASSUME OInv, todo # <<>>
  PROVE  /\ Head(todo) \in Checks \cup Commands
         /\ Plan(stick, op, Tail(todo))
         /\ \A x : x \in StepsOf(todo)
                     <=> x = Head(todo) \/ x \in StepsOf(Tail(todo))
         /\ Tail(todo) \in Seq(Checks \cup Commands)
         /\ Head(todo) \in Finals =>
              Tail(todo) = <<>> /\ StepsOf(todo) = {Head(todo)}
         /\ Tail(todo) = <<>> => MayEnd(op, Head(todo))
         /\ Allowed(stick, op, Head(todo))
         /\ Head(todo) = "SendSecret" =>
              StepsOf(todo) \cap {"version", "SendName", "length40?"} = {}
<1>1. Plan(stick, op, todo) /\ todo \in Seq(Checks \cup Commands)
  BY DEF OInv, Plan
<1>2. /\ Plan(stick, op, Tail(todo))
      /\ Head(todo) \in Finals => Tail(todo) = <<>>
      /\ Tail(todo) = <<>> => MayEnd(op, Head(todo))
      /\ Allowed(stick, op, Head(todo))
      /\ Head(todo) = "SendSecret" =>
           StepsOf(todo) \cap {"version", "SendName", "length40?"} = {}
  BY <1>1, PlanTail
<1>3. /\ Head(todo) \in Checks \cup Commands
      /\ Tail(todo) \in Seq(Checks \cup Commands)
      /\ StepsOf(todo) = {Head(todo)} \cup StepsOf(Tail(todo))
  BY <1>1, StepsOfTail
<1>4. StepsOf(<<>>) = {}
  BY DEF StepsOf
<1>5. QED
  BY <1>2, <1>3, <1>4

\* The state of the stick keeps its type.
LEMMA ExecuteTypes ==
  ASSUME TypeOK, Chunks, NEW c \in Commands, Execute(c)
  PROVE  /\ kept' \in Kept
         /\ staged' \in [name : Calls, secret : SecretBytes, given : BOOLEAN]
         /\ authorized' \in Calls /\ current' \in Calls
         /\ sent' \subseteq Commands /\ committed' \subseteq Calls
<1>1. /\ call \in Calls /\ 0 \in Calls /\ kept \in Kept
      /\ staged \in [name : Calls, secret : SecretBytes, given : BOOLEAN]
      /\ current \in Calls /\ authorized \in Calls
      /\ length \in [Calls -> 0..128] /\ remaining \in 0..128
  BY ConstantsAssumption DEF TypeOK, Calls
<1>2. length[call] \in 0..128
  BY <1>1
<1>3. Secret(call, length[call]) \in SecretBytes /\ NoSecret \in SecretBytes
  BY <1>1, <1>2, SecretType
<1>4. kept' \in Kept
  <2>1. kept' = Executed(c)
    BY DEF Execute
  <2>2. FactoryState \in Kept
    BY <1>1, <1>3 DEF FactoryState, Kept
  <2> HIDE DEF SecretBytes
  <2>3. QED
    BY <1>1, <1>3, <2>1, <2>2 DEF Executed, Kept
<1>5. Store(staged.secret, id, ChunkData) \in SecretBytes
  <2>1. ChunkData \in [0..29 -> Calls \X (0..127)]
    <3>1. remaining <= length[call]
      BY <1>1, <1>2 DEF Chunks
    <3>2. ASSUME NEW j \in 0..29
          PROVE  (IF j < BytesToCopy
                  THEN <<call, (length[call] - remaining) + j>> ELSE <<0, 0>>)
                   \in Calls \X (0..127)
      <4>1. CASE j < BytesToCopy
        <5>1. (length[call] - remaining) + j \in 0..127
          <6>1. j < remaining
            BY <1>1, <4>1 DEF BytesToCopy, ChunkSize
          <6>2. remaining \in 0..128
            BY <1>1
          <6>3. \A L \in 0..128 : remaining <= L =>
                  (L - remaining) + j \in 0..127
            BY <6>1, <6>2
          <6>4. QED
            BY <1>2, <3>1, <6>3
        <5>2. QED
          BY <1>1, <4>1, <5>1
      <4>2. CASE ~(j < BytesToCopy)
        BY <1>1, <4>2
      <4>3. QED
        BY <4>1, <4>2
    <3>3. QED
      BY <3>2 DEF ChunkData, ChunkSize, Zero
  <2>2. \A i \in 0..39 : i % 30 \in 0..29
    OBVIOUS
  <2>3. staged.secret \in [0..39 -> Calls \X (0..127)]
    BY <1>1 DEF SecretBytes, MaximumSecret
  <2>4. \A i \in 0..39 : (IF i \div 30 = id THEN ChunkData[i % 30]
                          ELSE staged.secret[i]) \in Calls \X (0..127)
    BY <2>1, <2>2, <2>3
  <2>5. Store(staged.secret, id, ChunkData) =
          [i \in 0..39 |-> IF i \div 30 = id THEN ChunkData[i % 30]
                           ELSE staged.secret[i]]
    BY DEF Store, MaximumSecret, ChunkSize
  <2>6. SecretBytes = [0..39 -> Calls \X (0..127)]
    BY DEF SecretBytes, MaximumSecret
  <2>7. QED
    BY <2>4, <2>5, <2>6
<1>6. staged' \in [name : Calls, secret : SecretBytes, given : BOOLEAN]
  <2> HIDE DEF SecretBytes
  <2>1. QED
    BY <1>1, <1>3, <1>5 DEF Execute, Received
<1>7. authorized' \in Calls /\ current' \in Calls
  BY <1>1 DEF Execute
<1>8. sent' \subseteq Commands /\ committed' \subseteq Calls
  BY <1>1 DEF Execute, TypeOK
<1>9. QED
  BY <1>4, <1>6, <1>7, <1>8

\* Commands that leave the slot and the PIN, or everything, as it was.
LEMMA ExecuteKeeps ==
  ASSUME TypeOK, NEW c, Execute(c)
  PROVE  /\ c \notin Changers => kept' = kept
         /\ c \notin Finals =>
              /\ kept'.name = kept.name /\ kept'.secret = kept.secret
              /\ kept'.pin = kept.pin /\ kept'.pin_by = kept.pin_by
         /\ c \notin {"WriteToSlot", "WriteToOTPSlot"} => committed' = committed
         /\ c \notin {"SendName", "SendSecret"} => staged' = staged
<1>1. kept \in Kept
  BY DEF TypeOK
<1>2. c \notin Changers => kept' = kept
  BY DEF Execute, Executed, Changers, Finals
<1>3. c \notin Finals =>
        /\ kept'.name = kept.name /\ kept'.secret = kept.secret
        /\ kept'.pin = kept.pin /\ kept'.pin_by = kept.pin_by
  BY <1>1 DEF Execute, Executed, Finals, Kept
<1>4. QED
  BY <1>2, <1>3 DEF Execute, Received

\* The part of ProtocolMatchesFirmware about commands.
SentFits ==
  /\ sent \cap NewProtocol # {} => Is320OTPSecretSupported(stick)
  /\ sent \cap OldProtocol # {} => ~Is320OTPSecretSupported(stick)

\* The part of ProtocolMatchesFirmware about lengths.
LengthVerdict ==
  op = "write_slot" /\ bad = "none" =>
    /\ outcome = "ok" => length[call] <= Limit
    /\ outcome = "LibraryException" => length[call] > Limit

\* (No check is ever sent.)
LEMMA ProtocolParts ==
  ASSUME TypeOK
  PROVE  ProtocolMatchesFirmware <=> SentFits /\ LengthVerdict
<1>1. sent \subseteq Commands
  BY DEF TypeOK
<1>2. "length20?" \notin Commands /\ "length40?" \notin Commands
  BY SingleFacts DEF Commands, NewProtocol, OldProtocol
<1>3. QED
  BY <1>1, <1>2 DEF ProtocolMatchesFirmware, SentFits, LengthVerdict, Limit,
                    NewProtocol, OldProtocol

(***************************************************************************)
(* When the stick executes the next command of an operation, the facts     *)
(* that do not depend on how the operation goes on still hold.             *)
(***************************************************************************)
LEMMA ExecuteSafe ==
  ASSUME OInv, Running, todo # <<>>, Sends(Head(todo)), Execute(Head(todo)),
         UNCHANGED <<call, op, length, before, stick>>
  PROVE  Committed' /\ SlotWhole' /\ ReadOnly' /\ PinChangedByItsCall' /\ SentFits'
<1> DEFINE c == Head(todo)
<1>1. /\ TypeOK /\ Committed /\ SlotWhole /\ ReadOnly /\ PinChangedByItsCall
      /\ SentFits /\ Assembled /\ Armed
  BY ProtocolParts DEF OInv
<1>2. call \in Calls /\ kept \in Kept /\ call \in Nat
  BY <1>1, ConstantsAssumption DEF TypeOK, Calls
<1>3. Allowed(stick, op, c) /\ (c \in Finals => StepsOf(todo) = {c})
  BY NextStep
<1>4. Committed'
  BY <1>1, <1>2 DEF Committed, Execute
<1>5. SentFits'
  BY <1>1, <1>3 DEF SentFits, Execute, Allowed
<1>6. ReadOnly'
  BY <1>1, <1>3, ExecuteKeeps DEF ReadOnly, Allowed
<1>7. PinChangedByItsCall'
  <2>1. CASE c \notin Finals
    BY <1>1, <2>1, ExecuteKeeps DEF PinChangedByItsCall
  <2>2. CASE c \in PinUsers
    <3>1. c \in Finals /\ c # "SendPassword"
      BY <2>2 DEF PinUsers, Finals
    <3>2. current = call
      BY <1>1, <1>3, <2>2, <3>1 DEF Armed, Pending
    <3>3. QED
      BY <1>2, <2>2, <3>2
         DEF Execute, Executed, PinUsers, Kept, PinChangedByItsCall
  <2>3. CASE c \in Finals \ PinUsers
    BY <1>1, <1>2, <2>3 DEF Execute, Executed, Finals, PinUsers, Kept,
                            FactoryState, PinChangedByItsCall
  <2>4. QED
    BY <2>1, <2>2, <2>3
<1>8. SlotWhole'
  <2>1. PICK d \in committed \cup {0} : kept.secret = Secret(d, length[d])
    BY <1>1 DEF SlotWhole
  <2>2. committed \subseteq committed' /\ length' = length
    BY DEF Execute
  <2>3. CASE kept'.secret = kept.secret
    BY <2>1, <2>2, <2>3 DEF SlotWhole
  <2>4. CASE kept'.secret = NoSecret
    BY <1>1, <2>2, <2>4, NoSecretIs DEF SlotWhole, Committed
  <2>5. CASE kept'.secret = Secret(call, length[call]) /\ call \in committed'
    BY <2>2, <2>5 DEF SlotWhole
  <2>6. CASE c = "WriteToSlot"
    <3>1. kept'.secret \in {kept.secret, Secret(call, length[call])}
          /\ call \in committed'
      BY <1>2, <2>6 DEF Execute, Executed, Kept
    <3>2. QED
      BY <2>3, <2>5, <3>1
  <2>7. CASE c = "WriteToOTPSlot"
    <3>1. StepsOf(todo) = {"WriteToOTPSlot"}
      BY <1>3, <2>7 DEF Finals
    <3>2. remaining = 0 /\ staged.secret = Secret(call, length[call] - remaining)
      BY <1>1, <3>1 DEF Assembled, Pending
    <3>3. length[call] - remaining = length[call]
      <4>1. length[call] \in 0..128
        BY <1>1, <1>2 DEF TypeOK
      <4>2. \A L \in 0..128 : L - 0 = L
        OBVIOUS
      <4>3. QED
        BY <3>2, <4>1, <4>2
    <3>4. kept'.secret \in {kept.secret, Secret(call, length[call])}
          /\ call \in committed'
      BY <1>2, <2>7, <3>2, <3>3 DEF Execute, Executed, Kept
    <3>5. QED
      BY <2>3, <2>5, <3>4
  <2>8. CASE c \in {"EraseSlot", "EraseSlot08", "factory_reset"}
    <3>1. kept'.secret = NoSecret
      BY <1>2, <2>8 DEF Execute, Executed, Kept, FactoryState
    <3>2. QED
      BY <2>4, <3>1
  <2>9. CASE c \in {"ChangePin", "UnlockUserPassword", "SendNewPassword",
                    "UnlockUserPin"}
    <3>1. kept'.secret = kept.secret
      BY <1>2, <2>9 DEF Execute, Executed, Kept
    <3>2. QED
      BY <2>3, <3>1
  <2>10. CASE c \notin Finals
    BY <1>1, <2>3, <2>10, ExecuteKeeps
  <2>11. QED
    BY <2>6, <2>7, <2>8, <2>9, <2>10 DEF Finals
<1>9. QED
  BY <1>4, <1>5, <1>6, <1>7, <1>8

-----------------------------------------------------------------------------
\* The actions.

\* An operation that may end with a step that changes nothing writes nothing.
LEMMA HarmlessEnd ==
  ASSUME NEW o, NEW c, MayEnd(o, c), c \notin Changers \cup {"version"}
  PROVE  o \notin Writing
  BY DEF MayEnd, Changers, Finals, Writing

\* A call begins: all of its script is to do and nothing has been touched.
LEMMA BeginKeeps ==
  ASSUME OInv, NEW o \in OperationNames, NEW n \in Lengths \cup {0},
         NEW b \in BadArguments, Begin(o, n, b)
  PROVE  OInv'
<1>1. /\ TypeOK /\ Committed /\ SlotWhole /\ PinChangedByItsCall
  BY DEF OInv
<1>2. /\ call \in Calls /\ call + 1 \in Calls /\ call \in Nat /\ 0 \in Calls
      /\ n \in 0..128 /\ length \in [Calls -> 0..128]
  BY <1>1, ConstantsAssumption DEF TypeOK, Begin, Calls
<1>3. /\ call' = call + 1 /\ op' = o /\ todo' = Script(o) /\ remaining' = n
      /\ id' = 0 /\ outcome' = "running" /\ sent' = {} /\ before' = kept
      /\ length' = [length EXCEPT ![call + 1] = n] /\ bad' = b
      /\ UNCHANGED <<committed, stick, authorized, staged, current, kept>>
  BY DEF Begin
<1>4. /\ length' \in [Calls -> 0..128] /\ length'[call'] = n
      /\ \A d \in 0..call : length'[d] = length[d]
  <2>1. \A d \in 0..call : d \in Calls /\ d # call + 1
    BY <1>2, ConstantsAssumption DEF Calls
  <2>2. QED
    BY <1>2, <1>3, <2>1
<1>5. Whole(stick, o, Script(o))
  BY ScriptWhole
<1>6. Plan(stick, op, todo)' /\ todo' \in Seq(Checks \cup Commands)
  BY <1>3, <1>5 DEF Whole, Plan
<1>7. TypeOK'
  BY <1>1, <1>2, <1>3, <1>4, <1>6 DEF TypeOK
<1>8. Chunks'
  BY <1>3, <1>4 DEF Chunks
<1>9. Assembled'
  BY <1>3, <1>4, <1>5 DEF Assembled, Pending, Whole
<1>10. Committed'
  BY <1>1, <1>2, <1>3, <1>4 DEF Committed
<1>11. Armed' /\ HalfSafe' /\ LengthChecked'
  BY <1>3, <1>5 DEF Armed, HalfSafe, LengthChecked, Pending, Whole
<1>12. Untouched' /\ ReadOnly'
  BY <1>3 DEF Untouched, ReadOnly, SameSlotAndPin
<1>13. Finished'
  BY <1>3, <1>5 DEF Finished, WorkDone, Whole, Writing
<1>14. SlotWhole'
  <2>1. PICK d \in committed \cup {0} : kept.secret = Secret(d, length[d])
    BY <1>1 DEF SlotWhole
  <2>2. d \in 0..call
    BY <1>1, <1>2 DEF Committed
  <2>3. QED
    BY <1>3, <1>4, <2>1, <2>2 DEF SlotWhole
<1>15. SuccessMeansDone' /\ RejectedChangesNothing' /\ PinChangedByItsCall'
  BY <1>1, <1>3
     DEF SuccessMeansDone, RejectedChangesNothing, PinChangedByItsCall
<1>16. ProtocolMatchesFirmware'
  BY <1>3 DEF ProtocolMatchesFirmware
<1>17. QED
  BY <1>6, <1>7, <1>8, <1>9, <1>10, <1>11, <1>12, <1>13, <1>14, <1>15, <1>16
     DEF OInv

\* The call returns: what Finished says becomes SuccessMeansDone.
LEMMA ReturnKeeps ==
  ASSUME OInv, Return
  PROVE  OInv'
<1>1. /\ Running /\ todo = <<>> /\ outcome' = "ok"
      /\ UNCHANGED <<call, op, bad, length, todo, remaining, id, sent,
                     committed, before, stick, authorized, staged, current,
                     kept>>
  BY DEF Return, Idle, Running
<1>2. TypeOK'
  BY <1>1 DEF OInv, TypeOK
<1>3. Plan(stick, op, todo)'
  BY <1>1 DEF OInv, Plan
<1>4. Chunks' /\ Committed' /\ ReadOnly' /\ SlotWhole' /\ PinChangedByItsCall'
  BY <1>1 DEF OInv, Chunks, Committed, ReadOnly, SlotWhole, PinChangedByItsCall
<1>5. Assembled' /\ Armed' /\ Untouched' /\ Finished' /\ HalfSafe'
      /\ LengthChecked'
  BY <1>1 DEF Assembled, Armed, Untouched, Finished, HalfSafe, LengthChecked,
              Running
<1>6. WorkDone
  BY <1>1 DEF OInv, Finished
<1>7. WorkDone'
  BY <1>1, <1>6 DEF WorkDone
<1>8. SuccessMeansDone' /\ RejectedChangesNothing'
  BY <1>1, <1>7 DEF SuccessMeansDone, RejectedChangesNothing
<1>9. SentFits /\ LengthChecked
  BY ProtocolParts DEF OInv
<1>10. StepsOf(todo) = {}
  BY <1>1 DEF StepsOf
<1>11. op = "write_slot" => length[call] <= Limit
  BY <1>1, <1>9, <1>10 DEF LengthChecked, Pending
<1>12. SentFits' /\ LengthVerdict'
  BY <1>1, <1>9, <1>11 DEF SentFits, LengthVerdict, Limit
<1>13. ProtocolMatchesFirmware'
  BY <1>2, <1>12, ProtocolParts, PTL
<1>14. QED
  BY <1>2, <1>3, <1>4, <1>5, <1>8, <1>13 DEF OInv

(***************************************************************************)
(* A check: when it rejects, the slot and the PIN are untouched, because   *)
(* the check is not the last step but one of the others.                   *)
(***************************************************************************)
LEMMA CheckKeeps ==
  ASSUME OInv, NEW e \in Checks, Check(e)
  PROVE  OInv'
<1>1. /\ Running /\ todo # <<>> /\ Head(todo) = e /\ todo' = Tail(todo)
      /\ outcome' = IF Rejects(e) THEN "LibraryException" ELSE "running"
      /\ UNCHANGED <<call, op, bad, length, remaining, id, sent, committed,
                     before, stick, authorized, staged, current, kept>>
  BY DEF Check, Doing, Idle, Running
<1>2. /\ Plan(stick, op, Tail(todo))
      /\ \A x : x \in StepsOf(todo) <=> x = e \/ x \in StepsOf(Tail(todo))
      /\ Tail(todo) \in Seq(Checks \cup Commands)
      /\ Tail(todo) = <<>> => MayEnd(op, e)
      /\ Allowed(stick, op, e)
  BY <1>1, NextStep
<1>3. /\ e \notin PinUsers \cup {"version", "SendName", "SendSecret",
           "WriteToOTPSlot", "SendPassword", "SetPasswordSafeSlotData"}
      /\ e \in {"length20?", "length40?"} => e \in OldProtocol \cup NewProtocol
      /\ "length40?" \in NewProtocol /\ "length20?" \in OldProtocol
  BY DEF Checks, BadArguments, PinUsers, OldProtocol, NewProtocol
<1>4. Plan(stick, op, todo)'
  BY <1>1, <1>2 DEF Plan
<1>5. TypeOK'
  BY <1>1, <1>2 DEF OInv, TypeOK
<1>6. Chunks' /\ Committed' /\ ReadOnly' /\ SlotWhole' /\ PinChangedByItsCall'
  BY <1>1 DEF OInv, Chunks, Committed, ReadOnly, SlotWhole, PinChangedByItsCall
<1>7. \A S : Pending(S)' => Pending(S)
  BY <1>1, <1>2 DEF Pending
<1>8. \A S : Pending(S) /\ e \notin S => Pending(S)'
  BY <1>1, <1>2 DEF Pending
<1>9. Armed'
  BY <1>1, <1>3, <1>7, <1>8 DEF OInv, Armed, Running
<1>10. HalfSafe'
  BY <1>1, <1>3, <1>8 DEF OInv, HalfSafe, Running
<1>11. /\ Running' /\ e = "length40?" => length[call] <= MaximumSecret
       /\ Running' /\ e = "length20?" => length[call] <= 20
  <2>1. length[call] \in 0..128
    BY DEF OInv, TypeOK
  <2>2. \A L \in 0..128 : ~(L > 20) => L <= 20
    OBVIOUS
  <2>3. \A L \in 0..128 : ~(L > MaximumSecret) => L <= MaximumSecret
    BY DEF MaximumSecret
  <2>4. QED
    BY <1>1, <2>1, <2>2, <2>3 DEF Rejects, Running
<1>12. Assembled'
  BY <1>1, <1>3, <1>7, <1>8, <1>11 DEF OInv, Assembled, Running
<1>13. Untouched' /\ RejectedChangesNothing'
  BY <1>1 DEF OInv, Untouched, SameSlotAndPin, RejectedChangesNothing, Running
<1>14. Finished'
  <2>1. e \notin Changers \cup {"version"}
    BY DEF Checks, BadArguments, Changers, Finals
  <2>2. todo' = <<>> => op \notin Writing
    BY <1>1, <1>2, <2>1, HarmlessEnd
  <2>3. op \notin Writing => kept = before
    BY DEF OInv, ReadOnly
  <2>4. QED
    BY <1>1, <2>2, <2>3 DEF Finished, WorkDone, Writing
<1>15. SuccessMeansDone'
  BY <1>1 DEF SuccessMeansDone
<1>16. /\ e = "length20?" => Limit = 20
       /\ e = "length40?" => Limit = 40
  BY <1>2, <1>3 DEF Allowed, Limit
<1>17. LengthChecked'
  <2>1. Limit' = Limit
    BY <1>1 DEF Limit
  <2>2. CASE e \in {"length20?", "length40?"}
    BY <1>1, <1>11, <1>16, <2>1, <2>2 DEF LengthChecked, MaximumSecret
  <2>3. CASE e \notin {"version", "length20?", "length40?"}
    BY <1>1, <1>8, <2>1, <2>3 DEF OInv, LengthChecked, Running
  <2>4. QED
    BY <1>3, <2>2, <2>3
<1>18. LengthVerdict'
  <2>1. e # "none"
    BY DEF Checks, BadArguments
  <2>2. QED
    BY <1>1, <1>16, <2>1 DEF LengthVerdict, Rejects, Limit, MaximumSecret
<1>19. SentFits'
  BY <1>1, ProtocolParts DEF OInv, SentFits
<1>20. ProtocolMatchesFirmware'
  BY <1>5, <1>18, <1>19, ProtocolParts, PTL
<1>21. QED
  BY <1>4, <1>5, <1>6, <1>9, <1>10, <1>12, <1>13, <1>14, <1>15, <1>17, <1>20
     DEF OInv

\* The loop over the secret is over, or was never entered.
LEMMA SecretSentKeeps ==
  ASSUME OInv, SecretSent
  PROVE  OInv'
<1>1. /\ Running /\ todo # <<>> /\ Head(todo) = "SendSecret"
      /\ todo' = Tail(todo) /\ remaining = 0
      /\ UNCHANGED <<call, op, bad, length, remaining, id, outcome, sent,
                     committed, before, stick, authorized, staged, current,
                     kept>>
  BY DEF SecretSent, Doing, LoopDone, Idle, Running
<1>2. /\ Plan(stick, op, Tail(todo))
      /\ \A x : x \in StepsOf(todo)
                  <=> x = "SendSecret" \/ x \in StepsOf(Tail(todo))
      /\ Tail(todo) \in Seq(Checks \cup Commands)
      /\ Tail(todo) = <<>> => MayEnd(op, "SendSecret")
      /\ StepsOf(todo) \cap {"version", "SendName", "length40?"} = {}
  BY <1>1, NextStep
<1>3. Plan(stick, op, todo)'
  BY <1>1, <1>2 DEF Plan
<1>4. TypeOK'
  BY <1>1, <1>2 DEF OInv, TypeOK
<1>5. /\ Chunks' /\ Committed' /\ ReadOnly' /\ SlotWhole'
      /\ PinChangedByItsCall' /\ RejectedChangesNothing'
  BY <1>1 DEF OInv, Chunks, Committed, ReadOnly, SlotWhole,
              PinChangedByItsCall, RejectedChangesNothing
<1>6. \A S : Pending(S)' => Pending(S)
  BY <1>1, <1>2 DEF Pending
<1>7. \A S : Pending(S) /\ "SendSecret" \notin S => Pending(S)'
  BY <1>1, <1>2 DEF Pending
<1>8. Armed' /\ HalfSafe' /\ LengthChecked'
  BY <1>1, <1>6, <1>7
     DEF OInv, Armed, HalfSafe, LengthChecked, Running, PinUsers, Limit
<1>9. ~Pending({"SendName"}) /\ ~Pending({"version", "SendName"})
      /\ ~Pending({"length40?"})
  BY <1>2 DEF Pending
<1>10. Assembled'
  <2>1. /\ length[call] <= MaximumSecret
        /\ staged.name = call
        /\ staged.secret = Secret(call, length[call] - remaining)
        /\ staged.given <=> (remaining < length[call])
    BY <1>1, <1>2, <1>9 DEF OInv, Assembled, Pending
  <2>2. QED
    BY <1>1, <1>6, <1>9, <2>1 DEF Assembled
<1>11. Untouched'
  BY <1>1 DEF OInv, Untouched, SameSlotAndPin, Running
<1>12. Finished'
  <2>1. "SendSecret" \notin Changers \cup {"version"}
    BY DEF Changers, Finals
  <2>2. todo' = <<>> => op \notin Writing
    BY <1>1, <1>2, <2>1, HarmlessEnd
  <2>3. op \notin Writing => kept = before
    BY DEF OInv, ReadOnly
  <2>4. QED
    BY <1>1, <2>2, <2>3 DEF Finished, WorkDone, Writing
<1>13. SuccessMeansDone'
  BY <1>1 DEF SuccessMeansDone, Running
<1>14. ProtocolMatchesFirmware'
  BY <1>1 DEF OInv, ProtocolMatchesFirmware
<1>15. QED
  BY <1>3, <1>4, <1>5, <1>8, <1>10, <1>11, <1>12, <1>13, <1>14 DEF OInv

(***************************************************************************)
(* An exception ends the operation, whether or not the stick has executed  *)
(* the command.  The exceptions that become a result are those of          *)
(* operations that write nothing.                                          *)
(***************************************************************************)
LEMMA ThrowKeeps ==
  ASSUME OInv, Running, todo # <<>>, Sends(Head(todo)),
         NEW e \in Exceptions, Throw(e),
         \/ Execute(Head(todo))
         \/ UNCHANGED <<sent, committed, authorized, staged, current, kept>>
  PROVE  OInv'
<1>1. /\ todo' = <<>> /\ outcome' = IF e \in Caught(op) THEN "ok" ELSE e
      /\ UNCHANGED <<call, op, bad, length, remaining, id, before, stick>>
  BY DEF Throw
<1>2. TypeOK /\ Chunks /\ SentFits /\ Head(todo) \in Commands
  BY NextStep, ProtocolParts DEF OInv, Sends
<1>3. outcome' \in {"ok"} \cup Exceptions
      /\ (outcome' = "ok" => op \notin Writing)
  BY <1>1 DEF Exceptions, Caught, Writing
<1>4. ~Running' /\ outcome' # "LibraryException"
  BY <1>3 DEF Running, Exceptions
<1>5. TypeOK'
  <2>1. CASE Execute(Head(todo))
    BY <1>1, <1>2, <1>3, <2>1, ExecuteTypes DEF TypeOK
  <2>2. CASE UNCHANGED <<sent, committed, authorized, staged, current, kept>>
    BY <1>1, <1>2, <1>3, <2>2 DEF TypeOK
  <2>3. QED
    BY <2>1, <2>2
<1>6. Plan(stick, op, todo)' /\ Chunks'
  BY <1>1, <1>2 DEF Plan, Chunks
<1>7. /\ Committed' /\ SlotWhole' /\ ReadOnly' /\ PinChangedByItsCall'
      /\ SentFits'
  <2>1. CASE Execute(Head(todo))
    BY <1>1, <2>1, ExecuteSafe
  <2>2. CASE UNCHANGED <<sent, committed, authorized, staged, current, kept>>
    BY <1>1, <1>2, <2>2 DEF OInv, Committed, SlotWhole, ReadOnly,
                            PinChangedByItsCall, SentFits
  <2>3. QED
    BY <2>1, <2>2
<1>8. Assembled' /\ Armed' /\ Untouched' /\ Finished' /\ HalfSafe'
      /\ LengthChecked' /\ RejectedChangesNothing'
  BY <1>4 DEF Assembled, Armed, Untouched, Finished, HalfSafe, LengthChecked,
              RejectedChangesNothing
<1>9. SuccessMeansDone'
  BY <1>1, <1>3, <1>7 DEF SuccessMeansDone, WorkDone, ReadOnly, Writing
<1>10. LengthVerdict'
  BY <1>1, <1>3, <1>4 DEF LengthVerdict, Writing
<1>11. ProtocolMatchesFirmware'
  BY <1>5, <1>7, <1>10, ProtocolParts, PTL
<1>12. QED
  BY <1>5, <1>6, <1>7, <1>8, <1>9, <1>11 DEF OInv

\* The answer to the question for the version: the rest of the operation.
LEMMA VersionKeeps ==
  ASSUME OInv, Running, todo # <<>>, Head(todo) = "version",
         ExchangeOk("version")
  PROVE  OInv'
<1>1. /\ Execute("version") /\ todo' = AfterVersion(op)
      /\ UNCHANGED <<call, op, bad, length, outcome, before, stick, remaining,
                     id>>
      /\ Sends(Head(todo))
  BY DEF ExchangeOk
<1>2. TypeOK /\ Chunks /\ "version" \in Commands /\ LengthVerdict
  BY ProtocolParts DEF OInv, Commands
<1>3. kept' = kept
  BY <1>1, <1>2, ExecuteKeeps DEF Changers, Finals
<1>4. "version" \in StepsOf(todo) /\ op \in Gated /\ stick \in Sticks
  BY <1>2, NextStep DEF Allowed, TypeOK
<1>5. Whole(stick, op, AfterVersion(op))
  BY <1>4, AfterVersionWhole
<1>6. Plan(stick, op, todo)' /\ todo' \in Seq(Checks \cup Commands)
  BY <1>1, <1>5 DEF Whole, Plan
<1>7. TypeOK'
  BY <1>1, <1>2, <1>6, ExecuteTypes DEF TypeOK
<1>8. /\ Committed' /\ SlotWhole' /\ ReadOnly' /\ PinChangedByItsCall'
      /\ SentFits'
  BY <1>1, ExecuteSafe
<1>9. Chunks'
  BY <1>1, <1>2 DEF Chunks
<1>10. Assembled'
  <2>1. remaining = length[call] /\ id = 0
    BY <1>4 DEF OInv, Assembled, Pending
  <2>2. QED
    BY <1>1, <1>5, <2>1 DEF Assembled, Pending, Whole
<1>11. Armed' /\ HalfSafe'
  BY <1>1, <1>5 DEF Armed, HalfSafe, Pending, Whole
<1>12. LengthChecked'
  BY <1>1, <1>5 DEF LengthChecked, Pending, Whole
<1>13. Untouched'
  BY <1>1, <1>3 DEF OInv, Untouched, SameSlotAndPin, Running
<1>14. Finished'
  BY <1>1, <1>5, <1>8 DEF Finished, Whole, WorkDone, ReadOnly, Writing
<1>15. SuccessMeansDone' /\ RejectedChangesNothing' /\ LengthVerdict'
  BY <1>1 DEF SuccessMeansDone, RejectedChangesNothing, LengthVerdict, Running
<1>16. ProtocolMatchesFirmware'
  BY <1>7, <1>8, <1>15, ProtocolParts, PTL
<1>17. QED
  BY <1>6, <1>7, <1>8, <1>9, <1>10, <1>11, <1>12, <1>13, <1>14, <1>15, <1>16
     DEF OInv

\* A chunk of the secret: the record on the stick grows by it.
LEMMA ChunkKeeps ==
  ASSUME OInv, Running, todo # <<>>, Head(todo) = "SendSecret",
         ExchangeOk("SendSecret")
  PROVE  OInv'
<1>1. /\ Execute("SendSecret") /\ remaining # 0
      /\ remaining' = remaining - BytesToCopy /\ id' = id + 1
      /\ UNCHANGED <<call, op, bad, length, outcome, before, stick, todo>>
      /\ Sends(Head(todo))
  BY DEF ExchangeOk, Sends, LoopDone
<1>2. TypeOK /\ Chunks /\ "SendSecret" \in Commands /\ LengthVerdict
  BY ProtocolParts DEF OInv, Commands
<1>3. kept' = kept
  BY <1>1, <1>2, ExecuteKeeps DEF Changers, Finals
<1>4. /\ "SendSecret" \in StepsOf(todo)
      /\ StepsOf(todo) \cap {"version", "SendName", "length40?"} = {}
  BY NextStep
<1>5. /\ length[call] <= MaximumSecret /\ staged.name = call
      /\ staged.secret = Secret(call, length[call] - remaining)
  BY <1>4 DEF OInv, Assembled, Pending
<1>6. /\ BytesToCopy \in 1..remaining
      /\ Store(Secret(call, length[call] - remaining), id, ChunkData)
           = Secret(call, length[call] - (remaining - BytesToCopy))
      /\ \/ length[call] \in 31..40
            /\ remaining - BytesToCopy = length[call] - 30 /\ id = 0
         \/ remaining - BytesToCopy = 0 /\ id \in {0, 1}
  BY <1>1, <1>2, <1>5, ChunkStored
<1>7. Chunks'
  BY <1>1, <1>6 DEF Chunks
<1>8. remaining \in 0..128 /\ length[call] \in 0..128
  BY <1>2 DEF TypeOK
<1>9. remaining' \in 0..128 /\ id' \in 0..255
  <2>1. id \in {0, 1} /\ BytesToCopy \in 1..remaining
    BY <1>6
  <2>2. \A r \in 0..128 : \A b \in 1..r : r - b \in 0..128
    OBVIOUS
  <2>3. remaining - BytesToCopy \in 0..128 /\ id + 1 \in 0..255
    BY <1>8, <2>1, <2>2
  <2>4. QED
    BY <1>1, <2>3
<1>10. TypeOK'
  BY <1>1, <1>2, <1>9, ExecuteTypes DEF TypeOK
<1>11. Plan(stick, op, todo)'
  BY <1>1 DEF OInv, Plan
<1>12. /\ Committed' /\ SlotWhole' /\ ReadOnly' /\ PinChangedByItsCall'
       /\ SentFits'
  BY <1>1, ExecuteSafe
<1>13. Assembled'
  <2>1. /\ staged'.name = call
        /\ staged'.secret = Secret(call, length[call] - remaining')
        /\ staged'.given = TRUE
    BY <1>1, <1>5, <1>6 DEF Execute, Received
  <2>2. remaining' < length[call]
    BY <1>1, <1>2, <1>6, <1>8 DEF Chunks
  <2>3. QED
    BY <1>1, <1>4, <1>5, <2>1, <2>2 DEF Assembled, Pending
<1>14. current' = current
  BY <1>1 DEF Execute
<1>15. Armed' /\ HalfSafe' /\ LengthChecked'
  BY <1>1, <1>3, <1>14
     DEF OInv, Armed, HalfSafe, LengthChecked, Limit, Running, Pending
<1>16. Untouched' /\ Finished'
  BY <1>1, <1>3 DEF OInv, Untouched, Finished, SameSlotAndPin, Running
<1>17. SuccessMeansDone' /\ RejectedChangesNothing' /\ LengthVerdict'
  BY <1>1 DEF SuccessMeansDone, RejectedChangesNothing, LengthVerdict, Running
<1>18. ProtocolMatchesFirmware'
  BY <1>10, <1>12, <1>17, ProtocolParts, PTL
<1>19. QED
  BY <1>7, <1>10, <1>11, <1>12, <1>13, <1>15, <1>16, <1>17, <1>18 DEF OInv

(***************************************************************************)
(* Any other command.  If it is the last one, the work is done with it; if *)
(* it is not, the slot and the PIN are still what they were.               *)
(***************************************************************************)
LEMMA CommandKeeps ==
  ASSUME OInv, Running, todo # <<>>, Head(todo) \notin {"version", "SendSecret"},
         ExchangeOk(Head(todo))
  PROVE  OInv'
<1> DEFINE c == Head(todo)
<1>1. /\ Sends(c) /\ Execute(c) /\ todo' = Tail(todo) /\ c \notin Checks
      /\ UNCHANGED <<call, op, bad, length, outcome, before, stick, remaining,
                     id>>
  BY DEF ExchangeOk, Sends
<1>2. /\ c \in Commands
      /\ Plan(stick, op, Tail(todo))
      /\ \A x : x \in StepsOf(todo) <=> x = c \/ x \in StepsOf(Tail(todo))
      /\ Tail(todo) \in Seq(Checks \cup Commands)
      /\ c \in Finals => Tail(todo) = <<>> /\ StepsOf(todo) = {c}
      /\ Tail(todo) = <<>> => MayEnd(op, c)
      /\ Allowed(stick, op, c)
  BY <1>1, NextStep
<1>3. TypeOK /\ Chunks /\ LengthVerdict
  BY ProtocolParts DEF OInv
<1> HIDE DEF c
<1>4. Plan(stick, op, todo)'
  BY <1>1, <1>2 DEF Plan
<1>5. TypeOK'
  BY <1>1, <1>2, <1>3, ExecuteTypes DEF TypeOK
<1>6. Chunks'
  BY <1>1, <1>3 DEF Chunks
<1>7. /\ Committed' /\ SlotWhole' /\ ReadOnly' /\ PinChangedByItsCall'
      /\ SentFits'
  BY <1>1, ExecuteSafe DEF c
<1>8. \A S : Pending(S)' => Pending(S)
  BY <1>1, <1>2 DEF Pending
<1>9. \A S : Pending(S) /\ c \notin S => Pending(S)'
  BY <1>1, <1>2 DEF Pending
<1>10. c # "version" /\ c # "SendSecret" /\ c # "length20?" /\ c # "length40?"
  BY <1>1 DEF c, Checks
<1>11. Armed'
  <2>1. CASE c = "SendPassword"
    BY <1>1, <2>1 DEF Execute, Armed
  <2>2. CASE c # "SendPassword"
    <3>1. current' = current
      BY <1>1, <2>2 DEF Execute
    <3>2. QED
      BY <1>1, <1>8, <1>9, <2>2, <3>1 DEF OInv, Armed, Running
  <2>3. QED
    BY <2>1, <2>2
<1>12. LengthChecked'
  BY <1>1, <1>9, <1>10 DEF OInv, LengthChecked, Running, Limit
<1>13. HalfSafe'
  <2>1. kept \in Kept
    BY <1>3 DEF TypeOK
  <2>2. SUFFICES ASSUME op = "write_password_safe_slot"
                 PROVE  HalfSafe'
    BY <1>1 DEF HalfSafe
  <2>3. CASE c = "SetPasswordSafeSlotData"
    BY <1>1, <2>1, <2>3 DEF Execute, Executed, Kept, HalfSafe
  <2>4. CASE c # "SetPasswordSafeSlotData"
    <3>1. c \notin Finals /\ c # "erase_password_safe_slot"
      BY <1>2, <2>2 DEF MayEnd, Allowed, Finals
    <3>2. c \notin Changers \/ c = "SetPasswordSafeSlotData2"
      BY <2>4, <3>1 DEF Changers
    <3>3. kept'.data = kept.data
      BY <1>1, <1>3, <2>1, <3>2, ExecuteKeeps DEF Execute, Executed, Kept
    <3>4. QED
      BY <1>1, <1>9, <2>2, <2>4, <3>3 DEF OInv, HalfSafe, Running
  <2>5. QED
    BY <2>3, <2>4
<1>14. Assembled'
  <2>1. CASE c = "SendName"
    <3>1. remaining = length[call] /\ id = 0
      BY <1>2, <2>1 DEF OInv, Assembled, Pending
    <3>2. /\ staged'.name = call /\ staged'.secret = NoSecret
          /\ staged'.given = FALSE
      BY <1>1, <2>1 DEF Execute, Received
    <3>3. length[call] - remaining = 0 /\ ~(remaining < length[call])
      <4>1. length[call] \in 0..128
        BY <1>3 DEF TypeOK
      <4>2. \A L \in 0..128 : L - L = 0 /\ ~(L < L)
        OBVIOUS
      <4>3. QED
        BY <3>1, <4>1, <4>2
    <3>4. staged'.secret = Secret(call, length[call] - remaining)
      BY <3>2, <3>3, NoSecretIs
    <3>5. QED
      BY <1>1, <1>8, <1>9, <1>10, <2>1, <3>1, <3>2, <3>3, <3>4
         DEF OInv, Assembled, Running
  <2>2. CASE c # "SendName"
    <3>1. staged' = staged
      BY <1>1, <1>3, <1>10, <2>2, ExecuteKeeps
    <3>2. QED
      BY <1>1, <1>8, <1>9, <1>10, <2>2, <3>1 DEF OInv, Assembled, Running
  <2>3. QED
    BY <2>1, <2>2
<1>15. Untouched'
  <2>1. todo' # <<>> => c \notin Finals
    BY <1>1, <1>2
  <2>2. QED
    BY <1>1, <1>3, <2>1, ExecuteKeeps DEF OInv, Untouched, SameSlotAndPin, Running
<1>16. Finished'
  <2>1. SUFFICES ASSUME todo' = <<>>
                 PROVE  WorkDone'
    BY DEF Finished
  <2>2. /\ MayEnd(op, c) /\ kept \in Kept /\ SameSlotAndPin
    BY <1>1, <1>2, <1>3, <2>1 DEF TypeOK, OInv, Untouched
  <2>3. CASE op \notin Writing
    BY <1>1, <1>7, <2>3 DEF ReadOnly, WorkDone, Writing
  <2>4. CASE op = "write_slot"
    <3>1. CASE c = "WriteToSlot"
      BY <1>1, <2>2, <2>4, <3>1
         DEF Execute, Executed, Kept, WorkDone, SameSlotAndPin
    <3>2. CASE c = "WriteToOTPSlot"
      <4>1. StepsOf(todo) = {"WriteToOTPSlot"}
        BY <1>2, <3>2 DEF Finals
      <4>2. /\ remaining = 0 /\ staged.name = call
            /\ staged.secret = Secret(call, length[call] - remaining)
            /\ staged.given <=> (remaining < length[call])
        BY <4>1 DEF OInv, Assembled, Pending
      <4>3. length[call] \in 0..128
        BY <1>3 DEF TypeOK
      <4>4. \A L \in 0..128 : L - 0 = L /\ (0 < L <=> L # 0)
        OBVIOUS
      <4>5. /\ staged.secret = Secret(call, length[call])
            /\ staged.given <=> length[call] # 0
        BY <4>2, <4>3, <4>4
      <4>6. QED
        BY <1>1, <2>2, <2>4, <3>2, <4>2, <4>5
           DEF Execute, Executed, Kept, WorkDone, SameSlotAndPin
    <3>3. QED
      BY <1>10, <2>2, <2>4, <3>1, <3>2 DEF MayEnd
  <2>5. CASE op = "erase_slot"
    <3>1. c \in {"EraseSlot", "EraseSlot08"}
      BY <1>10, <2>2, <2>5 DEF MayEnd
    <3>2. QED
      BY <1>1, <2>2, <2>5, <3>1 DEF Execute, Executed, Kept, WorkDone
  <2>6. CASE op = "write_password_safe_slot"
    <3>1. c = "SetPasswordSafeSlotData2"
      BY <2>2, <2>6 DEF MayEnd
    <3>2. kept'.login = call
      BY <1>1, <2>2, <3>1 DEF Execute, Executed, Kept
    <3>3. kept'.data = call
      <4>1. ~Pending({"SetPasswordSafeSlotData"})'
        BY <2>1 DEF Pending, StepsOf
      <4>2. QED
        BY <1>1, <1>13, <2>6, <4>1 DEF HalfSafe, Running
    <3>4. QED
      BY <1>1, <2>6, <3>2, <3>3 DEF WorkDone
  <2>7. CASE op \in {"erase_password_safe_slot", "factory_reset"}
    <3>1. c = op
      BY <2>2, <2>7 DEF MayEnd
    <3>2. QED
      BY <1>1, <2>2, <2>7, <3>1 DEF Execute, Executed, Kept, WorkDone
  <2>8. CASE op \in {"change_PIN", "unlock_user_password"}
    <3>1. c \in {"ChangePin", "SendNewPassword", "UnlockUserPassword",
                 "UnlockUserPin"}
      BY <2>2, <2>8 DEF MayEnd
    <3>2. QED
      BY <1>1, <2>2, <2>8, <3>1 DEF Execute, Executed, Kept, WorkDone
  <2>9. QED
    BY <2>3, <2>4, <2>5, <2>6, <2>7, <2>8 DEF Writing
<1>17. SuccessMeansDone' /\ RejectedChangesNothing' /\ LengthVerdict'
  BY <1>1 DEF SuccessMeansDone, RejectedChangesNothing, LengthVerdict, Running
<1>18. ProtocolMatchesFirmware'
  BY <1>5, <1>7, <1>17, ProtocolParts, PTL
<1>19. QED
  BY <1>4, <1>5, <1>6, <1>7, <1>11, <1>12, <1>13, <1>14, <1>15, <1>16, <1>17,
     <1>18 DEF OInv

-----------------------------------------------------------------------------

\* The invariant holds of a stick that has not been talked to.
LEMMA InitHolds == Init => OInv
<1> SUFFICES ASSUME Init
             PROVE  OInv
  OBVIOUS
<1>1. /\ call = 0 /\ op = "get_status" /\ bad = "none" /\ todo = <<>>
      /\ length = [c \in Calls |-> 0] /\ remaining = 0 /\ id = 0
      /\ outcome = "ok" /\ sent = {} /\ committed = {} /\ kept = FactoryState
      /\ before = kept /\ stick \in Sticks /\ authorized = 0
      /\ staged = [name |-> 0, secret |-> NoSecret, given |-> FALSE]
      /\ current = 0
  BY DEF Init
<1>2. 0 \in Calls
  BY ConstantsAssumption DEF Calls
<1>3. NoSecret \in SecretBytes /\ NoSecret = Secret(0, 0)
  BY <1>2, SecretType, NoSecretIs
<1>4. op \in SingleOperations /\ op \notin Writing /\ op # "write_slot"
  BY <1>1 DEF SingleOperations, StatusOperations, Writing
<1>5. todo \in Seq(Checks \cup Commands) /\ Len(todo) = 0
  BY <1>1
<1>6. TypeOK
  <2>1. op \in OperationNames /\ bad \in BadArguments
    BY <1>1, <1>4 DEF OperationNames, BadArguments
  <2>2. length \in [Calls -> 0..128]
    BY <1>1
  <2>3. kept \in Kept /\ before \in Kept
    BY <1>1, <1>2, <1>3 DEF Kept, FactoryState
  <2> HIDE DEF SecretBytes
  <2>4. staged \in [name : Calls, secret : SecretBytes, given : BOOLEAN]
    BY <1>1, <1>2, <1>3
  <2>5. QED
    BY <1>1, <1>2, <1>5, <2>1, <2>2, <2>3, <2>4 DEF TypeOK
<1>7. Plan(stick, op, todo)
  BY <1>5 DEF Plan
<1>8. length[call] = 0 /\ length[0] = 0
  BY <1>1, <1>2
<1>9. Chunks /\ Committed
  BY <1>1, <1>8 DEF Chunks, Committed
<1>10. Assembled /\ Armed /\ Untouched /\ Finished /\ HalfSafe /\ LengthChecked
  BY <1>1 DEF Assembled, Armed, Untouched, Finished, HalfSafe, LengthChecked,
              Running
<1>11. ReadOnly /\ RejectedChangesNothing /\ PinChangedByItsCall
  BY <1>1 DEF ReadOnly, RejectedChangesNothing, PinChangedByItsCall,
              FactoryState
<1>12. SuccessMeansDone
  BY <1>1 DEF SuccessMeansDone, WorkDone
<1>13. SlotWhole
  BY <1>1, <1>3, <1>8 DEF SlotWhole, FactoryState
<1>14. ProtocolMatchesFirmware
  BY <1>1 DEF ProtocolMatchesFirmware
<1>15. QED
  BY <1>6, <1>7, <1>9, <1>10, <1>11, <1>12, <1>13, <1>14 DEF OInv

\* Every action preserves it.
LEMMA NextKeeps == OInv /\ [Next]_vars => OInv'
<1> SUFFICES ASSUME OInv, [Next]_vars
             PROVE  OInv'
  OBVIOUS
<1>1. ASSUME NEW o \in OperationNames, NEW n \in Lengths \cup {0},
             NEW b \in BadArguments, Begin(o, n, b)
      PROVE  OInv'
  BY <1>1, BeginKeeps
<1>2. ASSUME NEW e \in Checks, Check(e)
      PROVE  OInv'
  BY <1>2, CheckKeeps
<1>3. CASE Return
  BY <1>3, ReturnKeeps
<1>4. CASE SecretSent
  BY <1>4, SecretSentKeeps
<1>5. CASE ~Idle /\ todo # <<>> /\ ExchangeOk(Head(todo))
  <2>1. Running
    BY <1>5 DEF Idle, Running
  <2>2. QED
    BY <1>5, <2>1, VersionKeeps, ChunkKeeps, CommandKeeps
<1>6. CASE ~Idle /\ todo # <<>>
           /\ \E e \in Exceptions : ExchangeFails(Head(todo), e)
  <2>1. PICK e \in Exceptions : ExchangeFails(Head(todo), e)
    BY <1>6
  <2>2. Running /\ todo # <<>>
    BY <1>6 DEF Idle, Running
  <2>3. /\ Sends(Head(todo)) /\ Throw(e)
        /\ UNCHANGED <<sent, committed, authorized, staged, current, kept>>
    BY <2>1 DEF ExchangeFails
  <2>4. QED
    BY <2>2, <2>3, ThrowKeeps
<1>7. CASE ~Idle /\ todo # <<>> /\ AnswerLost(Head(todo))
  <2>1. /\ Running /\ Sends(Head(todo)) /\ Execute(Head(todo))
        /\ Throw("DeviceCommunication") /\ "DeviceCommunication" \in Exceptions
    BY <1>7 DEF Idle, Running, AnswerLost, Exceptions
  <2>2. QED
    BY <1>7, <2>1, ThrowKeeps
<1>8. CASE ~Idle /\ todo # <<>> /\ ExecutedTwice(Head(todo))
  <2>1. /\ Running /\ Sends(Head(todo)) /\ Execute(Head(todo))
        /\ Throw("CommandFailed") /\ "CommandFailed" \in Exceptions
    BY <1>8 DEF Idle, Running, ExecutedTwice, Exceptions
  <2>2. QED
    BY <1>8, <2>1, ThrowKeeps
<1>9. CASE UNCHANGED vars
  <2>1. UNCHANGED <<call, op, bad, length, todo, remaining, id, outcome, sent,
                    committed, before, stick, authorized, staged, current,
                    kept>>
    BY <1>9 DEF vars, host
  <2>2. TypeOK' /\ Plan(stick, op, todo)'
    BY <2>1 DEF OInv, TypeOK, Plan
  <2>3. /\ Chunks' /\ Assembled' /\ Committed' /\ Armed' /\ Untouched'
        /\ Finished' /\ ReadOnly' /\ HalfSafe' /\ LengthChecked'
    BY <2>1 DEF OInv, Chunks, Assembled, Committed, Armed, Untouched, Finished,
                ReadOnly, HalfSafe, LengthChecked, Limit, Running, Pending,
                SameSlotAndPin, WorkDone
  <2>4. /\ SlotWhole' /\ SuccessMeansDone' /\ RejectedChangesNothing'
        /\ PinChangedByItsCall' /\ ProtocolMatchesFirmware'
    BY <2>1 DEF OInv, SlotWhole, SuccessMeansDone, RejectedChangesNothing,
                PinChangedByItsCall, ProtocolMatchesFirmware, WorkDone
  <2>5. QED
    BY <2>2, <2>3, <2>4 DEF OInv
<1>10. QED
  BY <1>1, <1>2, <1>3, <1>4, <1>5, <1>6, <1>7, <1>8, <1>9 DEF Next

\* The inductive invariant holds in every state of every behaviour.
LEMMA Invariance == Spec => []OInv
  BY InitHolds, NextKeeps, PTL DEF Spec

\* Type correctness; the chunk number of a secret never exceeds two.
THEOREM TypeCorrect == Spec => []TypeOK
<1>1. OInv => TypeOK
  BY DEF OInv
<1>2. QED
  BY <1>1, Invariance, PTL

(***************************************************************************)
(* The secret in the OTP slot is at all times the whole secret of one call *)
(* that committed it, wherever an exception, a lost answer or a command    *)
(* executed twice ended an operation of write_OTP_slot_no_authorize or of  *)
(* the old protocol.                                                       *)
(***************************************************************************)
THEOREM SlotStaysWhole == Spec => []SlotWhole
<1>1. OInv => SlotWhole
  BY DEF OInv
<1>2. QED
  BY <1>1, Invariance, PTL

\* An operation of NitrokeyManager that returns has done its work, on every
\* stick and with secrets of every length.
THEOREM ReturnMeansDone == Spec => []SuccessMeansDone
<1>1. OInv => SuccessMeansDone
  BY DEF OInv
<1>2. QED
  BY <1>1, Invariance, PTL

\* A call that is refused for an argument has left OTP slots and PINs alone,
\* in whatever order it checks its arguments and sends its commands.
THEOREM RejectionLeavesAlone == Spec => []RejectedChangesNothing
<1>1. OInv => RejectedChangesNothing
  BY DEF OInv
<1>2. QED
  BY <1>1, Invariance, PTL

\* change_PIN_general and unlock_user_password change a PIN only with the PIN
\* of the same call, though a Storage takes the two in two commands.
THEOREM PinNeedsItsOwnCall == Spec => []PinChangedByItsCall
<1>1. OInv => PinChangedByItsCall
  BY DEF OInv
<1>2. QED
  BY <1>1, Invariance, PTL

\* Commands and secret lengths fit the firmware of the stick, for every
\* version that get_minor_firmware_version can report.
THEOREM FirmwareFits == Spec => []ProtocolMatchesFirmware
<1>1. OInv => ProtocolMatchesFirmware
  BY DEF OInv
<1>2. QED
  BY <1>1, Invariance, PTL

=============================================================================
