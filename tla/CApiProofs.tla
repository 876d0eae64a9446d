----------------------------- MODULE CApiProofs -----------------------------
(***************************************************************************)
(* Proofs about the C API, for every set of functions that are called and  *)
(* every set of error codes of the stick.                                  *)
(*                                                                         *)
(* NK_last_command_status is shared by all threads without a lock, and     *)
(* with two overlapping calls ResultGenuine fails (run capi_threads).  The *)
(* theorems say what it takes to use the API: ResultGenuine holds for any  *)
(* number of threads whose calls do not overlap, StatusKept for a single   *)
(* thread, because another thread's call resets the status.                *)
(***************************************************************************)
EXTENDS CApi, TLAPS

\* No two threads are inside functions of the API at the same time.
Serialized ==
  \A t, u \in Threads : pc[t] # "idle" /\ pc[u] # "idle" => t = u

\* There is one caller.
OneThread == \A t, u \in Threads : t = u

-----------------------------------------------------------------------------
(***************************************************************************)
(* Facts about the tables of functions and about the error codes.          *)
(***************************************************************************)

\* The two values of fn that are not wrapped functions are in no table: a
\* thread that has called nothing yet or has asked for the status is in none
\* of the kinds of get_with_status and get_without_result.
LEMMA NotWrapped ==
  /\ "none" \notin Functions
  /\ "NK_get_last_command_status" \notin Functions
<1> DEFINE N == {"none", "NK_get_last_command_status"}
<1>1. \A f \in N : f \notin DOMAIN SessionFunctions
  BY DEF SessionFunctions
<1>2. \A f \in N : f \notin DOMAIN ConfigFunctions
  BY DEF ConfigFunctions
<1>3. \A f \in N : f \notin DOMAIN StatusAndCodeFunctions
  BY DEF StatusAndCodeFunctions
<1>4. \A f \in N : f \notin DOMAIN SlotFunctions
  BY DEF SlotFunctions
<1>5. \A f \in N : f \notin DOMAIN PinAndSafeFunctions
  BY DEF PinAndSafeFunctions
<1>6. \A f \in N : f \notin DOMAIN VolumeFunctions
  BY DEF VolumeFunctions
<1>7. \A f \in N : f \notin DOMAIN StorageStatusFunctions
  BY DEF StorageStatusFunctions
<1>8. \A f \in N : f \notin DOMAIN DeviceFunctions
  BY DEF DeviceFunctions
<1>9. \A T \in Tables : \A f \in N : f \notin DOMAIN T
  BY <1>1, <1>2, <1>3, <1>4, <1>5, <1>6, <1>7, <1>8 DEF Tables
<1>10. "none" \in N /\ "NK_get_last_command_status" \in N
  OBVIOUS
<1> HIDE DEF N
<1> QED
  BY <1>9, <1>10 DEF Functions

\* NK_get_last_command_status and the initial value are of kind "query".
LEMMA QueryKind ==
  /\ Kind("none") = "query"
  /\ Kind("NK_get_last_command_status") = "query"
BY NotWrapped DEF Kind

\* NK_login_enum, which refuses an unknown model with 0, fills no structure.
LEMMA LoginEnumKind == Kind("NK_login_enum") # "struct"
<1> DEFINE f == "NK_login_enum"
<1>1. f \in DOMAIN SessionFunctions /\ SessionFunctions[f] = "login"
  BY DEF SessionFunctions
<1>2. f \notin DOMAIN ConfigFunctions
  BY DEF ConfigFunctions
<1>3. f \notin DOMAIN StatusAndCodeFunctions
  BY DEF StatusAndCodeFunctions
<1>4. f \notin DOMAIN SlotFunctions
  BY DEF SlotFunctions
<1>5. f \notin DOMAIN PinAndSafeFunctions
  BY DEF PinAndSafeFunctions
<1>6. f \notin DOMAIN VolumeFunctions
  BY DEF VolumeFunctions
<1>7. f \notin DOMAIN StorageStatusFunctions
  BY DEF StorageStatusFunctions
<1>8. f \notin DOMAIN DeviceFunctions
  BY DEF DeviceFunctions
<1> HIDE DEF f
<1>9. \A T \in Tables : f \in DOMAIN T => T = SessionFunctions
  BY <1>2, <1>3, <1>4, <1>5, <1>6, <1>7, <1>8 DEF Tables
<1>10. SessionFunctions \in Tables
  BY DEF Tables
<1>11. (CHOOSE T \in Tables : f \in DOMAIN T) = SessionFunctions
  BY <1>1, <1>9, <1>10
<1>12. f \in Functions
  BY <1>1, <1>10 DEF Functions
<1>13. Kind(f) = "login"
  BY <1>1, <1>11, <1>12 DEF Kind, KindOf
<1> QED
  BY <1>13 DEF f

\* The error codes of a stick fit the status byte and are not zero.
LEMMA CodesAreBytes == \A b : b \in CommandStatus \cup {1} => b \in 1..255
<1>1. CommandStatus \subseteq 1..255
  BY ConstantsAssumption DEF ConstantsAssumption
<1> QED
  BY <1>1

\* An operation throws something, and only what the model of exceptions has.
LEMMA ThrowableTyped ==
  ASSUME NEW k, NEW e \in Throwable(k)
  PROVE  e \in Exception /\ e # Nothing
<1>1. CASE k = "login"
  BY <1>1 DEF Throwable, Exception, Nothing
<1>2. CASE k # "login"
  <2>1. CASE e \in [class : {"CommandFailed"}, byte : CommandStatus \cup {1}]
    <3>1. e.byte \in CommandStatus \cup {1}
      BY <2>1
    <3>2. e.byte \in 0..255
      BY <3>1, CodesAreBytes
    <3> QED
      BY <2>1, <3>2 DEF Exception, Nothing
  <2>2. CASE e \in [class : {"Library"}, byte : 200..203]
    BY <2>2 DEF Exception, Nothing
  <2>3. CASE e \in [class : {"InvalidCRCReceived", "DeviceCommunication"},
                    byte : {1}]
    BY <2>3 DEF Exception, Nothing
  <2> QED
    BY <1>2, <2>1, <2>2, <2>3 DEF Throwable
<1> QED
  BY <1>1, <1>2

\* What a handler stores fits the byte and is not zero: an operation that
\* threw and was not swallowed never leaves the code of success.
LEMMA HandlerCodeNotZero ==
  ASSUME NEW k, NEW e \in Throwable(k), ~Swallowed(k, e)
  PROVE  HandlerCode(e) \in 1..255
<1>1. k # "login"
  BY DEF Throwable, Swallowed
<1>2. CASE e \in [class : {"CommandFailed"}, byte : CommandStatus \cup {1}]
  <2>1. e.class = "CommandFailed" /\ e.byte \in CommandStatus \cup {1}
    BY <1>2
  <2>2. e.byte \in 1..255
    BY <2>1, CodesAreBytes
  <2> QED
    BY <2>1, <2>2 DEF HandlerCode
<1>3. CASE e \in [class : {"Library"}, byte : 200..203]
  BY <1>3 DEF HandlerCode
<1>4. CASE e \in [class : {"InvalidCRCReceived", "DeviceCommunication"},
                  byte : {1}]
  BY <1>4 DEF HandlerCode
<1> QED
  BY <1>1, <1>2, <1>3, <1>4 DEF Throwable

\* Only functions that return data with a status fall back, and their
\* handlers store every exception.
LEMMA FallbackKind ==
  ASSUME NEW k, NEW c
  PROVE  /\ DataAfterThrow(k, c) \in {"fallback", "untouched"}
         /\ DataAfterThrow(k, c) = "fallback" => k \in {"value", "struct"}
         /\ k = "struct" /\ c # 0 => DataAfterThrow(k, c) = "untouched"
BY DEF DataAfterThrow

\* Swallowed exceptions are those that StatusKept leaves out, and functions
\* that return data swallow nothing.
LEMMA SwallowedClass ==
  ASSUME NEW k, NEW e, Swallowed(k, e)
  PROVE  /\ e.class \in {"InvalidCRCReceived", "runtime_error"}
         /\ k \notin {"value", "struct"}
BY DEF Swallowed

-----------------------------------------------------------------------------
(***************************************************************************)
(* Type correctness, for any number of threads, overlapping or not.        *)
(***************************************************************************)

\* Where a thread is and what it has to show for it: an exception that is on
\* its way to the status is one of the function's and is not swallowed.
AtPc ==
  \A t \in Threads :
    /\ pc[t] = "func" => thrown[t] = Nothing
    /\ pc[t] \in {"set", "return"} => thrown[t] \in Throwable(Kind(fn[t]))
    /\ pc[t] = "set" => ~Swallowed(Kind(fn[t]), thrown[t])
    /\ pc[t] = "clear" => fn[t] = "NK_get_last_command_status"

TypeInv == TypeOK /\ AtPc

\* Nobody has called anything yet.
LEMMA TypeInvInit == Init => TypeInv
BY DEF Init, TypeInv, TypeOK, AtPc, Exception, Nothing

\* Every step keeps the types and the place of the exception.
LEMMA TypeInvNext == TypeInv /\ [Next]_vars => TypeInv'
<1> SUFFICES ASSUME TypeInv, [Next]_vars PROVE TypeInv'
  OBVIOUS
<1> USE DEF TypeInv
<1> Nothing \in Exception
  BY DEF Nothing, Exception
<1>1. ASSUME NEW t \in Threads, NEW f \in Called, Refuse(t, f)
      PROVE  TypeInv'
  <2>1. f \in Functions
    BY ConstantsAssumption DEF ConstantsAssumption
  <2> QED
    BY <1>1, <2>1 DEF Refuse, TypeOK, AtPc
<1>2. ASSUME NEW t \in Threads, NEW f \in Called, Enter(t, f)
      PROVE  TypeInv'
  <2>1. f \in Functions
    BY ConstantsAssumption DEF ConstantsAssumption
  <2> QED
    BY <1>2, <2>1 DEF Enter, TypeOK, AtPc
<1>3. ASSUME NEW t \in Threads, FuncReturns(t)
      PROVE  TypeInv'
  BY <1>3 DEF FuncReturns, TypeOK, AtPc
<1>4. ASSUME NEW t \in Threads, FuncThrows(t)
      PROVE  TypeInv'
  <2>1. PICK e \in Throwable(Kind(fn[t])) :
           /\ thrown' = [thrown EXCEPT ![t] = e]
           /\ pc' = [pc EXCEPT ![t] = IF Swallowed(Kind(fn[t]), e)
                                      THEN "return" ELSE "set"]
    BY <1>4 DEF FuncThrows
  <2>2. e \in Exception
    BY ThrowableTyped
  <2>3. UNCHANGED <<NK_last_command_status, fn, ret, data>>
    BY <1>4 DEF FuncThrows
  <2> QED
    BY <2>1, <2>2, <2>3 DEF TypeOK, AtPc
<1>5. ASSUME NEW t \in Threads, SetStatus(t)
      PROVE  TypeInv'
  <2>1. HandlerCode(thrown[t]) \in 1..255
    BY <1>5, HandlerCodeNotZero DEF SetStatus, AtPc
  <2> QED
    BY <1>5, <2>1 DEF SetStatus, TypeOK, AtPc
<1>6. ASSUME NEW t \in Threads, Return(t)
      PROVE  TypeInv'
  BY <1>6, FallbackKind DEF Return, TypeOK, AtPc
<1>7. ASSUME NEW t \in Threads, GetLastCopy(t)
      PROVE  TypeInv'
  BY <1>7 DEF GetLastCopy, TypeOK, AtPc
<1>8. ASSUME NEW t \in Threads, GetLastClear(t)
      PROVE  TypeInv'
  BY <1>8 DEF GetLastClear, TypeOK, AtPc
<1>9. CASE UNCHANGED vars
  BY <1>9 DEF vars, TypeOK, AtPc
<1> QED
  BY <1>1, <1>2, <1>3, <1>4, <1>5, <1>6, <1>7, <1>8, <1>9 DEF Next

\* The status variable is a byte: 256 - e.getType() never leaves it, whatever
\* function the exception ends, and codes that are returned are codes or -1.
THEOREM TypeCorrect == Spec => []TypeOK
<1>1. Spec => []TypeInv
  BY TypeInvInit, TypeInvNext, PTL DEF Spec
<1>2. TypeInv => TypeOK
  BY DEF TypeInv
<1> QED
  BY <1>1, <1>2, PTL

-----------------------------------------------------------------------------
(***************************************************************************)
(* Calls that do not overlap.  Between the handler's assignment and the    *)
(* return nobody else writes the status, so the code that is read back is  *)
(* the one of this call's exception.                                       *)
(***************************************************************************)

\* The status that a function is about to return is its own.
StatusOwn ==
  \A t \in Threads :
    pc[t] = "return" /\ ~Swallowed(Kind(fn[t]), thrown[t]) =>
      NK_last_command_status = HandlerCode(thrown[t])

ResultInv == TypeInv /\ StatusOwn /\ ResultGenuine

\* No structure has been filled yet.
LEMMA ResultInvInit == Init => ResultInv
<1> SUFFICES ASSUME Init PROVE StatusOwn /\ ResultGenuine
  BY TypeInvInit DEF ResultInv
<1>1. ASSUME NEW t \in Threads PROVE Kind(fn[t]) = "query" /\ pc[t] = "idle"
  BY QueryKind DEF Init
<1> QED
  BY <1>1 DEF StatusOwn, ResultGenuine

\* A step keeps StatusOwn and ResultGenuine as long as calls do not overlap.
LEMMA ResultInvNext ==
  ResultInv /\ Serialized /\ Serialized' /\ [Next]_vars => ResultInv'
<1> SUFFICES ASSUME ResultInv, Serialized, Serialized', [Next]_vars
             PROVE  StatusOwn' /\ ResultGenuine'
  BY TypeInvNext DEF ResultInv
<1> USE DEF ResultInv, TypeInv
<1>1. ASSUME NEW t \in Threads, NEW f \in Called, Refuse(t, f)
      PROVE  StatusOwn' /\ ResultGenuine'
  <2>1. StatusOwn'
    BY <1>1 DEF Refuse, StatusOwn, TypeOK
  <2>2. ASSUME Kind(f) = "struct" PROVE f # "NK_login_enum"
    BY <2>2, LoginEnumKind
  <2>3. ResultGenuine'
    BY <1>1, <2>2 DEF Refuse, ResultGenuine, TypeOK
  <2> QED
    BY <2>1, <2>3
<1>2. ASSUME NEW t \in Threads, NEW f \in Called, Enter(t, f)
      PROVE  StatusOwn' /\ ResultGenuine'
  <2>1. \A u \in Threads : pc'[u] # "return"
    BY <1>2 DEF Enter, Serialized, TypeOK
  <2> QED
    BY <1>2, <2>1 DEF Enter, StatusOwn, ResultGenuine, TypeOK
<1>3. ASSUME NEW t \in Threads, FuncReturns(t)
      PROVE  StatusOwn' /\ ResultGenuine'
  BY <1>3 DEF FuncReturns, StatusOwn, ResultGenuine, TypeOK
<1>4. ASSUME NEW t \in Threads, FuncThrows(t)
      PROVE  StatusOwn' /\ ResultGenuine'
  BY <1>4 DEF FuncThrows, StatusOwn, ResultGenuine, TypeOK
<1>5. ASSUME NEW t \in Threads, SetStatus(t)
      PROVE  StatusOwn' /\ ResultGenuine'
  <2>1. \A u \in Threads : pc'[u] = "return" => u = t
    BY <1>5 DEF SetStatus, Serialized, TypeOK
  <2> QED
    BY <1>5, <2>1 DEF SetStatus, StatusOwn, ResultGenuine, TypeOK
<1>6. ASSUME NEW t \in Threads, Return(t)
      PROVE  StatusOwn' /\ ResultGenuine'
  <2>1. StatusOwn'
    BY <1>6 DEF Return, StatusOwn, TypeOK
  <2>2. ASSUME Kind(fn[t]) = "struct"
        PROVE  /\ ret'[t] = NK_last_command_status
               /\ NK_last_command_status # 0
               /\ data'[t] = "untouched"
    <3>1. thrown[t] \in Throwable(Kind(fn[t]))
      BY <1>6 DEF Return, AtPc
    <3>2. ~Swallowed(Kind(fn[t]), thrown[t])
      BY <2>2 DEF Swallowed
    <3>3. NK_last_command_status \in 1..255
      BY <1>6, <3>1, <3>2, HandlerCodeNotZero DEF Return, StatusOwn
    <3> QED
      BY <1>6, <2>2, <3>3, FallbackKind DEF Return, TypeOK
  <2>3. ResultGenuine'
    BY <1>6, <2>2 DEF Return, ResultGenuine, TypeOK
  <2> QED
    BY <2>1, <2>3
<1>7. ASSUME NEW t \in Threads, GetLastCopy(t)
      PROVE  StatusOwn' /\ ResultGenuine'
  BY <1>7 DEF GetLastCopy, StatusOwn, ResultGenuine, TypeOK
<1>8. ASSUME NEW t \in Threads, GetLastClear(t)
      PROVE  StatusOwn' /\ ResultGenuine'
  <2>1. \A u \in Threads : pc'[u] # "return"
    BY <1>8 DEF GetLastClear, Serialized, TypeOK
  <2>2. Kind(fn[t]) = "query"
    BY <1>8, QueryKind DEF GetLastClear, AtPc
  <2> QED
    BY <1>8, <2>1, <2>2 DEF GetLastClear, StatusOwn, ResultGenuine, TypeOK
<1>9. CASE UNCHANGED vars
  BY <1>9 DEF vars, StatusOwn, ResultGenuine
<1> QED
  BY <1>1, <1>2, <1>3, <1>4, <1>5, <1>6, <1>7, <1>8, <1>9 DEF Next

(***************************************************************************)
(* Any number of threads whose calls do not overlap (a caller that holds a *)
(* lock of its own around every call) get what NK_C_API.h promises of      *)
(* NK_get_status and the other functions that fill a structure: code zero  *)
(* with the data of the stick, any other code with the target untouched.   *)
(***************************************************************************)
THEOREM SerializedResultGenuine == Spec /\ []Serialized => []ResultGenuine
<1>1. Spec /\ []Serialized => []ResultInv
  BY ResultInvInit, ResultInvNext, PTL DEF Spec
<1>2. ResultInv => ResultGenuine
  BY DEF ResultInv
<1> QED
  BY <1>1, <1>2, PTL

\* The calls of one thread do not overlap: with a single caller the returned
\* code and the filled structure agree.
THEOREM OneThreadResultGenuine ==
  ASSUME OneThread
  PROVE  Spec => []ResultGenuine
<1>1. Serialized
  BY DEF OneThread, Serialized
<1> QED
  BY <1>1, SerializedResultGenuine, PTL

-----------------------------------------------------------------------------
(***************************************************************************)
(* One caller: the error that could not be returned stays until asked for. *)
(***************************************************************************)

KeptInv == ResultInv /\ StatusKept

\* A step of the only thread keeps StatusKept.
LEMMA KeptInvNext ==
  ASSUME OneThread, KeptInv, [Next]_vars
  PROVE  KeptInv'
<1>1. Serialized /\ Serialized'
  BY DEF OneThread, Serialized
<1>2. ResultInv'
  BY <1>1, ResultInvNext DEF KeptInv
<1> SUFFICES StatusKept'
  BY <1>2 DEF KeptInv
<1> USE DEF KeptInv, ResultInv, TypeInv
<1>3. ASSUME NEW t \in Threads, NEW f \in Called, Refuse(t, f)
      PROVE  StatusKept'
  BY <1>3 DEF Refuse, StatusKept, TypeOK
<1>4. ASSUME NEW t \in Threads, NEW f \in Called, Enter(t, f)
      PROVE  StatusKept'
  BY <1>4 DEF Enter, StatusKept, TypeOK, OneThread
<1>5. ASSUME NEW t \in Threads, FuncReturns(t)
      PROVE  StatusKept'
  BY <1>5 DEF FuncReturns, StatusKept, TypeOK, AtPc
<1>6. ASSUME NEW t \in Threads, FuncThrows(t)
      PROVE  StatusKept'
  BY <1>6 DEF FuncThrows, StatusKept, TypeOK, OneThread
<1>7. ASSUME NEW t \in Threads, SetStatus(t)
      PROVE  StatusKept'
  BY <1>7 DEF SetStatus, StatusKept, TypeOK, OneThread
<1>8. ASSUME NEW t \in Threads, Return(t)
      PROVE  StatusKept'
  <2>1. thrown[t] \in Throwable(Kind(fn[t]))
    BY <1>8 DEF Return, AtPc
  <2>2. ASSUME ~Swallowed(Kind(fn[t]), thrown[t])
        PROVE  NK_last_command_status = HandlerCode(thrown[t])
               /\ NK_last_command_status # 0
    <3>1. HandlerCode(thrown[t]) \in 1..255
      BY <2>1, <2>2, HandlerCodeNotZero
    <3> QED
      BY <1>8, <2>2, <3>1 DEF Return, StatusOwn
  <2>3. ASSUME Swallowed(Kind(fn[t]), thrown[t])
        PROVE  /\ thrown[t].class \in {"InvalidCRCReceived", "runtime_error"}
               /\ data'[t] # "fallback"
    <3>1. Kind(fn[t]) \notin {"value", "struct"}
      BY <2>3, SwallowedClass
    <3>2. data'[t] # "fallback"
      BY <1>8, <3>1, FallbackKind DEF Return, TypeOK
    <3> QED
      BY <2>3, <3>2, SwallowedClass
  <2>4. \A u \in Threads : u = t
    BY DEF OneThread
  <2>5. UNCHANGED <<thrown, NK_last_command_status>>
    BY <1>8 DEF Return
  <2> QED
    BY <2>2, <2>3, <2>4, <2>5 DEF StatusKept
<1>9. ASSUME NEW t \in Threads, GetLastCopy(t)
      PROVE  StatusKept'
  BY <1>9 DEF GetLastCopy, StatusKept, TypeOK
<1>10. ASSUME NEW t \in Threads, GetLastClear(t)
      PROVE  StatusKept'
  BY <1>10 DEF GetLastClear, StatusKept, TypeOK, OneThread
<1>11. CASE UNCHANGED vars
  BY <1>11 DEF vars, StatusKept
<1> QED
  BY <1>3, <1>4, <1>5, <1>6, <1>7, <1>8, <1>9, <1>10, <1>11 DEF Next

\* With a single caller an error that a function could not return is what
\* NK_get_last_command_status finds, until it has been asked for.
THEOREM OneThreadStatusKept ==
  ASSUME OneThread
  PROVE  Spec => []StatusKept
<1>1. Init => KeptInv
  BY ResultInvInit DEF Init, KeptInv, StatusKept
<1>2. KeptInv /\ [Next]_vars => KeptInv'
  BY KeptInvNext
<1>3. KeptInv => StatusKept
  BY DEF KeptInv
<1> QED
  BY <1>1, <1>2, <1>3, PTL DEF Spec

=============================================================================
