----------------------------- MODULE LocksProofs -----------------------------
(***************************************************************************)
(* Proofs about the locks, for any number of threads, calls and polls.     *)
(*                                                                         *)
(* The mutexes are ordered: instance, manager, exchange, device.  Every    *)
(* function has a lowest mutex that it or a function below it takes (its   *)
(* floor), and the table of calls shows that a function which holds a      *)
(* mutex calls only functions with a higher floor (Nested).  A mutex       *)
(* belongs to the thread that has its guard on the stack (Owned).  So the  *)
(* mutex that a thread waits for is above all that it holds; a cycle of    *)
(* waiting threads would go up for ever, and there are four mutexes.       *)
(***************************************************************************)
EXTENDS Locks, SequenceTheorems, TLAPS

\* The order in which mutexes are taken.
Rank(l) ==
  CASE l = "instance" -> 1
    [] l = "manager" -> 2
    [] l = "exchange" -> 3
    [] l = "device" -> 4
    [] OTHER -> 0

\* The rank of the lowest mutex that a call of fn can take.
Floor(fn) ==
  CASE fn \in DeviceCalls -> 4
    [] fn \in {"run", "command", "list_one"} -> 3
    [] fn \in ManagerCalls \cup {"listing", "list_devices_by_cpuID"} -> 2
    [] OTHER -> 1

\* The functions that fn calls, from its body or from a handler.
Callees(fn) ==
  CASE fn = "api" -> {"instance"} \cup Operations
    [] fn \in {"connect", "connect_model", "connect_with_path"} ->
         {"dev_connect", "destroy"}
    [] fn = "connect_with_ID" -> {"destroy", "command", "dev_disconnect"}
    [] fn = "is_connected" -> {"dev_enumerated", "dev_disconnect", "destroy"}
    [] fn = "could_be_enumerated" -> {"dev_enumerated"}
    [] fn = "disconnect" -> {"dev_disconnect", "destroy"}
    [] fn = "set_speed" -> {"set_receiving_delay", "set_retry_delay"}
    [] fn = "list_devices_by_cpuID" -> {"disconnect", "listing"}
    [] fn = "listing" -> {"dev_disconnect", "destroy", "list_one"}
    [] fn = "list_one" -> {"dev_connect", "destroy", "command"}
    [] fn = "run" -> {"send", "recv"}
    [] fn = "command" -> {"run", "destroy"}
    [] OTHER -> {}

\* The functions that an exception can pass through, and those it can leave.
Receivers == {"run", "command", "connect_with_ID", "list_one", "listing",
              "list_devices_by_cpuID", "api"}
Throwers == (Receivers \ {"api"}) \cup {"send", "recv", "connect_model"}

\* A call of g may be made below a call of f.
Below(f, g) == Floor(f) <= Floor(g) /\ Rank(Guard(f)) < Floor(g)

-----------------------------------------------------------------------------

Frames == [fn : Functions, in : BOOLEAN, rest : SUBSET Seq(Functions),
           exc : Exceptions \cup {"none"}]

FrameOK(f) ==
  /\ f \in Frames
  /\ f.rest \subseteq Seq(Callees(f.fn))
  /\ f.in \/ Guard(f.fn) # "none"
  /\ f.exc # "none" => f.fn \in Receivers

\* The stack of a thread: the C API first, each call made by the one before
\* it, all but the innermost inside their mutex, and the order of the mutexes.
StackOK(s) ==
  /\ s \in Seq(Frames)
  /\ \A i \in 1..Len(s) : FrameOK(s[i])
  /\ s # <<>> => s[1].fn = "api"
  /\ \A i \in 2..Len(s) : s[i].fn \in Callees(s[i - 1].fn)
  /\ \A i \in 1..(Len(s) - 1) : s[i].in
  /\ \A j \in 1..Len(s) : \A i \in 1..(j - 1) : Below(s[i].fn, s[j].fn)

\* One of the calls of the stack is inside mutex l.
Holds(s, l) == \E i \in 1..Len(s) : s[i].in /\ Guard(s[i].fn) = l

Nested ==
  /\ stack \in [Threads -> Seq(Frames)]
  /\ \A t \in Threads : StackOK(stack[t])

Owned == \A t \in Threads : \A l \in Locks : owner[l] = t <=> Holds(stack[t], l)

LInv ==
  /\ owner \in [Locks -> Threads \cup {Nobody}]
  /\ calls \in [Threads -> 0..MaxCalls]
  /\ Nested
  /\ Owned

-----------------------------------------------------------------------------
(***************************************************************************)
(* The table of calls.                                                     *)
(***************************************************************************)

\* Every function is guarded by one of the four mutexes or by none.
LEMMA GuardTyped ==
  ASSUME NEW fn
  PROVE  Guard(fn) \in Locks \cup {"none"}
BY DEF Guard, Locks

\* The mutexes have the ranks 1 to 4.
LEMMA RankTyped ==
  /\ \A l \in Locks : Rank(l) \in 1..4
  /\ Rank("none") = 0
BY DEF Rank, Locks

\* Every function has a floor among the ranks of the mutexes.
LEMMA FloorTyped ==
  ASSUME NEW fn
  PROVE  Floor(fn) \in 1..4
BY DEF Floor

\* What a function is guarded by is the lowest mutex that it takes.
LEMMA FloorOfGuard ==
  ASSUME NEW fn \in Functions, Guard(fn) # "none"
  PROVE  Floor(fn) = Rank(Guard(fn))
BY DEF Functions, Operations, DeviceCalls, ManagerCalls, Guard, Floor, Rank

\* The table of calls names functions of the library only.
LEMMA CalleesTyped ==
  ASSUME NEW fn \in Functions
  PROVE  Callees(fn) \subseteq Functions
BY DEF Functions, Operations, DeviceCalls, ManagerCalls, Callees

\* A function calls only functions whose mutexes are above its own: the
\* manager's operations exchange, exchanges use the device, and a device
\* calls nobody.
LEMMA CallsGoUp ==
  ASSUME NEW f \in Functions, NEW g \in Callees(f)
  PROVE  Below(f, g)
<1>1. CASE f = "api"
  BY <1>1 DEF Callees, Below, Guard, Floor, Rank, Operations, ManagerCalls,
              DeviceCalls
<1>2. CASE f \in ManagerCalls
  BY <1>2 DEF Callees, Below, Guard, Floor, Rank, ManagerCalls, DeviceCalls
<1>3. CASE f \in DeviceCalls
  BY <1>3 DEF Callees, DeviceCalls
<1>4. CASE f \in {"list_devices_by_cpuID", "command", "instance", "listing",
                  "list_one", "run"}
  BY <1>4 DEF Callees, Below, Guard, Floor, Rank, ManagerCalls, DeviceCalls
<1> QED
  BY <1>1, <1>2, <1>3, <1>4 DEF Functions, Operations

\* Below is transitive along a stack.
LEMMA BelowTrans ==
  ASSUME NEW f, NEW g, NEW h, Below(f, g), Below(g, h)
  PROVE  Below(f, h)
<1>1. Floor(f) \in Int /\ Floor(g) \in Int /\ Floor(h) \in Int
  BY FloorTyped
<1>2. Rank(Guard(f)) \in Int
  BY GuardTyped, RankTyped
<1> QED
  BY <1>1, <1>2 DEF Below

\* send and recv are called by run() only.
LEMMA TransfersInRun ==
  ASSUME NEW f \in Functions, NEW g \in Callees(f), g \in {"send", "recv"}
  PROVE  f = "run"
BY DEF Functions, Operations, DeviceCalls, ManagerCalls, Callees

\* Who calls a function that throws is prepared for an exception.
LEMMA ThrowersInReceivers ==
  ASSUME NEW f \in Functions, NEW g \in Callees(f), g \in Throwers
  PROVE  f \in Receivers
BY DEF Functions, Operations, DeviceCalls, ManagerCalls, Callees, Throwers,
       Receivers

-----------------------------------------------------------------------------
(***************************************************************************)
(* Bodies and handlers make the calls of the table.                        *)
(***************************************************************************)

\* A single call of the table.
LEMMA CallIn ==
  ASSUME NEW S, NEW g \in S
  PROVE  Call(g) \subseteq Seq(S)
BY DEF Call

\* An optional part makes no other calls.
LEMMA OptIn ==
  ASSUME NEW S, NEW A, A \subseteq Seq(S)
  PROVE  Opt(A) \subseteq Seq(S)
<1>1. <<>> \in Seq(S)
  OBVIOUS
<1> QED
  BY <1>1, Zenon DEF Opt

\* Two parts in a row make the calls of both.
LEMMA ThenIn ==
  ASSUME NEW S, NEW A, NEW B, A \subseteq Seq(S), B \subseteq Seq(S)
  PROVE  Then(A, B) \subseteq Seq(S)
<1> SUFFICES ASSUME NEW x \in Then(A, B) PROVE x \in Seq(S)
  OBVIOUS
<1>1. PICK a \in A, b \in B : x = a \o b
  BY DEF Then
<1> QED
  BY <1>1, ConcatProperties

\* The last shared_ptr goes, or does not.
LEMMA DestroyedIn ==
  ASSUME NEW S, "destroy" \in S
  PROVE  Destroyed \subseteq Seq(S)
BY CallIn, OptIn DEF Destroyed

\* _disconnect_no_lock closes the device and may destroy it.
LEMMA DisconnectNoLockIn ==
  ASSUME NEW S, "destroy" \in S, "dev_disconnect" \in S
  PROVE  DisconnectNoLock \subseteq Seq(S)
BY CallIn, OptIn, ThenIn, DestroyedIn DEF DisconnectNoLock

\* The polls of an exchange, whatever their number.
LEMMA RunBodyIn ==
  ASSUME NEW S, "send" \in S, "recv" \in S
  PROVE  RunBody \subseteq Seq(S)
<1>1. ASSUME NEW n \in 1..MaxPolls
      PROVE  <<"send">> \o [i \in 1..n |-> "recv"] \in Seq(S)
  <2>1. [i \in 1..n |-> "recv"] \in Seq(S)
    BY LocksAssumption DEF LocksAssumption
  <2>2. <<"send">> \in Seq(S)
    OBVIOUS
  <2> QED
    BY <2>1, <2>2, ConcatProperties
<1> QED
  BY <1>1 DEF RunBody


\* The body of every function makes calls of the table only.
LEMMA BodyIn ==
  ASSUME NEW fn \in Functions
  PROVE  Body(fn) \subseteq Seq(Callees(fn))
<1> DEFINE S == Callees(fn)
<1>1. CASE fn = "connect"
  <2>1. "dev_connect" \in S /\ "destroy" \in S
    BY <1>1 DEF Callees
  <2> HIDE DEF S
  <2>2. Then(Call("dev_connect"), Destroyed) \subseteq Seq(S)
    BY <2>1, CallIn, DestroyedIn, ThenIn
  <2>3. {<<"destroy", "destroy">>, <<"destroy", "destroy", "destroy">>}
          \subseteq Seq(S)
    BY <2>1
  <2>4. ConnectBody \subseteq Seq(S)
    BY <2>2, <2>3, ThenIn, Zenon DEF ConnectBody
  <2> QED
    BY <1>1, <2>4 DEF Body, S
<1>2. CASE fn = "connect_model"
  <2>1. "dev_connect" \in S /\ "destroy" \in S
    BY <1>2 DEF Callees
  <2> HIDE DEF S
  <2>2. ConnectModelBody \subseteq Seq(S)
    BY <2>1, CallIn, DestroyedIn, ThenIn DEF ConnectModelBody
  <2> QED
    BY <1>2, <2>2 DEF Body, S
<1>3. CASE fn = "connect_with_ID"
  <2>1. "command" \in S /\ "destroy" \in S
    BY <1>3 DEF Callees
  <2> HIDE DEF S
  <2>2. ConnectWithIDBody \subseteq Seq(S)
    BY <2>1, CallIn, DestroyedIn, ThenIn, OptIn DEF ConnectWithIDBody
  <2> QED
    BY <1>3, <2>2 DEF Body, S
<1>4. CASE fn = "connect_with_path"
  <2>1. "dev_connect" \in S /\ "destroy" \in S
    BY <1>4 DEF Callees
  <2> HIDE DEF S
  <2>2. {<<"dev_connect", "destroy">>} \subseteq Seq(S)
    BY <2>1
  <2>3. {<<"dev_connect", "destroy">>} \cup Call("dev_connect") \subseteq Seq(S)
    BY <2>1, <2>2, CallIn, Zenon
  <2>4. ConnectWithPathBody \subseteq Seq(S)
    BY <2>2, <2>3, ThenIn, OptIn DEF ConnectWithPathBody
  <2> QED
    BY <1>4, <2>4 DEF Body, S
<1>5. CASE fn = "is_connected"
  <2>1. "dev_enumerated" \in S /\ "dev_disconnect" \in S /\ "destroy" \in S
    BY <1>5 DEF Callees
  <2> HIDE DEF S
  <2>2. IsConnectedBody \subseteq Seq(S)
    BY <2>1, CallIn, DisconnectNoLockIn, ThenIn, OptIn DEF IsConnectedBody
  <2> QED
    BY <1>5, <2>2 DEF Body, S
<1>6. CASE fn = "could_be_enumerated"
  <2>1. "dev_enumerated" \in S
    BY <1>6 DEF Callees
  <2> HIDE DEF S
  <2>2. Opt(Call("dev_enumerated")) \subseteq Seq(S)
    BY <2>1, CallIn, OptIn
  <2> QED
    BY <1>6, <2>2 DEF Body, S
<1>7. CASE fn = "disconnect"
  <2>1. "dev_disconnect" \in S /\ "destroy" \in S
    BY <1>7 DEF Callees
  <2> HIDE DEF S
  <2> QED
    BY <1>7, <2>1, DisconnectNoLockIn DEF Body, S
<1>8. CASE fn = "set_speed"
  <2>1. {<<"set_receiving_delay", "set_retry_delay">>} \subseteq Seq(S)
    BY <1>8 DEF Callees
  <2> HIDE DEF S
  <2>2. SetSpeedBody \subseteq Seq(S)
    BY <2>1, OptIn DEF SetSpeedBody
  <2> QED
    BY <1>8, <2>2 DEF Body, S
<1>9. CASE fn = "list_devices_by_cpuID"
  BY <1>9 DEF Callees, Body, ListDevicesByCpuIDBody
<1>10. CASE fn = "listing"
  <2>1. "dev_disconnect" \in S /\ "destroy" \in S /\ "list_one" \in S
    BY <1>10 DEF Callees
  <2> HIDE DEF S
  <2>2. Opt(Then(Call("dev_disconnect"), Destroyed)) \subseteq Seq(S)
    BY <2>1, CallIn, DestroyedIn, ThenIn, OptIn
  <2>3. Opt(Then(Call("list_one"), Opt(Call("list_one")))) \subseteq Seq(S)
    BY <2>1, CallIn, ThenIn, OptIn
  <2>4. ListingBody \subseteq Seq(S)
    BY <2>2, <2>3, ThenIn DEF ListingBody
  <2> QED
    BY <1>10, <2>4 DEF Body, S
<1>11. CASE fn = "list_one"
  <2>1. "dev_connect" \in S /\ "destroy" \in S /\ "command" \in S
    BY <1>11 DEF Callees
  <2> HIDE DEF S
  <2>2. Then(Destroyed, Call("command")) \subseteq Seq(S)
    BY <2>1, CallIn, DestroyedIn, ThenIn
  <2>3. Call("destroy") \cup Then(Destroyed, Call("command")) \subseteq Seq(S)
    BY <2>1, <2>2, CallIn, Zenon
  <2>4. ListOneBody \subseteq Seq(S)
    BY <2>1, <2>3, CallIn, ThenIn DEF ListOneBody
  <2> QED
    BY <1>11, <2>4 DEF Body, S
<1>12. CASE fn = "run"
  <2>1. "send" \in S /\ "recv" \in S
    BY <1>12 DEF Callees
  <2> HIDE DEF S
  <2> QED
    BY <1>12, <2>1, RunBodyIn DEF Body, S
<1>13. CASE fn = "command"
  <2>1. "run" \in S /\ "destroy" \in S
    BY <1>13 DEF Callees
  <2> HIDE DEF S
  <2>2. CommandBody \subseteq Seq(S)
    BY <2>1, CallIn, DestroyedIn, ThenIn DEF CommandBody
  <2> QED
    BY <1>13, <2>2 DEF Body, S
<1>14. CASE fn \in DeviceCalls \cup {"api", "instance", "list_devices"}
  <2>1. Body(fn) = {<<>>}
    BY <1>14 DEF Body, DeviceCalls
  <2> HIDE DEF S
  <2>2. <<>> \in Seq(S)
    OBVIOUS
  <2> QED
    BY <2>1, <2>2 DEF S
<1>15. \/ fn \in {"connect", "connect_model", "connect_with_ID",
                  "connect_with_path", "is_connected", "could_be_enumerated",
                  "disconnect", "set_speed"}
       \/ fn \in {"list_devices_by_cpuID", "listing", "list_one", "run",
                  "command"}
       \/ fn \in DeviceCalls \cup {"api", "instance", "list_devices"}
  BY DEF Functions, Operations, ManagerCalls
<1> HIDE DEF S
<1> QED
  BY <1>1, <1>2, <1>3, <1>4, <1>5, <1>6, <1>7, <1>8, <1>9, <1>10, <1>11,
     <1>12, <1>13, <1>14, <1>15

\* So do the handlers.
LEMMA HandlerIn ==
  ASSUME NEW fn \in Functions, NEW e
  PROVE  Handler(fn, e) \subseteq Seq(Callees(fn))
<1>1. CASE fn = "connect_with_ID" /\ e = "comm"
  <2>1. "dev_disconnect" \in Callees(fn)
    BY <1>1 DEF Callees
  <2> QED
    BY <1>1, <2>1, CallIn DEF Handler
<1>2. CASE ~(fn = "connect_with_ID" /\ e = "comm")
  <2>1. Handler(fn, e) \subseteq {<<>>}
    BY <1>2 DEF Handler
  <2>2. <<>> \in Seq(Callees(fn))
    OBVIOUS
  <2> QED
    BY <2>1, <2>2
<1> QED
  BY <1>1, <1>2

-----------------------------------------------------------------------------
(***************************************************************************)
(* Stacks: what replacing, adding and removing the innermost call keeps.   *)
(***************************************************************************)

\* A stack without its innermost call.
LEMMA CutFacts ==
  ASSUME NEW S, NEW s \in Seq(S), s # <<>>
  PROVE  /\ Len(s) \in Nat \ {0}
         /\ SubSeq(s, 1, Len(s) - 1) \in Seq(S)
         /\ Len(SubSeq(s, 1, Len(s) - 1)) = Len(s) - 1
         /\ \A i \in 1..(Len(s) - 1) : SubSeq(s, 1, Len(s) - 1)[i] = s[i]
<1>1. Len(s) \in Nat \ {0}
  BY EmptySeq, LenProperties
<1>2. \A i \in 1..(Len(s) - 1) : s[i] \in S
  BY <1>1, ElementOfSeq
<1>3. SubSeq(s, 1, Len(s) - 1) = [i \in 1..(Len(s) - 1) |-> s[i]]
  BY <1>1
<1>4. [i \in 1..(Len(s) - 1) |-> s[i]] \in Seq(S)
  BY <1>1, <1>2
<1>5. SubSeq(s, 1, Len(s) - 1) \in Seq(S)
  BY <1>3, <1>4
<1>6. Len(SubSeq(s, 1, Len(s) - 1)) = Len(s) - 1
  <2> DEFINE n == Len(s) - 1
  <2>1. 1 \in Int /\ n \in Int /\ \A i \in 1..n : s[i] \in S
    BY <1>1, <1>2
  <2> HIDE DEF n
  <2>2. Len(SubSeq(s, 1, n)) = IF 1 <= n THEN n - 1 + 1 ELSE 0
    BY <2>1, SubSeqProperties
  <2>3. n \in Nat
    BY <1>1 DEF n
  <2>4. Len(SubSeq(s, 1, n)) = n
    BY <2>2, <2>3
  <2> QED
    BY <2>4, Zenon DEF n
<1>7. \A i \in 1..(Len(s) - 1) : SubSeq(s, 1, Len(s) - 1)[i] = s[i]
  BY <1>3, Zenon
<1> QED
  BY <1>1, <1>5, <1>6, <1>7

\* A stack with another innermost call.
LEMMA PutFacts ==
  ASSUME NEW S, NEW s \in Seq(S), s # <<>>, NEW f \in S
  PROVE  LET r == Append(SubSeq(s, 1, Len(s) - 1), f)
         IN /\ r \in Seq(S)
            /\ Len(r) = Len(s)
            /\ r[Len(s)] = f
            /\ \A i \in 1..(Len(s) - 1) : r[i] = s[i]
<1> DEFINE c == SubSeq(s, 1, Len(s) - 1)
<1>1. /\ Len(s) \in Nat \ {0}
      /\ c \in Seq(S)
      /\ Len(c) = Len(s) - 1
      /\ \A i \in 1..(Len(s) - 1) : c[i] = s[i]
  BY CutFacts
<1> HIDE DEF c
<1>2. /\ Append(c, f) \in Seq(S)
      /\ Len(Append(c, f)) = Len(c) + 1
      /\ Append(c, f)[Len(c) + 1] = f
      /\ \A i \in 1..Len(c) : Append(c, f)[i] = c[i]
  BY <1>1, AppendProperties
<1> QED
  BY <1>1, <1>2 DEF c

\* r is s with another innermost call of the same function.
SameShape(s, r) ==
  /\ r \in Seq(Frames)
  /\ Len(r) = Len(s)
  /\ \A i \in 1..(Len(s) - 1) : r[i] = s[i]
  /\ FrameOK(r[Len(s)])
  /\ r[Len(s)].fn = s[Len(s)].fn

\* The innermost call may change its state.
LEMMA ReplaceOK ==
  ASSUME NEW s, StackOK(s), s # <<>>, NEW r, SameShape(s, r)
  PROVE  StackOK(r)
<1>1. Len(s) \in Nat \ {0}
  BY CutFacts DEF StackOK
<1> DEFINE n == Len(s)
<1>2. Len(r) = n /\ r \in Seq(Frames)
  BY DEF SameShape
<1>3. \A i \in 1..n : r[i].fn = s[i].fn
  BY <1>1 DEF SameShape
<1>4. \A i \in 1..n : FrameOK(r[i])
  BY <1>1 DEF SameShape, StackOK
<1>5. r[1].fn = "api"
  BY <1>1, <1>3 DEF StackOK
<1>6. \A i \in 2..n : r[i].fn \in Callees(r[i - 1].fn)
  BY <1>1, <1>3 DEF StackOK
<1>7. \A i \in 1..(n - 1) : r[i].in
  BY <1>1 DEF StackOK, SameShape
<1>8. \A j \in 1..n : \A i \in 1..(j - 1) : Below(r[i].fn, r[j].fn)
  BY <1>1, <1>3 DEF StackOK
<1> QED
  BY <1>2, <1>4, <1>5, <1>6, <1>7, <1>8 DEF StackOK

\* A call that is inside its mutex may call what the table allows.
LEMMA PushOK ==
  ASSUME NEW s, StackOK(s), s # <<>>, s[Len(s)].in,
         NEW f, FrameOK(f), f.fn \in Callees(s[Len(s)].fn)
  PROVE  StackOK(Append(s, f))
<1> DEFINE n == Len(s)
           r == Append(s, f)
<1>1. n \in Nat \ {0}
  BY CutFacts DEF StackOK
<1>2. /\ r \in Seq(Frames)
      /\ Len(r) = n + 1
      /\ r[n + 1] = f
      /\ \A i \in 1..n : r[i] = s[i]
  BY AppendProperties DEF StackOK, FrameOK
<1> HIDE DEF n, r
<1>3. \A i \in 1..(n + 1) : FrameOK(r[i])
  BY <1>1, <1>2 DEF StackOK, n
<1>4. r[1].fn = "api"
  BY <1>1, <1>2 DEF StackOK, n
<1>5. \A i \in 2..(n + 1) : r[i].fn \in Callees(r[i - 1].fn)
  <2>1. ASSUME NEW i \in 2..n PROVE r[i].fn \in Callees(r[i - 1].fn)
    BY <1>1, <1>2 DEF StackOK, n
  <2>2. r[n + 1].fn \in Callees(r[(n + 1) - 1].fn)
    BY <1>1, <1>2 DEF n
  <2>3. \A i \in 2..(n + 1) : i \in 2..n \/ i = n + 1
    BY <1>1
  <2> QED
    BY <2>1, <2>2, <2>3
<1>6. \A i \in 1..n : r[i].in
  <2>1. \A i \in 1..(n - 1) : r[i].in
    BY <1>1, <1>2 DEF StackOK, n
  <2>2. r[n].in
    BY <1>1, <1>2 DEF n
  <2> QED
    BY <1>1, <2>1, <2>2
<1>7. \A j \in 1..(n + 1) : \A i \in 1..(j - 1) : Below(r[i].fn, r[j].fn)
  <2>1. Below(s[n].fn, f.fn)
    <3>1. s[n].fn \in Functions
      BY <1>1 DEF StackOK, FrameOK, Frames, n
    <3> QED
      BY <3>1, CallsGoUp DEF n
  <2>2. ASSUME NEW i \in 1..n PROVE Below(s[i].fn, f.fn)
    <3>1. CASE i = n
      BY <2>1, <3>1
    <3>2. CASE i # n
      <4>1. Below(s[i].fn, s[n].fn)
        BY <1>1, <3>2 DEF StackOK, n
      <4> QED
        BY <2>1, <4>1, BelowTrans
    <3> QED
      BY <3>1, <3>2
  <2>3. ASSUME NEW j \in 1..n, NEW i \in 1..(j - 1)
        PROVE  Below(r[i].fn, r[j].fn)
    BY <1>1, <1>2 DEF StackOK, n
  <2> QED
    BY <1>1, <1>2, <2>2, <2>3
<1> QED
  BY <1>1, <1>2, <1>3, <1>4, <1>5, <1>6, <1>7 DEF StackOK, r

\* Removing the innermost call keeps the rest in order.
LEMMA PopOK ==
  ASSUME NEW s, StackOK(s), s # <<>>
  PROVE  StackOK(SubSeq(s, 1, Len(s) - 1))
<1> DEFINE n == Len(s)
           r == SubSeq(s, 1, Len(s) - 1)
<1>1. /\ n \in Nat \ {0}
      /\ r \in Seq(Frames)
      /\ Len(r) = n - 1
      /\ \A i \in 1..(n - 1) : r[i] = s[i]
  BY CutFacts DEF StackOK
<1> HIDE DEF n, r
<1>2. r # <<>> => n - 1 \in Nat \ {0}
  BY <1>1, EmptySeq
<1>3. r # <<>> => r[1].fn = "api"
  BY <1>1, <1>2 DEF StackOK, n
<1>4. \A i \in 1..(n - 1) : FrameOK(r[i])
  BY <1>1 DEF StackOK, n
<1>5. \A i \in 2..(n - 1) : r[i].fn \in Callees(r[i - 1].fn)
  BY <1>1 DEF StackOK, n
<1>6. \A i \in 1..(n - 2) : r[i].in
  BY <1>1 DEF StackOK, n
<1>7. \A j \in 1..(n - 1) : \A i \in 1..(j - 1) : Below(r[i].fn, r[j].fn)
  <2>1. ASSUME NEW j \in 1..(n - 1), NEW i \in 1..(j - 1)
        PROVE  Below(r[i].fn, r[j].fn)
    <3>1. r[i] = s[i] /\ r[j] = s[j] /\ j \in 1..n
      BY <1>1
    <3> QED
      BY <3>1 DEF StackOK, n
  <2> QED
    BY <2>1
<1> QED
  BY <1>1, <1>3, <1>4, <1>5, <1>6, <1>7 DEF StackOK, r

\* A call that is inside its mutex and calls on holds what it held.
LEMMA HoldsSame ==
  ASSUME NEW s, StackOK(s), s # <<>>, NEW r, SameShape(s, r),
         r[Len(s)].in = s[Len(s)].in, NEW l
  PROVE  Holds(r, l) <=> Holds(s, l)
<1>1. Len(s) \in Nat \ {0}
  BY CutFacts DEF StackOK
<1>2. \A i \in 1..Len(s) : r[i].fn = s[i].fn /\ r[i].in = s[i].in
  BY <1>1 DEF SameShape
<1> QED
  BY <1>2 DEF Holds, SameShape

\* Entering a mutex adds it to those that are held.
LEMMA HoldsEnter ==
  ASSUME NEW s, StackOK(s), s # <<>>, NEW r, SameShape(s, r),
         r[Len(s)].in, ~s[Len(s)].in, NEW l
  PROVE  Holds(r, l) <=> Holds(s, l) \/ l = Guard(s[Len(s)].fn)
<1>1. Len(s) \in Nat \ {0}
  BY CutFacts DEF StackOK
<1>2. \A i \in 1..(Len(s) - 1) : r[i].fn = s[i].fn /\ r[i].in = s[i].in
  BY <1>1 DEF SameShape
<1> QED
  BY <1>1, <1>2 DEF Holds, SameShape

\* A new call holds no mutex of its own yet.
LEMMA HoldsPush ==
  ASSUME NEW s, StackOK(s), NEW f, FrameOK(f),
         f.in => Guard(f.fn) = "none", NEW l \in Locks
  PROVE  Holds(Append(s, f), l) <=> Holds(s, l)
<1> DEFINE n == Len(s)
           r == Append(s, f)
<1>1. /\ n \in Nat
      /\ Len(r) = n + 1
      /\ r[n + 1] = f
      /\ \A i \in 1..n : r[i] = s[i]
  BY AppendProperties, LenProperties DEF StackOK, FrameOK
<1> HIDE DEF n, r
<1>2. ~(f.in /\ Guard(f.fn) = l)
  BY DEF Locks
<1> QED
  BY <1>1, <1>2 DEF Holds, n, r

\* The innermost call leaves: its mutex is held by no call that remains, so
\* lock_guard gives it up for the whole thread.
LEMMA HoldsPop ==
  ASSUME NEW s, StackOK(s), s # <<>>, s[Len(s)].in, NEW l \in Locks
  PROVE  Holds(SubSeq(s, 1, Len(s) - 1), l)
           <=> Holds(s, l) /\ l # Guard(s[Len(s)].fn)
<1> DEFINE n == Len(s)
           r == SubSeq(s, 1, Len(s) - 1)
<1>1. /\ n \in Nat \ {0}
      /\ Len(r) = n - 1
      /\ \A i \in 1..(n - 1) : r[i] = s[i]
  BY CutFacts DEF StackOK
<1> HIDE DEF n, r
<1>2. ASSUME NEW i \in 1..(n - 1) PROVE Guard(s[i].fn) # l \/ Guard(s[n].fn) # l
  <2> SUFFICES ASSUME Guard(s[i].fn) = l, Guard(s[n].fn) = l PROVE FALSE
    OBVIOUS
  <2>1. Below(s[i].fn, s[n].fn)
    BY <1>1 DEF StackOK, n
  <2>2. s[n].fn \in Functions
    BY <1>1 DEF StackOK, FrameOK, Frames, n
  <2>3. l # "none"
    BY DEF Locks
  <2>4. Floor(s[n].fn) = Rank(l)
    BY <2>2, <2>3, FloorOfGuard
  <2>5. Rank(l) \in 1..4
    BY RankTyped
  <2> QED
    BY <2>1, <2>4, <2>5 DEF Below
<1>3. Holds(r, l) => Holds(s, l) /\ l # Guard(s[n].fn)
  <2> SUFFICES ASSUME Holds(r, l) PROVE Holds(s, l) /\ l # Guard(s[n].fn)
    OBVIOUS
  <2>1. PICK i \in 1..(n - 1) : r[i].in /\ Guard(r[i].fn) = l
    BY <1>1 DEF Holds
  <2> QED
    BY <1>1, <1>2, <2>1 DEF Holds, n
<1>4. Holds(s, l) /\ l # Guard(s[n].fn) => Holds(r, l)
  BY <1>1 DEF Holds, n
<1> QED
  BY <1>3, <1>4 DEF n, r

-----------------------------------------------------------------------------
(***************************************************************************)
(* Frames: a new call, what an exception does to it, and how it ends.      *)
(***************************************************************************)

\* Calls of the table are calls of functions of the library.
LEMMA RestTyped ==
  ASSUME NEW fn \in Functions, NEW A, A \subseteq Seq(Callees(fn))
  PROVE  A \in SUBSET Seq(Functions)
<1>1. Seq(Callees(fn)) \subseteq Seq(Functions)
  BY CalleesTyped, SeqMonotonic
<1> QED
  BY <1>1

\* A function that is called has its whole body to do, and waits for its mutex
\* if it has one.
LEMMA FrameNew ==
  ASSUME NEW fn \in Functions
  PROVE  /\ FrameOK(Frame(fn))
         /\ Frame(fn).fn = fn
         /\ Frame(fn).in => Guard(fn) = "none"
<1>1. Body(fn) \in SUBSET Seq(Functions) /\ Body(fn) \subseteq Seq(Callees(fn))
  BY BodyIn, RestTyped
<1>2. (Guard(fn) = "none") \in BOOLEAN
  OBVIOUS
<1>3. Frame(fn) \in Frames
  BY <1>1, <1>2 DEF Frame, Frames
<1> QED
  BY <1>1, <1>3 DEF Frame, FrameOK

\* A call gets its mutex.
LEMMA FrameEnter ==
  ASSUME NEW f, FrameOK(f)
  PROVE  LET g == [f EXCEPT !.in = TRUE]
         IN FrameOK(g) /\ g.fn = f.fn /\ g.in
BY DEF FrameOK, Frames

\* A call has other things left to do.
LEMMA FrameRest ==
  ASSUME NEW f, FrameOK(f), NEW A, A \subseteq Seq(Callees(f.fn))
  PROVE  LET g == [f EXCEPT !.rest = A]
         IN FrameOK(g) /\ g.fn = f.fn /\ g.in = f.in
<1>1. f.fn \in Functions
  BY DEF FrameOK, Frames
<1>2. A \in SUBSET Seq(Functions)
  BY <1>1, RestTyped
<1> QED
  BY <1>2 DEF FrameOK, Frames

\* A call catches its exception.
LEMMA FrameCatch ==
  ASSUME NEW f, FrameOK(f), NEW A, A \subseteq Seq(Callees(f.fn))
  PROVE  LET g == [f EXCEPT !.rest = A, !.exc = "none"]
         IN FrameOK(g) /\ g.fn = f.fn /\ g.in = f.in
<1>1. f.fn \in Functions
  BY DEF FrameOK, Frames
<1>2. A \in SUBSET Seq(Functions)
  BY <1>1, RestTyped
<1> QED
  BY <1>2 DEF FrameOK, Frames

\* A call whose callee threw e has e to deal with.
LEMMA FrameThrow ==
  ASSUME NEW f, FrameOK(f), NEW e \in Exceptions \cup {"none"},
         e # "none" => f.fn \in Receivers
  PROVE  LET g == [f EXCEPT !.exc = IF e = "none" THEN @ ELSE e]
         IN FrameOK(g) /\ g.fn = f.fn /\ g.in = f.in
BY DEF FrameOK, Frames

\* The next call is one of the table, and so are those after it.
LEMMA RestSteps ==
  ASSUME NEW S, NEW w \in Seq(S), w # <<>>
  PROVE  w[1] \in S /\ Tail(w) \in Seq(S)
<1>1. Len(w) \in Nat \ {0}
  BY CutFacts
<1>2. w[1] \in S
  BY <1>1, ElementOfSeq
<1> QED
  BY <1>2, HeadTailProperties

\* Exceptions end only functions that can throw; the C API lets none out.
LEMMA EndingsTyped ==
  ASSUME NEW f, FrameOK(f), NEW e \in Endings(f)
  PROVE  /\ e \in Exceptions \cup {"none"}
         /\ e # "none" => f.fn \in Throwers
<1>1. CASE f.exc # "none"
  <2>1. e = f.exc /\ Handler(f.fn, f.exc) = {}
    BY <1>1 DEF Endings
  <2>2. f.fn # "api"
    BY <2>1 DEF Handler
  <2>3. f.fn \in Receivers /\ f.exc \in Exceptions \cup {"none"}
    BY <1>1 DEF FrameOK, Frames
  <2> QED
    BY <2>1, <2>2, <2>3 DEF Throwers
<1>2. CASE f.exc = "none"
  <2>1. e = "none" \/ e \in Raises(f.fn, f.rest)
    BY <1>2 DEF Endings
  <2>2. Raises(f.fn, f.rest) \subseteq Exceptions
    BY DEF Raises, Exceptions
  <2>3. Raises(f.fn, f.rest) # {} =>
          f.fn \in {"send", "recv", "run", "connect_model"}
    BY DEF Raises
  <2> QED
    BY <2>1, <2>2, <2>3 DEF Throwers, Receivers
<1> QED
  BY <1>1, <1>2

-----------------------------------------------------------------------------
(***************************************************************************)
(* The invariant.                                                          *)
(***************************************************************************)

\* A thread outside the library holds nothing.
LEMMA EmptyStack ==
  /\ StackOK(<<>>)
  /\ \A l : ~Holds(<<>>, l)
<1>1. <<>> \in Seq(Frames) /\ Len(<<>>) = 0
  BY EmptySeq
<1> QED
  BY <1>1 DEF StackOK, Holds

\* At first no thread is inside the library and every mutex is free.
LEMMA LInvInit == Init => LInv
<1> SUFFICES ASSUME Init PROVE LInv
  OBVIOUS
<1>1. owner \in [Locks -> Threads \cup {Nobody}]
  BY DEF Init
<1>2. calls \in [Threads -> 0..MaxCalls]
  BY LocksAssumption DEF Init, LocksAssumption
<1>3. \A t \in Threads : stack[t] = <<>>
  BY DEF Init
<1>4. stack \in [Threads -> Seq(Frames)]
  BY DEF Init
<1>5. \A t \in Threads : \A l \in Locks : owner[l] # t
  BY LocksAssumption DEF Init, LocksAssumption
<1>6. Nested
  BY <1>3, <1>4, EmptyStack DEF Nested
<1>7. Owned
  BY <1>3, <1>5, EmptyStack DEF Owned
<1> QED
  BY <1>1, <1>2, <1>6, <1>7 DEF LInv

\* One thread gets another stack.
LEMMA NestedStep ==
  ASSUME Nested, NEW t \in Threads, NEW r, StackOK(r),
         stack' = [stack EXCEPT ![t] = r]
  PROVE  /\ Nested'
         /\ stack'[t] = r
         /\ \A u \in Threads \ {t} : stack'[u] = stack[u]
<1>1. r \in Seq(Frames)
  BY DEF StackOK
<1>2. stack' \in [Threads -> Seq(Frames)]
  BY <1>1 DEF Nested
<1>3. \A u \in Threads : stack'[u] = IF u = t THEN r ELSE stack[u]
  BY DEF Nested
<1> QED
  BY <1>2, <1>3 DEF Nested

\* A thread that neither takes nor gives a mutex leaves the owners right.
LEMMA OwnedSame ==
  ASSUME Nested, Owned, NEW t \in Threads, NEW r, StackOK(r),
         stack' = [stack EXCEPT ![t] = r], UNCHANGED owner,
         \A l \in Locks : Holds(r, l) <=> Holds(stack[t], l)
  PROVE  Owned'
<1>1. stack'[t] = r /\ \A u \in Threads \ {t} : stack'[u] = stack[u]
  BY NestedStep
<1>2. ASSUME NEW u \in Threads, NEW l \in Locks
      PROVE  Holds(stack'[u], l) <=> Holds(stack[u], l)
  BY <1>1
<1>3. ASSUME NEW u \in Threads, NEW l \in Locks
      PROVE  owner'[l] = u <=> Holds(stack'[u], l)
  BY <1>2 DEF Owned
<1> QED
  BY <1>3, Zenon DEF Owned, Holds

\* The innermost call of a thread inside the library.
LEMMA TopFacts ==
  ASSUME Nested, NEW t \in Threads, stack[t] # <<>>
  PROVE  /\ StackOK(stack[t])
         /\ Len(stack[t]) \in Nat \ {0}
         /\ FrameOK(Top(t))
         /\ Top(t).fn \in Functions
<1>1. StackOK(stack[t])
  BY DEF Nested
<1>2. Len(stack[t]) \in Nat \ {0}
  BY <1>1, CutFacts DEF StackOK
<1>3. FrameOK(Top(t))
  BY <1>1, <1>2 DEF StackOK, Top
<1> QED
  BY <1>1, <1>2, <1>3 DEF FrameOK, Frames

\* Replace gives the stack the same shape.
LEMMA ReplaceShape ==
  ASSUME Nested, NEW t \in Threads, stack[t] # <<>>,
         NEW f, FrameOK(f), f.fn = Top(t).fn
  PROVE  /\ SameShape(stack[t], Replace(t, f))
         /\ Replace(t, f)[Len(stack[t])] = f
         /\ StackOK(Replace(t, f))
<1>1. stack[t] \in Seq(Frames) /\ f \in Frames
  BY TopFacts DEF StackOK, FrameOK
<1>2. LET r == Replace(t, f)
      IN /\ r \in Seq(Frames)
         /\ Len(r) = Len(stack[t])
         /\ r[Len(stack[t])] = f
         /\ \A i \in 1..(Len(stack[t]) - 1) : r[i] = stack[t][i]
  BY <1>1, PutFacts DEF Replace, Pop
<1>3. SameShape(stack[t], Replace(t, f))
  BY <1>2 DEF SameShape, Top
<1> QED
  BY <1>2, <1>3, TopFacts, ReplaceOK

\* A call of the library starts with an empty hand.
LEMMA BeginInv ==
  ASSUME LInv, NEW t \in Threads, Begin(t)
  PROVE  LInv'
<1> USE DEF LInv
<1>1. PICK op \in Operations : stack' = [stack EXCEPT ![t] =
          <<[Frame("api") EXCEPT !.rest = {<<"instance", op>>}]>>]
  BY DEF Begin
<1> DEFINE A == {<<"instance", op>>}
           f == [Frame("api") EXCEPT !.rest = A]
<1>2. A \subseteq Seq(Callees("api"))
  BY DEF Callees
<1>3. "api" \in Functions
  BY DEF Functions
<1> HIDE DEF A
<1>4. FrameOK(f) /\ f.fn = "api"
  BY <1>2, <1>3, FrameNew, FrameRest
<1>5. Guard("api") = "none"
  BY DEF Guard, DeviceCalls, ManagerCalls
<1> HIDE DEF f
<1>6. StackOK(<<f>>)
  <2>1. <<f>> \in Seq(Frames) /\ Len(<<f>>) = 1 /\ <<f>>[1] = f
    BY <1>4 DEF FrameOK
  <2> QED
    BY <1>4, <2>1 DEF StackOK
<1>7. \A l \in Locks : ~Holds(<<f>>, l)
  BY <1>4, <1>5 DEF Holds, Locks
<1>8. stack' = [stack EXCEPT ![t] = <<f>>]
  BY <1>1 DEF f, A
<1>9. \A l \in Locks : Holds(<<f>>, l) <=> Holds(stack[t], l)
  BY <1>7, EmptyStack DEF Begin
<1>10. Nested'
  BY <1>6, <1>8, NestedStep
<1>11. Owned'
  BY <1>6, <1>8, <1>9, OwnedSame DEF Begin
<1>12. calls' \in [Threads -> 0..MaxCalls]
  BY LocksAssumption DEF Begin, LocksAssumption
<1> QED
  BY <1>10, <1>11, <1>12 DEF Begin

\* A lock_guard gets a mutex that nobody holds: it has one owner.
LEMMA EnterInv ==
  ASSUME LInv, NEW t \in Threads, Enter(t)
  PROVE  LInv'
<1> USE DEF LInv
<1>1. stack[t] # <<>> /\ ~Top(t).in
  BY DEF Enter
<1> DEFINE f == [Top(t) EXCEPT !.in = TRUE]
           r == Replace(t, f)
           g == Guard(Top(t).fn)
<1>2. FrameOK(f) /\ f.fn = Top(t).fn /\ f.in
  BY <1>1, TopFacts, FrameEnter
<1>3. g \in Locks
  BY <1>1, TopFacts, GuardTyped DEF FrameOK
<1> HIDE DEF f
<1>4. StackOK(r) /\ SameShape(stack[t], r) /\ r[Len(stack[t])] = f
  BY <1>1, <1>2, ReplaceShape
<1>5. stack' = [stack EXCEPT ![t] = r] /\ owner[g] = Nobody
      /\ owner' = [owner EXCEPT ![g] = t] /\ UNCHANGED calls
  BY DEF Enter, f
<1> HIDE DEF r, g
<1>6. Nested' /\ stack'[t] = r /\ \A u \in Threads \ {t} : stack'[u] = stack[u]
  BY <1>4, <1>5, NestedStep
<1>7. \A l \in Locks : Holds(r, l) <=> Holds(stack[t], l) \/ l = g
  BY <1>1, <1>2, <1>4, TopFacts, HoldsEnter DEF Top, g
<1>8. ASSUME NEW u \in Threads, NEW l \in Locks
      PROVE  owner'[l] = u <=> Holds(stack'[u], l)
  <2>1. owner'[l] = IF l = g THEN t ELSE owner[l]
    BY <1>3, <1>5
  <2>2. l = g => ~Holds(stack[u], l)
    BY <1>5, LocksAssumption DEF Owned, LocksAssumption
  <2>3. owner[l] = u <=> Holds(stack[u], l)
    BY DEF Owned
  <2>4. CASE u = t
    BY <1>6, <1>7, <2>1, <2>3, <2>4
  <2>5. CASE u # t
    BY <1>6, <2>1, <2>2, <2>3, <2>5
  <2> QED
    BY <2>4, <2>5
<1>9. Owned'
  BY <1>8, Zenon DEF Owned, Holds
<1>10. owner' \in [Locks -> Threads \cup {Nobody}]
  BY <1>5
<1> QED
  BY <1>5, <1>6, <1>9, <1>10

\* A call of the table goes up in the order of the mutexes.
LEMMA InvokeInv ==
  ASSUME LInv, NEW t \in Threads, Invoke(t)
  PROVE  LInv'
<1> USE DEF LInv
<1>1. stack[t] # <<>> /\ Top(t).in
  BY DEF Invoke
<1>2. PICK g \in {w[1] : w \in Top(t).rest \ {<<>>}} :
        stack' = [stack EXCEPT ![t] =
          Append(Replace(t, [Top(t) EXCEPT !.rest =
                    {Tail(w) : w \in {v \in @ \ {<<>>} : v[1] = g}}]),
                 Frame(g))]
  BY DEF Invoke
<1> DEFINE A == {Tail(w) : w \in {v \in Top(t).rest \ {<<>>} : v[1] = g}}
           f == [Top(t) EXCEPT !.rest = A]
           q == Replace(t, f)
           r == Append(q, Frame(g))
<1>3. Top(t).rest \subseteq Seq(Callees(Top(t).fn))
  BY <1>1, TopFacts DEF FrameOK
<1>4. g \in Callees(Top(t).fn) /\ A \subseteq Seq(Callees(Top(t).fn))
  <2>1. ASSUME NEW w \in Top(t).rest \ {<<>>}
        PROVE  /\ w[1] \in Callees(Top(t).fn)
               /\ Tail(w) \in Seq(Callees(Top(t).fn))
    BY <1>3, RestSteps
  <2>2. g \in Callees(Top(t).fn)
    BY <1>2, <2>1
  <2>3. ASSUME NEW x \in A PROVE x \in Seq(Callees(Top(t).fn))
    <3>1. PICK w \in Top(t).rest \ {<<>>} : x = Tail(w)
      OBVIOUS
    <3> QED
      BY <2>1, <3>1
  <2> QED
    BY <2>2, <2>3
<1>5. g \in Functions
  BY <1>1, <1>4, TopFacts, CalleesTyped
<1>6. stack' = [stack EXCEPT ![t] = r]
  BY <1>2
<1> HIDE DEF A
<1>7. FrameOK(f) /\ f.fn = Top(t).fn /\ f.in = Top(t).in
  BY <1>1, <1>4, TopFacts, FrameRest
<1> HIDE DEF f
<1>8. StackOK(q) /\ SameShape(stack[t], q) /\ q[Len(stack[t])] = f
  BY <1>1, <1>7, ReplaceShape
<1> HIDE DEF q
<1>9. Len(q) = Len(stack[t]) /\ q # <<>>
  BY <1>1, <1>8, TopFacts, EmptySeq DEF SameShape
<1>10. FrameOK(Frame(g)) /\ Frame(g).fn = g
       /\ (Frame(g).in => Guard(g) = "none")
  BY <1>5, FrameNew
<1>11. StackOK(r)
  BY <1>1, <1>4, <1>7, <1>8, <1>9, <1>10, PushOK
<1>12. ASSUME NEW l \in Locks PROVE Holds(r, l) <=> Holds(stack[t], l)
  <2>1. Holds(r, l) <=> Holds(q, l)
    BY <1>8, <1>10, HoldsPush
  <2>2. Holds(q, l) <=> Holds(stack[t], l)
    BY <1>1, <1>7, <1>8, TopFacts, HoldsSame DEF Top
  <2> QED
    BY <2>1, <2>2
<1> HIDE DEF r
<1>13. Nested'
  BY <1>6, <1>11, NestedStep
<1>14. Owned'
  BY <1>6, <1>11, <1>12, OwnedSame DEF Invoke
<1> QED
  BY <1>13, <1>14 DEF Invoke

\* A handler continues inside the mutexes it was called with.
LEMMA CatchInv ==
  ASSUME LInv, NEW t \in Threads, Catch(t)
  PROVE  LInv'
<1> USE DEF LInv
<1>1. stack[t] # <<>>
  BY DEF Catch
<1> DEFINE A == Handler(Top(t).fn, Top(t).exc)
           f == [Top(t) EXCEPT !.rest = A, !.exc = "none"]
           r == Replace(t, f)
<1>2. A \subseteq Seq(Callees(Top(t).fn))
  BY <1>1, TopFacts, HandlerIn
<1>3. stack' = [stack EXCEPT ![t] = r]
  BY DEF Catch
<1> HIDE DEF A
<1>4. FrameOK(f) /\ f.fn = Top(t).fn /\ f.in = Top(t).in
  BY <1>1, <1>2, TopFacts, FrameCatch
<1> HIDE DEF f
<1>5. StackOK(r) /\ SameShape(stack[t], r) /\ r[Len(stack[t])] = f
  BY <1>1, <1>4, ReplaceShape
<1> HIDE DEF r
<1>6. ASSUME NEW l \in Locks PROVE Holds(r, l) <=> Holds(stack[t], l)
  BY <1>1, <1>4, <1>5, TopFacts, HoldsSame DEF Top
<1>7. Nested'
  BY <1>3, <1>5, NestedStep
<1>8. Owned'
  BY <1>3, <1>5, <1>6, OwnedSame DEF Catch
<1> QED
  BY <1>7, <1>8 DEF Catch

\* The stack after the innermost call has ended with e: the calls that are
\* left hold what they held, and the caller is one that e can reach.
LEMMA ResumedOK ==
  ASSUME Nested, NEW t \in Threads, stack[t] # <<>>, Top(t).in,
         NEW e \in Endings(Top(t))
  PROVE  /\ StackOK(Resumed(t, e))
         /\ \A l \in Locks : Holds(Resumed(t, e), l)
              <=> Holds(stack[t], l) /\ l # Guard(Top(t).fn)
<1> DEFINE s == stack[t]
           n == Len(stack[t])
           q == SubSeq(s, 1, n - 1)
           r == Resumed(t, e)
<1>1. StackOK(s) /\ n \in Nat \ {0} /\ FrameOK(Top(t)) /\ s[n] = Top(t)
  BY TopFacts DEF Top
<1>2. /\ StackOK(q)
      /\ q \in Seq(Frames)
      /\ Len(q) = n - 1
      /\ \A i \in 1..(n - 1) : q[i] = s[i]
  BY <1>1, PopOK, CutFacts DEF StackOK
<1>3. ASSUME NEW l \in Locks
      PROVE  Holds(q, l) <=> Holds(s, l) /\ l # Guard(Top(t).fn)
  BY <1>1, HoldsPop
<1>4. Resumed(t, e) = IF n = 1 THEN <<>>
                      ELSE [q EXCEPT ![n - 1].exc = IF e = "none" THEN @ ELSE e]
  BY DEF Resumed, Pop
<1> HIDE DEF q, s, n, r
<1>5. CASE n = 1
  <2>1. q = <<>> /\ r = <<>>
    BY <1>2, <1>4, <1>5, EmptySeq DEF r
  <2> QED
    BY <1>2, <1>3, <2>1 DEF r, s
<1>6. CASE n # 1
  <2> DEFINE f == [q[n - 1] EXCEPT !.exc = IF e = "none" THEN @ ELSE e]
  <2>1. n - 1 \in 1..Len(q) /\ n - 1 \in Nat \ {0} /\ n \in 2..n
    BY <1>1, <1>2, <1>6
  <2>2. FrameOK(q[n - 1]) /\ q[n - 1] = s[n - 1]
    BY <1>2, <2>1 DEF StackOK
  <2>3. s[n].fn \in Callees(s[n - 1].fn)
    BY <1>1, <2>1 DEF StackOK, n, s
  <2>4. s[n - 1].fn \in Functions
    BY <2>2 DEF FrameOK, Frames
  <2>5. e \in Exceptions \cup {"none"} /\ (e # "none" => s[n].fn \in Throwers)
    BY <1>1, EndingsTyped
  <2>6. e # "none" => q[n - 1].fn \in Receivers
    BY <2>2, <2>3, <2>4, <2>5, ThrowersInReceivers
  <2>7. FrameOK(f) /\ f.fn = q[n - 1].fn /\ f.in = q[n - 1].in
    BY <2>2, <2>5, <2>6, FrameThrow
  <2>8. r = [q EXCEPT ![n - 1] = f]
    BY <1>4, <1>6 DEF r
  <2> HIDE DEF f
  <2>9. f \in Frames
    BY <2>7 DEF FrameOK
  <2>10. r \in Seq(Frames) /\ Len(r) = Len(q) /\ r[n - 1] = f
         /\ \A i \in 1..(Len(q) - 1) : r[i] = q[i]
    BY <1>2, <2>1, <2>8, <2>9, ExceptSeq
  <2>11. SameShape(q, r) /\ r[Len(q)].in = q[Len(q)].in
    BY <1>2, <2>7, <2>10 DEF SameShape
  <2>12. q # <<>>
    BY <1>2, <2>1, EmptySeq
  <2>13. StackOK(r)
    BY <1>2, <2>11, <2>12, ReplaceOK
  <2>14. ASSUME NEW l \in Locks PROVE Holds(r, l) <=> Holds(q, l)
    BY <1>2, <2>11, <2>12, HoldsSame
  <2> QED
    BY <1>3, <2>13, <2>14 DEF r, s
<1> QED
  BY <1>5, <1>6

\* A return and an exception give back the mutex of the call, and no other.
LEMMA LeaveInv ==
  ASSUME LInv, NEW t \in Threads, Leave(t)
  PROVE  LInv'
<1> USE DEF LInv
<1>1. stack[t] # <<>> /\ Top(t).in
  BY DEF Leave
<1>2. PICK e \in Endings(Top(t)) :
         /\ stack' = [stack EXCEPT ![t] = Resumed(t, e)]
         /\ owner' = [l \in Locks |-> IF l = Guard(Top(t).fn)
                                      THEN Nobody ELSE owner[l]]
  BY DEF Leave
<1> DEFINE r == Resumed(t, e)
           g == Guard(Top(t).fn)
<1>3. StackOK(r) /\ \A l \in Locks : Holds(r, l) <=> Holds(stack[t], l) /\ l # g
  BY <1>1, ResumedOK
<1> HIDE DEF r
<1>4. Nested' /\ stack'[t] = r /\ \A u \in Threads \ {t} : stack'[u] = stack[u]
  BY <1>2, <1>3, NestedStep DEF r
<1>5. g \in Locks => Holds(stack[t], g)
  BY <1>1, TopFacts DEF Holds, Top
<1> HIDE DEF g
<1>6. ASSUME NEW u \in Threads, NEW l \in Locks
      PROVE  owner'[l] = u <=> Holds(stack'[u], l)
  <2>1. owner'[l] = IF l = g THEN Nobody ELSE owner[l]
    BY <1>2 DEF g
  <2>2. owner[l] = u <=> Holds(stack[u], l)
    BY DEF Owned
  <2>3. u # Nobody
    BY LocksAssumption DEF LocksAssumption
  <2>4. CASE u = t
    BY <1>3, <1>4, <2>1, <2>2, <2>3, <2>4
  <2>5. CASE u # t
    <3>1. l = g => ~Holds(stack[u], l)
      <4> SUFFICES ASSUME l = g, Holds(stack[u], l) PROVE FALSE
        OBVIOUS
      <4>1. owner[l] = t
        BY <1>5 DEF Owned
      <4> QED
        BY <2>2, <2>5, <4>1
    <3> QED
      BY <1>4, <2>1, <2>2, <2>3, <2>5, <3>1
  <2> QED
    BY <2>4, <2>5
<1>7. Owned'
  BY <1>6, Zenon DEF Owned, Holds
<1>8. owner' \in [Locks -> Threads \cup {Nobody}]
  BY <1>2
<1> QED
  BY <1>4, <1>7, <1>8 DEF Leave

\* Every step keeps the order of the mutexes and their owners.
LEMMA LInvNext == LInv /\ [Next]_vars => LInv'
<1>1. CASE UNCHANGED vars
  BY <1>1 DEF vars, LInv, Nested, Owned
<1>2. CASE Done
  BY <1>2 DEF Done, vars, LInv, Nested, Owned
<1> QED
  BY <1>1, <1>2, BeginInv, EnterInv, InvokeInv, CatchInv, LeaveInv DEF Next

\* The order and the ownership of the mutexes hold throughout.
LEMMA LInvAlways == Spec => []LInv
BY LInvInit, LInvNext, PTL DEF Spec

-----------------------------------------------------------------------------
(***************************************************************************)
(* What follows from it.                                                   *)
(***************************************************************************)

\* The calls of a thread are well formed, and no exception reaches
\* is_connected, which is noexcept and would end the program.
THEOREM TypeCorrect == Spec => []TypeOK
<1>1. LInv => TypeOK
  <2> SUFFICES ASSUME LInv PROVE TypeOK
    OBVIOUS
  <2>1. ASSUME NEW t \in Threads, NEW i \in 1..Len(stack[t])
        PROVE  LET f == stack[t][i]
               IN /\ f.fn \in Functions
                  /\ f.in \in BOOLEAN
                  /\ f.exc \in Exceptions \cup {"none"}
                  /\ f.fn = "is_connected" => f.exc = "none"
                  /\ i < Len(stack[t]) => f.in
    <3>1. StackOK(stack[t])
      BY DEF LInv, Nested
    <3>2. FrameOK(stack[t][i])
      BY <3>1 DEF StackOK
    <3>3. i < Len(stack[t]) => i \in 1..(Len(stack[t]) - 1)
      BY <3>1, LenProperties DEF StackOK
    <3>4. i < Len(stack[t]) => stack[t][i].in
      BY <3>1, <3>3 DEF StackOK
    <3>5. stack[t][i].fn = "is_connected" => stack[t][i].exc = "none"
      BY <3>2 DEF FrameOK, Receivers
    <3> QED
      BY <3>2, <3>4, <3>5 DEF FrameOK, Frames
  <2> QED
    BY <2>1 DEF LInv, TypeOK
<1> QED
  BY <1>1, LInvAlways, PTL

\* A thread that waits while it holds mutex l waits for one above l.
LEMMA WaitsAbove ==
  ASSUME LInv, NEW t \in Threads, Waiting(t), NEW l \in Locks, owner[l] = t
  PROVE  Rank(l) < Rank(Wanted(t))
<1>1. StackOK(stack[t]) /\ Len(stack[t]) \in Nat \ {0} /\ FrameOK(Top(t))
      /\ Top(t).fn \in Functions
  BY TopFacts DEF LInv, Waiting
<1>2. PICK i \in 1..Len(stack[t]) : stack[t][i].in /\ Guard(stack[t][i].fn) = l
  BY DEF LInv, Owned, Holds
<1>3. i \in 1..(Len(stack[t]) - 1)
  BY <1>1, <1>2 DEF Waiting, Top
<1>4. Below(stack[t][i].fn, Top(t).fn)
  BY <1>1, <1>3 DEF StackOK, Top
<1>5. Floor(Top(t).fn) = Rank(Wanted(t))
  BY <1>1, FloorOfGuard DEF FrameOK, Waiting, Wanted
<1> QED
  BY <1>2, <1>4, <1>5 DEF Below

\* What a thread waits for is one of the four mutexes.
LEMMA WantedRank ==
  ASSUME LInv, NEW t \in Threads, Waiting(t)
  PROVE  Wanted(t) \in Locks /\ Rank(Wanted(t)) \in 1..4
<1>1. FrameOK(Top(t))
  BY TopFacts DEF LInv, Waiting
<1>2. Wanted(t) \in Locks
  BY <1>1, GuardTyped DEF FrameOK, Waiting, Wanted
<1> QED
  BY <1>2, RankTyped

(***************************************************************************)
(* The library never deadlocks on its four mutexes, whatever calls however *)
(* many threads make, destructors included: each thread of a set that      *)
(* waits for itself would wait for a higher mutex than the one before.     *)
(***************************************************************************)
THEOREM DeadlockFree == Spec => []NoCircularWait
<1>1. LInv => NoCircularWait
  <2> SUFFICES ASSUME LInv, NEW S \in (SUBSET Threads) \ {{}},
                      \A t \in S : Waiting(t) /\ owner[Wanted(t)] \in S
               PROVE  FALSE
    BY Zenon DEF NoCircularWait
  <2>1. ASSUME NEW t \in S
        PROVE  \E u \in S : Rank(Wanted(t)) < Rank(Wanted(u))
    <3>1. Wanted(t) \in Locks /\ owner[Wanted(t)] \in S
      BY WantedRank
    <3> DEFINE u == owner[Wanted(t)]
               l == Wanted(t)
    <3>2. u \in Threads /\ Waiting(u) /\ owner[l] = u /\ l \in Locks
      BY <3>1
    <3> HIDE DEF u, l
    <3>3. Rank(l) < Rank(Wanted(u))
      BY <3>2, WaitsAbove
    <3>4. u \in S /\ l = Wanted(t)
      BY <3>1 DEF u, l
    <3> QED
      BY <3>3, <3>4
  <2>2. \A t \in S : Rank(Wanted(t)) \in 1..4
    BY WantedRank
  <2>3. PICK a \in S : Rank(Wanted(a)) >= 1
    <3>1. PICK a \in S : TRUE
      OBVIOUS
    <3> QED
      BY <2>2, <3>1
  <2>4. PICK b \in S : Rank(Wanted(b)) >= 2
    BY <2>1, <2>2, <2>3
  <2>5. PICK c \in S : Rank(Wanted(c)) >= 3
    BY <2>1, <2>2, <2>4
  <2>6. PICK d \in S : Rank(Wanted(d)) >= 4
    BY <2>1, <2>2, <2>5
  <2> QED
    BY <2>1, <2>2, <2>6
<1> QED
  BY <1>1, LInvAlways, PTL

(***************************************************************************)
(* Exchanges of different threads never interleave: a transfer is made by  *)
(* run(), which holds send_receive_mtx from before its send until after    *)
(* its last recv.                                                          *)
(***************************************************************************)
THEOREM ExchangesNeverInterleave == Spec => []ExchangesApart
<1>1. LInv => ExchangesApart
  <2> SUFFICES ASSUME LInv, NEW t \in Threads, NEW u \in Threads, t # u,
                      Inside(t, {"run"}), Inside(u, {"send", "recv"})
               PROVE  FALSE
    BY DEF ExchangesApart
  <2>1. Guard("run") = "exchange" /\ "exchange" \in Locks
    BY DEF Guard, Locks, DeviceCalls, ManagerCalls
  <2>2. owner["exchange"] = t
    BY <2>1 DEF LInv, Owned, Holds, Inside
  <2>3. StackOK(stack[u])
    BY DEF LInv, Nested
  <2>4. PICK j \in 1..Len(stack[u]) : stack[u][j].fn \in {"send", "recv"}
    BY DEF Inside
  <2>5. j # 1
    BY <2>3, <2>4, EmptySeq DEF StackOK
  <2>6. j \in 2..Len(stack[u]) /\ j - 1 \in 1..(Len(stack[u]) - 1)
        /\ j - 1 \in 1..Len(stack[u])
    BY <2>3, <2>5, LenProperties DEF StackOK
  <2>7. stack[u][j].fn \in Callees(stack[u][j - 1].fn)
        /\ stack[u][j - 1].in /\ FrameOK(stack[u][j - 1])
    BY <2>3, <2>6 DEF StackOK
  <2>8. stack[u][j - 1].fn = "run"
    BY <2>4, <2>7, TransfersInRun DEF FrameOK, Frames
  <2>9. owner["exchange"] = u
    BY <2>1, <2>6, <2>7, <2>8 DEF LInv, Owned, Holds
  <2> QED
    BY <2>2, <2>9
<1> QED
  BY <1>1, LInvAlways, PTL

=============================================================================
