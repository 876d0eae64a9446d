------------------------------- MODULE Locks -------------------------------
(***************************************************************************)
(* The mutexes of the library and the calls that take them: the manager    *)
(* (mex_dev_com_manager), the exchange (send_receive_mtx), the device      *)
(* layer (mex_dev_com) and the creation of the singleton.  They are taken  *)
(* one inside the other on different paths, some of them by destructors,   *)
(* and released by scope: lock_guard, also when an exception passes.       *)
(*                                                                         *)
(* A thread is a stack of calls.  What a call does is reduced to the calls *)
(* it makes in turn, the mutex that guards it and the exceptions that it   *)
(* raises or catches; which branch it takes is left open.                  *)
(***************************************************************************)
EXTENDS Naturals, Sequences

CONSTANTS Threads,
          MaxPolls,   \* bound: recv calls of one exchange
          MaxCalls,   \* bound: calls of the library by one thread
          Nobody

ASSUME LocksAssumption ==
  /\ MaxPolls \in Nat \ {0}
  /\ MaxCalls \in Nat
  /\ Nobody \notin Threads

VARIABLES owner,  \* the thread that holds each mutex
          stack,  \* the calls of each thread, the innermost last
          calls   \* calls of the library that each thread has made

vars == <<owner, stack, calls>>

Locks == {"instance", "manager", "exchange", "device"}

(***************************************************************************)
(* DeviceNotConnected and the failures of a transfer ("comm"),             *)
(* LongOperationInProgress, CommandFailed, and std::runtime_error.         *)
(***************************************************************************)
Exceptions == {"comm", "longop", "failed", "runtime"}

\* Methods of Device, each guarded by mex_dev_com; destroy is ~Device.
DeviceCalls == {"dev_connect", "dev_disconnect", "destroy", "send", "recv",
                "dev_enumerated", "set_receiving_delay", "set_retry_delay"}

\* Public operations of NitrokeyManager, by the locks they take.
ManagerCalls == {"connect", "connect_model", "connect_with_ID",
                 "connect_with_path", "list_devices", "disconnect",
                 "is_connected", "could_be_enumerated", "set_speed"}

Operations == ManagerCalls \cup {"list_devices_by_cpuID", "command"}

Functions == DeviceCalls \cup Operations
             \cup {"api", "instance", "listing", "list_one", "run"}

\* Mutant: exchanges are not guarded as a whole.
GuardTransfersOnly(fn) ==
  IF fn \in DeviceCalls THEN "device"
  ELSE IF fn \in ManagerCalls \cup {"listing"} THEN "manager"
  ELSE IF fn = "instance" THEN "instance" ELSE "none"

\* The mutex in the lock_guard at the head of a function.
Guard(fn) ==
  IF fn \in DeviceCalls THEN "device"
  ELSE IF fn \in ManagerCalls \cup {"listing"} THEN "manager"
  ELSE IF fn = "run" THEN "exchange"
  ELSE IF fn = "instance" THEN "instance" ELSE "none"

(***************************************************************************)
(* The body of a function is the set of sequences of calls it can make.    *)
(***************************************************************************)
Call(g) == {<<g>>}
Opt(A) == A \cup {<<>>}
Then(A, B) == {a \o b : a \in A, b \in B}

Destroyed == Opt(Call("destroy"))

\* connect(): three objects; each that connects may replace the last owner of
\* the previous device, and the objects that are not current are destroyed
\* while the lock is held.
ConnectBody ==
  LET try == Then(Call("dev_connect"), Destroyed)
  IN Then(Then(try, Then(try, try)),
          {<<"destroy", "destroy">>, <<"destroy", "destroy", "destroy">>})

\* connect(device_model): the assignment destroys the previous device.
ConnectModelBody == Then(Destroyed, Call("dev_connect"))

\* connect_with_ID: nothing for an unknown id; otherwise the assignment to
\* `device' and the exchange of get_status.
ConnectWithIDBody == Opt(Then(Destroyed, Call("command")))

\* connect_with_path: two vendors; an object that does not connect is
\* destroyed, one that connects may destroy the previous device.
ConnectWithPathBody ==
  LET fails == {<<"dev_connect", "destroy">>}
  IN Then(Opt(fails), Opt(fails \cup Call("dev_connect")))

DisconnectNoLock == Opt(Then(Call("dev_disconnect"), Destroyed))

\* Mutant: a device that is gone is disconnected with the public operation.
IsConnectedBodyPublic == Opt(Then(Call("dev_enumerated"), Opt(Call("disconnect"))))

\* Mutant: the connection is tested by an exchange.
IsConnectedBodyAsking == Opt(Then(Call("command"), DisconnectNoLock))

\* is_connected: a device that is gone is disconnected without the lock.
IsConnectedBody == Opt(Then(Call("dev_enumerated"), DisconnectNoLock))

\* set_current_device_speed: nothing for a short delay or without a device.
SetSpeedBody == Opt({<<"set_receiving_delay", "set_retry_delay">>})

\* list_devices_by_cpuID: disconnect() takes the lock and gives it back, the
\* rest ("listing") holds it: a registered device is closed and destroyed,
\* then the loop over the sticks, each turn of which is a try block.
ListDevicesByCpuIDBody == {<<"disconnect", "listing">>}

ListingBody ==
  Then(Opt(Then(Call("dev_disconnect"), Destroyed)),
       Opt(Then(Call("list_one"), Opt(Call("list_one")))))

ListOneBody ==
  Then(Call("dev_connect"), Call("destroy") \cup Then(Destroyed, Call("command")))

\* Transaction::run with a device; it polls until it has an answer.
RunBody ==
  {<<"send">> \o [i \in 1..n |-> "recv"] : n \in 1..MaxPolls}

\* A command hands a copy of `device' to run(), which may be the last one.
CommandBody == Then(Call("run"), Destroyed)

Body(fn) ==
  CASE fn = "connect" -> ConnectBody
    [] fn = "connect_model" -> ConnectModelBody
    [] fn = "connect_with_ID" -> ConnectWithIDBody
    [] fn = "connect_with_path" -> ConnectWithPathBody
    [] fn = "is_connected" -> IsConnectedBody
    [] fn = "could_be_enumerated" -> Opt(Call("dev_enumerated"))
    [] fn = "disconnect" -> DisconnectNoLock
    [] fn = "set_speed" -> SetSpeedBody
    [] fn = "list_devices_by_cpuID" -> ListDevicesByCpuIDBody
    [] fn = "listing" -> ListingBody
    [] fn = "list_one" -> ListOneBody
    [] fn = "run" -> RunBody
    [] fn = "command" -> CommandBody
    [] OTHER -> {<<>>}

(***************************************************************************)
(* The exceptions a function raises itself when `rest' is what it still    *)
(* has to do: run() without a device, after a failed send and after the    *)
(* polls; send and recv on a closed handle; an unknown model.              *)
(***************************************************************************)
Raises(fn, rest) ==
  CASE fn \in {"send", "recv"} -> {"comm"}
    [] fn = "run" -> {"comm"} \cup (IF <<>> \in rest THEN {"longop", "failed"} ELSE {})
    [] fn = "connect_model" /\ rest = ConnectModelBody -> {"runtime"}
    [] OTHER -> {}

(***************************************************************************)
(* What a function does when it catches e; the empty set when it does not. *)
(* The wrappers of the C API end the call whatever it raised.              *)
(***************************************************************************)
Handler(fn, e) ==
  CASE fn = "connect_with_ID" /\ e = "comm" -> Call("dev_disconnect")
    [] fn = "connect_with_ID" /\ e = "longop" -> {<<>>}
    [] fn = "list_one" /\ e \in {"comm", "longop"} -> {<<>>}
    [] fn = "api" -> {<<>>}
    [] OTHER -> {}

-----------------------------------------------------------------------------

\* A call: whether it has its lock, what it may still do, a pending exception.
Frame(fn) ==
  [fn |-> fn, in |-> Guard(fn) = "none", rest |-> Body(fn), exc |-> "none"]

Top(t) == stack[t][Len(stack[t])]

Pop(t) == SubSeq(stack[t], 1, Len(stack[t]) - 1)

Replace(t, f) == Append(Pop(t), f)

Init ==
  /\ owner = [l \in Locks |-> Nobody]
  /\ stack = [t \in Threads |-> <<>>]
  /\ calls = [t \in Threads |-> 0]

\* A thread calls the library: the singleton, then the operation.
Begin(t) ==
  /\ stack[t] = <<>>
  /\ calls[t] < MaxCalls
  /\ calls' = [calls EXCEPT ![t] = @ + 1]
  /\ \E op \in Operations :
       stack' = [stack EXCEPT ![t] =
                   <<[Frame("api") EXCEPT !.rest = {<<"instance", op>>}]>>]
  /\ UNCHANGED owner

\* lock_guard gets its mutex.
Enter(t) ==
  /\ stack[t] # <<>>
  /\ ~Top(t).in
  /\ owner[Guard(Top(t).fn)] = Nobody
  /\ owner' = [owner EXCEPT ![Guard(Top(t).fn)] = t]
  /\ stack' = [stack EXCEPT ![t] = Replace(t, [Top(t) EXCEPT !.in = TRUE])]
  /\ UNCHANGED calls

\* The next call.  While an exception passes only destructors run.
Invoke(t) ==
  /\ stack[t] # <<>>
  /\ Top(t).in
  /\ Top(t).exc # "none" => Handler(Top(t).fn, Top(t).exc) = {}
  /\ \E g \in {w[1] : w \in Top(t).rest \ {<<>>}} :
       /\ Top(t).exc # "none" => g = "destroy"
       /\ stack' = [stack EXCEPT ![t] =
            Append(Replace(t, [Top(t) EXCEPT !.rest =
                      {Tail(w) : w \in {v \in @ \ {<<>>} : v[1] = g}}]),
                   Frame(g))]
  /\ UNCHANGED <<owner, calls>>

Catch(t) ==
  /\ stack[t] # <<>>
  /\ Top(t).exc # "none"
  /\ Handler(Top(t).fn, Top(t).exc) # {}
  /\ stack' = [stack EXCEPT ![t] =
       Replace(t, [Top(t) EXCEPT !.rest = Handler(Top(t).fn, Top(t).exc),
                                 !.exc = "none"])]
  /\ UNCHANGED <<owner, calls>>

\* How the innermost call of t can end now.
Endings(f) ==
  IF f.exc # "none"
  THEN IF Handler(f.fn, f.exc) = {} THEN {f.exc} ELSE {}
  ELSE Raises(f.fn, f.rest) \cup (IF <<>> \in f.rest THEN {"none"} ELSE {})

\* The caller continues, or has the exception to deal with.
Resumed(t, e) ==
  IF Len(stack[t]) = 1 THEN <<>>
  ELSE [Pop(t) EXCEPT ![Len(stack[t]) - 1].exc = IF e = "none" THEN @ ELSE e]

\* Mutant: an unlock at the end of the function, which an exception skips.
LeaveUnlocking(t) ==
  /\ stack[t] # <<>>
  /\ Top(t).in
  /\ \E e \in Endings(Top(t)) :
       /\ stack' = [stack EXCEPT ![t] = Resumed(t, e)]
       /\ owner' = [l \in Locks |-> IF l = Guard(Top(t).fn) /\ e = "none"
                                    THEN Nobody ELSE owner[l]]
  /\ UNCHANGED calls

\* The innermost call returns or throws; lock_guard gives its mutex back.
Leave(t) ==
  /\ stack[t] # <<>>
  /\ Top(t).in
  /\ \E e \in Endings(Top(t)) :
       /\ stack' = [stack EXCEPT ![t] = Resumed(t, e)]
       /\ owner' = [l \in Locks |-> IF l = Guard(Top(t).fn)
                                    THEN Nobody ELSE owner[l]]
  /\ UNCHANGED calls

\* All calls have been made and have returned.
Done ==
  /\ \A t \in Threads : stack[t] = <<>> /\ calls[t] = MaxCalls
  /\ UNCHANGED vars

Next ==
  \/ \E t \in Threads : Begin(t)
  \/ \E t \in Threads : Enter(t)
  \/ \E t \in Threads : Invoke(t)
  \/ \E t \in Threads : Catch(t)
  \/ \E t \in Threads : Leave(t)
  \/ Done

Spec == Init /\ [][Next]_vars

(***************************************************************************)
(* A thread inside the library runs on, and gets a mutex that stays free.  *)
(* Nothing is assumed of who gets a mutex that several threads wait for:   *)
(* std::mutex promises no order.                                           *)
(***************************************************************************)
FairSpec ==
  Spec /\ \A t \in Threads : WF_vars(Enter(t) \/ Invoke(t) \/ Catch(t) \/ Leave(t))

-----------------------------------------------------------------------------

\* Type correctness.  is_connected is noexcept: no exception reaches it.
TypeOK ==
  /\ owner \in [Locks -> Threads \cup {Nobody}]
  /\ calls \in [Threads -> 0..MaxCalls]
  /\ \A t \in Threads : \A i \in 1..Len(stack[t]) :
       LET f == stack[t][i]
       IN /\ f.fn \in Functions
          /\ f.in \in BOOLEAN
          /\ f.exc \in Exceptions \cup {"none"}
          /\ f.fn = "is_connected" => f.exc = "none"
          /\ i < Len(stack[t]) => f.in

\* The mutex that t waits for, and whether it waits.
Waiting(t) == stack[t] # <<>> /\ ~Top(t).in
Wanted(t) == Guard(Top(t).fn)

(***************************************************************************)
(* No deadlock: there is no set of threads each of which waits for a mutex *)
(* that one of them holds, a thread that waits for itself included.  The   *)
(* mutexes are not recursive, and destructors take them wherever the last  *)
(* shared_ptr goes out of scope.                                           *)
(***************************************************************************)
NoCircularWait ==
  \A S \in (SUBSET Threads) \ {{}} :
    ~ \A t \in S : Waiting(t) /\ owner[Wanted(t)] \in S

(***************************************************************************)
(* Every call of the library returns and leaves no mutex behind, whatever  *)
(* exception ends it, although mutexes are granted in any order.           *)
(***************************************************************************)
EveryCallReturns ==
  \A t \in Threads :
    stack[t] # <<>> ~> stack[t] = <<>> /\ \A l \in Locks : owner[l] # t

(***************************************************************************)
(* An exchange is not interleaved with another one: between the send and   *)
(* the last recv of a thread no other thread transfers anything, also when *)
(* the exchange is part of a listing or of connect_with_ID.                *)
(***************************************************************************)
Inside(t, F) == \E i \in 1..Len(stack[t]) : stack[t][i].fn \in F /\ stack[t][i].in

ExchangesApart ==
  \A t, u \in Threads : t # u /\ Inside(t, {"run"}) => ~Inside(u, {"send", "recv"})

=============================================================================
