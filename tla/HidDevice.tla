----------------------------- MODULE HidDevice -----------------------------
(***************************************************************************)
(* The Device class (device.cc) over hidapi: objects that are created,     *)
(* connected once, used by several threads and destroyed; one global mutex *)
(* mex_dev_com; a handle per object that a failed transfer closes and      *)
(* reopens; and the global hidapi library, which whoever closes a handle   *)
(* shuts down when instances_count says that it is the last Device.        *)
(*                                                                         *)
(* The constructor, the decrement of instances_count and Device::enumerate *)
(* run without the mutex.  Everything else is split at the points where    *)
(* those can come in between.                                              *)
(***************************************************************************)
EXTENDS Integers, FiniteSets

CONSTANTS Objs,     \* Device objects
          Threads,  \* callers of the library
          Handles,  \* handles of hidapi
          RetryReceivingCount, \* Device::m_retry_receiving_count
          Null      \* nullptr, an unlocked mutex

ASSUME ConstantsAssumption ==
  /\ IsFiniteSet(Objs)
  /\ RetryReceivingCount \in Nat
  /\ Null \notin Objs \cup Threads \cup Handles

VARIABLES state,   \* per object: "none", "new", "live" (connect() was called)
                   \* or "dying" (in the destructor)
          instances_count, \* Device::instances_count
          mp_devhandle,
          mex_dev_com,     \* the thread that holds the mutex
          call,    \* per thread: method, object, program point, failures
          open,    \* hidapi: the open handles
          hid,     \* hidapi: the library is initialised
          disconnected \* history: objects on which disconnect() has returned
                       \* and connect() has not run since

vars == <<state, instances_count, mp_devhandle, mex_dev_com, call, open, hid,
          disconnected>>

Methods == {"connect", "disconnect", "send", "recv", "could_be_enumerated",
            "destroy"}

Idle == [method |-> "none", obj |-> Null, pc |-> "none", failed |-> 0]

\* Program points inside the mutex.
Locked == {"transfer", "close", "check", "hid_exit", "open", "scan", "unlock"}

Alive == {o \in Objs : state[o] # "none"}

Init ==
  /\ state = [o \in Objs |-> "none"]
  /\ instances_count = 0
  /\ mp_devhandle = [o \in Objs |-> Null]
  /\ mex_dev_com = Null
  /\ call = [t \in Threads |-> Idle]
  /\ open = {}
  /\ hid = FALSE
  /\ disconnected = {}

-----------------------------------------------------------------------------

\* Mutant: the constructor does not count the object.
ConstructUncounted(t, o) ==
  /\ call[t] = Idle
  /\ state[o] = "none"
  /\ state' = [state EXCEPT ![o] = "new"]
  /\ UNCHANGED <<instances_count, mp_devhandle, mex_dev_com, call, open, hid,
                 disconnected>>

\* Device::Device, and Device::create that calls it
Construct(t, o) ==
  /\ call[t] = Idle
  /\ state[o] = "none"
  /\ state' = [state EXCEPT ![o] = "new"]
  /\ instances_count' = instances_count + 1
  /\ UNCHANGED <<mp_devhandle, mex_dev_com, call, open, hid, disconnected>>

Enter(t, m, o) ==
  call' = [call EXCEPT ![t] =
             [method |-> m, obj |-> o, pc |-> "lock", failed |-> 0]]

\* A thread calls a method of an object it has a reference to.
CallMethod(t, o) ==
  /\ call[t] = Idle
  /\ state[o] \in {"new", "live"}
  /\ \E m \in {"disconnect", "send", "recv", "could_be_enumerated"} :
       Enter(t, m, o)
  /\ UNCHANGED <<state, instances_count, mp_devhandle, mex_dev_com, open, hid,
                 disconnected>>

\* The library calls connect() once on an object, after creating it.
CallConnect(t, o) ==
  /\ call[t] = Idle
  /\ state[o] = "new"
  /\ state' = [state EXCEPT ![o] = "live"]
  /\ Enter(t, "connect", o)
  /\ UNCHANGED <<instances_count, mp_devhandle, mex_dev_com, open, hid,
                 disconnected>>

\* The last shared_ptr to the object goes: Device::~Device
CallDestructor(t, o) ==
  /\ call[t] = Idle
  /\ state[o] \in {"new", "live"}
  /\ \A u \in Threads : call[u].obj # o
  /\ state' = [state EXCEPT ![o] = "dying"]
  /\ Enter(t, "destroy", o)
  /\ UNCHANGED <<instances_count, mp_devhandle, mex_dev_com, open, hid,
                 disconnected>>

\* Thread t moves to program point p, with f failed transfers so far.
Move(t, p, f) ==
  call' = [call EXCEPT ![t] = [method |-> call[t].method, obj |-> call[t].obj,
                               pc |-> p, failed |-> f]]

Goto(t, p) == Move(t, p, call[t].failed)

Leave(t) == call' = [call EXCEPT ![t] = Idle]

\* The lock_guard, and the test of mp_devhandle that follows it.
FirstStep(m, h) ==
  CASE m = "connect" -> "open"
    [] m \in {"disconnect", "destroy"} -> IF h = Null THEN "unlock"
                                         ELSE "close"
    [] m = "could_be_enumerated" -> IF h = Null THEN "unlock" ELSE "scan"
    [] OTHER -> "transfer"

Lock(t) ==
  /\ call[t].pc = "lock"
  /\ mex_dev_com = Null
  /\ mex_dev_com' = t
  /\ LET next == FirstStep(call[t].method, mp_devhandle[call[t].obj])
     IN /\ Goto(t, next)
        /\ hid' = (hid \/ next = "scan")
  /\ UNCHANGED <<state, instances_count, mp_devhandle, open, disconnected>>

\* hid_send_feature_report or hid_get_feature_report; a method that finds no
\* handle throws DeviceNotConnected.
TransferDone(t) ==
  /\ call[t].pc = "transfer"
  /\ Goto(t, "unlock")
  /\ UNCHANGED <<state, instances_count, mp_devhandle, mex_dev_com, open, hid,
                 disconnected>>

(***************************************************************************)
(* A transfer that fails.  send() reconnects after each failure, also the  *)
(* third and last; recv() gives up without reconnecting when its budget is *)
(* spent.                                                                  *)
(***************************************************************************)
GivesUp(m, failed) == m = "recv" /\ failed > RetryReceivingCount

\* Mutant: a transfer without a handle is retried instead of refused.
TransferFailsUnchecked(t) ==
  /\ call[t].pc = "transfer"
  /\ LET failed == call[t].failed + 1
     IN Move(t, IF GivesUp(call[t].method, failed) THEN "unlock" ELSE "close",
             failed)
  /\ UNCHANGED <<state, instances_count, mp_devhandle, mex_dev_com, open, hid,
                 disconnected>>

\* Mutant: the failed transfers are not counted.
TransferFailsUncounted(t) ==
  /\ call[t].pc = "transfer"
  /\ mp_devhandle[call[t].obj] # Null
  /\ Goto(t, "close")
  /\ UNCHANGED <<state, instances_count, mp_devhandle, mex_dev_com, open, hid,
                 disconnected>>

TransferFails(t) ==
  /\ call[t].pc = "transfer"
  /\ mp_devhandle[call[t].obj] # Null
  /\ LET failed == call[t].failed + 1
     IN Move(t, IF GivesUp(call[t].method, failed) THEN "unlock" ELSE "close",
             failed)
  /\ UNCHANGED <<state, instances_count, mp_devhandle, mex_dev_com, open, hid,
                 disconnected>>

\* Mutant: the handle is forgotten but not closed.
CloseForgetting(t) ==
  /\ call[t].pc = "close"
  /\ mp_devhandle' = [mp_devhandle EXCEPT ![call[t].obj] = Null]
  /\ Goto(t, "check")
  /\ UNCHANGED <<state, instances_count, mex_dev_com, open, hid, disconnected>>

\* _disconnect: hid_close, then the test of instances_count, then hid_exit.
Close(t) ==
  /\ call[t].pc = "close"
  /\ open' = open \ {mp_devhandle[call[t].obj]}
  /\ mp_devhandle' = [mp_devhandle EXCEPT ![call[t].obj] = Null]
  /\ Goto(t, "check")
  /\ UNCHANGED <<state, instances_count, mex_dev_com, hid, disconnected>>

AfterDisconnect(m) == IF m \in {"send", "recv"} THEN "open" ELSE "unlock"

\* Mutant: off by one, the object that remains is not counted.
LastInstanceButOne == instances_count <= 2

LastInstance == instances_count = 1

Check(t) ==
  /\ call[t].pc = "check"
  /\ Goto(t, IF LastInstance THEN "hid_exit"
             ELSE AfterDisconnect(call[t].method))
  /\ UNCHANGED <<state, instances_count, mp_devhandle, mex_dev_com, open, hid,
                 disconnected>>

HidExit(t) ==
  /\ call[t].pc = "hid_exit"
  /\ hid' = FALSE
  /\ Goto(t, AfterDisconnect(call[t].method))
  /\ UNCHANGED <<state, instances_count, mp_devhandle, mex_dev_com, open,
                 disconnected>>

\* Mutant: send() makes a fourth attempt.
AfterConnectOnceMore(m, failed) ==
  IF m = "connect" \/ (m = "send" /\ failed > 3) THEN "unlock" ELSE "transfer"

(***************************************************************************)
(* _connect: hid_open or hid_open_path initialise the library if it is     *)
(* not, and return a handle or nothing.  send() then tries again while it  *)
(* has failed less than three times, recv() always; both throw when there  *)
(* is no handle.                                                           *)
(***************************************************************************)
AfterConnect(m, failed) ==
  IF m = "connect" \/ (m = "send" /\ failed >= 3) THEN "unlock" ELSE "transfer"

Open(t) ==
  /\ call[t].pc = "open"
  /\ \E h \in (Handles \ open) \cup {Null} :
       /\ mp_devhandle' = [mp_devhandle EXCEPT ![call[t].obj] = h]
       /\ open' = open \cup ({h} \ {Null})
  /\ hid' = TRUE
  /\ disconnected' = IF call[t].method = "connect"
                     THEN disconnected \ {call[t].obj} ELSE disconnected
  /\ Goto(t, AfterConnect(call[t].method, call[t].failed))
  /\ UNCHANGED <<state, instances_count, mex_dev_com>>

\* hid_enumerate returns, in could_be_enumerated
Scanned(t) ==
  /\ call[t].pc = "scan"
  /\ Goto(t, "unlock")
  /\ UNCHANGED <<state, instances_count, mp_devhandle, mex_dev_com, open, hid,
                 disconnected>>

\* The lock_guard goes.  The destructor has one more thing to do.
Unlock(t) ==
  /\ call[t].pc = "unlock"
  /\ mex_dev_com' = Null
  /\ IF call[t].method = "destroy" THEN Goto(t, "count")
     ELSE Leave(t)
  /\ disconnected' = IF call[t].method = "disconnect"
                     THEN disconnected \cup {call[t].obj} ELSE disconnected
  /\ UNCHANGED <<state, instances_count, mp_devhandle, open, hid>>

Uncount(t) ==
  /\ call[t].pc = "count"
  /\ instances_count' = instances_count - 1
  /\ state' = [state EXCEPT ![call[t].obj] = "none"]
  /\ Leave(t)
  /\ disconnected' = disconnected \ {call[t].obj}
  /\ UNCHANGED <<mp_devhandle, mex_dev_com, open, hid>>

\* Device::enumerate, and hid_enumerate in connect_with_path: no mutex.
EnumerateBegin(t) ==
  /\ call[t] = Idle
  /\ hid' = TRUE
  /\ call' = [call EXCEPT ![t] = [method |-> "enumerate", obj |-> Null,
                                  pc |-> "enumerate", failed |-> 0]]
  /\ UNCHANGED <<state, instances_count, mp_devhandle, mex_dev_com, open,
                 disconnected>>

EnumerateEnd(t) ==
  /\ call[t].pc = "enumerate"
  /\ Leave(t)
  /\ UNCHANGED <<state, instances_count, mp_devhandle, mex_dev_com, open, hid,
                 disconnected>>

Next ==
  \/ \E t \in Threads, o \in Objs : Construct(t, o)
  \/ \E t \in Threads, o \in Objs : CallMethod(t, o)
  \/ \E t \in Threads, o \in Objs : CallConnect(t, o)
  \/ \E t \in Threads, o \in Objs : CallDestructor(t, o)
  \/ \E t \in Threads : Lock(t)
  \/ \E t \in Threads : TransferDone(t)
  \/ \E t \in Threads : TransferFails(t)
  \/ \E t \in Threads : Close(t)
  \/ \E t \in Threads : Check(t)
  \/ \E t \in Threads : HidExit(t)
  \/ \E t \in Threads : Open(t)
  \/ \E t \in Threads : Scanned(t)
  \/ \E t \in Threads : Unlock(t)
  \/ \E t \in Threads : Uncount(t)
  \/ \E t \in Threads : EnumerateBegin(t)
  \/ \E t \in Threads : EnumerateEnd(t)

Spec == Init /\ [][Next]_vars

(***************************************************************************)
(* The thread inside the mutex keeps running, and hidapi returns.  Nothing *)
(* is assumed of threads that wait: a std::mutex need not be fair.         *)
(***************************************************************************)
HolderStep(t) ==
  \/ TransferDone(t)
  \/ TransferFails(t)
  \/ Close(t)
  \/ Check(t)
  \/ HidExit(t)
  \/ Open(t)
  \/ Scanned(t)
  \/ Unlock(t)

FairSpec == Spec /\ \A t \in Threads : WF_vars(HolderStep(t))

-----------------------------------------------------------------------------

Call == [method : Methods \cup {"none", "enumerate"},
         obj : Objs \cup {Null},
         pc : Locked \cup {"none", "lock", "count", "enumerate"},
         failed : Nat]

\* Type correctness.
TypeOK ==
  /\ state \in [Objs -> {"none", "new", "live", "dying"}]
  /\ instances_count \in Nat
  /\ mp_devhandle \in [Objs -> Handles \cup {Null}]
  /\ mex_dev_com \in Threads \cup {Null}
  /\ call \in [Threads -> Call]
  /\ open \in SUBSET Handles
  /\ hid \in BOOLEAN
  /\ disconnected \in SUBSET Objs

(***************************************************************************)
(* A handle that an object holds is open in hidapi, and hidapi is up: no   *)
(* transfer goes through a handle that hid_close or hid_exit has           *)
(* destroyed, whichever thread called them and however the constructors    *)
(* and destructors of other objects, which change instances_count without  *)
(* the mutex, fall between the test of instances_count and hid_exit.       *)
(***************************************************************************)
HandlesUsable ==
  \A o \in Objs : mp_devhandle[o] # Null => mp_devhandle[o] \in open /\ hid

(***************************************************************************)
(* No handle leaks: every open handle belongs to exactly one object, and   *)
(* that object exists, so that its destructor will close the handle.       *)
(***************************************************************************)
NoHandleLeaks ==
  /\ open \subseteq {mp_devhandle[o] : o \in Alive}
  /\ \A o, p \in Objs :
       mp_devhandle[o] = mp_devhandle[p] /\ mp_devhandle[o] # Null => o = p

(***************************************************************************)
(* send() makes at most three transfers and recv() at most one more than   *)
(* its retry count, although each failure reopens the device in between.   *)
(***************************************************************************)
AttemptsBounded ==
  \A t \in Threads : call[t].pc = "transfer" =>
    call[t].failed < IF call[t].method = "send" THEN 3
                     ELSE RetryReceivingCount + 1

(***************************************************************************)
(* disconnect() is final: once it has returned, only connect() gives the   *)
(* object a handle again.  A send or recv that another thread had queued   *)
(* behind it on the mutex finds no handle and does not reopen the device.  *)
(***************************************************************************)
DisconnectIsFinal == \A o \in disconnected : mp_devhandle[o] = Null

\* The mutex is released, however often the transfers inside it fail.
MutexReleased == \A t \in Threads : (mex_dev_com = t) ~> (mex_dev_com # t)

=============================================================================
