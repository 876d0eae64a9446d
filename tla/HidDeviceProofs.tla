-------------------------- MODULE HidDeviceProofs --------------------------
(***************************************************************************)
(* Proofs about HidDevice for any number of objects, threads and handles.  *)
(*                                                                         *)
(* hid_exit is safe because of three facts that hold together: the caller  *)
(* is itself alive, so instances_count = 1 means that no other object is   *)
(* (Counted, Engaged); its own handle is already closed (AtPc); and only   *)
(* the holder of the mutex opens handles, so the objects that other        *)
(* threads construct after the test have none yet (Mutex, Quiet).          *)
(***************************************************************************)
EXTENDS HidDevice, FiniteSetTheorems, TLAPS

\* The mutex is held by the thread that is inside it.
Mutex == \A t \in Threads : call[t].pc \in Locked <=> mex_dev_com = t

\* instances_count counts the objects that exist.
Counted == instances_count = Cardinality(Alive)

\* Which methods reach a program point.
Shape(c) ==
  /\ c.pc \in {"none", "enumerate"} => c.obj = Null
  /\ c.pc \in Locked \cup {"lock", "count"} =>
       c.obj \in Objs /\ c.method \in Methods
  /\ c.pc = "transfer" => c.method \in {"send", "recv"}
  /\ c.pc \in {"close", "check", "hid_exit"} =>
       c.method \in {"send", "recv", "disconnect", "destroy"}
  /\ c.pc = "open" => c.method \in {"connect", "send", "recv"}
  /\ c.pc = "scan" => c.method = "could_be_enumerated"
  /\ c.pc = "count" => c.method = "destroy"

\* An object in use exists; the one in its destructor is used by nobody else,
\* and one thread at most connects it.
Engaged ==
  \A t \in Threads :
    /\ Shape(call[t])
    /\ call[t].obj # Null => state[call[t].obj] # "none"
    /\ call[t].obj # Null /\ call[t].method = "destroy" =>
         /\ state[call[t].obj] = "dying"
         /\ \A u \in Threads : u # t => call[u].obj # call[t].obj
    /\ call[t].obj # Null /\ call[t].method = "connect" =>
         /\ state[call[t].obj] # "new"
         /\ \A u \in Threads : u # t /\ call[u].obj = call[t].obj =>
              call[u].method # "connect"

\* The handle that the thread inside the mutex finds.
AtPc ==
  \A t \in Threads :
    /\ call[t].pc = "close" => mp_devhandle[call[t].obj] # Null
    /\ call[t].pc \in {"check", "hid_exit", "open"} =>
         mp_devhandle[call[t].obj] = Null
    /\ call[t].pc \in {"unlock", "count"}
         /\ call[t].method \in {"disconnect", "destroy"} =>
         mp_devhandle[call[t].obj] = Null

\* The object has not been connected yet.
Virgin(o) ==
  \/ state[o] \in {"none", "new"}
  \/ \E t \in Threads : /\ call[t].obj = o
                        /\ call[t].method = "connect"
                        /\ call[t].pc = "lock"

Reopening == {"close", "check", "hid_exit", "open"}

\* A new object has no handle, and neither it nor a disconnected one is
\* being reopened.
Closed ==
  /\ \A o \in Objs : Virgin(o) => mp_devhandle[o] = Null
  /\ \A t \in Threads :
       call[t].pc \in Reopening /\ call[t].method # "connect" =>
         ~Virgin(call[t].obj) /\ call[t].obj \notin disconnected

\* Nobody has a handle when hid_exit is called.
Quiet ==
  \A t \in Threads : call[t].pc = "hid_exit" =>
    \A o \in Objs : mp_devhandle[o] = Null

\* Failed transfers of the call in progress.
Attempts ==
  \A t \in Threads :
    /\ call[t].pc = "lock" => call[t].failed = 0
    /\ call[t].pc \in Reopening =>
         /\ call[t].method = "send" => call[t].failed <= 3
         /\ call[t].method = "recv" => call[t].failed <= RetryReceivingCount

HInv ==
  /\ TypeOK
  /\ Mutex
  /\ Counted
  /\ Engaged
  /\ AtPc
  /\ Closed
  /\ Quiet
  /\ Attempts
  /\ HandlesUsable
  /\ NoHandleLeaks
  /\ AttemptsBounded
  /\ DisconnectIsFinal

-----------------------------------------------------------------------------

\* The invariant holds initially.
LEMMA InitHInv == Init => HInv
<1> SUFFICES ASSUME Init PROVE HInv
  OBVIOUS
<1> USE ConstantsAssumption
<1>1. TypeOK
  <2>1. hid \in BOOLEAN
    BY DEF Init
  <2>2. Idle \in Call
    BY DEF Idle, Call
  <2> QED
    BY <2>1, <2>2 DEF Init, TypeOK
<1>2. Alive = {}
  BY DEF Init, Alive
<1>3. Counted
  BY <1>2, FS_EmptySet DEF Init, Counted
<1>4. Mutex /\ Engaged /\ AtPc /\ Quiet /\ Attempts
  BY DEF Init, Mutex, Engaged, Shape, AtPc, Quiet, Attempts, Idle, Locked,
         Reopening
<1>5. Closed
  BY DEF Init, Closed, Idle, Reopening
<1>6. HandlesUsable /\ NoHandleLeaks /\ AttemptsBounded /\ DisconnectIsFinal
  BY DEF Init, HandlesUsable, NoHandleLeaks, AttemptsBounded,
         DisconnectIsFinal, Idle
<1> QED
  BY <1>1, <1>3, <1>4, <1>5, <1>6 DEF HInv

\* What Move changes.
LEMMA MoveFacts ==
  ASSUME call \in [Threads -> Call], NEW t \in Threads,
         NEW p \in Locked \cup {"count"}, NEW f \in Nat, Move(t, p, f)
  PROVE  /\ call' \in [Threads -> Call]
         /\ call'[t].pc = p /\ call'[t].failed = f
         /\ call'[t].method = call[t].method /\ call'[t].obj = call[t].obj
         /\ \A u \in Threads : u # t => call'[u] = call[u]
  BY DEF Move, Call

\* What entering a method changes.
LEMMA EnterFacts ==
  ASSUME call \in [Threads -> Call], NEW t \in Threads, NEW m \in Methods,
         NEW o \in Objs, Enter(t, m, o)
  PROVE  /\ call' \in [Threads -> Call]
         /\ call'[t].pc = "lock" /\ call'[t].failed = 0
         /\ call'[t].method = m /\ call'[t].obj = o
         /\ \A u \in Threads : u # t => call'[u] = call[u]
  BY DEF Enter, Call

\* What returning from a method changes.
LEMMA LeaveFacts ==
  ASSUME call \in [Threads -> Call], NEW t \in Threads, Leave(t)
  PROVE  /\ call' \in [Threads -> Call]
         /\ call'[t].pc = "none" /\ call'[t].failed = 0
         /\ call'[t].method = "none" /\ call'[t].obj = Null
         /\ \A u \in Threads : u # t => call'[u] = call[u]
  BY DEF Leave, Call, Idle

\* Alive is finite.
LEMMA AliveFinite == IsFiniteSet(Alive)
  BY ConstantsAssumption, FS_Subset DEF Alive

\* The constructor.
LEMMA ConstructHInv ==
  ASSUME HInv, NEW t \in Threads, NEW o \in Objs, Construct(t, o)
  PROVE  HInv'
<1> USE ConstantsAssumption
<1>0. call \in [Threads -> Call]
  BY DEF HInv, TypeOK
<1>1. /\ call' = call /\ state[o] = "none"
      /\ state' = [state EXCEPT ![o] = "new"]
      /\ instances_count' = instances_count + 1
      /\ UNCHANGED <<mp_devhandle, mex_dev_com, open, hid, disconnected>>
  BY DEF Construct
<1>3. \A p \in Objs : state'[p] = IF p = o THEN "new" ELSE state[p]
  BY <1>1 DEF HInv, TypeOK
<1>4. TypeOK'
  BY <1>1, <1>3 DEF HInv, TypeOK
<1>5. Mutex'
  BY <1>1, <1>3 DEF HInv, TypeOK, Mutex, Locked
<1>6. Counted'
  <2>1. Alive' = Alive \cup {o} /\ o \notin Alive
    BY <1>1, <1>3 DEF Alive
  <2>2. Cardinality(Alive') = Cardinality(Alive) + 1
    BY <2>1, AliveFinite, FS_AddElement
  <2> QED
    BY <1>1, <2>2 DEF HInv, Counted
<1>7. Engaged'
  BY <1>1, <1>3 DEF HInv, Engaged, Shape, Locked
<1>8. AtPc'
  BY <1>1, <1>3 DEF HInv, AtPc, Engaged, Shape
<1>9. Closed'
  BY <1>1, <1>3 DEF HInv, Closed, Virgin, Reopening
<1>10. Quiet' /\ Attempts'
  BY <1>1, <1>3 DEF HInv, Quiet, Attempts, Reopening
<1>11. HandlesUsable' /\ NoHandleLeaks' /\ DisconnectIsFinal'
  BY <1>1, <1>3 DEF HInv, HandlesUsable, NoHandleLeaks, DisconnectIsFinal,
     Alive
<1>12. AttemptsBounded'
  BY <1>1, <1>3 DEF HInv, AttemptsBounded
<1> QED
  BY <1>4, <1>5, <1>6, <1>7, <1>8, <1>9, <1>10, <1>11, <1>12 DEF HInv

\* A call of disconnect, send, recv or could_be_enumerated.
LEMMA CallMethodHInv ==
  ASSUME HInv, NEW t \in Threads, NEW o \in Objs, CallMethod(t, o)
  PROVE  HInv'
<1> USE ConstantsAssumption
<1>0. call \in [Threads -> Call]
  BY DEF HInv, TypeOK
<1>1. /\ call[t] = Idle /\ state[o] \in {"new", "live"}
      /\ UNCHANGED <<state, instances_count, mp_devhandle, mex_dev_com, open,
                     hid, disconnected>>
  BY DEF CallMethod
<1>2. PICK m \in {"disconnect", "send", "recv", "could_be_enumerated"} :
        Enter(t, m, o)
  BY DEF CallMethod
<1>3. /\ call' \in [Threads -> Call]
      /\ call'[t].pc = "lock" /\ call'[t].failed = 0
      /\ call'[t].method = m /\ call'[t].obj = o
      /\ \A u \in Threads : u # t => call'[u] = call[u]
  BY <1>0, <1>2, EnterFacts DEF Methods
<1>4. TypeOK'
  BY <1>1, <1>3 DEF HInv, TypeOK
<1>5. Mutex'
  BY <1>1, <1>3 DEF HInv, TypeOK, Mutex, Locked, Idle
<1>6. Counted'
  BY <1>1 DEF HInv, Counted, Alive
<1>7. Engaged'
  BY <1>1, <1>3 DEF HInv, TypeOK, Engaged, Shape, Locked, Idle, Methods
<1>8. AtPc'
  BY <1>1, <1>3 DEF HInv, AtPc, Engaged, Shape
<1>9. Closed'
  BY <1>1, <1>3 DEF HInv, Closed, Virgin, Reopening
<1>10. Quiet' /\ Attempts'
  BY <1>1, <1>3 DEF HInv, Quiet, Attempts, Reopening
<1>11. HandlesUsable' /\ NoHandleLeaks' /\ DisconnectIsFinal'
  BY <1>1 DEF HInv, HandlesUsable, NoHandleLeaks, DisconnectIsFinal, Alive
<1>12. AttemptsBounded'
  BY <1>1, <1>3 DEF HInv, AttemptsBounded
<1> QED
  BY <1>4, <1>5, <1>6, <1>7, <1>8, <1>9, <1>10, <1>11, <1>12 DEF HInv

\* The one call of connect.
LEMMA CallConnectHInv ==
  ASSUME HInv, NEW t \in Threads, NEW o \in Objs, CallConnect(t, o)
  PROVE  HInv'
<1> USE ConstantsAssumption
<1>0. call \in [Threads -> Call]
  BY DEF HInv, TypeOK
<1>1. /\ call[t] = Idle /\ state[o] = "new"
      /\ state' = [state EXCEPT ![o] = "live"]
      /\ UNCHANGED <<instances_count, mp_devhandle, mex_dev_com, open, hid,
                     disconnected>>
  BY DEF CallConnect
<1>2. \A p \in Objs : state'[p] = IF p = o THEN "live" ELSE state[p]
  BY <1>1 DEF HInv, TypeOK
<1>3. /\ call' \in [Threads -> Call]
      /\ call'[t].pc = "lock" /\ call'[t].failed = 0
      /\ call'[t].method = "connect" /\ call'[t].obj = o
      /\ \A u \in Threads : u # t => call'[u] = call[u]
  BY <1>0, EnterFacts DEF CallConnect, Methods
<1>4. TypeOK'
  BY <1>1, <1>3 DEF HInv, TypeOK
<1>5. Mutex'
  BY <1>1, <1>3 DEF HInv, TypeOK, Mutex, Locked, Idle
<1>6. Counted'
  BY <1>1, <1>2 DEF HInv, Counted, Alive
<1>7. Engaged'
  BY <1>1, <1>2, <1>3 DEF HInv, TypeOK, Engaged, Shape, Locked, Idle, Methods
<1>8. AtPc'
  BY <1>1, <1>3 DEF HInv, AtPc, Engaged, Shape
<1>9. Closed'
  BY <1>1, <1>2, <1>3 DEF HInv, Closed, Virgin, Reopening
<1>10. Quiet' /\ Attempts'
  BY <1>1, <1>3 DEF HInv, Quiet, Attempts, Reopening
<1>11. HandlesUsable' /\ NoHandleLeaks' /\ DisconnectIsFinal'
  BY <1>1, <1>2 DEF HInv, HandlesUsable, NoHandleLeaks, DisconnectIsFinal,
     Alive
<1>12. AttemptsBounded'
  BY <1>1, <1>3 DEF HInv, AttemptsBounded
<1> QED
  BY <1>4, <1>5, <1>6, <1>7, <1>8, <1>9, <1>10, <1>11, <1>12 DEF HInv

\* The last reference goes.
LEMMA CallDestructorHInv ==
  ASSUME HInv, NEW t \in Threads, NEW o \in Objs, CallDestructor(t, o)
  PROVE  HInv'
<1> USE ConstantsAssumption
<1>0. call \in [Threads -> Call]
  BY DEF HInv, TypeOK
<1>1. /\ call[t] = Idle /\ state[o] \in {"new", "live"}
      /\ \A u \in Threads : call[u].obj # o
      /\ state' = [state EXCEPT ![o] = "dying"]
      /\ UNCHANGED <<instances_count, mp_devhandle, mex_dev_com, open, hid,
                     disconnected>>
  BY DEF CallDestructor
<1>2. \A p \in Objs : state'[p] = IF p = o THEN "dying" ELSE state[p]
  BY <1>1 DEF HInv, TypeOK
<1>3. /\ call' \in [Threads -> Call]
      /\ call'[t].pc = "lock" /\ call'[t].failed = 0
      /\ call'[t].method = "destroy" /\ call'[t].obj = o
      /\ \A u \in Threads : u # t => call'[u] = call[u]
  BY <1>0, EnterFacts DEF CallDestructor, Methods
<1>4. TypeOK'
  BY <1>1, <1>3 DEF HInv, TypeOK
<1>5. Mutex'
  BY <1>1, <1>3 DEF HInv, TypeOK, Mutex, Locked, Idle
<1>6. Counted'
  BY <1>1, <1>2 DEF HInv, Counted, Alive
<1>7. Engaged'
  BY <1>1, <1>2, <1>3 DEF HInv, TypeOK, Engaged, Shape, Locked, Idle, Methods
<1>8. AtPc'
  BY <1>1, <1>3 DEF HInv, AtPc, Engaged, Shape
<1>9. Closed'
  BY <1>1, <1>2, <1>3 DEF HInv, Closed, Virgin, Reopening
<1>10. Quiet' /\ Attempts'
  BY <1>1, <1>3 DEF HInv, Quiet, Attempts, Reopening
<1>11. HandlesUsable' /\ NoHandleLeaks' /\ DisconnectIsFinal'
  BY <1>1, <1>2 DEF HInv, HandlesUsable, NoHandleLeaks, DisconnectIsFinal,
     Alive
<1>12. AttemptsBounded'
  BY <1>1, <1>3 DEF HInv, AttemptsBounded
<1> QED
  BY <1>4, <1>5, <1>6, <1>7, <1>8, <1>9, <1>10, <1>11, <1>12 DEF HInv

\* A thread gets the mutex.
LEMMA LockHInv ==
  ASSUME HInv, NEW t \in Threads, Lock(t)
  PROVE  HInv'
<1> USE ConstantsAssumption
<1>0. call \in [Threads -> Call]
  BY DEF HInv, TypeOK
<1> DEFINE next == FirstStep(call[t].method, mp_devhandle[call[t].obj])
<1>1. /\ call[t].pc = "lock" /\ mex_dev_com = Null /\ mex_dev_com' = t
      /\ Goto(t, next) /\ hid' = (hid \/ next = "scan")
      /\ UNCHANGED <<state, instances_count, mp_devhandle, open,
                     disconnected>>
  BY DEF Lock
<1>2. /\ next \in {"open", "unlock", "close", "scan", "transfer"}
      /\ next = "open" => call[t].method = "connect"
      /\ next = "close" => /\ call[t].method \in {"disconnect", "destroy"}
                          /\ mp_devhandle[call[t].obj] # Null
      /\ next = "unlock" => mp_devhandle[call[t].obj] = Null
      /\ next = "transfer" => call[t].method \in {"send", "recv"}
      /\ next = "scan" => call[t].method = "could_be_enumerated"
  BY <1>1 DEF FirstStep, HInv, Engaged, Shape, Methods
<1> HIDE DEF next
<1>3. /\ call' \in [Threads -> Call]
      /\ call'[t].pc = next /\ call'[t].failed = call[t].failed
      /\ call'[t].method = call[t].method /\ call'[t].obj = call[t].obj
      /\ \A u \in Threads : u # t => call'[u] = call[u]
  BY <1>0, <1>1, <1>2, MoveFacts DEF Goto, Locked, Call
<1>4. TypeOK'
  <2>1. hid' \in BOOLEAN
    BY <1>1
  <2> QED
    BY <1>1, <1>3, <2>1 DEF HInv, TypeOK
<1>5. Mutex'
  BY <1>1, <1>2, <1>3 DEF HInv, TypeOK, Mutex, Locked
<1>6. Counted'
  BY <1>1 DEF HInv, Counted, Alive
<1>7. Engaged'
  BY <1>1, <1>2, <1>3 DEF HInv, Engaged, Shape, Locked
<1>8. AtPc'
  BY <1>1, <1>2, <1>3 DEF HInv, AtPc, Engaged, Shape, Closed, Virgin
<1>9. Closed'
  BY <1>1, <1>2, <1>3 DEF HInv, Closed, Virgin, Reopening, DisconnectIsFinal,
     Engaged, Shape
<1>10. Quiet' /\ Attempts'
  BY <1>1, <1>2, <1>3 DEF HInv, Quiet, Attempts, Reopening
<1>11. HandlesUsable' /\ NoHandleLeaks' /\ DisconnectIsFinal'
  BY <1>1 DEF HInv, HandlesUsable, NoHandleLeaks, DisconnectIsFinal, Alive
<1>12. AttemptsBounded'
  BY <1>1, <1>2, <1>3 DEF HInv, AttemptsBounded, Attempts
<1> QED
  BY <1>4, <1>5, <1>6, <1>7, <1>8, <1>9, <1>10, <1>11, <1>12 DEF HInv

\* A transfer that succeeds, or finds no handle.
LEMMA TransferDoneHInv ==
  ASSUME HInv, NEW t \in Threads, TransferDone(t)
  PROVE  HInv'
<1> USE ConstantsAssumption
<1>0. call \in [Threads -> Call]
  BY DEF HInv, TypeOK
<1>1. /\ call[t].pc = "transfer" /\ Goto(t, "unlock")
      /\ UNCHANGED <<state, instances_count, mp_devhandle, mex_dev_com, open,
                     hid, disconnected>>
  BY DEF TransferDone
<1>3. /\ call' \in [Threads -> Call]
      /\ call'[t].pc = "unlock" /\ call'[t].failed = call[t].failed
      /\ call'[t].method = call[t].method /\ call'[t].obj = call[t].obj
      /\ \A u \in Threads : u # t => call'[u] = call[u]
  BY <1>0, <1>1, MoveFacts DEF Goto, Locked, Call
<1>4. TypeOK'
  BY <1>1, <1>3 DEF HInv, TypeOK
<1>5. Mutex'
  BY <1>1, <1>3 DEF HInv, TypeOK, Mutex, Locked
<1>6. Counted'
  BY <1>1 DEF HInv, Counted, Alive
<1>7. Engaged'
  BY <1>1, <1>3 DEF HInv, Engaged, Shape, Locked
<1>8. AtPc'
  BY <1>1, <1>3 DEF HInv, AtPc, Engaged, Shape
<1>9. Closed'
  BY <1>1, <1>3 DEF HInv, Closed, Virgin, Reopening
<1>10. Quiet' /\ Attempts'
  BY <1>1, <1>3 DEF HInv, Quiet, Attempts, Reopening
<1>11. HandlesUsable' /\ NoHandleLeaks' /\ DisconnectIsFinal'
  BY <1>1 DEF HInv, HandlesUsable, NoHandleLeaks, DisconnectIsFinal, Alive
<1>12. AttemptsBounded'
  BY <1>1, <1>3 DEF HInv, AttemptsBounded
<1> QED
  BY <1>4, <1>5, <1>6, <1>7, <1>8, <1>9, <1>10, <1>11, <1>12 DEF HInv

\* A transfer that fails.
LEMMA TransferFailsHInv ==
  ASSUME HInv, NEW t \in Threads, TransferFails(t)
  PROVE  HInv'
<1> USE ConstantsAssumption
<1>0. call \in [Threads -> Call]
  BY DEF HInv, TypeOK
<1> DEFINE f == call[t].failed + 1
           p == IF GivesUp(call[t].method, f) THEN "unlock" ELSE "close"
<1>1. /\ call[t].pc = "transfer" /\ mp_devhandle[call[t].obj] # Null
      /\ Move(t, p, f)
      /\ UNCHANGED <<state, instances_count, mp_devhandle, mex_dev_com, open,
                     hid, disconnected>>
  BY DEF TransferFails
<1>2. /\ p \in {"unlock", "close"} /\ f \in Nat
      /\ p = "close" /\ call[t].method = "recv" => f <= RetryReceivingCount
      /\ call[t].method = "send" => f <= 3
  BY <1>0, <1>1 DEF GivesUp, Call, HInv, AttemptsBounded
<1> HIDE DEF p, f
<1>3. /\ call' \in [Threads -> Call]
      /\ call'[t].pc = p /\ call'[t].failed = f
      /\ call'[t].method = call[t].method /\ call'[t].obj = call[t].obj
      /\ \A u \in Threads : u # t => call'[u] = call[u]
  BY <1>0, <1>1, <1>2, MoveFacts DEF Locked
<1>4. TypeOK'
  BY <1>1, <1>3 DEF HInv, TypeOK
<1>5. Mutex'
  BY <1>1, <1>2, <1>3 DEF HInv, TypeOK, Mutex, Locked
<1>6. Counted'
  BY <1>1 DEF HInv, Counted, Alive
<1>7. Engaged'
  BY <1>1, <1>2, <1>3 DEF HInv, Engaged, Shape, Locked
<1>8. AtPc'
  BY <1>1, <1>2, <1>3 DEF HInv, AtPc, Engaged, Shape
<1>9. Closed'
  BY <1>1, <1>2, <1>3 DEF HInv, Closed, Virgin, Reopening, DisconnectIsFinal,
     Engaged, Shape, Locked
<1>10. Quiet' /\ Attempts'
  BY <1>1, <1>2, <1>3 DEF HInv, Quiet, Attempts, Reopening
<1>11. HandlesUsable' /\ NoHandleLeaks' /\ DisconnectIsFinal'
  BY <1>1 DEF HInv, HandlesUsable, NoHandleLeaks, DisconnectIsFinal, Alive
<1>12. AttemptsBounded'
  BY <1>1, <1>2, <1>3 DEF HInv, AttemptsBounded, Attempts
<1> QED
  BY <1>4, <1>5, <1>6, <1>7, <1>8, <1>9, <1>10, <1>11, <1>12 DEF HInv

\* hid_close.
LEMMA CloseHInv ==
  ASSUME HInv, NEW t \in Threads, Close(t)
  PROVE  HInv'
<1> USE ConstantsAssumption
<1>0. call \in [Threads -> Call]
  BY DEF HInv, TypeOK
<1> DEFINE o == call[t].obj
<1>1. /\ call[t].pc = "close" /\ Goto(t, "check")
      /\ open' = open \ {mp_devhandle[o]}
      /\ mp_devhandle' = [mp_devhandle EXCEPT ![o] = Null]
      /\ UNCHANGED <<state, instances_count, mex_dev_com, hid, disconnected>>
  BY DEF Close
<1>2. /\ o \in Objs /\ mp_devhandle[o] # Null
      /\ \A q \in Objs : mp_devhandle'[q] = IF q = o THEN Null
                                             ELSE mp_devhandle[q]
  BY <1>1 DEF HInv, TypeOK, Engaged, Shape, AtPc, Locked
<1>3. /\ call' \in [Threads -> Call]
      /\ call'[t].pc = "check" /\ call'[t].failed = call[t].failed
      /\ call'[t].method = call[t].method /\ call'[t].obj = call[t].obj
      /\ \A u \in Threads : u # t => call'[u] = call[u]
  BY <1>0, <1>1, MoveFacts DEF Goto, Locked, Call
<1>4. TypeOK'
  BY <1>1, <1>3 DEF HInv, TypeOK
<1>5. Mutex'
  BY <1>1, <1>3 DEF HInv, TypeOK, Mutex, Locked
<1>6. Counted'
  BY <1>1 DEF HInv, Counted, Alive
<1>7. Engaged'
  BY <1>1, <1>3 DEF HInv, Engaged, Shape, Locked
<1>8. AtPc'
  BY <1>1, <1>2, <1>3 DEF HInv, AtPc, Engaged, Shape, Mutex, Locked
<1>9. Closed'
  BY <1>1, <1>2, <1>3 DEF HInv, Closed, Virgin, Reopening
<1>10. Quiet' /\ Attempts'
  BY <1>1, <1>2, <1>3 DEF HInv, Quiet, Attempts, Reopening
<1>11. HandlesUsable' /\ NoHandleLeaks' /\ DisconnectIsFinal'
  <2>1. HandlesUsable' /\ DisconnectIsFinal'
    BY <1>1, <1>2 DEF HInv, HandlesUsable, NoHandleLeaks, DisconnectIsFinal
  <2>2. NoHandleLeaks'
    BY <1>1, <1>2 DEF HInv, NoHandleLeaks, Alive
  <2> QED
    BY <2>1, <2>2
<1>12. AttemptsBounded'
  BY <1>1, <1>3 DEF HInv, AttemptsBounded
<1> QED
  BY <1>4, <1>5, <1>6, <1>7, <1>8, <1>9, <1>10, <1>11, <1>12 DEF HInv

\* The test of instances_count: when it succeeds, no handle is left.
LEMMA CheckHInv ==
  ASSUME HInv, NEW t \in Threads, Check(t)
  PROVE  HInv'
<1> USE ConstantsAssumption
<1>0. call \in [Threads -> Call]
  BY DEF HInv, TypeOK
<1> DEFINE p == IF LastInstance THEN "hid_exit"
                ELSE AfterDisconnect(call[t].method)
<1>1. /\ call[t].pc = "check" /\ Goto(t, p)
      /\ UNCHANGED <<state, instances_count, mp_devhandle, mex_dev_com, open,
                     hid, disconnected>>
  BY DEF Check
<1>2. /\ p \in {"hid_exit", "open", "unlock"}
      /\ p = "open" => call[t].method \in {"send", "recv"}
      /\ p = "hid_exit" => instances_count = 1
  BY DEF AfterDisconnect, LastInstance
<1> HIDE DEF p
<1>3. /\ call' \in [Threads -> Call]
      /\ call'[t].pc = p /\ call'[t].failed = call[t].failed
      /\ call'[t].method = call[t].method /\ call'[t].obj = call[t].obj
      /\ \A u \in Threads : u # t => call'[u] = call[u]
  BY <1>0, <1>1, <1>2, MoveFacts DEF Goto, Locked, Call
<1>4. TypeOK'
  BY <1>1, <1>3 DEF HInv, TypeOK
<1>5. Mutex'
  BY <1>1, <1>2, <1>3 DEF HInv, TypeOK, Mutex, Locked
<1>6. Counted'
  BY <1>1 DEF HInv, Counted, Alive
<1>7. Engaged'
  BY <1>1, <1>2, <1>3 DEF HInv, Engaged, Shape, Locked
<1>8. AtPc'
  BY <1>1, <1>2, <1>3 DEF HInv, AtPc, Engaged, Shape
<1>9. Closed'
  BY <1>1, <1>2, <1>3 DEF HInv, Closed, Virgin, Reopening
<1>10. Quiet' /\ Attempts'
  <2>1. ASSUME p = "hid_exit" PROVE \A o \in Objs : mp_devhandle[o] = Null
    <3>1. /\ call[t].obj \in Alive
          /\ mp_devhandle[call[t].obj] = Null
      BY <1>1 DEF HInv, Engaged, Shape, AtPc, Alive, Locked
    <3>2. Cardinality(Alive) = 1
      BY <1>2, <2>1 DEF HInv, Counted
    <3>3. PICK x : Alive = {x}
      BY <3>2, AliveFinite, FS_Singleton
    <3>4. \A o \in Objs : o # call[t].obj => state[o] = "none"
      BY <3>1, <3>3 DEF Alive
    <3> QED
      BY <3>1, <3>4 DEF HInv, Closed, Virgin
  <2> QED
    BY <1>1, <1>2, <1>3, <2>1 DEF HInv, Quiet, Attempts, Reopening
<1>11. HandlesUsable' /\ NoHandleLeaks' /\ DisconnectIsFinal'
  BY <1>1 DEF HInv, HandlesUsable, NoHandleLeaks, DisconnectIsFinal, Alive
<1>12. AttemptsBounded'
  BY <1>1, <1>2, <1>3 DEF HInv, AttemptsBounded, Attempts
<1> QED
  BY <1>4, <1>5, <1>6, <1>7, <1>8, <1>9, <1>10, <1>11, <1>12 DEF HInv

\* hid_exit.
LEMMA HidExitHInv ==
  ASSUME HInv, NEW t \in Threads, HidExit(t)
  PROVE  HInv'
<1> USE ConstantsAssumption
<1>0. call \in [Threads -> Call]
  BY DEF HInv, TypeOK
<1> DEFINE p == AfterDisconnect(call[t].method)
<1>1. /\ call[t].pc = "hid_exit" /\ Goto(t, p) /\ hid' = FALSE
      /\ UNCHANGED <<state, instances_count, mp_devhandle, mex_dev_com, open,
                     disconnected>>
  BY DEF HidExit
<1>2. /\ p \in {"open", "unlock"}
      /\ p = "open" => call[t].method \in {"send", "recv"}
  BY DEF AfterDisconnect
<1> HIDE DEF p
<1>3. /\ call' \in [Threads -> Call]
      /\ call'[t].pc = p /\ call'[t].failed = call[t].failed
      /\ call'[t].method = call[t].method /\ call'[t].obj = call[t].obj
      /\ \A u \in Threads : u # t => call'[u] = call[u]
  BY <1>0, <1>1, <1>2, MoveFacts DEF Goto, Locked, Call
<1>4. TypeOK'
  <2>1. hid' \in BOOLEAN
    BY <1>1
  <2> QED
    BY <1>1, <1>3, <2>1 DEF HInv, TypeOK
<1>5. Mutex'
  BY <1>1, <1>2, <1>3 DEF HInv, TypeOK, Mutex, Locked
<1>6. Counted'
  BY <1>1 DEF HInv, Counted, Alive
<1>7. Engaged'
  BY <1>1, <1>2, <1>3 DEF HInv, Engaged, Shape, Locked
<1>8. AtPc'
  BY <1>1, <1>2, <1>3 DEF HInv, AtPc, Engaged, Shape
<1>9. Closed'
  BY <1>1, <1>2, <1>3 DEF HInv, Closed, Virgin, Reopening
<1>10. Quiet' /\ Attempts'
  BY <1>1, <1>2, <1>3 DEF HInv, Quiet, Attempts, Reopening
<1>11. HandlesUsable' /\ NoHandleLeaks' /\ DisconnectIsFinal'
  BY <1>1 DEF HInv, HandlesUsable, NoHandleLeaks, DisconnectIsFinal, Alive,
     Quiet
<1>12. AttemptsBounded'
  BY <1>1, <1>2, <1>3 DEF HInv, AttemptsBounded, Attempts
<1> QED
  BY <1>4, <1>5, <1>6, <1>7, <1>8, <1>9, <1>10, <1>11, <1>12 DEF HInv

\* hid_open or hid_open_path.
LEMMA OpenHInv ==
  ASSUME HInv, NEW t \in Threads, Open(t)
  PROVE  HInv'
<1> USE ConstantsAssumption
<1>0. call \in [Threads -> Call]
  BY DEF HInv, TypeOK
<1> DEFINE o == call[t].obj
           p == AfterConnect(call[t].method, call[t].failed)
<1>1. /\ call[t].pc = "open" /\ Goto(t, p) /\ hid' = TRUE
      /\ disconnected' = IF call[t].method = "connect"
                         THEN disconnected \ {o} ELSE disconnected
      /\ UNCHANGED <<state, instances_count, mex_dev_com>>
  BY DEF Open
<1>2. PICK h \in (Handles \ open) \cup {Null} :
        /\ mp_devhandle' = [mp_devhandle EXCEPT ![o] = h]
        /\ open' = open \cup ({h} \ {Null})
  BY DEF Open
<1>a. /\ o \in Objs /\ mp_devhandle[o] = Null
      /\ \A q \in Objs : mp_devhandle'[q] = IF q = o THEN h
                                             ELSE mp_devhandle[q]
      /\ ~Virgin(o) /\ o \notin disconnected'
      /\ state[o] # "none" /\ mex_dev_com = t
  <2>1. /\ o \in Objs /\ mp_devhandle[o] = Null
        /\ \A q \in Objs : mp_devhandle'[q] = IF q = o THEN h
                                               ELSE mp_devhandle[q]
        /\ state[o] # "none" /\ mex_dev_com = t
    BY <1>1, <1>2 DEF HInv, TypeOK, Engaged, Shape, AtPc, Locked, Mutex
  <2>2. ~Virgin(o) /\ o \notin disconnected'
    BY <1>1, <2>1 DEF HInv, TypeOK, Engaged, Shape, Closed, Virgin, Reopening
  <2> QED
    BY <2>1, <2>2
<1>b. /\ p \in {"transfer", "unlock"}
      /\ p = "transfer" => /\ call[t].method \in {"send", "recv"}
                           /\ call[t].method = "send" => call[t].failed < 3
      /\ p = "unlock" => call[t].method \in {"connect", "send"}
  BY <1>0, <1>1 DEF AfterConnect, HInv, Engaged, Shape, Call
<1> HIDE DEF p
<1>3. /\ call' \in [Threads -> Call]
      /\ call'[t].pc = p /\ call'[t].failed = call[t].failed
      /\ call'[t].method = call[t].method /\ call'[t].obj = call[t].obj
      /\ \A u \in Threads : u # t => call'[u] = call[u]
  BY <1>0, <1>1, <1>b, MoveFacts DEF Goto, Locked, Call
<1>4. TypeOK'
  <2>1. hid' \in BOOLEAN
    BY <1>1
  <2>2. /\ open' \in SUBSET Handles
        /\ mp_devhandle' \in [Objs -> Handles \cup {Null}]
    BY <1>2 DEF HInv, TypeOK
  <2> QED
    BY <1>1, <1>3, <2>1, <2>2 DEF HInv, TypeOK
<1>5. Mutex'
  BY <1>1, <1>b, <1>3 DEF HInv, TypeOK, Mutex, Locked
<1>6. Counted'
  BY <1>1 DEF HInv, Counted, Alive
<1>7. Engaged'
  BY <1>1, <1>b, <1>3 DEF HInv, Engaged, Shape, Locked
<1>8. AtPc'
  <2> SUFFICES ASSUME NEW u \in Threads
               PROVE  /\ call'[u].pc = "close" =>
                            mp_devhandle'[call'[u].obj] # Null
                      /\ call'[u].pc \in {"check", "hid_exit", "open"} =>
                            mp_devhandle'[call'[u].obj] = Null
                      /\ call'[u].pc \in {"unlock", "count"}
                           /\ call'[u].method \in {"disconnect", "destroy"} =>
                            mp_devhandle'[call'[u].obj] = Null
    BY DEF AtPc
  <2>1. CASE u = t
    BY <1>3, <1>b, <2>1
  <2>2. CASE u # t
    <3>1. call'[u] = call[u] /\ call[u].pc \notin Locked
      BY <1>3, <1>a, <2>2 DEF HInv, Mutex
    <3>2. call[u].pc = "count" => call[u].obj # o /\ call[u].obj \in Objs
      BY <2>2, <1>a DEF HInv, Engaged, Shape
    <3> QED
      BY <1>a, <3>1, <3>2 DEF HInv, AtPc, Locked
  <2> QED
    BY <2>1, <2>2
<1>9. Closed'
  <2>1. \A q \in Objs : (Virgin(q))' <=> Virgin(q)
    BY <1>1, <1>3, <1>b DEF Virgin
  <2>2. \A q \in Objs : (Virgin(q))' => mp_devhandle'[q] = Null
    BY <1>a, <2>1 DEF HInv, Closed
  <2>3. \A u \in Threads : call'[u].pc \notin Reopening
    BY <1>3, <1>a, <1>b DEF HInv, Mutex, Reopening, Locked
  <2> QED
    BY <2>2, <2>3 DEF Closed
<1>10. Quiet' /\ Attempts'
  <2>1. \A u \in Threads : call'[u].pc \notin Reopening
    BY <1>3, <1>a, <1>b DEF HInv, Mutex, Reopening, Locked
  <2> QED
    BY <1>3, <1>b, <2>1 DEF HInv, Quiet, Attempts, Reopening
<1>11. HandlesUsable' /\ NoHandleLeaks' /\ DisconnectIsFinal'
  <2>1. HandlesUsable'
    BY <1>1, <1>2, <1>a DEF HInv, HandlesUsable
  <2>2. NoHandleLeaks'
    BY <1>1, <1>2, <1>a DEF HInv, TypeOK, HandlesUsable, NoHandleLeaks, Alive
  <2>3. DisconnectIsFinal'
    BY <1>1, <1>a DEF HInv, TypeOK, DisconnectIsFinal
  <2> QED
    BY <2>1, <2>2, <2>3
<1>12. AttemptsBounded'
  BY <1>0, <1>1, <1>b, <1>3 DEF HInv, AttemptsBounded, Attempts, Reopening,
     Call
<1> QED
  BY <1>4, <1>5, <1>6, <1>7, <1>8, <1>9, <1>10, <1>11, <1>12 DEF HInv

\* hid_enumerate returns to could_be_enumerated.
LEMMA ScannedHInv ==
  ASSUME HInv, NEW t \in Threads, Scanned(t)
  PROVE  HInv'
<1> USE ConstantsAssumption
<1>0. call \in [Threads -> Call]
  BY DEF HInv, TypeOK
<1>1. /\ call[t].pc = "scan" /\ Goto(t, "unlock")
      /\ UNCHANGED <<state, instances_count, mp_devhandle, mex_dev_com, open,
                     hid, disconnected>>
  BY DEF Scanned
<1>3. /\ call' \in [Threads -> Call]
      /\ call'[t].pc = "unlock" /\ call'[t].failed = call[t].failed
      /\ call'[t].method = call[t].method /\ call'[t].obj = call[t].obj
      /\ \A u \in Threads : u # t => call'[u] = call[u]
  BY <1>0, <1>1, MoveFacts DEF Goto, Locked, Call
<1>4. TypeOK'
  BY <1>1, <1>3 DEF HInv, TypeOK
<1>5. Mutex'
  BY <1>1, <1>3 DEF HInv, TypeOK, Mutex, Locked
<1>6. Counted'
  BY <1>1 DEF HInv, Counted, Alive
<1>7. Engaged'
  BY <1>1, <1>3 DEF HInv, Engaged, Shape, Locked
<1>8. AtPc'
  BY <1>1, <1>3 DEF HInv, AtPc, Engaged, Shape
<1>9. Closed'
  BY <1>1, <1>3 DEF HInv, Closed, Virgin, Reopening
<1>10. Quiet' /\ Attempts'
  BY <1>1, <1>3 DEF HInv, Quiet, Attempts, Reopening
<1>11. HandlesUsable' /\ NoHandleLeaks' /\ DisconnectIsFinal'
  BY <1>1 DEF HInv, HandlesUsable, NoHandleLeaks, DisconnectIsFinal, Alive
<1>12. AttemptsBounded'
  BY <1>1, <1>3 DEF HInv, AttemptsBounded
<1> QED
  BY <1>4, <1>5, <1>6, <1>7, <1>8, <1>9, <1>10, <1>11, <1>12 DEF HInv

\* The lock_guard goes.
LEMMA UnlockHInv ==
  ASSUME HInv, NEW t \in Threads, Unlock(t)
  PROVE  HInv'
<1> USE ConstantsAssumption
<1>0. call \in [Threads -> Call]
  BY DEF HInv, TypeOK
<1> DEFINE o == call[t].obj
<1>1. /\ call[t].pc = "unlock" /\ mex_dev_com = t /\ mex_dev_com' = Null
      /\ disconnected' = IF call[t].method = "disconnect"
                         THEN disconnected \cup {o} ELSE disconnected
      /\ o \in Objs
      /\ UNCHANGED <<state, instances_count, mp_devhandle, open, hid>>
  BY DEF Unlock, HInv, Mutex, Locked, Engaged, Shape
<1>2. /\ call' \in [Threads -> Call]
      /\ \A u \in Threads : u # t => call'[u] = call[u]
      /\ \/ /\ call[t].method = "destroy"
            /\ call'[t].pc = "count" /\ call'[t].method = "destroy"
            /\ call'[t].obj = o
         \/ /\ call[t].method # "destroy"
            /\ call'[t].pc = "none" /\ call'[t].method = "none"
            /\ call'[t].obj = Null
  BY <1>0, MoveFacts, LeaveFacts DEF Unlock, Goto, Call
<1>3. \A u \in Threads : call'[u].pc \notin Locked
  BY <1>1, <1>2 DEF HInv, Mutex, Locked
<1>4. TypeOK'
  BY <1>1, <1>2 DEF HInv, TypeOK
<1>5. Mutex'
  BY <1>1, <1>3 DEF HInv, TypeOK, Mutex
<1>6. Counted'
  BY <1>1 DEF HInv, Counted, Alive
<1>7. Engaged'
  BY <1>1, <1>2 DEF HInv, Engaged, Shape, Locked
<1>8. AtPc'
  BY <1>1, <1>2, <1>3 DEF HInv, AtPc, Locked
<1>9. Closed'
  <2>1. \A q \in Objs : (Virgin(q))' <=> Virgin(q)
    BY <1>1, <1>2 DEF Virgin
  <2> QED
    BY <1>1, <1>3, <2>1 DEF HInv, Closed, Reopening, Locked
<1>10. Quiet' /\ Attempts' /\ AttemptsBounded'
  BY <1>2, <1>3 DEF HInv, Quiet, Attempts, AttemptsBounded, Reopening, Locked
<1>11. HandlesUsable' /\ NoHandleLeaks' /\ DisconnectIsFinal'
  BY <1>1 DEF HInv, HandlesUsable, NoHandleLeaks, DisconnectIsFinal, Alive,
     AtPc
<1> QED
  BY <1>4, <1>5, <1>6, <1>7, <1>8, <1>9, <1>10, <1>11 DEF HInv

\* The end of the destructor: the object goes, without a handle.
LEMMA UncountHInv ==
  ASSUME HInv, NEW t \in Threads, Uncount(t)
  PROVE  HInv'
<1> USE ConstantsAssumption
<1>0. call \in [Threads -> Call]
  BY DEF HInv, TypeOK
<1> DEFINE o == call[t].obj
<1>1. /\ call[t].pc = "count" /\ o \in Objs
      /\ mp_devhandle[o] = Null /\ state[o] = "dying"
      /\ \A u \in Threads : u # t => call[u].obj # o
      /\ state' = [state EXCEPT ![o] = "none"]
      /\ instances_count' = instances_count - 1
      /\ disconnected' = disconnected \ {o}
      /\ UNCHANGED <<mp_devhandle, mex_dev_com, open, hid>>
  BY DEF Uncount, HInv, Engaged, Shape, AtPc
<1>2. \A q \in Objs : state'[q] = IF q = o THEN "none" ELSE state[q]
  BY <1>1 DEF HInv, TypeOK
<1>3. /\ call' \in [Threads -> Call]
      /\ call'[t].pc = "none" /\ call'[t].failed = 0
      /\ call'[t].method = "none" /\ call'[t].obj = Null
      /\ \A u \in Threads : u # t => call'[u] = call[u]
  BY <1>0, LeaveFacts DEF Uncount
<1>4. TypeOK'
  <2>1. o \in Alive
    BY <1>1 DEF Alive
  <2>2. Cardinality(Alive) \in Nat /\ Cardinality(Alive) # 0
    BY <2>1, AliveFinite, FS_CardinalityType, FS_EmptySet
  <2>3. instances_count' \in Nat
    BY <1>1, <2>2 DEF HInv, Counted
  <2> QED
    BY <1>1, <1>3, <2>3 DEF HInv, TypeOK
<1>5. Mutex'
  BY <1>1, <1>3 DEF HInv, TypeOK, Mutex, Locked
<1>6. Counted'
  <2>1. Alive' = Alive \ {o} /\ o \in Alive
    BY <1>1, <1>2 DEF Alive
  <2>2. Cardinality(Alive') = Cardinality(Alive) - 1
    BY <2>1, AliveFinite, FS_RemoveElement
  <2> QED
    BY <1>1, <2>2 DEF HInv, Counted
<1>7. Engaged'
  BY <1>1, <1>2, <1>3 DEF HInv, TypeOK, Engaged, Shape, Locked, Call
<1>8. AtPc'
  BY <1>1, <1>3 DEF HInv, AtPc
<1>9. Closed'
  <2>1. \A q \in Objs : q # o => ((Virgin(q))' <=> Virgin(q))
    BY <1>1, <1>2, <1>3 DEF Virgin
  <2>2. \A q \in Objs : (Virgin(q))' => mp_devhandle'[q] = Null
    BY <1>1, <2>1 DEF HInv, Closed
  <2>3. ASSUME NEW u \in Threads, call'[u].pc \in Reopening,
               call'[u].method # "connect"
        PROVE  ~(Virgin(call[u].obj))' /\ call[u].obj \notin disconnected'
               /\ call'[u].obj = call[u].obj
    <3>1. u # t /\ call'[u] = call[u]
      BY <1>3, <2>3 DEF Reopening
    <3>2. call[u].obj \in Objs /\ call[u].obj # o
      BY <1>1, <2>3, <3>1 DEF HInv, Engaged, Shape, Reopening, Locked
    <3> QED
      BY <1>1, <2>1, <2>3, <3>1, <3>2 DEF HInv, Closed
  <2> QED
    BY <2>2, <2>3 DEF Closed, Virgin
<1>10. Quiet' /\ Attempts' /\ AttemptsBounded'
  BY <1>1, <1>3 DEF HInv, Quiet, Attempts, AttemptsBounded, Reopening
<1>11. HandlesUsable' /\ DisconnectIsFinal'
  BY <1>1 DEF HInv, HandlesUsable, DisconnectIsFinal
<1>12. NoHandleLeaks'
  BY <1>1, <1>2 DEF HInv, TypeOK, NoHandleLeaks, Alive
<1> QED
  BY <1>4, <1>5, <1>6, <1>7, <1>8, <1>9, <1>10, <1>11, <1>12 DEF HInv

\* Device::enumerate starts or ends, outside the mutex.
LEMMA EnumerateHInv ==
  ASSUME HInv, NEW t \in Threads, EnumerateBegin(t) \/ EnumerateEnd(t)
  PROVE  HInv'
<1> USE ConstantsAssumption
<1>0. call \in [Threads -> Call]
  BY DEF HInv, TypeOK
<1>1. /\ call[t].pc \in {"none", "enumerate"}
      /\ UNCHANGED <<state, instances_count, mp_devhandle, mex_dev_com, open,
                     disconnected>>
  BY DEF EnumerateBegin, EnumerateEnd, Idle
<1>2. (hid => hid') /\ hid' \in BOOLEAN
  <2>1. CASE EnumerateBegin(t)
    BY <2>1 DEF EnumerateBegin
  <2>2. CASE EnumerateEnd(t)
    BY <2>2 DEF EnumerateEnd, HInv, TypeOK
  <2> QED
    BY <2>1, <2>2
<1>3. /\ call' \in [Threads -> Call]
      /\ call'[t].pc \in {"none", "enumerate"}
      /\ call'[t].method \in {"none", "enumerate"} /\ call'[t].obj = Null
      /\ \A u \in Threads : u # t => call'[u] = call[u]
  BY <1>0, LeaveFacts DEF EnumerateBegin, EnumerateEnd, Call
<1>4. TypeOK'
  BY <1>1, <1>2, <1>3 DEF HInv, TypeOK
<1>5. Mutex'
  BY <1>1, <1>3 DEF HInv, TypeOK, Mutex, Locked
<1>6. Counted'
  BY <1>1 DEF HInv, Counted, Alive
<1>7. Engaged'
  BY <1>1, <1>3 DEF HInv, TypeOK, Engaged, Shape, Locked
<1>8. AtPc'
  BY <1>1, <1>3 DEF HInv, AtPc
<1>9. Closed'
  BY <1>1, <1>3 DEF HInv, Closed, Virgin, Reopening
<1>10. Quiet' /\ Attempts' /\ AttemptsBounded'
  BY <1>1, <1>3 DEF HInv, Quiet, Attempts, AttemptsBounded, Reopening
<1>11. HandlesUsable' /\ NoHandleLeaks' /\ DisconnectIsFinal'
  BY <1>1, <1>2 DEF HInv, HandlesUsable, NoHandleLeaks, DisconnectIsFinal,
     Alive
<1> QED
  BY <1>4, <1>5, <1>6, <1>7, <1>8, <1>9, <1>10, <1>11 DEF HInv

\* Every step of every thread keeps the invariant.
LEMMA NextHInv == HInv /\ [Next]_vars => HInv'
<1> SUFFICES ASSUME HInv, [Next]_vars PROVE HInv'
  OBVIOUS
<1>1. CASE UNCHANGED vars
  BY <1>1 DEF vars, HInv, TypeOK, Mutex, Counted, Engaged, AtPc, Closed,
     Virgin, Quiet, Attempts, HandlesUsable, NoHandleLeaks, AttemptsBounded,
     DisconnectIsFinal, Alive, Shape
<1>2. CASE Next
  BY <1>2, ConstructHInv, CallMethodHInv, CallConnectHInv, CallDestructorHInv,
     LockHInv, TransferDoneHInv, TransferFailsHInv, CloseHInv, CheckHInv,
     HidExitHInv, OpenHInv, ScannedHInv, UnlockHInv, UncountHInv,
     EnumerateHInv
  DEF Next
<1> QED
  BY <1>1, <1>2

\* The invariant holds in every reachable state.
LEMMA HInvariance == Spec => []HInv
<1> QED
  BY InitHInv, NextHInv, PTL DEF Spec

-----------------------------------------------------------------------------

(***************************************************************************)
(* The variables of HidDevice keep their types.                            *)
(***************************************************************************)
THEOREM DeviceTypeCorrect == Spec => []TypeOK
<1>1. HInv => TypeOK
  BY DEF HInv
<1> QED
  BY <1>1, HInvariance, PTL

(***************************************************************************)
(* Device::send and Device::recv never use a handle that hid_close or      *)
(* hid_exit (device.cc:134-140) has destroyed, for any number of objects   *)
(* and threads, although instances_count changes without the mutex.        *)
(***************************************************************************)
THEOREM HandlesAreUsable == Spec => []HandlesUsable
<1>1. HInv => HandlesUsable
  BY DEF HInv
<1> QED
  BY <1>1, HInvariance, PTL

(***************************************************************************)
(* Every handle that hid_open returned (device.cc:155-159) is held by      *)
(* exactly one existing object until hid_close.                            *)
(***************************************************************************)
THEOREM HandlesDoNotLeak == Spec => []NoHandleLeaks
<1>1. HInv => NoHandleLeaks
  BY DEF HInv
<1> QED
  BY <1>1, HInvariance, PTL

(***************************************************************************)
(* send() transfers at most three times and recv() at most one more than   *)
(* m_retry_receiving_count (device.cc:176-186, 197-226).                   *)
(***************************************************************************)
THEOREM AttemptsAreBounded == Spec => []AttemptsBounded
<1>1. HInv => AttemptsBounded
  BY DEF HInv
<1> QED
  BY <1>1, HInvariance, PTL

(***************************************************************************)
(* After disconnect() (device.cc:116-121) only connect() opens the device  *)
(* again, whatever other threads had under way.                            *)
(***************************************************************************)
THEOREM DisconnectStays == Spec => []DisconnectIsFinal
<1>1. HInv => DisconnectIsFinal
  BY DEF HInv
<1> QED
  BY <1>1, HInvariance, PTL

=============================================================================
