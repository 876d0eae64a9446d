------------------------------ MODULE Manager ------------------------------
(***************************************************************************)
(* Connection management of NitrokeyManager: which Device object is        *)
(* current, which are registered by id, and which sticks their HID handles *)
(* are open on, while sticks are removed and other threads run commands.   *)
(*                                                                         *)
(* A Device object lives as long as a shared_ptr refers to it: `device',   *)
(* the registry connected_devices_byID, or the argument of a running       *)
(* exchange.  The destructor closes the handle.  connected_devices stays   *)
(* empty (cache_connections is false) and is left out.  An exchange with a *)
(* stick (module Transaction) is one step with the outcomes that matter    *)
(* here; the calls of a Device object are atomic (mex_dev_com).            *)
(*                                                                         *)
(* A path is a USB path of libusb: a stick that is plugged in again gets a *)
(* new one, so a path that is gone stays gone.                             *)
(***************************************************************************)
EXTENDS Naturals, FiniteSets

CONSTANTS Paths,      \* USB paths at which sticks can appear
          PathModel,  \* the model of the stick at each path
          Objs,       \* Device objects that can exist at the same time
          Threads,    \* callers of the library
          OpenMayFail, \* a stick that is plugged in may refuse to be opened
          Null        \* nullptr, the empty path, the empty id

Models == {"PRO", "STORAGE", "LIBREM"}

ASSUME ConstantsAssumption ==
  /\ PathModel \in [Paths -> Models]
  /\ OpenMayFail \in BOOLEAN
  /\ Null \notin Paths \cup Objs \cup Threads

VARIABLES plugged,    \* paths at which a stick is plugged in
          gone,       \* paths whose stick has been removed
          obj,        \* the Device objects: model, m_path, mp_devhandle
          device,     \* NitrokeyManager::device
          byID,       \* NitrokeyManager::connected_devices_byID
          current_device_id,
          running,    \* per thread, the device argument of its exchange
          mex,        \* holder of mex_dev_com_manager across several steps
          list,       \* per thread, progress of list_devices_by_cpuID
          chosen,     \* history: the path that connect_with_ID or
                      \* connect_with_path selected, until the next call of
                      \* any thread to connect or disconnect
          listed,     \* history: a listing has since assigned `device'
          aim         \* history: per thread, the sticks that the device of
                      \* its exchange could be open on when it began

history == <<chosen, listed, aim>>

vars == <<plugged, gone, obj, device, byID, current_device_id, running, mex,
          list, history>>

(***************************************************************************)
(* An id made from the card numbers and the path ("cpu"), or the path      *)
(* alone ("path") when the stick was in a long operation.                  *)
(***************************************************************************)
Ids == Paths \X {"cpu", "path"}

NoObj == [model |-> "none", path |-> Null, handle |-> Null]

Object == [model : Models \cup {"none"}, path : Paths \cup {Null},
           handle : Paths \cup {Null}]

\* Owners of a Device object.
Refs(dev, ids, run) ==
  ({dev} \cup {ids[i] : i \in Ids} \cup {run[t] : t \in Threads}) \ {Null}

\* Mutant: an exchange keeps a plain pointer, not a shared_ptr.
AssignPlainPointer(newobj, dev, ids, run) ==
  /\ device' = dev
  /\ byID' = ids
  /\ running' = run
  /\ obj' = [o \in Objs |-> IF o \in ({dev} \cup {ids[i] : i \in Ids})
                            THEN newobj[o] ELSE NoObj]

\* The assignments of an operation, with the destructors they trigger.
Assign(newobj, dev, ids, run) ==
  /\ device' = dev
  /\ byID' = ids
  /\ running' = run
  /\ obj' = [o \in Objs |-> IF o \in Refs(dev, ids, run) THEN newobj[o]
                            ELSE NoObj]

Unused == {o \in Objs : obj[o] = NoObj}

\* The sticks that a Device object is meant for: the one at its path, or all
\* of its model when it has none.
Targets(f) == {q \in Paths : PathModel[q] = f.model /\ f.path \in {q, Null}}

\* Mutant: the path of the object is ignored.
OpenedAnywhere(m, p) ==
  LET there == {q \in plugged : PathModel[q] = m}
  IN there \cup (IF there = {} \/ OpenMayFail THEN {Null} ELSE {})

\* Device::_connect: the handles hid_open or hid_open_path can return.
Opened(m, p) ==
  LET there == IF p = Null THEN {q \in plugged : PathModel[q] = m}
               ELSE {p} \cap plugged
  IN there \cup (IF there = {} \/ OpenMayFail THEN {Null} ELSE {})

\* Mutant: an exchange on a closed object opens it.
ExchangeReopening(o) ==
  [result : {"ok", "longop", "failed", "comm"},
   handle : Opened(obj[o].model, obj[o].path) \ {Null}]
  \cup [result : {"comm"}, handle : {Null}]

(***************************************************************************)
(* How an exchange with object o can end: the exception class that matters *)
(* to the callers here, and the handle it leaves.  A transfer that fails   *)
(* reopens the device by its path, or any stick of the model if the object *)
(* has no path; when nothing can be opened the handle stays null.          *)
(***************************************************************************)
Exchange(o) ==
  IF obj[o].handle = Null THEN {[result |-> "comm", handle |-> Null]}
  ELSE [result : {"ok", "longop", "failed", "comm"},
        handle : Opened(obj[o].model, obj[o].path) \ {Null}]
       \cup [result : {"comm"}, handle : {Null}]

Init ==
  /\ plugged \in SUBSET Paths
  /\ gone = {}
  /\ obj = [o \in Objs |-> NoObj]
  /\ device = Null
  /\ byID = [i \in Ids |-> Null]
  /\ current_device_id = Null
  /\ running = [t \in Threads |-> Null]
  /\ mex = Null
  /\ list = [t \in Threads |-> [pc |-> "no", todo |-> {}]]
  /\ chosen = Null
  /\ listed = FALSE
  /\ aim = [t \in Threads |-> {}]

-----------------------------------------------------------------------------

\* The user plugs in a stick, or removes one.
Plug(p) ==
  /\ p \notin plugged \cup gone
  /\ plugged' = plugged \cup {p}
  /\ UNCHANGED <<gone, obj, device, byID, current_device_id, running, mex,
                 list, history>>

Unplug(p) ==
  /\ p \in plugged
  /\ plugged' = plugged \ {p}
  /\ gone' = gone \cup {p}
  /\ UNCHANGED <<obj, device, byID, current_device_id, running, mex, list,
                 history>>

\* A thread may call the manager, and gets mex_dev_com_manager.
Free(t) == mex = Null /\ list[t].pc = "no" /\ running[t] = Null

\* History: a call to connect or disconnect selects the stick at p, or none.
Selects(p) == chosen' = p /\ listed' = FALSE /\ aim' = aim

\* History: a listing assigns `device', whatever was selected.
ListingAssigns == listed' = (chosen # Null) /\ UNCHANGED <<chosen, aim>>

OpenOn(m, p, h) == [model |-> m, path |-> p, handle |-> h]

(***************************************************************************)
(* connect(): a new object of each model, in this order; every one that    *)
(* connects becomes the current device, so the last one stays.             *)
(***************************************************************************)
AutoOrder == <<"PRO", "STORAGE", "LIBREM">>

ConnectAuto(t) ==
  /\ Free(t)
  /\ \E h1 \in Opened("PRO", Null), h2 \in Opened("STORAGE", Null),
        h3 \in Opened("LIBREM", Null), o \in Unused :
       LET h == <<h1, h2, h3>>
           connected == {k \in 1..3 : h[k] # Null}
           last == CHOOSE k \in connected : \A j \in connected : j <= k
       IN /\ connected # {}
          /\ Assign([obj EXCEPT ![o] = OpenOn(AutoOrder[last], Null, h[last])],
                    o, byID, running)
  /\ Selects(Null)
  /\ UNCHANGED <<plugged, gone, current_device_id, mex, list>>

\* connect(device_model): the new object becomes the current device before
\* it is connected, whether that succeeds or not.
ConnectModel(t, m) ==
  /\ Free(t)
  /\ \E h \in Opened(m, Null), o \in Unused :
       Assign([obj EXCEPT ![o] = OpenOn(m, Null, h)], o, byID, running)
  /\ Selects(Null)
  /\ UNCHANGED <<plugged, gone, current_device_id, mex, list>>

\* connect_with_path: the path must be enumerated; the current device is
\* only replaced when the new one has connected.
ConnectWithPath(t, p) ==
  /\ Free(t)
  /\ p \in plugged
  /\ \E h \in Opened(PathModel[p], p) \ {Null}, o \in Unused :
       Assign([obj EXCEPT ![o] = OpenOn(PathModel[p], p, h)], o, byID, running)
  /\ current_device_id' = <<p, "path">>
  /\ Selects(p)
  /\ UNCHANGED <<plugged, gone, mex, list>>

(***************************************************************************)
(* connect_with_ID: an unknown id changes nothing.  A known one becomes    *)
(* the current device and is asked for its status; a long operation is     *)
(* fine, a communication error closes the device and removes the id but    *)
(* leaves it current, and a failed command leaves by an exception.         *)
(***************************************************************************)
ConnectWithID(t, id) ==
  /\ Free(t)
  /\ byID[id] # Null
  /\ LET d == byID[id]
     IN \E r \in Exchange(d) :
          /\ IF r.result = "comm"
             THEN /\ Assign([obj EXCEPT ![d].handle = Null], d,
                            [byID EXCEPT ![id] = Null], running)
                  /\ current_device_id' = Null
             ELSE /\ Assign([obj EXCEPT ![d].handle = r.handle], d, byID,
                            running)
                  /\ current_device_id' = id
          /\ Selects(IF r.result \in {"ok", "longop"} THEN id[1] ELSE Null)
  /\ UNCHANGED <<plugged, gone, mex, list>>

\* disconnect: closes the handle and drops the reference.
DisconnectNoLock ==
  IF device = Null THEN Assign(obj, Null, byID, running)
  ELSE Assign([obj EXCEPT ![device].handle = Null], Null, byID, running)

Disconnect(t) ==
  /\ Free(t)
  /\ device # Null
  /\ DisconnectNoLock
  /\ Selects(Null)
  /\ UNCHANGED <<plugged, gone, current_device_id, mex, list>>

\* Device::could_be_enumerated
CouldBeEnumerated(o) ==
  /\ obj[o].handle # Null
  /\ \E p \in plugged : PathModel[p] = obj[o].model

\* is_connected, when it finds the device gone: it disconnects.  Otherwise
\* it changes nothing.
IsConnectedFindsNone(t) ==
  /\ Free(t)
  /\ device # Null
  /\ ~CouldBeEnumerated(device)
  /\ DisconnectNoLock
  /\ Selects(Null)
  /\ UNCHANGED <<plugged, gone, current_device_id, mex, list>>

\* get_connected_device_model, as NK_get_device_model returns it
DeviceModel == IF device = Null THEN "DISCONNECTED" ELSE obj[device].model

-----------------------------------------------------------------------------

(***************************************************************************)
(* A command of the API runs an exchange on the current device.  `device'  *)
(* is read without a lock and copied into the exchange, which keeps the    *)
(* object alive.                                                           *)
(***************************************************************************)
CommandBegin(t) ==
  /\ list[t].pc = "no"
  /\ running[t] = Null
  /\ device # Null
  /\ Assign(obj, device, byID, [running EXCEPT ![t] = device])
  /\ aim' = [aim EXCEPT ![t] = Targets(obj[device])]
  /\ UNCHANGED <<plugged, gone, current_device_id, mex, list, chosen, listed>>

CommandEnd(t) ==
  /\ running[t] # Null
  /\ \E r \in Exchange(running[t]) :
       Assign([obj EXCEPT ![running[t]].handle = r.handle], device, byID,
              [running EXCEPT ![t] = Null])
  /\ aim' = [aim EXCEPT ![t] = {}]
  /\ UNCHANGED <<plugged, gone, current_device_id, mex, list, chosen, listed>>

-----------------------------------------------------------------------------

(***************************************************************************)
(* list_devices_by_cpuID: disconnect() takes and releases the lock, then   *)
(* the lock is taken again; other threads may come in between.             *)
(***************************************************************************)
ListDisconnect(t) ==
  /\ Free(t)
  /\ DisconnectNoLock
  /\ ListingAssigns
  /\ list' = [list EXCEPT ![t].pc = "gap"]
  /\ UNCHANGED <<plugged, gone, current_device_id, mex>>

\* Mutant: the registry is not cleared.
ListEnumerateKeeping(t) ==
  /\ list[t].pc = "gap"
  /\ mex = Null
  /\ mex' = t
  /\ list' = [list EXCEPT ![t] =
                [pc |-> "loop",
                 todo |-> {p \in plugged : PathModel[p] = "STORAGE"}]]
  /\ UNCHANGED <<plugged, gone, obj, device, byID, running, current_device_id,
                 history>>

\* The registered devices are closed and dropped; the sticks enumerated.  What
\* another thread has made current in the gap stays so until the loop, where
\* the first stick that opens replaces it.
ListEnumerate(t) ==
  /\ list[t].pc = "gap"
  /\ mex = Null
  /\ mex' = t
  /\ Assign([o \in Objs |-> IF \E i \in Ids : byID[i] = o
                            THEN [obj[o] EXCEPT !.handle = Null] ELSE obj[o]],
            device, [i \in Ids |-> Null], running)
  /\ list' = [list EXCEPT ![t] =
                [pc |-> "loop",
                 todo |-> {p \in plugged : PathModel[p] = "STORAGE"}]]
  /\ UNCHANGED <<plugged, gone, current_device_id, history>>

\* A stick that could not be opened, or has gone.
ListSkip(t, p) ==
  /\ list[t].pc = "loop"
  /\ p \in list[t].todo
  /\ Null \in Opened("STORAGE", p)
  /\ list' = [list EXCEPT ![t].todo = @ \ {p}]
  /\ UNCHANGED <<plugged, gone, obj, device, byID, current_device_id, running,
                 mex, history>>

(***************************************************************************)
(* A stick that opens becomes the current device and is asked for its      *)
(* card numbers.  A communication error leaves it current but              *)
(* unregistered; a failed command ends the whole listing by an exception.  *)
(***************************************************************************)
ListConnect(t, p) ==
  /\ list[t].pc = "loop"
  /\ p \in list[t].todo
  /\ \E h \in Opened("STORAGE", p) \ {Null}, o \in Unused,
        r \in {"ok", "longop", "failed", "comm"}, broken \in BOOLEAN :
       LET id == <<p, IF r = "longop" THEN "path" ELSE "cpu">>
       IN /\ broken => r = "comm"
          /\ Assign([obj EXCEPT ![o] =
                       OpenOn("STORAGE", p, IF broken THEN Null ELSE h)],
                    o,
                    IF r \in {"ok", "longop"} THEN [byID EXCEPT ![id] = o]
                    ELSE byID,
                    running)
          /\ list' = [list EXCEPT ![t] =
                        IF r = "failed" THEN [pc |-> "no", todo |-> {}]
                        ELSE [pc |-> "loop", todo |-> @.todo \ {p}]]
          /\ mex' = IF r = "failed" THEN Null ELSE mex
  /\ ListingAssigns
  /\ UNCHANGED <<plugged, gone, current_device_id>>

ListReturn(t) ==
  /\ list[t].pc = "loop"
  /\ list[t].todo = {}
  /\ list' = [list EXCEPT ![t].pc = "no"]
  /\ mex' = Null
  /\ UNCHANGED <<plugged, gone, obj, device, byID, current_device_id, running,
                 history>>

Next ==
  \/ \E p \in Paths : Plug(p)
  \/ \E p \in Paths : Unplug(p)
  \/ \E t \in Threads : ConnectAuto(t)
  \/ \E t \in Threads, m \in Models : ConnectModel(t, m)
  \/ \E t \in Threads, p \in Paths : ConnectWithPath(t, p)
  \/ \E t \in Threads, id \in Ids : ConnectWithID(t, id)
  \/ \E t \in Threads : Disconnect(t)
  \/ \E t \in Threads : IsConnectedFindsNone(t)
  \/ \E t \in Threads : CommandBegin(t)
  \/ \E t \in Threads : CommandEnd(t)
  \/ \E t \in Threads : ListDisconnect(t)
  \/ \E t \in Threads : ListEnumerate(t)
  \/ \E t \in Threads, p \in Paths : ListSkip(t, p)
  \/ \E t \in Threads, p \in Paths : ListConnect(t, p)
  \/ \E t \in Threads : ListReturn(t)

Spec == Init /\ [][Next]_vars

(***************************************************************************)
(* A thread that lists devices and holds the lock is not descheduled for   *)
(* ever, and the exchanges it makes end (Transaction!RunTerminates).       *)
(***************************************************************************)
ListStep(t) == \/ \E p \in Paths : ListSkip(t, p) \/ ListConnect(t, p)
               \/ ListReturn(t)

FairSpec == Spec /\ \A t \in Threads : WF_vars(ListStep(t))

-----------------------------------------------------------------------------

\* Type correctness; no pointer dangles.
TypeOK ==
  /\ plugged \in SUBSET Paths
  /\ gone \in SUBSET (Paths \ plugged)
  /\ obj \in [Objs -> Object]
  /\ device \in Objs \cup {Null}
  /\ byID \in [Ids -> Objs \cup {Null}]
  /\ current_device_id \in Ids \cup {Null}
  /\ running \in [Threads -> Objs \cup {Null}]
  /\ mex \in Threads \cup {Null}
  /\ list \in [Threads -> [pc : {"no", "gap", "loop"}, todo : SUBSET Paths]]
  /\ chosen \in Paths \cup {Null}
  /\ listed \in BOOLEAN
  /\ aim \in [Threads -> SUBSET Paths]
  /\ \A o \in Refs(device, byID, running) : obj[o] # NoObj

(***************************************************************************)
(* A command goes to a stick that the device current at its beginning was  *)
(* made for, or fails: to the stick at the path of that device, or to one  *)
(* of its model when it was connected without a path (then a reconnect may *)
(* come back on another stick of the model, NitrokeyManager::connect).     *)
(* What other threads connect, list, disconnect or destroy meanwhile does  *)
(* not redirect it, and no reconnect leaves the targets of its object.     *)
(***************************************************************************)
CommandsOnTarget ==
  /\ \A t \in Threads : running[t] # Null =>
       obj[running[t]].handle \in aim[t] \cup {Null}
  /\ \A o \in Objs : obj[o].handle \in Targets(obj[o]) \cup {Null}

\* The current device is for the stick at p, and open there or closed.
CurrentIs(p) ==
  /\ device # Null
  /\ obj[device].path = p
  /\ obj[device].handle \in {p, Null}

(***************************************************************************)
(* What a caller may rely on once its connect_with_ID or connect_with_path *)
(* has returned true, until a thread next calls to connect or disconnect.  *)
(* Its commands go to the stick it selected or fail: removals, reconnects  *)
(* and commands of any thread leave it current, and so does a listing      *)
(* until the first stick that it opens.  From there on a selection is not  *)
(* protected: the listing takes it over, also when it had begun before the *)
(* selection and was in the gap of list_devices_by_cpuID.  What is current *)
(* after it is nothing or a Storage stick with a path of its own, never a  *)
(* device that may change sticks.                                          *)
(***************************************************************************)
SelectionSticks ==
  chosen # Null =>
    IF listed
    THEN \/ device = Null
         \/ /\ obj[device].model = "STORAGE"
            /\ obj[device].path # Null
            /\ CurrentIs(obj[device].path)
    ELSE CurrentIs(chosen)

(***************************************************************************)
(* The registry is sound: an id leads to an object of its own, for the     *)
(* stick at the path that the id names, open on that stick or closed; and  *)
(* a stick is registered under one id only, also when it answered with its *)
(* card numbers in one listing and was in a long operation in the next.    *)
(***************************************************************************)
RegistrySound ==
  /\ \A i \in Ids : byID[i] # Null =>
       /\ obj[byID[i]].model = "STORAGE"
       /\ obj[byID[i]].path = i[1]
       /\ obj[byID[i]].handle \in {i[1], Null}
  /\ \A i, j \in Ids : i # j /\ byID[i] # Null =>
       byID[j] # byID[i] /\ (i[1] = j[1] => byID[j] = Null)

(***************************************************************************)
(* An object that is closed while it is not in an exchange stays closed:   *)
(* nothing but the calls that connect it opens a handle, so a command that *)
(* another thread started before disconnect() cannot bring the connection  *)
(* back after it.                                                          *)
(***************************************************************************)
ClosedStaysClosed ==
  [][\A o \in Objs :
       obj[o] # NoObj /\ obj[o].handle = Null => obj'[o].handle = Null]_vars

-----------------------------------------------------------------------------
\* What the documentation says.

(***************************************************************************)
(* NK_C_API.h, NK_login_auto: "Connect to first available device, starting *)
(* checking from Pro 1st to Storage 2nd."                                  *)
(***************************************************************************)
AutoPicksFirst ==
  [][\A t \in Threads : ConnectAuto(t) =>
       ((\E p \in plugged : PathModel[p] = "PRO") => DeviceModel' = "PRO")]_vars

=============================================================================
