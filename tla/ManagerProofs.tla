--------------------------- MODULE ManagerProofs ---------------------------
(***************************************************************************)
(* Proofs about the connection manager, for any number of sticks, Device   *)
(* objects and threads.                                                    *)
(*                                                                         *)
(* That a command stays on its target is a fact about every object,        *)
(* current or not: it is open on a stick it was made for or not at all     *)
(* (OnTarget), and an exchange holds on to the object that it began with   *)
(* (Aimed).  The current device stays the selected one until a call        *)
(* assigns `device' (Chosen); list_devices_by_cpuID does so with every     *)
(* stick that it opens, whatever another thread selected in its gap, and   *)
(* then only a Storage object with a path can be current.  It registers no *)
(* stick twice because the thread in its loop holds the lock (Looping) and *)
(* the sticks still to come are not registered (Pending).                  *)
(***************************************************************************)
EXTENDS Manager, TLAPS

Typed ==
  /\ plugged \in SUBSET Paths
  /\ gone \in SUBSET (Paths \ plugged)
  /\ obj \in [Objs -> Object]
  /\ device \in Objs \cup {Null}
  /\ byID \in [Ids -> Objs \cup {Null}]
  /\ current_device_id \in Ids \cup {Null}
  /\ running \in [Threads -> Objs \cup {Null}]
  /\ mex \in Threads \cup {Null}
  /\ list \in [Threads -> [pc : {"no", "gap", "loop"}, todo : SUBSET Paths]]
  /\ chosen \in Paths \cup {Null}
  /\ listed \in BOOLEAN
  /\ aim \in [Threads -> SUBSET Paths]

\* Whoever is referred to has been constructed and not destroyed.
NoDangling == \A o \in Refs(device, byID, running) : obj[o].model \in Models

\* An object is open on one of its targets or not at all; its path is that of
\* a stick of its model.
Fits(f) ==
  /\ f.handle # Null => PathModel[f.handle] = f.model
  /\ f.path # Null => PathModel[f.path] = f.model /\ f.handle \in {f.path, Null}
OnTarget == \A o \in Objs : Fits(obj[o])

\* An exchange has the object that it began with, or one made for the same.
AimedAt(N, run, a) ==
  \A t \in Threads : run[t] # Null => a[t] = Targets(N[run[t]])
Aimed == AimedAt(obj, running, aim)

\* The thread in the loop of list_devices_by_cpuID holds the lock.
Looping == \A t \in Threads : list[t].pc = "loop" => mex = t

\* The selected stick is the one that the current device was made for, until
\* a listing makes another Storage stick current.
ChosenIs(N, dev, p, l) ==
  p # Null =>
    IF l THEN dev # Null => N[dev].model = "STORAGE" /\ N[dev].path # Null
    ELSE dev # Null /\ N[dev].path = p
Chosen == ChosenIs(obj, device, chosen, listed)

\* An id leads to a Storage object made for its path; one id per path.
Registered ==
  /\ \A i \in Ids : byID[i] # Null =>
       obj[byID[i]].model = "STORAGE" /\ obj[byID[i]].path = i[1]
  /\ \A i, j \in Ids : i # j /\ i[1] = j[1] /\ byID[i] # Null => byID[j] = Null

\* The sticks that the loop has still to look at are Storage sticks that are
\* not registered.
Pending ==
  \A t \in Threads : list[t].pc = "loop" =>
    /\ \A p \in list[t].todo : PathModel[p] = "STORAGE"
    /\ \A i \in Ids : i[1] \in list[t].todo => byID[i] = Null

MInv == /\ Typed /\ NoDangling /\ OnTarget /\ Aimed
        /\ Looping /\ Chosen /\ Registered /\ Pending

-----------------------------------------------------------------------------
(***************************************************************************)
(* Objects, references and assignments.                                    *)
(***************************************************************************)

\* Who refers to an object.
LEMMA RefsMember ==
  ASSUME NEW dev, NEW ids, NEW run, NEW o
  PROVE  o \in Refs(dev, ids, run) <=>
           /\ o # Null
           /\ \/ o = dev
              \/ \E i \in Ids : o = ids[i]
              \/ \E t \in Threads : o = run[t]
BY DEF Refs

\* What the assignments of an operation have to respect: the objects that
\* stay referred to are alive, on target, and where the registry, the exchanges
\* and the selection say.
AssignmentOK(N, dev, ids, run) ==
  /\ N \in [Objs -> Object]
  /\ dev \in Objs \cup {Null}
  /\ ids \in [Ids -> Objs \cup {Null}]
  /\ run \in [Threads -> Objs \cup {Null}]
  /\ \A x \in Objs : Fits(N[x])
  /\ \A x \in Refs(dev, ids, run) : N[x].model \in Models
  /\ ChosenIs(N, dev, chosen', listed')
  /\ AimedAt(N, run, aim')
  /\ \A i \in Ids : ids[i] # Null =>
       N[ids[i]].model = "STORAGE" /\ N[ids[i]].path = i[1]
  /\ \A i, j \in Ids : i # j /\ i[1] = j[1] /\ ids[i] # Null => ids[j] = Null

\* Such assignments, with the destructors they trigger, keep the parts of the
\* invariant about objects.
LEMMA AssignKeeps ==
  ASSUME NEW N, NEW dev, NEW ids, NEW run, Assign(N, dev, ids, run),
         AssignmentOK(N, dev, ids, run)
  PROVE  /\ (obj \in [Objs -> Object])'
         /\ (device \in Objs \cup {Null})'
         /\ (byID \in [Ids -> Objs \cup {Null}])'
         /\ (running \in [Threads -> Objs \cup {Null}])'
         /\ NoDangling' /\ OnTarget' /\ Aimed' /\ Chosen' /\ Registered'
<1> DEFINE R == Refs(dev, ids, run)
<1>1. device' = dev /\ byID' = ids /\ running' = run
  BY DEF Assign
<1>2. obj' = [o \in Objs |-> IF o \in R THEN N[o] ELSE NoObj]
  BY DEF Assign
<1>3. NoObj \in Object /\ Fits(NoObj)
  BY DEF NoObj, Object, Fits
<1>4. R \subseteq Objs
  BY RefsMember DEF AssignmentOK
<1>5. dev # Null => dev \in R
  BY RefsMember
<1>6. \A i \in Ids : ids[i] # Null => ids[i] \in R
  BY RefsMember
<1> HIDE DEF R
<1>7. obj' \in [Objs -> Object]
  BY <1>2, <1>3 DEF AssignmentOK
<1>8. \A o \in R : obj'[o] = N[o]
  BY <1>2, <1>4
<1>9. NoDangling'
  <2>1. \A o \in R : obj'[o].model \in Models
    BY <1>8 DEF AssignmentOK, R
  <2> QED
    BY <1>1, <2>1 DEF NoDangling, R
<1>10. OnTarget'
  BY <1>2, <1>3 DEF OnTarget, AssignmentOK
<1>11. Chosen' /\ Aimed'
  <2>1. dev # Null => obj'[dev] = N[dev]
    BY <1>5, <1>8
  <2>2. \A t \in Threads : run[t] # Null => obj'[run[t]] = N[run[t]]
    BY <1>8, RefsMember DEF R
  <2>3. Chosen'
    BY <1>1, <2>1 DEF Chosen, ChosenIs, AssignmentOK
  <2>4. Aimed'
    BY <1>1, <2>2 DEF Aimed, AimedAt, AssignmentOK
  <2> QED
    BY <2>3, <2>4
<1>12. Registered'
  <2>1. ASSUME NEW i \in Ids, byID'[i] # Null
        PROVE  obj'[byID'[i]].model = "STORAGE" /\ obj'[byID'[i]].path = i[1]
    BY <1>1, <1>6, <1>8, <2>1 DEF AssignmentOK
  <2>2. \A i, j \in Ids :
          i # j /\ i[1] = j[1] /\ byID'[i] # Null => byID'[j] = Null
    BY <1>1 DEF AssignmentOK
  <2> QED
    BY <2>1, <2>2 DEF Registered
<1> QED
  BY <1>1, <1>7, <1>9, <1>10, <1>11, <1>12 DEF AssignmentOK

\* An object that is about to be constructed is referred to by nobody.
LEMMA NewObject ==
  ASSUME MInv, NEW o \in Unused, NEW f \in Object, f.model \in Models,
         Fits(f), NEW N, N = [obj EXCEPT ![o] = f]
  PROVE  /\ o \in Objs /\ N \in [Objs -> Object]
         /\ N[o] = f
         /\ \A x \in Objs \ {o} : N[x] = obj[x]
         /\ \A x \in Objs : Fits(N[x])
         /\ o \notin Refs(device, byID, running)
         /\ \A x \in Refs(device, byID, running) : N[x].model \in Models
<1>1. o \in Objs /\ obj[o] = NoObj /\ obj \in [Objs -> Object]
  BY DEF Unused, MInv, Typed
<1>2. N \in [Objs -> Object] /\ N[o] = f /\ \A x \in Objs \ {o} : N[x] = obj[x]
  BY <1>1
<1>3. \A x \in Objs : Fits(N[x])
  BY <1>2 DEF MInv, OnTarget
<1>4. NoObj.model \notin Models
  BY DEF NoObj, Models
<1>5. o \notin Refs(device, byID, running)
  BY <1>1, <1>4 DEF MInv, NoDangling
<1>6. Refs(device, byID, running) \subseteq Objs
  BY RefsMember DEF MInv, Typed
<1>7. \A x \in Refs(device, byID, running) : N[x].model \in Models
  BY <1>2, <1>5, <1>6 DEF MInv, NoDangling
<1> QED
  BY <1>1, <1>2, <1>3, <1>5, <1>7

\* An object that gets another handle stays what it is.
LEMMA NewHandle ==
  ASSUME MInv, NEW d \in Objs, NEW h \in Paths \cup {Null},
         obj[d].path # Null => h \in {obj[d].path, Null},
         h # Null => PathModel[h] = obj[d].model,
         NEW N, N = [obj EXCEPT ![d].handle = h]
  PROVE  /\ N \in [Objs -> Object]
         /\ \A x \in Objs : N[x].model = obj[x].model /\ N[x].path = obj[x].path
         /\ \A x \in Objs : Fits(N[x])
<1>1. obj \in [Objs -> Object]
  BY DEF MInv, Typed
<1>2. N \in [Objs -> Object]
  BY <1>1 DEF Object
<1>3. \A x \in Objs :
        N[x] = IF x = d THEN [obj[x] EXCEPT !.handle = h] ELSE obj[x]
  BY <1>1
<1>4. \A x \in Objs : N[x].model = obj[x].model /\ N[x].path = obj[x].path
  BY <1>1, <1>3 DEF Object
<1>5. N[d].handle = h /\ N[d].path = obj[d].path /\ N[d].model = obj[d].model
  BY <1>1, <1>3 DEF Object
<1>6. \A x \in Objs : Fits(N[x])
  BY <1>3, <1>5 DEF MInv, OnTarget, Fits
<1> QED
  BY <1>2, <1>4, <1>6

\* hid_open_path opens the path it is given or nothing, hid_open a stick of the
\* model or nothing.
LEMMA OpenedTyped ==
  ASSUME Typed, NEW m, NEW p \in Paths \cup {Null}
  PROVE  /\ Opened(m, p) \subseteq Paths \cup {Null}
         /\ p # Null => Opened(m, p) \subseteq {p, Null}
         /\ p = Null => \A q \in Opened(m, p) \ {Null} : PathModel[q] = m
BY DEF Typed, Opened

\* A reconnect during an exchange: on the path of the object if it has one,
\* on a stick of its model in any case, and never if it was closed before.
LEMMA ExchangeTyped ==
  ASSUME MInv, NEW d \in Objs, NEW r \in Exchange(d)
  PROVE  /\ r.handle \in Paths \cup {Null}
         /\ obj[d].path # Null => r.handle \in {obj[d].path, Null}
         /\ r.handle # Null => PathModel[r.handle] = obj[d].model
         /\ obj[d].handle = Null => r.handle = Null
<1>1. obj[d] \in Object /\ Fits(obj[d])
  BY DEF MInv, Typed, OnTarget
<1>2. obj[d].path \in Paths \cup {Null}
  BY <1>1 DEF Object
<1>3. /\ Opened(obj[d].model, obj[d].path) \subseteq Paths \cup {Null}
      /\ obj[d].path # Null =>
           Opened(obj[d].model, obj[d].path) \subseteq {obj[d].path, Null}
      /\ \A q \in Opened(obj[d].model, obj[d].path) \ {Null} :
           PathModel[q] = obj[d].model
  BY <1>1, <1>2, OpenedTyped DEF MInv, Fits
<1>4. CASE obj[d].handle = Null
  BY <1>4 DEF Exchange
<1>5. CASE obj[d].handle # Null
  <2>1. r.handle \in Opened(obj[d].model, obj[d].path) \cup {Null}
    BY <1>5 DEF Exchange
  <2> QED
    BY <1>3, <1>5, <2>1
<1> QED
  BY <1>4, <1>5

-----------------------------------------------------------------------------
(***************************************************************************)
(* The operations, one by one.                                             *)
(***************************************************************************)

\* A registered object is one that is referred to.
LEMMA RegisteredRefs ==
  ASSUME MInv, NEW i \in Ids, byID[i] # Null
  PROVE  byID[i] \in Refs(device, byID, running) /\ byID[i] \in Objs
BY RefsMember DEF MInv, Typed

\* So are the current device and the device of an exchange.
LEMMA DeviceRefs ==
  ASSUME MInv
  PROVE  /\ device # Null => device \in Refs(device, byID, running)
         /\ \A t \in Threads : running[t] # Null =>
              running[t] \in Refs(device, byID, running)
BY RefsMember DEF MInv, Typed

\* A new object becomes the current device.
LEMMA ConnectNew ==
  ASSUME MInv, NEW o \in Unused, NEW f \in Object, f.model \in Models,
         Fits(f), Assign([obj EXCEPT ![o] = f], o, byID, running),
         NEW p \in {Null, f.path}, Selects(p),
         current_device_id' \in Ids \cup {Null},
         UNCHANGED <<plugged, gone, mex, list>>
  PROVE  MInv'
<1> DEFINE N == [obj EXCEPT ![o] = f]
<1>1. /\ o \in Objs /\ N \in [Objs -> Object]
      /\ N[o] = f
      /\ \A x \in Objs \ {o} : N[x] = obj[x]
      /\ \A x \in Objs : Fits(N[x])
      /\ o \notin Refs(device, byID, running)
      /\ \A x \in Refs(device, byID, running) : N[x].model \in Models
  BY NewObject
<1> HIDE DEF N
<1>2. Refs(o, byID, running) \subseteq Refs(device, byID, running) \cup {o}
  BY RefsMember
<1>3. \A i \in Ids : byID[i] # Null => N[byID[i]] = obj[byID[i]]
  BY <1>1, RegisteredRefs
<1>4. AssignmentOK(N, o, byID, running)
  <2>1. \A x \in Refs(o, byID, running) : N[x].model \in Models
    BY <1>1, <1>2
  <2>2. ChosenIs(N, o, chosen', listed')
    BY <1>1, ConstantsAssumption DEF ConstantsAssumption, ChosenIs, Selects
  <2>5. AimedAt(N, running, aim')
    <3>1. \A t \in Threads :
            running[t] # Null => N[running[t]] = obj[running[t]]
      BY <1>1, DeviceRefs DEF MInv, Typed
    <3> QED
      BY <3>1 DEF MInv, Aimed, AimedAt, Selects
  <2>3. \A i \in Ids : byID[i] # Null =>
          N[byID[i]].model = "STORAGE" /\ N[byID[i]].path = i[1]
    BY <1>3 DEF MInv, Registered
  <2> QED
    BY <1>1, <2>1, <2>2, <2>3, <2>5 DEF AssignmentOK, MInv, Typed, Registered
<1>5. /\ (obj \in [Objs -> Object])'
      /\ (device \in Objs \cup {Null})'
      /\ (byID \in [Ids -> Objs \cup {Null}])'
      /\ (running \in [Threads -> Objs \cup {Null}])'
      /\ NoDangling' /\ OnTarget' /\ Aimed' /\ Chosen' /\ Registered'
  BY <1>4, AssignKeeps DEF N
<1>6. byID' = byID
  BY DEF Assign
<1>7. Typed'
  BY <1>5 DEF MInv, Typed, Object, Selects
<1>8. Looping' /\ Pending'
  BY <1>6 DEF MInv, Looping, Pending
<1> QED
  BY <1>5, <1>7, <1>8 DEF MInv

\* connect(): whichever models connect, the last becomes current.
LEMMA ConnectAutoInv ==
  ASSUME MInv, NEW t \in Threads, ConnectAuto(t)
  PROVE  MInv'
<1>1. PICK h1 \in Opened("PRO", Null), h2 \in Opened("STORAGE", Null),
           h3 \in Opened("LIBREM", Null), o \in Unused :
        LET h == <<h1, h2, h3>>
            connected == {k \in 1..3 : h[k] # Null}
            last == CHOOSE k \in connected : \A j \in connected : j <= k
        IN /\ connected # {}
           /\ Assign([obj EXCEPT ![o] = OpenOn(AutoOrder[last], Null, h[last])],
                     o, byID, running)
  BY DEF ConnectAuto
<1> DEFINE h == <<h1, h2, h3>>
           connected == {k \in 1..3 : h[k] # Null}
           last == CHOOSE k \in connected : \A j \in connected : j <= k
           f == OpenOn(AutoOrder[last], Null, h[last])
<1>2. \A k \in 1..3 : /\ h[k] \in Paths \cup {Null}
                      /\ h[k] # Null => PathModel[h[k]] = AutoOrder[k]
  <2>1. ASSUME NEW m, NEW q \in Opened(m, Null)
        PROVE  q \in Paths \cup {Null} /\ (q # Null => PathModel[q] = m)
    BY OpenedTyped DEF MInv
  <2>2. /\ h1 # Null => PathModel[h1] = "PRO"
        /\ h2 # Null => PathModel[h2] = "STORAGE"
        /\ h3 # Null => PathModel[h3] = "LIBREM"
        /\ h1 \in Paths \cup {Null} /\ h2 \in Paths \cup {Null}
        /\ h3 \in Paths \cup {Null}
    BY <2>1
  <2> QED
    BY <2>2 DEF AutoOrder
<1>3. connected # {} /\ connected \subseteq 1..3
  BY <1>1
<1>4. Assign([obj EXCEPT ![o] = f], o, byID, running)
  BY <1>1
<1> HIDE DEF connected, h
<1>5. last \in 1..3
  <2>1. \E k \in connected : \A j \in connected : j <= k
    <3>1. 1 \in connected \/ 2 \in connected \/ 3 \in connected
      <4>1. PICK k : k \in connected
        BY <1>3, Zenon
      <4> QED
        BY <1>3, <4>1
    <3> QED
      BY <1>3, <3>1
  <2>2. last \in connected
    BY <2>1
  <2> QED
    BY <1>3, <2>2
<1> HIDE DEF last
<1>6. AutoOrder[last] \in Models
  BY <1>5 DEF AutoOrder, Models
<1>7. f \in Object /\ f.model \in Models /\ Fits(f)
  BY <1>2, <1>5, <1>6 DEF OpenOn, Object, Fits
<1> HIDE DEF f
<1> QED
  BY <1>4, <1>7, ConnectNew DEF ConnectAuto, Free, MInv, Typed

\* connect(device_model): the new object becomes current, open or not.
LEMMA ConnectModelInv ==
  ASSUME MInv, NEW t \in Threads, NEW m \in Models, ConnectModel(t, m)
  PROVE  MInv'
<1>1. PICK h \in Opened(m, Null), o \in Unused :
        Assign([obj EXCEPT ![o] = OpenOn(m, Null, h)], o, byID, running)
  BY DEF ConnectModel
<1> DEFINE f == OpenOn(m, Null, h)
<1>2. h \in Paths \cup {Null} /\ (h # Null => PathModel[h] = m)
  BY OpenedTyped DEF MInv
<1>3. f \in Object /\ f.model \in Models /\ Fits(f)
  BY <1>2 DEF OpenOn, Object, Fits
<1>4. Assign([obj EXCEPT ![o] = f], o, byID, running)
  BY <1>1
<1> HIDE DEF f
<1> QED
  BY <1>3, <1>4, ConnectNew DEF ConnectModel, Free, MInv, Typed

\* connect_with_path: the selection is the path that was opened.
LEMMA ConnectWithPathInv ==
  ASSUME MInv, NEW t \in Threads, NEW p \in Paths, ConnectWithPath(t, p)
  PROVE  MInv'
<1>1. PICK h \in Opened(PathModel[p], p) \ {Null}, o \in Unused :
        Assign([obj EXCEPT ![o] = OpenOn(PathModel[p], p, h)], o, byID, running)
  BY DEF ConnectWithPath
<1> DEFINE f == OpenOn(PathModel[p], p, h)
<1>2. h = p
  BY OpenedTyped, ConstantsAssumption DEF MInv, ConstantsAssumption
<1>3. PathModel[p] \in Models
  BY ConstantsAssumption DEF ConstantsAssumption
<1>4. f \in Object /\ f.model \in Models /\ Fits(f) /\ f.path = p
  BY <1>2, <1>3 DEF OpenOn, Object, Fits
<1>5. Assign([obj EXCEPT ![o] = f], o, byID, running)
  BY <1>1
<1>6. <<p, "path">> \in Ids
  BY DEF Ids
<1> HIDE DEF f
<1> QED
  BY <1>4, <1>5, <1>6, ConnectNew DEF ConnectWithPath, Free

\* No object is made: handles change, references are dropped or moved to
\* objects that were referred to before.
LEMMA KeepObjects ==
  ASSUME MInv, NEW N \in [Objs -> Object],
         \A x \in Objs : N[x].model = obj[x].model /\ N[x].path = obj[x].path,
         \A x \in Objs : Fits(N[x]),
         NEW dev \in Objs \cup {Null},
         NEW ids \in [Ids -> Objs \cup {Null}],
         NEW run \in [Threads -> Objs \cup {Null}],
         \A i \in Ids : ids[i] \in {byID[i], Null},
         dev # Null => dev \in Refs(device, byID, running),
         \A t \in Threads : run[t] # Null =>
           run[t] \in Refs(device, byID, running),
         ChosenIs(obj, dev, chosen', listed'), AimedAt(obj, run, aim')
  PROVE  AssignmentOK(N, dev, ids, run)
<1>1. Refs(dev, ids, run) \subseteq Refs(device, byID, running)
  BY RefsMember
<1>2. Refs(device, byID, running) \subseteq Objs
  BY RefsMember DEF MInv, Typed
<1>3. \A x \in Refs(dev, ids, run) : N[x].model \in Models
  BY <1>1, <1>2 DEF MInv, NoDangling
<1>4. \A i \in Ids : ids[i] # Null =>
        N[ids[i]].model = "STORAGE" /\ N[ids[i]].path = i[1]
  BY DEF MInv, Registered
<1>5. \A i, j \in Ids : i # j /\ i[1] = j[1] /\ ids[i] # Null => ids[j] = Null
  BY DEF MInv, Registered
<1>6. ChosenIs(N, dev, chosen', listed')
  BY DEF ChosenIs
<1>7. AimedAt(N, run, aim')
  <2>1. \A x \in Objs : Targets(N[x]) = Targets(obj[x])
    BY DEF Targets
  <2> QED
    BY <2>1 DEF AimedAt
<1> QED
  BY <1>3, <1>4, <1>5, <1>6, <1>7 DEF AssignmentOK

\* The same for an operation outside list_devices_by_cpuID.
LEMMA KeepInv ==
  ASSUME MInv, NEW N, NEW dev, NEW ids, NEW run, Assign(N, dev, ids, run),
         AssignmentOK(N, dev, ids, run),
         \A i \in Ids : ids[i] \in {byID[i], Null},
         chosen' \in Paths \cup {Null}, listed' \in BOOLEAN,
         aim' \in [Threads -> SUBSET Paths],
         current_device_id' \in Ids \cup {Null},
         UNCHANGED <<plugged, gone, mex, list>>
  PROVE  MInv'
<1>1. /\ (obj \in [Objs -> Object])'
      /\ (device \in Objs \cup {Null})'
      /\ (byID \in [Ids -> Objs \cup {Null}])'
      /\ (running \in [Threads -> Objs \cup {Null}])'
      /\ NoDangling' /\ OnTarget' /\ Aimed' /\ Chosen' /\ Registered'
  BY AssignKeeps
<1>2. byID' = ids
  BY DEF Assign
<1>3. Typed'
  BY <1>1 DEF MInv, Typed
<1>4. Looping'
  BY DEF MInv, Looping
<1>5. Pending'
  BY <1>2 DEF MInv, Pending
<1> QED
  BY <1>1, <1>3, <1>4, <1>5 DEF MInv

\* connect_with_ID: the selection is the path of the registered object.
LEMMA ConnectWithIDInv ==
  ASSUME MInv, NEW t \in Threads, NEW id \in Ids, ConnectWithID(t, id)
  PROVE  MInv'
<1> DEFINE d == byID[id]
<1>1. d \in Objs /\ d # Null /\ d \in Refs(device, byID, running)
      /\ obj[d].path = id[1] /\ id[1] \in Paths
  BY RegisteredRefs DEF ConnectWithID, MInv, Registered, Ids
<1>2. PICK r \in Exchange(d) :
        /\ IF r.result = "comm"
           THEN /\ Assign([obj EXCEPT ![d].handle = Null], d,
                          [byID EXCEPT ![id] = Null], running)
                /\ current_device_id' = Null
           ELSE /\ Assign([obj EXCEPT ![d].handle = r.handle], d, byID, running)
                /\ current_device_id' = id
        /\ Selects(IF r.result \in {"ok", "longop"} THEN id[1] ELSE Null)
  BY DEF ConnectWithID
<1>3. UNCHANGED <<plugged, gone, mex, list>>
  BY DEF ConnectWithID
<1> HIDE DEF d
<1>4. ChosenIs(obj, d, chosen', listed') /\ AimedAt(obj, running, aim')
  BY <1>1, <1>2 DEF Selects, ChosenIs, MInv, Aimed
<1>5. chosen' \in Paths \cup {Null} /\ listed' \in BOOLEAN
      /\ aim' \in [Threads -> SUBSET Paths]
  BY <1>1, <1>2 DEF Selects, MInv, Typed
<1>6. CASE r.result = "comm"
  <2> DEFINE N == [obj EXCEPT ![d].handle = Null]
             ids == [byID EXCEPT ![id] = Null]
  <2>1. /\ N \in [Objs -> Object]
        /\ \A x \in Objs : N[x].model = obj[x].model /\ N[x].path = obj[x].path
        /\ \A x \in Objs : Fits(N[x])
    BY <1>1, NewHandle
  <2>2. ids \in [Ids -> Objs \cup {Null}]
        /\ \A i \in Ids : ids[i] \in {byID[i], Null}
    BY DEF MInv, Typed
  <2>3. Assign(N, d, ids, running) /\ current_device_id' = Null
    BY <1>2, <1>6
  <2> HIDE DEF N, ids
  <2>4. AssignmentOK(N, d, ids, running)
    BY <1>1, <1>4, <2>1, <2>2, DeviceRefs, KeepObjects DEF MInv, Typed
  <2> QED
    BY <1>3, <1>5, <2>2, <2>3, <2>4, KeepInv
<1>7. CASE r.result # "comm"
  <2> DEFINE N == [obj EXCEPT ![d].handle = r.handle]
  <2>1. /\ r.handle \in Paths \cup {Null}
        /\ obj[d].path # Null => r.handle \in {obj[d].path, Null}
        /\ r.handle # Null => PathModel[r.handle] = obj[d].model
    BY <1>1, ExchangeTyped
  <2>2. /\ N \in [Objs -> Object]
        /\ \A x \in Objs : N[x].model = obj[x].model /\ N[x].path = obj[x].path
        /\ \A x \in Objs : Fits(N[x])
    BY <1>1, <2>1, NewHandle
  <2>3. Assign(N, d, byID, running) /\ current_device_id' = id
    BY <1>2, <1>7
  <2> HIDE DEF N
  <2>4. AssignmentOK(N, d, byID, running)
    BY <1>1, <1>4, <2>2, DeviceRefs, KeepObjects DEF MInv, Typed
  <2> QED
    BY <1>3, <1>5, <2>3, <2>4, KeepInv
<1> QED
  BY <1>6, <1>7

\* _disconnect_no_lock: the assignment it makes.
LEMMA DisconnectAssignment ==
  ASSUME MInv, DisconnectNoLock, Selects(Null) \/ ListingAssigns
  PROVE  /\ \E N : /\ Assign(N, Null, byID, running)
                   /\ AssignmentOK(N, Null, byID, running)
         /\ chosen' \in Paths \cup {Null} /\ listed' \in BOOLEAN
         /\ aim' \in [Threads -> SUBSET Paths]
<1>1. ChosenIs(obj, Null, chosen', listed') /\ AimedAt(obj, running, aim')
  BY DEF Selects, ListingAssigns, ChosenIs, MInv, Aimed
<1>4. chosen' \in Paths \cup {Null} /\ listed' \in BOOLEAN
      /\ aim' \in [Threads -> SUBSET Paths]
  BY DEF Selects, ListingAssigns, MInv, Typed
<1>2. CASE device = Null
  <2>1. Assign(obj, Null, byID, running)
    BY <1>2 DEF DisconnectNoLock
  <2>2. AssignmentOK(obj, Null, byID, running)
    BY <1>1, DeviceRefs, KeepObjects DEF MInv, Typed, OnTarget
  <2> QED
    BY <1>4, <2>1, <2>2
<1>3. CASE device # Null
  <2> DEFINE N == [obj EXCEPT ![device].handle = Null]
  <2>1. device \in Objs
    BY <1>3 DEF MInv, Typed
  <2>2. /\ N \in [Objs -> Object]
        /\ \A x \in Objs : N[x].model = obj[x].model /\ N[x].path = obj[x].path
        /\ \A x \in Objs : Fits(N[x])
    BY <2>1, NewHandle
  <2>3. Assign(N, Null, byID, running)
    BY <1>3 DEF DisconnectNoLock
  <2> HIDE DEF N
  <2>4. AssignmentOK(N, Null, byID, running)
    BY <1>1, <2>2, DeviceRefs, KeepObjects DEF MInv, Typed
  <2> QED
    BY <1>4, <2>3, <2>4
<1> QED
  BY <1>2, <1>3

\* disconnect(), and is_connected() when it finds the device gone.
LEMMA DisconnectInv ==
  ASSUME MInv, DisconnectNoLock, Selects(Null),
         UNCHANGED <<plugged, gone, current_device_id, mex, list>>
  PROVE  MInv'
<1>1. PICK N : /\ Assign(N, Null, byID, running)
               /\ AssignmentOK(N, Null, byID, running)
  BY DisconnectAssignment
<1>2. chosen' \in Paths \cup {Null} /\ listed' \in BOOLEAN
      /\ aim' \in [Threads -> SUBSET Paths]
  BY DisconnectAssignment
<1> QED
  BY <1>1, <1>2, KeepInv DEF MInv, Typed

\* An exchange takes a copy of the pointer to the current device.
LEMMA CommandBeginInv ==
  ASSUME MInv, NEW t \in Threads, CommandBegin(t)
  PROVE  MInv'
<1> DEFINE run == [running EXCEPT ![t] = device]
<1>1. device \in Objs /\ device # Null
  BY DEF CommandBegin, MInv, Typed
<1>2. /\ run \in [Threads -> Objs \cup {Null}]
      /\ \A u \in Threads : run[u] = IF u = t THEN device ELSE running[u]
  BY <1>1 DEF MInv, Typed
<1>3. Assign(obj, device, byID, run)
      /\ aim' = [aim EXCEPT ![t] = Targets(obj[device])]
      /\ UNCHANGED <<plugged, gone, current_device_id, mex, list, chosen,
                     listed>>
  BY DEF CommandBegin
<1>6. /\ aim' \in [Threads -> SUBSET Paths]
      /\ \A u \in Threads : aim'[u] = IF u = t THEN Targets(obj[device])
                                     ELSE aim[u]
  BY <1>3 DEF MInv, Typed, Targets
<1> HIDE DEF run
<1>7. AimedAt(obj, run, aim')
  BY <1>2, <1>6 DEF MInv, Aimed, AimedAt
<1>4. \A u \in Threads : run[u] # Null => run[u] \in Refs(device, byID, running)
  BY <1>1, <1>2, DeviceRefs
<1>5. AssignmentOK(obj, device, byID, run)
  BY <1>1, <1>2, <1>3, <1>4, <1>7, DeviceRefs, KeepObjects
     DEF MInv, Typed, OnTarget, Chosen
<1> QED
  BY <1>3, <1>5, <1>6, KeepInv DEF MInv, Typed

\* The end of an exchange may destroy the object, or leave it reopened.
LEMMA CommandEndInv ==
  ASSUME MInv, NEW t \in Threads, CommandEnd(t)
  PROVE  MInv'
<1> DEFINE d == running[t]
           run == [running EXCEPT ![t] = Null]
<1>1. d \in Objs /\ d # Null
  BY DEF CommandEnd, MInv, Typed
<1>2. PICK r \in Exchange(d) :
        Assign([obj EXCEPT ![d].handle = r.handle], device, byID, run)
  BY DEF CommandEnd
<1>3. aim' = [aim EXCEPT ![t] = {}]
      /\ UNCHANGED <<plugged, gone, current_device_id, mex, list, chosen,
                     listed>>
  BY DEF CommandEnd
<1>4. /\ run \in [Threads -> Objs \cup {Null}]
      /\ \A u \in Threads : run[u] = IF u = t THEN Null ELSE running[u]
  BY DEF MInv, Typed
<1> HIDE DEF d, run
<1>10. /\ aim' \in [Threads -> SUBSET Paths]
       /\ \A u \in Threads \ {t} : aim'[u] = aim[u]
  BY <1>3 DEF MInv, Typed
<1>11. AimedAt(obj, run, aim')
  BY <1>4, <1>10 DEF MInv, Aimed, AimedAt
<1> DEFINE N == [obj EXCEPT ![d].handle = r.handle]
<1>5. /\ r.handle \in Paths \cup {Null}
      /\ obj[d].path # Null => r.handle \in {obj[d].path, Null}
      /\ r.handle # Null => PathModel[r.handle] = obj[d].model
  BY <1>1, ExchangeTyped
<1>6. /\ N \in [Objs -> Object]
      /\ \A x \in Objs : N[x].model = obj[x].model /\ N[x].path = obj[x].path
      /\ \A x \in Objs : Fits(N[x])
  BY <1>1, <1>5, NewHandle
<1>7. Assign(N, device, byID, run)
  BY <1>2
<1> HIDE DEF N
<1>8. \A u \in Threads : run[u] # Null => run[u] \in Refs(device, byID, running)
  BY <1>4, DeviceRefs
<1>9. AssignmentOK(N, device, byID, run)
  BY <1>3, <1>4, <1>6, <1>8, <1>11, DeviceRefs, KeepObjects
     DEF MInv, Typed, Chosen
<1> QED
  BY <1>3, <1>7, <1>9, <1>10, KeepInv DEF MInv, Typed

\* list_devices_by_cpuID first gives up the current device.
LEMMA ListDisconnectInv ==
  ASSUME MInv, NEW t \in Threads, ListDisconnect(t)
  PROVE  MInv'
<1>1. PICK N : /\ Assign(N, Null, byID, running)
               /\ AssignmentOK(N, Null, byID, running)
  BY DisconnectAssignment DEF ListDisconnect
<1>9. chosen' \in Paths \cup {Null} /\ listed' \in BOOLEAN
      /\ aim' \in [Threads -> SUBSET Paths]
  BY DisconnectAssignment DEF ListDisconnect
<1>2. /\ (obj \in [Objs -> Object])'
      /\ (device \in Objs \cup {Null})'
      /\ (byID \in [Ids -> Objs \cup {Null}])'
      /\ (running \in [Threads -> Objs \cup {Null}])'
      /\ NoDangling' /\ OnTarget' /\ Aimed' /\ Chosen' /\ Registered'
  BY <1>1, AssignKeeps
<1>3. list' = [list EXCEPT ![t].pc = "gap"]
      /\ UNCHANGED <<plugged, gone, current_device_id, mex>>
  BY DEF ListDisconnect
<1>4. list' \in [Threads -> [pc : {"no", "gap", "loop"}, todo : SUBSET Paths]]
      /\ \A u \in Threads : list'[u].pc = "loop" => list'[u] = list[u]
  BY <1>3 DEF MInv, Typed
<1>5. byID' = byID
  BY <1>1 DEF Assign
<1>6. Typed'
  BY <1>2, <1>3, <1>4, <1>9 DEF MInv, Typed
<1>7. Looping'
  BY <1>3, <1>4 DEF MInv, Looping
<1>8. Pending'
  BY <1>4, <1>5 DEF MInv, Pending
<1> QED
  BY <1>2, <1>6, <1>7, <1>8 DEF MInv

\* It then takes the lock and clears the registry.
LEMMA ListEnumerateInv ==
  ASSUME MInv, NEW t \in Threads, ListEnumerate(t)
  PROVE  MInv'
<1> DEFINE N == [o \in Objs |-> IF \E i \in Ids : byID[i] = o
                               THEN [obj[o] EXCEPT !.handle = Null]
                               ELSE obj[o]]
           ids == [i \in Ids |-> Null]
           l == [pc |-> "loop",
                 todo |-> {p \in plugged : PathModel[p] = "STORAGE"}]
<1>1. /\ Assign(N, device, ids, running)
      /\ mex = Null /\ mex' = t
      /\ list' = [list EXCEPT ![t] = l]
      /\ UNCHANGED <<plugged, gone, current_device_id, chosen, listed, aim>>
  BY DEF ListEnumerate, history
<1>2. /\ N \in [Objs -> Object]
      /\ \A x \in Objs : N[x].model = obj[x].model /\ N[x].path = obj[x].path
      /\ \A x \in Objs : Fits(N[x])
  <2>1. ASSUME NEW x \in Objs
        PROVE  LET f == [obj[x] EXCEPT !.handle = Null]
               IN /\ f \in Object
                  /\ f.model = obj[x].model /\ f.path = obj[x].path
                  /\ Fits(f)
    BY DEF MInv, Typed, Object, OnTarget, Fits
  <2>2. \A x \in Objs : obj[x] \in Object /\ Fits(obj[x])
    BY DEF MInv, Typed, OnTarget
  <2>3. ASSUME NEW x \in Objs
        PROVE  N[x] \in {[obj[x] EXCEPT !.handle = Null], obj[x]}
    OBVIOUS
  <2>4. N = [x \in Objs |-> N[x]]
    OBVIOUS
  <2> HIDE DEF N
  <2>5. \A x \in Objs : N[x] \in Object
    BY <2>1, <2>2, <2>3
  <2>6. N \in [Objs -> Object]
    BY <2>4, <2>5
  <2> QED
    BY <2>1, <2>2, <2>3, <2>6
<1>3. /\ ids \in [Ids -> Objs \cup {Null}]
      /\ \A i \in Ids : ids[i] = Null
  OBVIOUS
<1> HIDE DEF N, ids
<1>4. AssignmentOK(N, device, ids, running)
  BY <1>1, <1>2, <1>3, DeviceRefs, KeepObjects DEF MInv, Typed, Chosen, Aimed
<1>5. /\ (obj \in [Objs -> Object])'
      /\ (device \in Objs \cup {Null})'
      /\ (byID \in [Ids -> Objs \cup {Null}])'
      /\ (running \in [Threads -> Objs \cup {Null}])'
      /\ NoDangling' /\ OnTarget' /\ Aimed' /\ Chosen' /\ Registered'
  BY <1>1, <1>4, AssignKeeps
<1>6. /\ l \in [pc : {"no", "gap", "loop"}, todo : SUBSET Paths]
      /\ \A p \in l.todo : PathModel[p] = "STORAGE"
  BY DEF MInv, Typed
<1> HIDE DEF l
<1>7. list' \in [Threads -> [pc : {"no", "gap", "loop"}, todo : SUBSET Paths]]
      /\ list'[t] = l /\ \A u \in Threads \ {t} : list'[u] = list[u]
  BY <1>1, <1>6 DEF MInv, Typed
<1>8. Typed'
  BY <1>1, <1>5, <1>7 DEF MInv, Typed
<1>9. \A u \in Threads : list[u].pc # "loop"
  BY <1>1, ConstantsAssumption DEF MInv, Looping, ConstantsAssumption
<1>10. Looping'
  BY <1>1, <1>7, <1>9 DEF Looping
<1>11. byID' = ids
  BY <1>1 DEF Assign
<1>12. Pending'
  BY <1>3, <1>6, <1>7, <1>9, <1>11 DEF Pending
<1> QED
  BY <1>5, <1>8, <1>10, <1>12 DEF MInv

\* A stick that does not open is passed over.
LEMMA ListSkipInv ==
  ASSUME MInv, NEW t \in Threads, NEW p \in Paths, ListSkip(t, p)
  PROVE  MInv'
<1>1. list' = [list EXCEPT ![t].todo = @ \ {p}]
      /\ UNCHANGED <<plugged, gone, obj, device, byID, current_device_id,
                     running, mex, chosen, listed, aim>>
  BY DEF ListSkip, history
<1>2. list' \in [Threads -> [pc : {"no", "gap", "loop"}, todo : SUBSET Paths]]
      /\ \A u \in Threads : list'[u].pc = list[u].pc
                             /\ list'[u].todo \subseteq list[u].todo
  BY <1>1 DEF MInv, Typed
<1>3. Typed'
  BY <1>1, <1>2 DEF MInv, Typed
<1>4. Looping'
  BY <1>1, <1>2 DEF MInv, Looping
<1>5. Pending'
  BY <1>1, <1>2 DEF MInv, Pending
<1> QED
  BY <1>1, <1>3, <1>4, <1>5
     DEF MInv, NoDangling, OnTarget, Aimed, Chosen, Registered

\* A stick that opens is new to the registry; it takes the place of whatever
\* was current, selected or not.
LEMMA ListConnectInv ==
  ASSUME MInv, NEW t \in Threads, NEW p \in Paths, ListConnect(t, p)
  PROVE  MInv'
<1>1. PICK h \in Opened("STORAGE", p) \ {Null}, o \in Unused,
           r \in {"ok", "longop", "failed", "comm"}, broken \in BOOLEAN :
        LET id == <<p, IF r = "longop" THEN "path" ELSE "cpu">>
        IN /\ Assign([obj EXCEPT ![o] =
                        OpenOn("STORAGE", p, IF broken THEN Null ELSE h)],
                     o,
                     IF r \in {"ok", "longop"} THEN [byID EXCEPT ![id] = o]
                     ELSE byID,
                     running)
           /\ list' = [list EXCEPT ![t] =
                         IF r = "failed" THEN [pc |-> "no", todo |-> {}]
                         ELSE [pc |-> "loop", todo |-> @.todo \ {p}]]
           /\ mex' = IF r = "failed" THEN Null ELSE mex
  BY DEF ListConnect
<1>2. /\ list[t].pc = "loop" /\ p \in list[t].todo
      /\ ListingAssigns
      /\ UNCHANGED <<plugged, gone, current_device_id>>
  BY DEF ListConnect
<1>3. mex = t /\ PathModel[p] = "STORAGE" /\ p # Null
  BY <1>2, ConstantsAssumption DEF MInv, Looping, Pending, ConstantsAssumption
<1> DEFINE id == <<p, IF r = "longop" THEN "path" ELSE "cpu">>
           f == OpenOn("STORAGE", p, IF broken THEN Null ELSE h)
           N == [obj EXCEPT ![o] = f]
           ids == IF r \in {"ok", "longop"} THEN [byID EXCEPT ![id] = o]
                  ELSE byID
           l == IF r = "failed" THEN [pc |-> "no", todo |-> {}]
                ELSE [pc |-> "loop", todo |-> list[t].todo \ {p}]
<1>4. h = p
  BY OpenedTyped, ConstantsAssumption DEF MInv, ConstantsAssumption
<1>5. id \in Ids /\ id[1] = p
  BY DEF Ids
<1>6. f \in Object /\ f.model = "STORAGE" /\ f.path = p /\ Fits(f)
      /\ f.model \in Models
  BY <1>3, <1>4 DEF OpenOn, Object, Fits, Models
<1>7. /\ Assign(N, o, ids, running)
      /\ list' = [list EXCEPT ![t] = l]
      /\ mex' = IF r = "failed" THEN Null ELSE mex
  BY <1>1
<1> HIDE DEF f, id
<1>8. /\ o \in Objs /\ N \in [Objs -> Object]
      /\ N[o] = f
      /\ \A x \in Objs \ {o} : N[x] = obj[x]
      /\ \A x \in Objs : Fits(N[x])
      /\ o \notin Refs(device, byID, running)
      /\ \A x \in Refs(device, byID, running) : N[x].model \in Models
  BY <1>6, NewObject
<1>9. /\ ids \in [Ids -> Objs \cup {Null}]
      /\ \A i \in Ids : ids[i] = byID[i] \/ (i = id /\ ids[i] = o)
  BY <1>5, <1>8 DEF MInv, Typed
<1> HIDE DEF N, ids
<1>10. AssignmentOK(N, o, ids, running)
  <2>1. Refs(o, ids, running) \subseteq Refs(device, byID, running) \cup {o}
    BY <1>9, RefsMember
  <2>2. \A x \in Refs(o, ids, running) : N[x].model \in Models
    BY <1>6, <1>8, <2>1
  <2>5. ChosenIs(N, o, chosen', listed')
    BY <1>2, <1>3, <1>6, <1>8 DEF ChosenIs, ListingAssigns
  <2>6. AimedAt(N, running, aim')
    <3>1. \A u \in Threads :
            running[u] # Null => N[running[u]] = obj[running[u]]
      BY <1>8, DeviceRefs DEF MInv, Typed
    <3> QED
      BY <1>2, <3>1 DEF MInv, Aimed, AimedAt, ListingAssigns
  <2>3. ASSUME NEW i \in Ids, ids[i] # Null
        PROVE  N[ids[i]].model = "STORAGE" /\ N[ids[i]].path = i[1]
    <3>1. CASE i = id /\ ids[i] = o
      BY <1>5, <1>6, <1>8, <3>1
    <3>2. CASE ids[i] = byID[i]
      <4>1. N[byID[i]] = obj[byID[i]]
        BY <1>8, <2>3, <3>2, RegisteredRefs
      <4> QED
        BY <2>3, <3>2, <4>1 DEF MInv, Registered
    <3> QED
      BY <1>9, <3>1, <3>2
  <2>4. ASSUME NEW i \in Ids, NEW j \in Ids, i # j, i[1] = j[1], ids[i] # Null
        PROVE  ids[j] = Null
    <3>1. \A k \in Ids : k[1] = p => byID[k] = Null
      BY <1>2 DEF MInv, Pending
    <3>2. CASE i = id \/ j = id
      BY <1>5, <1>9, <2>4, <3>1, <3>2
    <3>3. CASE i # id /\ j # id
      BY <1>9, <2>4, <3>3 DEF MInv, Registered
    <3> QED
      BY <3>2, <3>3
  <2> QED
    BY <1>8, <1>9, <2>2, <2>3, <2>4, <2>5, <2>6 DEF AssignmentOK, MInv, Typed
<1>11. /\ (obj \in [Objs -> Object])'
       /\ (device \in Objs \cup {Null})'
       /\ (byID \in [Ids -> Objs \cup {Null}])'
       /\ (running \in [Threads -> Objs \cup {Null}])'
       /\ NoDangling' /\ OnTarget' /\ Aimed' /\ Chosen' /\ Registered'
  BY <1>7, <1>10, AssignKeeps
<1>12. /\ l \in [pc : {"no", "gap", "loop"}, todo : SUBSET Paths]
       /\ l.pc = "loop" => r # "failed" /\ l.todo = list[t].todo \ {p}
  BY DEF MInv, Typed
<1> HIDE DEF l
<1>13. /\ list' \in [Threads ->
                      [pc : {"no", "gap", "loop"}, todo : SUBSET Paths]]
       /\ list'[t] = l
       /\ \A u \in Threads \ {t} : list'[u] = list[u]
  BY <1>7, <1>12 DEF MInv, Typed
<1>14. Typed'
  <2>1. chosen' \in Paths \cup {Null} /\ listed' \in BOOLEAN
        /\ aim' \in [Threads -> SUBSET Paths]
    BY <1>2 DEF ListingAssigns, MInv, Typed
  <2> QED
    BY <1>2, <1>7, <1>11, <1>13, <2>1 DEF MInv, Typed
<1>15. \A u \in Threads \ {t} : list[u].pc # "loop"
  BY <1>3 DEF MInv, Looping
<1>16. Looping'
  BY <1>2, <1>3, <1>7, <1>12, <1>13, <1>15 DEF Looping
<1>17. Pending'
  <2>1. byID' = ids
    BY <1>7 DEF Assign
  <2>2. ASSUME NEW i \in Ids, l.pc = "loop", i[1] \in l.todo
        PROVE  ids[i] = Null
    BY <1>2, <1>5, <1>9, <1>12, <2>2 DEF MInv, Pending
  <2>3. l.pc = "loop" => \A q \in l.todo : PathModel[q] = "STORAGE"
    BY <1>2, <1>12 DEF MInv, Pending
  <2> QED
    BY <1>13, <1>15, <2>1, <2>2, <2>3 DEF Pending
<1> QED
  BY <1>11, <1>14, <1>16, <1>17 DEF MInv

\* The listing gives the lock back.
LEMMA ListReturnInv ==
  ASSUME MInv, NEW t \in Threads, ListReturn(t)
  PROVE  MInv'
<1>1. /\ list[t].pc = "loop"
      /\ list' = [list EXCEPT ![t].pc = "no"]
      /\ mex' = Null
      /\ UNCHANGED <<plugged, gone, obj, device, byID, current_device_id,
                     running, chosen, listed, aim>>
  BY DEF ListReturn, history
<1>2. /\ list' \in [Threads ->
                     [pc : {"no", "gap", "loop"}, todo : SUBSET Paths]]
      /\ list'[t].pc = "no"
      /\ \A u \in Threads \ {t} : list'[u] = list[u]
  BY <1>1 DEF MInv, Typed
<1>3. \A u \in Threads : list'[u].pc # "loop"
  BY <1>1, <1>2 DEF MInv, Looping
<1>4. Typed'
  BY <1>1, <1>2 DEF MInv, Typed
<1>5. Looping' /\ Pending'
  BY <1>1, <1>3 DEF Looping, Pending
<1> QED
  BY <1>1, <1>4, <1>5 DEF MInv, NoDangling, OnTarget, Aimed, Chosen, Registered

\* The user may plug and unplug sticks at any time.
LEMMA PlugInv ==
  ASSUME MInv, NEW p \in Paths, Plug(p) \/ Unplug(p)
  PROVE  MInv'
<1>1. UNCHANGED <<obj, device, byID, current_device_id, running, mex, list,
                  chosen, listed, aim>>
  BY DEF Plug, Unplug, history
<1>2. plugged' \in SUBSET Paths /\ gone' \in SUBSET (Paths \ plugged')
  BY DEF Plug, Unplug, MInv, Typed
<1>3. Typed'
  BY <1>1, <1>2 DEF MInv, Typed
<1> QED
  BY <1>1, <1>3
     DEF MInv, NoDangling, OnTarget, Aimed, Chosen, Registered, Looping, Pending

\* A new manager has no device.
LEMMA MInvInit == Init => MInv
<1> SUFFICES ASSUME Init PROVE MInv
  OBVIOUS
<1>1. NoObj \in Object /\ Fits(NoObj)
  BY DEF NoObj, Object, Fits
<1>2. Typed
  BY <1>1 DEF Init, Typed
<1>3. \A o : o \notin Refs(device, byID, running)
  BY RefsMember DEF Init
<1>4. NoDangling /\ OnTarget
  BY <1>1, <1>3 DEF Init, NoDangling, OnTarget
<1>5. Looping /\ Chosen /\ Aimed /\ Registered /\ Pending
  BY DEF Init, Looping, Chosen, ChosenIs, Aimed, AimedAt, Registered, Pending
<1> QED
  BY <1>2, <1>4, <1>5 DEF MInv

\* Every step keeps the invariant.
LEMMA MInvNext == MInv /\ [Next]_vars => MInv'
<1> SUFFICES ASSUME MInv, [Next]_vars PROVE MInv'
  OBVIOUS
<1>1. CASE UNCHANGED vars
  BY <1>1 DEF vars, history, MInv, Typed, NoDangling, OnTarget, Aimed, Chosen,
              Registered, Looping, Pending
<1>2. ASSUME NEW t \in Threads, Disconnect(t) \/ IsConnectedFindsNone(t)
      PROVE  MInv'
  BY <1>2, DisconnectInv DEF Disconnect, IsConnectedFindsNone
<1> QED
  BY <1>1, <1>2, PlugInv, ConnectAutoInv, ConnectModelInv, ConnectWithPathInv,
     ConnectWithIDInv, CommandBeginInv, CommandEndInv, ListDisconnectInv,
     ListEnumerateInv, ListSkipInv, ListConnectInv, ListReturnInv DEF Next

\* The invariant holds throughout.
LEMMA MInvAlways == Spec => []MInv
BY MInvInit, MInvNext, PTL DEF Spec

-----------------------------------------------------------------------------
(***************************************************************************)
(* What follows from it.                                                   *)
(***************************************************************************)

\* No pointer of the manager, of its registry or of a running exchange
\* dangles: shared_ptr keeps the Device as long as one of them refers to it.
THEOREM TypeCorrect == Spec => []TypeOK
<1>1. MInv => TypeOK
  <2> SUFFICES ASSUME MInv PROVE TypeOK
    OBVIOUS
  <2>1. NoObj.model \notin Models
    BY DEF NoObj, Models
  <2>2. \A o \in Refs(device, byID, running) : obj[o] # NoObj
    BY <2>1 DEF MInv, NoDangling
  <2> QED
    BY <2>2 DEF MInv, Typed, TypeOK
<1> QED
  BY <1>1, MInvAlways, PTL

(***************************************************************************)
(* A command reaches a stick that the device current when it began was     *)
(* made for (the one at its path, or one of its model), or fails, whatever *)
(* other threads connect, list, disconnect or destroy meanwhile.           *)
(***************************************************************************)
THEOREM CommandsReachTheirTarget == Spec => []CommandsOnTarget
<1>1. MInv => CommandsOnTarget
  <2> SUFFICES ASSUME MInv PROVE CommandsOnTarget
    OBVIOUS
  <2>1. ASSUME NEW o \in Objs
        PROVE  obj[o].handle \in Targets(obj[o]) \cup {Null}
    <3>1. obj[o] \in Object /\ Fits(obj[o])
      BY DEF MInv, Typed, OnTarget
    <3>2. /\ obj[o].handle \in Paths \cup {Null}
          /\ obj[o].path \in Paths \cup {Null}
      BY <3>1 DEF Object
    <3> QED
      BY <3>1, <3>2 DEF Fits, Targets
  <2>2. ASSUME NEW t \in Threads, running[t] # Null
        PROVE  obj[running[t]].handle \in aim[t] \cup {Null}
    <3>1. running[t] \in Objs
      BY <2>2 DEF MInv, Typed
    <3>2. aim[t] = Targets(obj[running[t]])
      BY <2>2 DEF MInv, Aimed, AimedAt
    <3> QED
      BY <2>1, <3>1, <3>2
  <2> QED
    BY <2>1, <2>2 DEF CommandsOnTarget
<1> QED
  BY <1>1, MInvAlways, PTL

(***************************************************************************)
(* A stick that connect_with_ID or connect_with_path has selected stays    *)
(* the current one, open or closed, until a call of some thread assigns    *)
(* `device': reconnects, removals and commands never exchange it.  If that *)
(* call is a listing, which may have begun before the selection, what is   *)
(* current next is nothing or a Storage object bound to its own path.      *)
(***************************************************************************)
THEOREM SelectionStaysUntilAssigned == Spec => []SelectionSticks
<1>1. MInv => SelectionSticks
  <2> SUFFICES ASSUME MInv, chosen # Null PROVE SelectionSticks
    BY DEF SelectionSticks
  <2>1. ASSUME device # Null, obj[device].path # Null
        PROVE  CurrentIs(obj[device].path)
    <3>1. device \in Objs
      BY <2>1 DEF MInv, Typed
    <3>2. Fits(obj[device])
      BY <3>1 DEF MInv, OnTarget
    <3> QED
      BY <2>1, <3>2 DEF CurrentIs, Fits
  <2>2. CASE listed
    <3>1. device # Null =>
            obj[device].model = "STORAGE" /\ obj[device].path # Null
      BY <2>2 DEF MInv, Chosen, ChosenIs
    <3> QED
      BY <2>1, <2>2, <3>1 DEF SelectionSticks
  <2>3. CASE ~listed
    <3>1. device # Null /\ obj[device].path = chosen
      BY <2>3 DEF MInv, Chosen, ChosenIs
    <3> QED
      BY <2>1, <2>3, <3>1 DEF SelectionSticks
  <2> QED
    BY <2>2, <2>3
<1> QED
  BY <1>1, MInvAlways, PTL

\* The registry of list_devices_by_cpuID never maps an id to another stick's
\* object, never one object to two ids and never one stick to two ids.
THEOREM RegistryStaysSound == Spec => []RegistrySound
<1>1. MInv => RegistrySound
  <2> SUFFICES ASSUME MInv PROVE RegistrySound
    OBVIOUS
  <2>1. ASSUME NEW i \in Ids, byID[i] # Null
        PROVE  /\ obj[byID[i]].model = "STORAGE"
               /\ obj[byID[i]].path = i[1]
               /\ obj[byID[i]].handle \in {i[1], Null}
    <3>1. byID[i] \in Objs /\ i[1] \in Paths
      BY <2>1, RegisteredRefs DEF Ids
    <3>2. Fits(obj[byID[i]])
      BY <3>1 DEF MInv, OnTarget
    <3>3. obj[byID[i]].model = "STORAGE" /\ obj[byID[i]].path = i[1]
      BY <2>1 DEF MInv, Registered
    <3>4. i[1] # Null
      BY <3>1, ConstantsAssumption DEF ConstantsAssumption
    <3> QED
      BY <3>2, <3>3, <3>4 DEF Fits
  <2>2. ASSUME NEW i \in Ids, NEW j \in Ids, i # j, byID[i] # Null
        PROVE  byID[j] # byID[i] /\ (i[1] = j[1] => byID[j] = Null)
    <3>1. i[1] = j[1] => byID[j] = Null
      BY <2>2 DEF MInv, Registered
    <3>2. byID[j] = byID[i] => i[1] = j[1]
      BY <2>1, <2>2
    <3> QED
      BY <2>2, <3>1, <3>2
  <2> QED
    BY <2>1, <2>2 DEF RegistrySound
<1> QED
  BY <1>1, MInvAlways, PTL

-----------------------------------------------------------------------------
(***************************************************************************)
(* A closed device is not reopened behind the caller's back.               *)
(***************************************************************************)

\* N is how an operation leaves the objects: the closed ones closed.
LeavesClosed(N) ==
  \A o \in Objs : obj[o] # NoObj /\ obj[o].handle = Null => N[o].handle = Null

\* A destructor opens nothing either.
LEMMA AssignClosed ==
  ASSUME NEW N, NEW dev, NEW ids, NEW run, Assign(N, dev, ids, run),
         LeavesClosed(N)
  PROVE  LeavesClosed(obj')
<1>1. NoObj.handle = Null
  BY DEF NoObj
<1>2. \A o \in Objs : obj'[o] = N[o] \/ obj'[o] = NoObj
  BY DEF Assign
<1> QED
  BY <1>1, <1>2 DEF LeavesClosed

\* A handle is opened by the constructor's connect, on a new object.
LEMMA NewClosed ==
  ASSUME MInv, NEW o \in Unused, NEW f
  PROVE  LeavesClosed([obj EXCEPT ![o] = f])
BY DEF Unused, LeavesClosed, MInv, Typed

\* An exchange reopens only what it found open.
LEMMA HandleClosed ==
  ASSUME MInv, NEW d \in Objs, NEW h, obj[d].handle = Null => h = Null
  PROVE  LeavesClosed([obj EXCEPT ![d].handle = h])
<1>1. \A x \in Objs : [obj EXCEPT ![d].handle = h][x] =
        IF x = d THEN [obj[x] EXCEPT !.handle = h] ELSE obj[x]
  BY DEF MInv, Typed
<1>2. [obj[d] EXCEPT !.handle = h].handle = h
  BY DEF MInv, Typed, Object
<1> QED
  BY <1>1, <1>2 DEF LeavesClosed

\* _disconnect_no_lock closes and opens nothing.
LEMMA DisconnectCloses ==
  ASSUME MInv, DisconnectNoLock
  PROVE  LeavesClosed(obj')
<1>1. CASE device = Null
  <2>1. LeavesClosed(obj)
    BY DEF LeavesClosed
  <2> QED
    BY <1>1, <2>1, AssignClosed DEF DisconnectNoLock
<1>2. CASE device # Null
  <2>1. device \in Objs
    BY <1>2 DEF MInv, Typed
  <2>2. LeavesClosed([obj EXCEPT ![device].handle = Null])
    BY <2>1, HandleClosed
  <2> QED
    BY <1>2, <2>2, AssignClosed DEF DisconnectNoLock
<1> QED
  BY <1>1, <1>2

\* Every step leaves closed devices closed.
LEMMA NextLeavesClosed ==
  ASSUME MInv, Next
  PROVE  LeavesClosed(obj')
<1>1. ASSUME NEW t \in Threads, ConnectAuto(t)
      PROVE  LeavesClosed(obj')
  <2>1. PICK o \in Unused :
          \E f : Assign([obj EXCEPT ![o] = f], o, byID, running)
    BY <1>1 DEF ConnectAuto
  <2> QED
    BY <2>1, NewClosed, AssignClosed
<1>2. ASSUME NEW t \in Threads, NEW m \in Models, ConnectModel(t, m)
      PROVE  LeavesClosed(obj')
  <2>1. PICK o \in Unused :
          \E f : Assign([obj EXCEPT ![o] = f], o, byID, running)
    BY <1>2 DEF ConnectModel
  <2> QED
    BY <2>1, NewClosed, AssignClosed
<1>3. ASSUME NEW t \in Threads, NEW p \in Paths, ConnectWithPath(t, p)
      PROVE  LeavesClosed(obj')
  <2>1. PICK o \in Unused :
          \E f : Assign([obj EXCEPT ![o] = f], o, byID, running)
    BY <1>3 DEF ConnectWithPath
  <2> QED
    BY <2>1, NewClosed, AssignClosed
<1>4. ASSUME NEW t \in Threads, NEW p \in Paths, ListConnect(t, p)
      PROVE  LeavesClosed(obj')
  <2>1. PICK o \in Unused :
          \E f, ids : Assign([obj EXCEPT ![o] = f], o, ids, running)
    BY <1>4 DEF ListConnect
  <2> QED
    BY <2>1, NewClosed, AssignClosed
<1>5. ASSUME NEW t \in Threads, NEW id \in Ids, ConnectWithID(t, id)
      PROVE  LeavesClosed(obj')
  <2> DEFINE d == byID[id]
  <2>1. d \in Objs
    BY <1>5, RegisteredRefs DEF ConnectWithID
  <2>2. PICK r \in Exchange(d) : \E ids :
          \/ Assign([obj EXCEPT ![d].handle = Null], d, ids, running)
          \/ Assign([obj EXCEPT ![d].handle = r.handle], d, ids, running)
    BY <1>5 DEF ConnectWithID
  <2> HIDE DEF d
  <2>3. obj[d].handle = Null => r.handle = Null
    BY <2>1, ExchangeTyped
  <2>4. /\ LeavesClosed([obj EXCEPT ![d].handle = Null])
        /\ LeavesClosed([obj EXCEPT ![d].handle = r.handle])
    BY <2>1, <2>3, HandleClosed
  <2> QED
    BY <2>2, <2>4, AssignClosed
<1>6. ASSUME NEW t \in Threads, CommandEnd(t)
      PROVE  LeavesClosed(obj')
  <2> DEFINE d == running[t]
  <2>1. d \in Objs
    BY <1>6 DEF CommandEnd, MInv, Typed
  <2>2. PICK r \in Exchange(d) : \E run :
          Assign([obj EXCEPT ![d].handle = r.handle], device, byID, run)
    BY <1>6 DEF CommandEnd
  <2> HIDE DEF d
  <2>3. obj[d].handle = Null => r.handle = Null
    BY <2>1, ExchangeTyped
  <2>4. LeavesClosed([obj EXCEPT ![d].handle = r.handle])
    BY <2>1, <2>3, HandleClosed
  <2> QED
    BY <2>2, <2>4, AssignClosed
<1>7. ASSUME NEW t \in Threads, ListEnumerate(t)
      PROVE  LeavesClosed(obj')
  <2> DEFINE N == [o \in Objs |-> IF \E i \in Ids : byID[i] = o
                                 THEN [obj[o] EXCEPT !.handle = Null]
                                 ELSE obj[o]]
  <2>1. \A o \in Objs : [obj[o] EXCEPT !.handle = Null].handle = Null
    BY DEF MInv, Typed, Object
  <2>2. LeavesClosed(N)
    BY <2>1 DEF LeavesClosed
  <2>3. Assign(N, device, [i \in Ids |-> Null], running)
    BY <1>7 DEF ListEnumerate
  <2> HIDE DEF N
  <2> QED
    BY <2>2, <2>3, AssignClosed
<1>8. ASSUME NEW t \in Threads, CommandBegin(t)
      PROVE  LeavesClosed(obj')
  <2>1. LeavesClosed(obj)
    BY DEF LeavesClosed
  <2> QED
    BY <1>8, <2>1, AssignClosed DEF CommandBegin
<1>9. ASSUME NEW t \in Threads,
             Disconnect(t) \/ IsConnectedFindsNone(t) \/ ListDisconnect(t)
      PROVE  LeavesClosed(obj')
  BY <1>9, DisconnectCloses
     DEF Disconnect, IsConnectedFindsNone, ListDisconnect
<1>10. ASSUME obj' = obj
       PROVE  LeavesClosed(obj')
  BY <1>10 DEF LeavesClosed
<1>11. ASSUME NEW t \in Threads, NEW p \in Paths, ListSkip(t, p)
       PROVE  LeavesClosed(obj')
  BY <1>10, <1>11 DEF ListSkip
<1>12. ASSUME NEW p \in Paths, Plug(p) \/ Unplug(p)
       PROVE  LeavesClosed(obj')
  BY <1>10, <1>12 DEF Plug, Unplug
<1>13. ASSUME NEW t \in Threads, ListReturn(t)
       PROVE  LeavesClosed(obj')
  BY <1>10, <1>13 DEF ListReturn
<1> QED
  BY <1>1, <1>2, <1>3, <1>4, <1>5, <1>6, <1>7, <1>8, <1>9, <1>11, <1>12, <1>13
     DEF Next

(***************************************************************************)
(* An object that disconnect(), a failed reconnect or a listing has closed *)
(* stays closed: a command that another thread started before does not     *)
(* bring the connection back.                                              *)
(***************************************************************************)
THEOREM ClosedNotReopened == Spec => ClosedStaysClosed
<1>1. MInv /\ [Next]_vars =>
        [\A o \in Objs : obj[o] # NoObj /\ obj[o].handle = Null =>
           obj'[o].handle = Null]_vars
  BY NextLeavesClosed DEF LeavesClosed
<1> QED
  BY <1>1, MInvAlways, PTL DEF Spec, ClosedStaysClosed

=============================================================================
