# A TLA+ model of libnitrokey

libnitrokey is the C++ library, with a C interface, through which programs talk
to Nitrokey Pro, Nitrokey Storage and Librem Key sticks over USB HID. This
directory holds TLA+ modules that model it, TLC configurations that check them
on small instances, and TLAPS proofs of the most important invariants for every
value of the constants. `PROJECT.json` lists the runs, the source lines behind
every definition, the hazards of the code, the disagreements found between code
and documentation, and a mutant of the model for every property.

    tlasany Transaction.tla                             # parse
    tlc -workers 2 -config transaction.cfg MCTransaction  # model-check
    tlapm TransactionProofs.tla                         # check the proofs

The configuration of a run carries the run's name; `PROJECT.json` names its module.


## 1. Inventory

### The parts and how they call each other

    C caller, any thread
      NK_C_API.cc           NK_*: an operation inside a wrapper that catches
         |                  exceptions; NK_last_command_status
      NitrokeyManager.cc    the singleton: current device, registry, operations
         |
      device_proto.h        Transaction::run: one command, one answer
         |
      device.cc             Device: HID handle, reconnect, mex_dev_com
         |
      hidapi (external)     hid_open, hid_send_feature_report, ...
         |
      the stick (external)

| part | state it keeps | operations | module |
|---|---|---|---|
| exchange, `Transaction::run` | response packet, retry counter, busy counter, time-out; `ErrorCounters` and `last_command_status` of the device | `run` | Transaction, which implements Exchange |
| HID device, `Device` | `mp_devhandle`, `m_path`, `instances_count`, `mex_dev_com` | constructor, destructor, `connect`, `disconnect`, `send`, `recv`, `could_be_enumerated`, `enumerate` | HidDevice |
| connection manager | `device`, `connected_devices_byID`, `current_device_id`, `mex_dev_com_manager` | four ways to connect, `disconnect`, `is_connected`, `list_devices`, `list_devices_by_cpuID` | Manager |
| operations | none on the host; the slots, PINs and staged data of the stick | about sixty: OTP slots, password safe, PINs, volumes, firmware | Operations, Firmware |
| C API | `NK_last_command_status` | about eighty functions `NK_*` | CApi |
| exceptions | a code byte | - | Transaction, CApi |
| mutexes of all parts | their owners | `lock_guard` in every call | Locks |
| command payloads | none | fields and their widths | Payloads |
| helpers (`strcpyT`, hex, CRC) | none | conversions | Payloads; verdicts in Operations and Transaction |
| dissectors, log, version | none | - | not modelled |

The parts share state under three mutexes (`mex_dev_com_manager`, then
`send_receive_mtx` of `run`, then `mex_dev_com`; a fourth guards the creation of
the singleton), and through three things that no mutex protects: the pointer `device` that
commands copy, `instances_count`, and `NK_last_command_status`.

### What is hard

*Concurrency.* The library is called from several threads (a GUI polls the
status while the user acts). `list_devices_by_cpuID` releases the lock of the
manager in the middle; `Device::enumerate` and the constructor run without
`mex_dev_com`; a failed transfer of one thread may shut hidapi down for all.

*Failure.* Sticks are pulled out at any time. A transfer fails, and is repeated
with a reconnect in between; an exchange throws, in the middle of an operation
of several commands; an answer is lost although the stick did the work.

*Ordering and staleness.* `run` looks at the packet before it looks at whether
the packet was received. The Storage's PIN change is two commands. Secrets
longer than 30 bytes travel in chunks that the stick collects.

*Bounds.* Retries that give themselves back when the stick is busy; chunk sizes
and secret lengths; firmware versions that decide which protocol is spoken.
Strings that fill their fields to the last byte, PINs for which different
commands have different room, counters that are text or binary.

### What makes each part correct

* exchange: what it returns comes from a finished report of this exchange; it
  polls a bounded number of times and ends; its statistics agree. Seen from
  outside it is the specification Exchange.
* HID device: handles are valid while they are held, none leaks, retries are
  bounded, `disconnect` is final, the mutex is given back.
* manager: a command stays on the stick, or at least on the model, that was
  current when it began; a stick that was selected stays current until a call
  assigns another device; the registry leads to the sticks that its ids name;
  nothing reopens a closed connection; no pointer dangles.
* mutexes: no circular wait; every call returns and gives back what it locked;
  exchanges do not interleave.
* operations: slots hold whole secrets; success means that all the work is done;
  a rejected call leaves slots and PINs alone; a PIN is changed by the PIN of the
  same call; the protocol fits the firmware.
* payloads: what is written reads back; an answer is read as what it is; a PIN
  that could be set can be used.
* C API: code zero comes with genuine data; an error is not forgotten.

The `hazards` of `PROJECT.json` list, line by line, where these can go wrong.


## 2. The modules and the code

### Transaction (`libnitrokey/device_proto.h`)

One behaviour is a sequence of exchanges; exchanges of several threads never
overlap because `run` holds `send_receive_mtx`. The variables are the locals of
`run`, the counters of the device and the outcome. The program points are before
the send, the head of the receiving loop, and the checks after it:

* `RunWithoutDevice`, `Begin`: the checks and resets at the start;
* `SendOk`, `SendFails`, `SendThrows`: the send with its own checks;
* `RecvReport`, `RecvFails`, `RecvThrows`: one turn of the loop (`Poll`): receive,
  translate the Storage status (`Translate`), decide, count, sleep;
* `LoopExhausted`: the loop condition fails at the head;
* `Finish`: the checks after the loop in their order (`Verdict`).

A packet is reduced to the five things that `run` looks at. The stick is an
environment: every poll may return any report, fail or throw. `RetryTimeout` is
carried because the busy branch changes it, not because time passes.

### Exchange (the promise of `Transaction::run`)

The abstract specification: a command is sent at most once, the stick is polled
a bounded number of times until it says something, and the result is made of
that. It knows neither packets nor counters. Transaction defines the refinement
mapping: `Phase` from the program point, `Heard` from the packet once the loop
has accepted it, `PollsNow` from the counter of receives. `EFairSpec` adds that
an exchange that has begun goes on. `ImplementsExchange` is checked by `transaction`;
its safety part is the theorem `RefinesExchange`.

### HidDevice (`device.cc`)

Device objects are created, connected, used by several threads and destroyed. A
call is split at the points where something that does not take `mex_dev_com` can
come in between: the constructor's and destructor's changes of `instances_count`
and `Device::enumerate`. `close`, the test of `instances_count` (`Check`),
`hid_exit` and `hid_open` are steps of their own. A transfer that fails goes
round close, check, exit and open, up to the retry count. hidapi is external:
the set of open handles and whether it is initialised; `hid_exit` closes every
handle that is still open.

### Manager (`NitrokeyManager.cc`, connections)

Objects live as long as something refers to them; `Assign` runs the destructors
that an assignment triggers. Every connecting operation is one action under the
lock. `list_devices_by_cpuID` is several (`ListDisconnect`, the gap without the
lock, `ListEnumerate`, one `ListSkip` or `ListConnect` per device, `ListReturn`)
with the commands of other threads in between. A command is `CommandBegin` (copy the
pointer) and `CommandEnd` (the exchange on it, `Exchange`, where a failed transfer may reconnect).
`Plug` and `Unplug` are the user. A path is a libusb path: a stick that is
plugged in again has a new one.

Three history variables serve the properties. `aim` has the sticks that the
device of a command was made for when the command began: the one at its path,
or every stick of its model, since an object made by `connect()` or
`connect(model)` has no path and reconnects by product id. `chosen` has the
path that the last `connect_with_ID` or `connect_with_path` selected, until any
thread next calls to connect or disconnect. `listed` says that a listing has
since assigned `device`. The steps of a listing change it only where the code
assigns `device`, in `ListDisconnect` and `ListConnect`. A selection made in the
gap (`NitrokeyManager.cc:118`) therefore survives `ListEnumerate`, closed if it
was a registered device, and is replaced by the first stick that the loop opens
(`:141`): the thread that made it was told `true`, and its next command goes to
another stick. The header documents that a listing "changes active device to
last detected Storage device" (`NK_C_API.h:1026`), so this is no disagreement,
but threads that list and select at the same time have to agree among
themselves.

### Locks (all `lock_guard`s of the library)

A thread is a stack of calls. A call has the mutex at its head (`Guard`), the
sequences of calls it can make (`Body`), the exceptions it raises itself
(`Raises`) and the ones it catches (`Handler`). Which branch it takes is left
open, since Manager, HidDevice and Transaction are about that. `Enter` and `Leave` are
the constructor and the destructor of `lock_guard`: a mutex is given back when
the call ends, by return or by exception. While an exception passes through a
call, the only calls it makes are those of destructors; `~Device` takes
`mex_dev_com` and runs wherever the last `shared_ptr` to a device goes, also
inside the manager's lock. `g_exception_message_mutex` (`LibraryException.h`)
is left out: nothing is called while it is held.

### Firmware (`NitrokeyManager.cc`, the tables of versions)

The functions of model and version that Operations and Payloads share.
`get_minor_firmware_version` keeps the width of its `uint8_t`.

### Operations (`NitrokeyManager.cc`, the rest)

An operation is a sequence (`Script`) of argument checks and commands;
`AfterVersion` picks the rest of it once the firmware version is known. Every
command may be executed and answered (`ExchangeOk`), fail before it reached the stick
(`ExchangeFails`), be executed and its answer lost (`AnswerLost`), or be executed
twice because `Device::send` repeats a transfer that was reported as failed
(`ExecutedTwice`; a command that needs an announcement fails the second time,
for its announcement is used up). Data is
named by the call it came from, so that a mixture of two calls is visible. A
byte of a secret is its call and its place.

The stick is external and modelled by what the operations rely on: `Authorize`
announces the next command of the old protocol; `SendName` starts a new record
of staged data and the chunks of a secret are stored at their number; a write
commits the record; an unsent or empty secret keeps the one in the slot (this is
what `unittest/test_pro.py`, `test_edit_OTP_slot`, expects); on a Storage the
second PIN command uses the current PIN that the first one left, and the stick
is not assumed to forget it afterwards, so that a later call might meet it.

### Payloads (`stick10_commands*.h`, `stick20_commands.h`, `command.h`, `misc.h`)

Tables give the fields of the commands and responses with their widths. `Field`
is `strncpy` into a zeroed field, `TooLong` the test of `strcpyT`; `Report` lays
a response out in the report that the stick sends, and `Strndup` reads it from
the field to the first zero byte, beyond the end of the field if none is in it.
A character is its call and its place, so that a byte of another string is
visible. HOTP counters go through the conversions of both protocols (`Digits`,
`Binary`, `Stoull`, `FromBinary`). PINs and passwords are their lengths:
`Setters` and `Users` list every field that sets one or brings one, per model
and firmware. `HasStorageStatus` and `StatusOk` are the overlay of the status of
Storage commands. That payloads fit into a report (the code's `static_assert`s)
is the assumption `LayoutsFit`, which TLC evaluates. Counters are below 2^64.

### CApi (`NK_C_API.cc`)

Tables say for each function which wrapper it uses and what it returns: an error
code, a structure through a pointer, a value, or the flag of `NK_login`. A call
is entered, its operation returns or throws any exception of the library, the
handler stores a code, the wrapper reads the status back. Each access to
`NK_last_command_status` is a step. `Refuse` is the early return on a null
output pointer.


## 3. Model checking

### Runs that pass

| run | instance | what it shows |
|---|---|---|
| `transaction` | receiving count 2, 10 reports, two exchanges | what is returned is genuine and not left over from the exchange before; at most 11 polls for each unit of the count; the statistics agree; every exchange ends; `run` implements Exchange |
| `hid_device` | 3 objects, 2 threads, 2 handles, retry count 2 | handles usable, no leak, bounded attempts, `disconnect` final, the mutex given back whatever fails |
| `manager` | 2 Storage sticks, 5 objects, 2 threads | commands stay on the targets of their device; a selection holds until a call assigns `device`, and a listing leaves nothing or a Storage stick with a path in its place; the registry is sound; closed connections stay closed; no dangling pointer |
| `locks` | 2 threads with 2 calls each, 2 polls, 2 sticks in a listing | no circular wait, exchanges apart, no exception in the `noexcept` `is_connected` (`TypeOK`), every call returns without a mutex |
| `payloads` | 5 sticks, strings of 2 characters, of the width and of one more, counters of 3, 8 and 9 digits, PINs of 20, 21, 25 and 26, two writes | strings, counters and answers read back as what they are; PINs stay usable |
| `operations` | 8 sticks around every firmware boundary, secrets of 0, 20, 21, 40 and 41 bytes, two calls | the five properties of operations |
| `capi` | every function, one thread, three command codes | data only with code zero; errors are kept |

### Runs that TLC finds violated

Each checks what a comment, a document or a test of the repository says, and the
code does otherwise. Details and quotations are in `findings`.

| run | what the code does |
|---|---|
| `transaction_last_attempt` | an answer on the last poll of the budget is thrown away as "Maximum ... count reached" |
| `transaction_smartcard` | the Storage's `smartcard_error` is never reported as a failed command, so `reason_smartcard_busy` cannot become true by it |
| `login_auto` | `connect()` ends on the last model it finds, not the first |
| `capi_threads` | with two threads code zero can come with a zeroed structure |
| `capi_failure` | an invalid packet is reported as success by the functions that return a code |

### Other disagreements

Met while modelling, in what the actions do, and not given a run of their own:

* A reconnect may call `hid_exit` while another thread is in `hid_enumerate`
  (`device.cc:137`; `HidExit` between `EnumerateBegin` and `EnumerateEnd`).
  hidapi says that it "should be called at the end of execution".
* After a failed `connect(model)` the model is reported as connected
  (`NitrokeyManager.cc:301`; `ConnectModel`, `DeviceModel`). `NK_C_API.h:397`
  promises "the model of the connected device or NK_DISCONNECTED".
* `could_be_enumerated` says no for a visible stick whose handle is closed
  (`device.cc:281`; `CouldBeEnumerated`). `device.h:159` says "whether the
  device is connected through HID API or not".
* A device in the registry stays open when `connect_with_path` replaces it
  (`NitrokeyManager.cc:251`; `ConnectWithPath`), where the comment says
  "previous device will be disconnected automatically".
* `NK_logout` closes the current one of the listed devices only
  (`NitrokeyManager.cc:349`; `DisconnectNoLock`), where
  `unittest/test_multiple.py:49` relies on it to close them all.
* On Storage 0.51 `set_unencrypted_read_only_admin` returns without doing
  anything (`NitrokeyManager.cc:1112`; `SetUnencrypted`). `NK_C_API.h:878` gives
  the range "v0.49, v0.51+".
* An empty secret is accepted (`misc.cc:40`; `Rejects`), where
  `unittest/test_library.py:67` calls an empty string invalid.
* The header's sizes of strings differ from the fields. PINs are "char[25]"
  (`NK_C_API.h:680`), but a Storage takes 20, and on a Pro a PIN of 21 to 25 is
  accepted and then refused by `factory_reset`, `build_aes_key` and
  `enable_password_safe`, whose parameter is "char[30]" (`NK_C_API.h:710`) but
  passes through the 20 bytes of `IsAESSupported` first (`SecretUsable` has
  these three commands as its exception). A slot's name is "char[20]"
  (`NK_C_API.h:550`) when read and "char[15]" (`:580`) when written; firmware
  that takes it with `SendOTPData` is sent up to 30 characters. The temporary
  password of `NK_write_totp_slot` is "char[20]" (`:606`) and may have 25.

### Bounds and why they are enough

* Transaction: the reports have one member for each way in which `run` can look
  at a packet, and a receiving count of 2 separates the last attempt, which the
  code treats differently, from an earlier one. Ten busy polls for a unit of the budget are in the code itself
  and are not scaled down. `MaxRuns` bounds the number of exchanges; two are
  enough for anything left over from the one before.
* HidDevice: the last-instance test tells one object from more; three objects
  give a closing one, a surviving one and one that is just being constructed. A
  retry count of 2 has a first, a repeated and a last attempt. Two threads
  suffice for one inside the mutex and one outside. `send` makes its three attempts whatever the count.
* Manager: two sticks of one model are what it takes to be redirected; five
  objects are what `device`, two registry entries and two running commands can
  hold. All three models occur in the automatic order; only Storage sticks are
  registered.
* Locks: a circular wait in a library with four mutexes in a fixed order would
  need two threads, or one that waits for itself. Two calls let a mutex that the
  first one left locked stop the second. `MaxPolls` has a poll that is not the
  last; a listing sees up to two sticks, so that an exception can leave it half
  done.
* Payloads: every field is met with a string that fills it and one that is too
  long. Counters of 8 and 9 digits are on both sides of the ASCII field, and 256 needs a second byte.
  Two writes let the second one be shorter than the first.
* Operations: the sticks lie on both sides of each firmware test, two of them
  development builds, of which one has the minor version 255. The lengths are the two maxima and one more, and 40 needs
  two chunks. Two calls are enough to mix data of a failed call with a later one.
* CApi: the functions are all there. The codes are two that commands return and
  the largest byte, which collides with nothing else. The two-thread run, which
  only has to exhibit the loss of a code, takes one function that returns a
  structure and one that does not.

`CHECK_DEADLOCK FALSE` is set where the system really stops: `manager` when
every stick has been pulled and no object is left to create, `operations` when
its calls are used up, and the violation runs that share those instances.
Symmetry is used in `manager` (objects, threads), where no liveness property is
checked.

### Fairness

`RunTerminates` assumes that the thread inside `run` is not descheduled for ever
and that hidapi returns: each transfer has a time-out. `MutexReleased` assumes the same of the thread
that holds the mutex, and `EveryCallReturns` of every thread inside the library
(weak fairness: a thread that waits gets a mutex that stays free). In what order
waiting threads get a mutex is left open, as `std::mutex` leaves it; with a
bounded number of calls of the others nobody is overtaken for ever. No stick is assumed to answer, and no user to plug one in.


## 4. Proofs

Every theorem holds for every value of the constants that satisfies the
assumptions of its module.

### TransactionProofs

| theorem | states |
|---|---|
| `TypeCorrect` | `Spec => []TypeOK`; the retry counter stays in `-1..RetryReceivingCount` although busy reports increment it |
| `AnswersAreGenuine` | `Spec => []AnswerIsGenuine` |
| `PollsAreBounded` | `Spec => []PollBudget` |
| `CountersAddUp` | `Spec => []CountersConsistent` |
| `RefinesExchange` | `Spec => E!ESpec`: Transaction implements Exchange, with `MaxPolls` eleven times the receiving count |

Assumptions: the receiving count is a positive integer, the time-out a natural
number, the reports are any set of packets, and the number of exchanges any
natural number. The constructors pass 15 (Pro, Librem Key) and 55 (Storage).

None of the properties is inductive. `IInv` adds:

* `Fresh`: at the head of the loop the packet in the buffer is one that the loop
  has already turned down, and translating it again does not change it. This is
  why a failed receive, after which `run` inspects the old packet once more,
  cannot produce an answer.
* `Ended`: after the loop, either the packet was accepted or the counter is
  used up.
* `Reported`: the outcome of the last exchange against the packet it left.
* `Accounting`: a poll costs eleven points and a busy one gets ten back:
  `11 * Polls - 10 * BusyPolls = 11 * (RetryReceivingCount - counter) +
  busy_counter`. With the range of the counters it bounds the polls.
* `Statistics`: the relations between the counters at every program point.

`RefinesExchange` rests on `IInv`: the initial states correspond, and
`NextSimulates` goes through the actions. A poll that the loop turns down is a
`Hear` that hears nothing, one it accepts is a `Hear` with the stick's word
(`PollHears`; the bound comes from `PollBudget`); `Finish` is `Fail` or `Conclude` according to whether the
loop accepted a packet (`FinishConcludes`), which needs `Ended` and the order of
the checks in `Verdict`; a loop that has used up its budget stutters.

### HidDeviceProofs

| theorem | states |
|---|---|
| `DeviceTypeCorrect` | `Spec => []TypeOK`; `instances_count` is never negative |
| `HandlesAreUsable` | `Spec => []HandlesUsable` |
| `HandlesDoNotLeak` | `Spec => []NoHandleLeaks` |
| `AttemptsAreBounded` | `Spec => []AttemptsBounded` |
| `DisconnectStays` | `Spec => []DisconnectIsFinal` |

Assumptions: finitely many objects, a natural retry count, and a `Null` that is
none of the objects, threads and handles. Threads and handles may be infinite.

The argument (`HInv`): the thread at a program point inside the mutex is its
holder; `instances_count` is the number of objects that exist; a thread inside a
method works on an object that exists. So when the holder has found the count
to be one, its own object is the only one that exists, and that one is closed by
then. Between the test and `hid_exit` another thread may construct an object,
but it takes the mutex to open a handle. Hence `hid_exit` never meets an open
handle.

### ManagerProofs

| theorem | states |
|---|---|
| `TypeCorrect` | `Spec => []TypeOK`; nothing refers to a destroyed object |
| `CommandsReachTheirTarget` | `Spec => []CommandsOnTarget` |
| `SelectionStaysUntilAssigned` | `Spec => []SelectionSticks` |
| `RegistryStaysSound` | `Spec => []RegistrySound` |
| `ClosedNotReopened` | `Spec => ClosedStaysClosed`, an action property |

Assumptions: every path has a model and `Null` is no path, object or thread. The
sets may be infinite.

`MInv` is about every object, not only the current one: it is open on a stick
that it was made for or not at all (`OnTarget`), so a reconnect cannot move one
that has a path, and moves one without only within its model. An exchange holds
the object that it began with (`Aimed`), which `shared_ptr` keeps alive, so what
other threads do to `device` does not redirect it. `Chosen` follows a selection
up to the assignment that ends it. It says nothing stronger of a listing than
`SelectionSticks` does, because the code replaces what was selected in the gap;
that a Storage object with a path is current afterwards is all that is left.
A listing registers no stick twice because its thread holds the lock
(`Looping`) and the sticks still to come are not registered (`Pending`).
`AssignKeeps` is the one lemma
about assignments of shared pointers, with the destructors they trigger; each
action supplies its hypotheses.

### LocksProofs

| theorem | states |
|---|---|
| `TypeCorrect` | `Spec => []TypeOK`; no exception leaves the noexcept `is_connected` |
| `DeadlockFree` | `Spec => []NoCircularWait`: no set of threads, of any size, waits in a circle |
| `ExchangesNeverInterleave` | `Spec => []ExchangesApart` |

Assumptions: at least one poll, and `Nobody` is no thread. Threads, calls and
polls are unbounded.

The mutexes are ranked (instance, manager, exchange, device), and every function
has a floor, the lowest mutex that it or a function below it takes. `LInv`
says that a stack is nested as the table of calls allows (`Callees`), that a
function inside a mutex has only functions with a higher floor above it
(`Below`), and that a thread owns a mutex exactly when one of its calls is
inside the guard (`Owned`). The mutex a thread waits for then ranks above all it
holds; in a circle of waiting threads the one that waits for the highest mutex
could have nobody to wait for.

### CApiProofs

| theorem | states |
|---|---|
| `TypeCorrect` | `Spec => []TypeOK` |
| `SerializedResultGenuine` | `Spec /\ []Serialized => []ResultGenuine` |
| `OneThreadResultGenuine` | `OneThread` implies `Spec => []ResultGenuine` |
| `OneThreadStatusKept` | `OneThread` implies `Spec => []StatusKept` |

`ResultGenuine` is false for threads whose calls overlap (run `capi_threads`),
so the theorems name what a caller has to guarantee: `Serialized`, that no two
threads are inside the library together, or `OneThread`. Both are what the run
`capi` has by its constants. `StatusKept` needs the stronger one: a complete call
of another thread between a failed call and the query overwrites the status.
The invariants say what the status variable holds at every program point of the
thread that is inside a wrapper (`StatusOwn`) and after its last call
(`KeptInv`).

### OperationsProofs

| theorem | states |
|---|---|
| `TypeCorrect` | `Spec => []TypeOK` |
| `SlotStaysWhole` | `Spec => []SlotWhole` |
| `ReturnMeansDone` | `Spec => []SuccessMeansDone` |
| `RejectionLeavesAlone` | `Spec => []RejectedChangesNothing` |
| `PinNeedsItsOwnCall` | `Spec => []PinChangedByItsCall` |
| `FirmwareFits` | `Spec => []ProtocolMatchesFirmware` |

Assumptions: sticks of the three models with versions in one byte, secrets of at
most 128 bytes (the model's `Secret` numbers bytes below 128; the code refuses
everything above 40), any number of calls. The run checks eight sticks and two
calls.

The properties speak of finished calls, or of the slot at any time; the invariant
has to speak of the steps still to do. `Plan` is what every rest of every
operation has in common: a command that changes an OTP slot or a PIN is the last
one, it is one that this operation may end with, it belongs to the protocol of
the stick, and after the chunks of a secret comes neither name nor length check.
The scripts satisfy it (`ScriptWhole`, `AfterVersionWhole`) and taking a step off
keeps it. The other parts of `OInv` tie the steps to the stick:

* `Chunks` and `Assembled`: no chunk sent, the first of two, or all; from
  `SendName` on the staged record is exactly what this call has sent so far.
  `ChunkStored` is the arithmetic behind it: a chunk of 30 bytes put at 30
  times its number extends the prefix that is there.
* `Armed`: when a command that uses the current PIN is pending, the stick has the
  one of this call, or `SendPassword` is still to come.
* `Untouched` and `Finished`: before its last step an operation has changed
  neither slot nor PIN; with no step left its work is done.
* `LengthChecked`: a secret that is too long has its check still ahead.
  `TablesAgree` shows that the two firmware tables are complements for all
  versions.

`OInv` was checked by TLC, on eight sticks and two calls with secrets of 20, 21,
31, 40 and 41 bytes (191924 states), before it was proved.

### PayloadsProofs

| theorem | states |
|---|---|
| `TypeCorrect` | `Spec => []TypeOK` |
| `StringsReadBack` | `Spec => []ReadsBack` |
| `EveryAnswerUnderstood` | `Spec => []AnswersUnderstood` |
| `EverySecretUsable` | `Spec => []SecretUsable` |
| `CountersReadBack` | `Spec => []CounterReadsBack`, if `DecimalRoundTrip` |

Assumptions: any sticks, strings of any lengths (`TextLengths`) besides those
around the widths, secrets of at most 99 characters, counters below 2^64, any
number of writes; `LayoutsFit`, the code's `static_assert`s. The run has five
sticks, one length and three counters.

`PInv` adds to the properties what lasts from call to call. `Faithful` relates
what a caller gave to the bytes on the stick: a string is cut to its field and
fits (but for the name of an OTP slot, which `SendOTPData` takes at 30), a
counter is in the format that `get_OTP_slot_data` expects of that stick and
firmware. `SecretsFit` bounds each kind of secret by the widest field that can
set it (`MaxSecret`); `SettersBounded` and `UsersWide` go through the tables, and
leave the three commands that `SecretUsable` names. The lemmas in between are
about the operators: where a field of a layout begins (`OneField`,
`FourFields`), which byte a report has at a place (`ReportByte`,
`ReportPadding`, `SlotBytes`), and what `strndup` finds there (`StrndupText`): a
string that fills its field is ended by the padding of the report, or by the end
of the copy of its field. `BinaryRoundTrip` takes a `uint64_t` apart byte by byte.

### What is only model-checked

* `RunTerminates`, `MutexReleased`, `EveryCallReturns` and the fairness part of
  `ImplementsExchange`: liveness under fairness, which the prover does not reach.
* That `stoull` inverts `to_string` (`DecimalRoundTrip` of Payloads): an
  induction over the digits. It is the hypothesis of `CountersReadBack`, and TLC
  evaluates it for the counters of the run.


## 5. What is not modelled

* Dissectors, the log and the version: output without state or control. Bit
  fields inside a configuration byte are not told apart in Payloads.
* The digits of hexadecimal strings and the value of the CRC: both occur by
  their verdict (rejects or not, equal or not).
* A stick that is replaced between the firmware query and the command: the
  product of Manager and Operations is too large for TLC.
* Sleeping times: the setters of delays change how long a thread sleeps and
  nothing that a property depends on.
* The data race on `device` itself: copying a `shared_ptr` while another thread
  assigns it is undefined behaviour. The model takes the copy as atomic and
  shows what follows from that.
* A report that answers the previous command: the check of the command's
  checksum is disabled in the source, so any report may be the answer. The model
  lets the stick send what it likes and claims nothing about the content.
* hidapi and the firmware of the sticks: external, modelled as far as the code
  relies on them.


## 6. Plan

In the order of importance. Steps 1 to 13 are done.

1. Transaction with its runs. 2. Its proofs. 3. HidDevice with its runs and
proofs. 4. Manager. 5. Operations. 6. CApi. 7. Exchange, and Transaction shown to
implement it, by TLC and by proof. 8. Locks. 9. Payloads, and commands executed
twice in Operations. 10. Proofs for CApi and Manager. 11. Proofs for Locks.
12. Proofs for Operations. 13. Proofs for Payloads.

14. The error path of `connect(model)` as a property of Manager: the new device
    is published before it is connected.
