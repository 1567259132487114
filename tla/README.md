# IoTware: specifications, model checking and proofs

TLA+ specifications of the IoTware device framework (`src/`): how a device
registers with its server, how the server controls the microservices of the
device and their parameters, how messages become text and text becomes messages,
how devices are registered, connected and switched off to save power, and how
the threads of the device exchange data. TLC checks each module on small
instances; TLAPS proves their safety properties for every value of the constants,
all but two about the nesting of light-weight messages.

    tlc -workers 2 -config LwMsgCoreSafety.cfg LwMsgCore.tla
    tlapm LwMsgCore_proofs.tla

`PROJECT.json` lists the runs with their modules and configurations, the source
lines of each definition, the hazards, the findings and the theorems.

File names below are relative to `src/IotwareFW/`.

## 1. The system

A device runs FreeRTOS. The framework is a library around a *generated*
application: a device description lists *microservices*, each a chain of
*tasks* whose outputs feed the inputs of the next. A server (behind a Wi-Fi
task, outside the repository) creates, runs, stops and deletes microservices,
switches single tasks on and off ("offloading"), sets parameters and reads
outputs, all through JSON-like *light-weight messages*.

             xNetworkTx                lwmsg_send_queue
    Wi-Fi  <------------  Tx task   <--------------------+---------------+
    task                    ^ rXrespMsg                  |               |
           ------------>  Rx task  ----------------->  distribution   threads of
             xNetworkRx            lwmsg_receive_queue   task  ------->  tasks
                                                          create, run, stop, ...

### Components

| component | state | operations | interacts through |
|---|---|---|---|
| **Message tasks** `Microservice/SIFW/iw_fw_lwMsgCore.c` | `_device_registered`, `rXrespMsg`, the message being sent with attempts and polls | receive and sort (`iw_fw_lwMsgRx`), send, wait, retransmit, registration dialogue (`iw_fw_lwMsgTx`) | five queues; the network flag set by the Wi-Fi task |
| **Message utilities** `SIFW/iw_fw_lwMsgUtils.c` | `lwmsg_tx_dri`, its static string, `network_enabled`, two queues | dri counter, construct, dictionaries, serialise, parse | called from all tasks, no lock |
| **Distribution task** `SIFW/task_lwmsg_dist.c` | `latest_dri`, response code | one handler per interface: service operations, on/off, parameters, outputs, information | receive queue in, send queue out |
| **Microservice manager** `SMFW/iw_fw_microservices.c` | lists of services, tasks, links; `state`, `initial_state`, `task_t`, input queues, output ports | add, create, run, stop, delete, on/off, link building and lookup, parameters, output values, descriptions | called by the distribution task, by the Tx task (description), by threads (outputs) |
| **Base tasks** `SMFW/base_task_type1..4.c` | the thread of a task | init, loop, work, send on, end | input queues of other tasks |
| **Application start** `../App/start_apps.c` | - | creates queues and tasks, requests the registration | message tasks |
| **OAL ring buffer** `oal/iw/iw_oal_fifo.c` | `put_pos`, `get_pos`, blocks | put, get, flush, count | two threads, volatile positions, no lock |
| **OAL lists** `oal/iw/iw_oal_list.c` | nodes, 8 bit counter | add, remove, count | - |
| **OAL kernel wrappers** `oal/` | - | queues, threads, semaphores, timers | one call of the kernel each |
| **Network devices** `oal/iw/iw_dev_net.c` | device table, one connection task handle | register, look up, init, deinit, connection task | drivers outside the repository |
| **Sensors, battery, LED, buses** `oal/iw/iw_dev_*.c` | sensor table | register, read | drivers outside the repository |
| **System state** `oal/iw/iw_sys.c`, `Microservice/ROFW/` | power mode, automatic control, battery level | set and get, network block | interface layer |
| **Interface layer** `oal/interface/` | - | forwards; gates sending by battery level | network devices |
| **Collaboration messages** `Microservice/DCFW/` | - | binary codec | nothing calls it |
| **Console, board, main** | - | traces, pass-through | board support package, an empty submodule |

### What is hard, and what correctness means

* **Message tasks.** Two tasks and a lossy network. The server's answer may be
  lost, late or doubled; the Tx task waits for an answer by polling a queue it
  never empties between requests; it *itself* queues the second registration
  message on the queue it reads. Correct: registered only when the server said
  so, each registration step only on the answer to that step, no request served
  before, the registration sent for ever and every other request given up.
* **Microservices.** Requests come in any order and in any state; starts fail
  half way; the tasks of a service are described to the server by creating and
  deleting them; threads are deleted wherever they are. Correct: no thread
  outlives its `stTaskInfo`, each task is in the list once, connections skip the
  tasks that are off, threads disappear only when asked to, every request is
  answered.
* **Ring buffer.** No lock, two threads, a copy that takes time. Correct: a
  first-in-first-out queue of `block_count - 1` items, under every interleaving.
* **Network devices and sensors.** One task handle for several devices, kept by
  a task that ends itself; two registration functions with different checks;
  lookups that do not agree; settings copied piece by piece. Correct: an id names
  one device for ever, buses are not shared, keys belong together.
* **Power modes.** The mode changes between any two steps of two tasks, while a
  third one connects the device they switch off. Correct: one connection task at
  most, no report to a device that is off, no task left waiting at a change of the mode.
* **Parameters and outputs.** Values freed by one thread and read by another;
  requests with parts missing, answered by the handler, by the dispatcher, or by
  both; numbers converted twice on their way. Correct: one answer per request, and what
  was set is what is read.
* **Message utilities, collaboration messages.** A parser that moves its caller's
  pointer, lists that grow at the head, numbers cut to a buffer, bit fields.
  Correct: what one side builds the other side reads.
* **Lists.** Writes through NULL at both ends, an 8 bit counter (not modelled).

`PROJECT.json` lists the hazards line by line, with the properties that cover
each, or the reason why none does yet.

## 2. Modules

| module | models |
|---|---|
| `Registration` | abstract: the registration dialogue a device promises its server |
| `LwMsgCore` | the Rx, Tx and distribution tasks with their queues, the network, the server; implements `Registration` |
| `LwMsgCore_proofs` | theorems about `LwMsgCore` |
| `Connections` | the chain of the tasks of a service, and what its tasks are connected to; part of the next two |
| `Microservices` | life cycle of services, tasks, threads, connections; the requests of the distribution task |
| `MCMicroservices` | a service and its chain for TLC |
| `TaskLinks`, `MCTaskLinks` | the tree of task links, and the walks through it |
| `Microservices_proofs` | theorems about `Microservices` |
| `TaskLinks_proofs` | theorems about `TaskLinks`: the walk through the tree is what `Microservices` uses |
| `BoundedQueue` | abstract: a bounded queue between a producer and a consumer |
| `OalFifo` | the ring buffer, access by access; implements `BoundedQueue` |
| `OalFifo_proofs` | theorems about `OalFifo` |
| `Parameters`, `MCParameters` | parameters and the output of one service, and the requests that set and read them |
| `Parameters_proofs` | theorems about `Parameters` |
| `LwText` | what a light-weight message holds, its text, and the parser (pure operators) |
| `LwMessage` | two sides that build, send, read and answer messages |
| `MCMessages` | values for both kinds of messages for TLC |
| `DeviceTable` | the device tables, their lookups, and the two arrays of buses in use |
| `NetDevice`, `Sensors` | network devices with the connection task; sensors. Both extend `DeviceTable` |
| `NetInfo` | settings kept for the drivers: access point, LoRa keys and band, BLE name |
| `Devices` | composes `NetDevice`, `Sensors` and `NetInfo`: a board registers, applications use |
| `Devices_proofs` | theorems about `Devices`: buses, ids, lookups, connection tasks, settings |
| `PowerModes` | composes `NetDevice` and `Sensors` with the two tasks that follow the power mode |
| `PowerModes_proofs` | theorems about `PowerModes` |
| `CollaboMsg` | layout of the collaboration messages, packing and parsing (pure operators) |
| `Collaboration` | two devices that exchange them |
| `Messages_proofs` | theorems about `Collaboration` and `LwMessage` |

### LwMsgCore

One variable per queue and per task-local variable of the code; names are those
of the code where there is one. `txPc` is the place in `iw_fw_lwMsgTx`:

* `idle` - before the test of the network flag; `receive` - inside `recv_queue`
  without time limit. They are two steps because the flag may change between
  them: a device whose network goes away is caught inside the receive.
* `send`, `wait` - the two halves of the outer loop body: put on `xNetworkTx`,
  then poll `rXrespMsg` every 100 ms. `attempt` is `i`, `waited` is
  `some / 100`. A full `xNetworkTx` costs the attempt.
* `respond` - a response is put on `xNetworkTx` once and forgotten.

`EndsWait`, `Matches`, `Registers` are the tests on the answer, with the
difference the code makes between the registration (waits for its own dri and
200) and any other request (any 200 ends the wait). `NextAttempt` is the loop
test: the registration is never given up; its attempt count, which that test
ignores, stays at its bound to keep the model finite.

A message keeps `if`, `dri`, `rsc` and its direction. All response codes but
200 behave alike and are `"400"`. Requests of the server are one interface,
`MS_RUN`: the Rx task does not look at the interface, and what the distribution
task does with it is the subject of `Microservices`. `MayFail` lets every
allocation, construction and parse fail.

The network (`air`) is a set: messages are lost, reordered, and with
`MayDuplicate` delivered again. The retransmission by the device already puts
copies of one request into the air one after the other, so doubled answers occur
with `MayDuplicate = FALSE` as well; the proofs cover both values.

*Reading of the code.* `iw_fw_lwMsgCore.c:116-120` declares, in an inner block,
variables with the names of those that the loop tests outside; the model takes the
loop to work on one set of variables, as its author intended. `rXrespMsg` is
NULL until the Tx task has started; the model drops a response that arrives
before.

### Microservices

`state`, `copies` and `task` are, per service, the `state` of
`stMicroServiceInfo`, how many times its tasks are in its list (`add_new_task`
appends without a test, so calling `create` twice would double them), and for
each task the fields of `stTaskInfo` that decide anything: `state`, whether
`initial_state` says off, the thread, and where its output port leads. `held` is
the input queue a thread has read and is about to send into.

A request is received, executed element by element (`at`) and answered; that is
`lwmsg_dist_task`. Each operation is one action with all its effects: `Run`
creates the threads, stops at the first task that fails and connects the tasks; `RunTask`
has the four outcomes of `run_task`: a thread, a failure, and two in which it reports
success without a thread, for want of memory for the parameters (`poor`) or for the
thread itself (`idle`);
`Stop` deletes threads and tasks and creates the tasks again; `Info` creates and
deletes every service that does not run.

*Scheduling.* The distribution task runs one priority above the threads, and its
operations do not block: threads move only while no request is being executed.
They may be anywhere in their own work when one arrives, in particular between
reading a queue handle and sending into it.

*Links.* `make_task_links` builds a tree of on and off branches and
`_find_last_task_link` walks it. `Microservices` uses the outcome, which
`Connections` states: `LinkFound` says when the walk reaches a leaf, `Follower`
which task the leaf connects to. `TaskLinks` is the tree itself, with its
functions one by one: `LinkTree` grows it task by task, `SetConnectLink` hangs the
connections of one combination of tasks off under the leaf that `_onoff_test`
leads to, `Rewired` walks by the states of the tasks. What the generated code
connects for a combination (`Lines`) is external. That `Rewired` and `Connected`
agree in every state is `WalkConnects`; that no combination takes the leaf of
another is `OwnLink`. Both are theorems for every chain. The walk itself is stated by
where it ends: `LastLink` is the leaf each of whose branches is the one that the test
takes there.

*Faults.* `halted` is a choice wherever the code dereferences NULL or uses a
freed queue: the device may stop there or go on. That the kernel tolerates a
thread function that returns, and the stale handle `task_t` of such a thread, is
assumed: it is the kernel's business, and the kernel is not in the repository.

*A second start.* When a start has failed the service is `STOPPED` with some
tasks stopped. A second run request (`RunAgain`) marks service and tasks
running, answers 200 and creates no thread. Nothing in the repository says what
it should do, so this is described here and not listed as a finding.

*What else the model shows* and no run asks about: a request that lists several
services is answered with 200 when one of them succeeds
(`task_lwmsg_dist.c:63`); a thread works once and ends, because the loops of the task
types test for the opposite of the condition they set (`base_task_type1.c:24`); switching a task on starts nothing, its call is
commented out (`iw_fw_microservices.c:1149`).

### OalFifo

Every access to the other thread's position is a step: check, copy, publish on
each side, two steps for a flush, up to three reads for a count. A block that is
being copied is `Torn`, and a get that copies it would return it. `Promise` maps
the blocks between the positions to the queue of `BoundedQueue`; a put takes
effect when it publishes `put_pos`, a get when it advances `get_pos`. Only one
thread consumes: a flush from a third thread is not what the buffer is built for.

The count may be one more than `block_count`: it reads the two positions one
after the other, and a put between the reads makes them disagree
(`iw_oal_fifo.c:82`).

### Parameters

One service. `param`, `output` and `queued` are the values in the parameter lists of
its tasks, the value of `output_param` and the lengths of the tasks' message queues;
`latest` is `latest_dri`. `ServeSet`, `ServeRead` and `ServeOutputRead` are the
handlers of `task_lwmsg_dist.c` with the dispatcher around them: a handler either
answers itself and returns 300, or returns the code that the dispatcher answers
(`Answered`). `r` is the body of the request, in which everything may be missing.
`Create`, `Run`, `RunAgain` and `Remove` are what the operations of
`Microservices` do to parameters and output; an information request creates and
deletes services, which here are `Create` and `Remove`. `TaskOff` and `TaskOn` are what
`task_onoff` does to them: a queue that is deleted and created anew, an output whose value
is taken away when connections are found. `marked` are the tasks that say they are running
and count for `is_tasks_running`, those of type 1 and 2: a run leaves none, because
`run_task` says `CREATED`, and only `RunAgain` marks those that were stopped. A thread gives the output a
new value in two steps, `FreeOutput` and `ReplaceOutput`: a handler between them
reads freed memory and a second free may be a fault. A request that names a task
the service does not have dereferences a missing task: `halted` is a choice.
A search by the name NULL compares the string at address 0
(`iw_fw_microservices.c:312`).

*Numbers* are converted twice, and both conversions are in the model. `Converted` is
`_parameter_set_by_string`: `atol` (`Long`, which stops at the ends of a `long`), then the
cast to the width of the type, or for a FLOAT the nearest float (`Single`); a DOUBLE is not
read at all, and a STRING parameter is given the pointer to the text. `Sent` is
`new_lwm_object_from_type_value` and the printing of the answer: every integer is sent as
an INT32, whose text has ten characters (`Decimal`), and a float as its whole part and its
hundredths. `Holds` are the numbers a parameter of a type can hold, `Carries` those of them
that come back. The difference is the code's: INT32 below -999999999, whose last digit is
cut; the upper half of UINT32, which neither `atol` nor the answer reaches; FLOAT numbers
of which a hundredfold is no float (beyond 2^24 / 100 some are not); and every DOUBLE.
`ReadsBack` is about `Carries`, `SetIsStored` about `Holds` and the first conversion only; a
DOUBLE violates it (finding). The numbers are whole: what the digits behind the point
become is the subject of `LwMessage`. TLC's own numbers have 32 bits, so that `Half`,
`Least` and `Exact` are constants; the proofs are for their real values too.

### LwText, LwMessage

A text is a sequence of tokens: the seven characters of the format, and words. White
space, which the parser skips between tokens, is left out, and so is a text cut in
the middle, behind whose end the parser meets whatever lies in memory. `Serialized`
is `serialize_lwm_message`, with numbers cut to the size given to `snprintf`
(`Room`): -2147483647 becomes -214748364, and 1.05 becomes 1.5, because the digits
behind the point are printed as a number of their own. `ParsedMessage` is
`parse_lwm_message_str`; each function takes the place it begins at and returns the
place it stopped at, as the code's functions move the pointer of their caller. The loops
are recursive functions over their rounds (`Entries`, `Items`), of which there are
`MaxText`; where a bracket opens, `Inner` says what is read from there on. Values are
nested three deep at most (`Value`), which bounds what can be put into a message.
`LwMessage` has the operations that build a message as actions, and the two
conversions as `Send` and `Receive`; the answer is built from what was read.

`RoundTrip` compares what is read with a reference definition (`Known`): a number becomes
the word of all its digits (`FullDigits`, which knows nothing of `Room`), arrays and
dictionaries turn round. It holds for what the format can carry (`Carried`). The rest is
described by what fails: a message with an empty string is refused by the other side; the
entries behind a dictionary in the text are lost, because the inner dictionary stops on its
own bracket, which the outer one takes for its end; and a number whose text is not that of
its digits (`Misprinted`) arrives as another: a last digit cut, a zero behind the point left
out, a sign behind the point or lost before it. `NothingInvented` says that this is all
that can happen. That integers with the most digits of their type arrive without the last one
contradicts the comments beside the buffers (`iw_fw_lwMsgUtils.c:587-617`: snprintf is
given one character less than the buffer has), so that no property says that numbers
arrive. A float is a whole number of hundredths.

### DeviceTable, NetDevice, Sensors, NetInfo, Devices

The tables are `neti` and `si`, an id is an index less one. Each file has a
registration function that checks the bus and gives no driver, and one that takes the
driver and checks the room (`iw_register_network`, `iw_register_network_`). The first
writes behind the end of a full table (`iw_dev_net.c:50`); so does the model, which
treats what lies there as more of the table and stops at `NetRoom` and `SensorRoom`. What
the write destroys is up to the build. `OnlyCheckedOverflow` says that the other function
never does this, also when the table is already too full. The three lookups differ: `iw_get_network_devid` leaves its loop at the first device of
a name, but takes the *last* of a type when no name is given; the others take the
first. The connection task looks its device up by type, not by the id it was started
for: with two WiFi devices, initialising the first connects the second.
`ServesItsDevice` therefore speaks of boards with one device of a type.

`NetDevice` has the connection task as a state machine (`pc`), `handle` as the one
`connection_task_handle`, and a driver as a status and a link that change by
themselves. `iw_deinit_network` deletes the task the handle names, whatever device
it serves. `NetInfo` keeps the settings: what is copied over a longer text without
clearing it leaves the tail of that text ("mixed"), which the LoRa keys, cleared
first, do not.

Nothing under `src/` calls `iw_init_device` or `iw_init_service`; they belong to the
start of the board support package. `Devices!Start` is `iw_init_device`; in
`PowerModes` it has not run, and the tasks initialise their devices themselves.

### PowerModes

`start_apps.c` built with `IOTWARE_MODE` 1. `wifi` holds the variables of `WifiTask`
with the place in its loop (`pc`); it waits between any two steps, so the mode, the
link and the connection task may change there. `co2` holds those of
`Co2ReadSensorTask`, whose loop reads only the power mode of what others write and
is one step. `NetDevice` runs beside them unchanged. Two things the modes do that one
might not expect: a device that goes from SLEEP to RUN and back to SLEEP stays on,
because RUN does not restart the sequence (`start_apps.c:366`); a sensor that comes
from RUN stays on in LOW mode. And the sensor's LOW sequence can stop half way: SLEEP
switches the sensor off and leaves the sequence at 1, where, back in LOW, it waits for a
measurement that a sensor that is off does not make (`start_apps.c:651-661`, `674-678`).
`SensorFollows` is therefore about the modes that say on or off, and says nothing of LOW.

### CollaboMsg, Collaboration

The fourteen message kinds of `DCFW` with their acknowledgements are a table: id, qos,
fixed bytes, payload. The structures are packed; `Byte`, `Low` and `High` are the
bit fields. `Size` is what the size functions report, computed apart from the bytes:
`ValuesSize` and `ParsedAttributes` are the loops of the code, as recursive functions of
the number of attributes. What is read is what was built (`ReadAsBuilt`), in as many bytes
as were reported (`SizeIsUsed`).
Nothing in the repository calls this library: the exchange in `Collaboration` is its
intended use. A message is read with its whole buffer; for a shorter one the parsers
return uninitialised structures, which is left out. So is a list of attribute names for
which there is no memory: the parser writes to it all the same. Every other allocation of
a parser may fail (`lack`): a missing payload or list of values leaves its part empty, and
missing values of one attribute leave the pointer where it was
(`iw_fw_collabomsg_internal.c:262-267`), so that every attribute behind is read from bytes
of another and is `Misread`. x10, x13 and x14 send the pointer to their payload as it is in
memory, of `PointerSize` bytes, which the model carries as bytes like any other: they mean
nothing to the reader.

## 3. Runs

| run | question | answer |
|---|---|---|
| `LwMsgCoreSafety` | Can a lost, late or doubled answer, a refusal or a failing allocation make the device believe it is registered, or serve a request too early? | No; the tasks implement `Registration`. |
| `LwMsgCoreLive` | Is the registration answered in the end, does any other request end? | Yes, if the link is fair. |
| `LwMsgCoreStale` | Does the Tx task keep sending until answered? | No: any 200 ends the wait. *Finding.* |
| `Microservices` | Do services, tasks, threads and connections stay consistent under all sequences of requests, with starts that fail or bring no thread? Is every request answered? | Yes; and yes, unless a fault stops the device. |
| `MicroservicesOff` | Are connections rearranged around a task that goes off? | Not when a task that has no off branch has ended. *Finding.* |
| `TaskLinks` | Does the tree of task links lead to the connections `Microservices` assumes, and has each combination of tasks that are off a leaf of its own? | Yes, for every chain of up to four tasks. |
| `OalFifo` | Is the ring buffer a queue, do the threads keep off each other's blocks? | Yes. |
| `Devices` | Registered in any order with either generation of functions, past the end of a table too: do devices share a bus, change their id, get another one's connection task or a mixture of keys? Who writes behind the end? | Those whose bus was checked share none; ids and keys stay together; a connection task is that of its device when this is the only one of its type. Only the older functions write behind the end, and they do. |
| `PowerModes` | With the mode changing at any moment and drivers, links and memory failing, is a connection task left behind, is a report handed to a device that is off, do the tasks get stuck? | No task is left behind, and no such report. `WifiTask` gets to the end of its LOW sequence while it lives and reports in RUN mode; the sensor is on in RUN and off in SLEEP mode. Nothing is said of the sensor in LOW mode, where it can stay off. |
| `Messages` | Is what the other side reads what was built, and is its size right? | Light-weight messages: yes where the format and the printing of numbers can carry them; otherwise entries are lost, and numbers that are printed as others arrive changed (-2147483647 as -214748364). Collaboration messages: yes; without memory, the header and the attributes before the first that could not be kept. |
| `Parameters` | Is each request answered once, and is a number that was set the number that is read, while the service comes and goes? | One answer, or one for each output that is asked for; none from a running service whose output has no value, and none after a fault. Yes for the numbers that both conversions carry (`Carries`). |
| `ParametersDouble` | Is a number that was set stored? | Not in a DOUBLE. *Finding.* |

The comment at `iw_fw_lwMsgCore.c:83` speaks of two more attempts, the loop makes
50 (line 87); `MaxAttempts` is a constant and no property depends on it.

The trace of `LwMsgCoreStale` is worth reading: the registration is sent twice
because its answer is late; the first answer identifies the device, the second
then ends the wait for the microservice report, which is neither answered nor
sent again. The device stays unregistered for good.

### Bounds, and why they are enough

* `LwMsgCoreSafety`: queues of 2 and 1, two messages in the air, one output
  report, two attempts, one poll, dris up to 3. Each queue becomes full, each
  message can be overtaken by a copy of itself and by a message of another
  request, the dri counter starts over, and every pair of (request at hand,
  answer in the queue) with equal or different dri occurs. The proof removes these
  bounds.
* `LwMsgCoreLive`: three attempts, so that giving up differs from not being
  answered, and no failing allocation: a registration that cannot be built is
  never sent, which the safety run covers.
* `Microservices`: a chain of three with a task that can be switched off in
  the middle, the shortest in which connecting past it differs from not
  connecting; requests that list two services or tasks, the same twice and unknown
  ones among them. One service: no operation relates two, and the proofs are
  about any number. `MicroservicesOff` has a fourth task, because the task that has
  ended must come after the one that goes off and before the last.
* `TaskLinks`: every chain of one to four of five tasks (`MaxChain`), three of which can
  be off: with two or three of them in a row or apart, first, in the middle and
  last. Four is the least at which a link below two off branches has a task behind
  it that is not the last. All orders in which the connections can be set, and
  all sets of tasks that start, occur.
* `OalFifo`: four blocks, two values: full, empty, wrapped and partly filled
  buffers, and different items to be confused.
  `WordSize` stands for 2^32; only that it exceeds twice the number of blocks
  matters.

* `Parameters`: two tasks with a parameter of the same name, and parameters of six types
  on one of them; numbers at the edges of what each type carries and beyond them, with
  `Half`, `Least` and `Exact` scaled to 21 bits, six digits and 14 bits because TLC counts
  in 32 bits; requests with every part missing, empty, repeated or unknown; a queue of 2,
  which a request that lists the service twice fills at once. `ParametersDouble` makes one
  of the types a DOUBLE.
* `Messages`: two keys, arrays of up to two items (`MaxItems`), one object of each
  kind, among them every one the format cannot carry. Nesting goes two deep, the
  least at which a parser's return to its caller matters twice. Among the numbers are one
  that is cut, floats printed whole and with a sign behind the point. `MaxText` is 16, more
  than there are entries, items and separators between two brackets of these texts: with
  fewer rounds entries would be lost, and `RoundTrip` would fail.
* `Devices`: tables of two, followed one entry past their end (`NetRoom`, `SensorRoom`),
  which an entry behind the end and the newer function after it take; with candidates on the same and on other buses, through
  both registration functions, two of one type; two tasks, the least at which one
  can be left behind. `SettingsApart` keeps the settings and the devices in separate
  behaviours: they share no variable and no property, so that every property of
  either is checked in full.
* `PowerModes`: the periods 3, 30 and 11 and the 10 reports of the code become 2, 2,
  1 and 2: each counter still has a loop that counts and one that ends. One
  fault (`MaxFaults`) at any place, and memory for two connection tasks.
* `Messages`, collaboration messages: every kind, payloads with one to four attributes and values of one
  to eight bytes, extreme values of every bit field; pointers of four bytes; each allocation
  of a parser failing. Light-weight and collaboration messages share no variable and no
  property: `MCMessages` never has both kinds under way together.

`Microservices` and `Parameters` stop in a fault (`halted`), so their configurations
do not check for deadlock; the others do.

### Fairness

* `LwMsgCore!Fairness`: weak fairness of the tasks: the Rx, Tx and distribution tasks
  share one priority and each of them waits or sleeps in every round of its
  loop, so none starves another. *Strong* fairness of `TxCheckNetwork`: the flag
  may go on and off for ever; the Tx task tests it every 10 ms and in the long
  run finds it on. `~enabled` does not last, and nothing stays in the air for ever:
  assumptions about the Wi-Fi task. `FairLink` is a premise of
  `EventuallyIdentified`: when the registration is sent again and again, its
  answer arrives again and again. It is about the network only, not about what
  the device does with the answer.
* `Microservices!FairSpec`: weak fairness of the distribution task, which has
  the higher priority and whose operations return.

* `PowerModes!Fairness`: weak fairness of `WifiTask`, of `Co2ReadSensorTask` and of each
  connection task: the kernel runs every task that does not sleep, and the sleeps are
  bounded. Weak fairness of `DriverStarts`: a driver that was started reports. No
  fairness for scans and connects that succeed: that failures are at most
  `MaxFaults` is the bound that makes the link come up.

## 4. Proofs

All eight proof modules are checked by `tlapm` to the last leaf. The assumptions are
those the specifications state about their constants, and TLC evaluates each of them
for the values of a run:

* `LwMsgCore`: positive lengths and counts, `DriLimit > 2`, `NoMsg` not a message.
* `OalFifo`: at least one block, a word wider than the buffer, markers that are not
  values.
* `Connections`, `Microservices`: chains in which no task comes twice, and names that
  are none of theirs (`ChainAssumption`, `ServiceAssumption`).
* `NetDevice`, `Sensors`: tables with room, which are followed at least to their end, task
  numbers that are not 0 (`NetAssumption`, `SensorAssumption`).
* `Devices`: candidates with ports and infos that are numbers, on a UART or an I2C bus
  when they are checked, with an info that is not 0 on a UART, and with a driver when
  they are not (`CandidateAssumption`); a type and a name for each network device and
  three LoRa keys, which is what `iw_dev.c` passes on (`ArgumentAssumption`).
* `PowerModes`: periods and counts that are positive (`PowerAssumption`).
* `Parameters`: parameters that have a type, queues on tasks the service has, an index
  and a name that are none of its own (`ParametersAssumption`); a `long` wider than the
  narrow types and than the numbers a float holds, and a text with room for the narrow types'
  numbers (`NumberAssumption`); a list of
  services that names services, and a dri with each output read (`RequestAssumption`).
  Nothing is assumed of the tasks, names and numbers of a request.
* `LwText`: the rounds of a loop are a number (`TextAssumption`).
* `CollaboMsg`, `Collaboration`: a pointer has a size (`PointerSizeAssumption`), a byte is a
  byte (`FixedByteAssumption`), and a payload has one to four attributes with 1, 2, 4 or 8
  values that fit their fields (`PayloadAssumption`): other lengths have no code in the two
  bits of `value_length`, and the code sends them as one value.

**LwMsgCore_proofs.** For all queue lengths, attempts, polls, dri ranges,
server codes, with and without failures and duplication:

* `TypeCorrect`: `TypeOK`, the bounds of all queues included.
* `RegistrationInductive`: the invariant `IInv`, which is `TypeOK` and two
  parts. `WhileUnregistered` says where requests can be before the device is
  registered: nothing is in the receive queue or being executed; the device
  holds at most one request, the registration with dri 1 or the report with dri 2
  (`Stage`); only these two are on their way out (`Outbound`); and every 200 on
  its way in, in the air or in a queue, answers one of the two that the server
  has granted (`Inbound`). `OnceRegistered` says what stays: the report was
  granted, and the registration is neither queued nor being sent.
  Neither property is inductive alone: `RegisteredMeansAccepted` says nothing
  of an answer still on its way, and `RegistrationRunsAlone` nothing of the
  state before the Tx task takes the registration.
* `RegisteredOnlyWhenAccepted`, `RegistrationAlone`: from `IInv`.
* `RegistrationImplemented`: `Spec => Dialogue!Spec`, one case per action:
  only three actions move the dialogue, all others stutter.

`DriLimit > 2` is used: with fewer dris the report would have the dri of the
registration, and its late answer would register the device.

**OalFifo_proofs.** For every number of blocks and every set of values:

* `TypeCorrect`: the positions stay in the buffer.
* `PositionsOrdered`: the invariant `Ordered`: around the buffer come `get_pos`,
  the target of a flush, `put_pos`, the block being put. `BlocksApart` alone is
  not inductive: it needs that the space a producer found stays free while the
  consumer advances or flushes.
* `BlocksStayApart`: from `Ordered`.
* `QueueImplemented`: `Spec => ImplementsQueue`. `AtHand` adds to `Ordered` what
  the threads hold: the block to be published contains what is being put, the
  value to be returned is still in the block at `get_pos`. `HeldIs` says that the
  mapped queue has one item for each block from `get_pos` up to `put_pos`; then
  each step is compared with the queue item by item: a publish appends, an
  advance drops the head, the write of a flush drops as many items as were there
  when it began, everything else stutters or changes a result only.

**Microservices_proofs.** For all services, all chains of tasks, all sets of tasks that
can be switched off, are off at first or produce output, with and without
failing starts:

* `TypeCorrect`: `TypeOK`. That a route leads to a task needs that `Follower` finds a
  first task among the later ones (`Smallest`, from the well-foundedness of the
  order of numbers).
* `TasksListedOnce`, `ThreadsHaveTasks`, `CreatedStaysQuiet`: from the invariant
  `IInv`, which says the same of every service (`Good`): its types; its list is
  empty or holds each task once, as its state says; live threads belong to a service
  that was run and to an active task that is on; and it is `Quiet` while it is
  created. Each part needs the last: a service runs from `CREATED` only, and no
  thread starts twice because none is there before. `Quiet` in turn is kept when
  tasks of a created service are switched on and off, and so connected, because
  `NothingConnected`: without active tasks only the last task of a chain that
  cannot be switched off has a line, and nothing follows it. Every operation gives
  one service other values (`Becomes`), so one lemma per operation is about one
  service, and `BecomesGood` carries it to all.
* `EndedOnDemand`: `Spec => ThreadsEndedOnDemand`, one case per action from `IInv`:
  creating, running and connecting leave the threads there are alone.
* `ActiveTasksConnected`: `Spec => ConnectsActiveTasks`, from the types in `IInv` alone.
  `Connected` asks which tasks are active, the property which are off: where the two say
  the same, every task that is not active can be switched off, so a leaf is found
  (`LinkFound`), and it is that of the tasks that are on. `FollowerIsNext` says that
  `Follower` is then the next of these.

**TaskLinks_proofs.** For all chains of tasks, and all sets of tasks that can be switched
off:

* `LinksInductive`: the invariant `IInv`. `TreeMade` says what the tree is, as a
  closed form: the tree of a chain (`Tree`) has a path for every choice of branches
  up to one depth. `LinkTreeIs` proves that `make_task_links` makes this tree:
  `GrowsByOneLevel` is one call of `_add_task_link`, and that the calls in a row make
  all levels is shown by the first level that would be wrong (`Least`, from the
  well-foundedness of the order of numbers), because an induction theorem cannot be
  instantiated. `LinesHung` says that for each combination that was set its
  connections hang at its `Way`, the path of the tasks that are on. Neither property
  is inductive: `OwnLink` says nothing of where the walk goes, and `WalkConnects`
  nothing before all combinations are set.
* `CombinationsHaveTheirLink`: `Spec => []OwnLink`. `LastLinkIs`: the walk ends at the
  `Way` or leaves the tree at a task without an off branch. `WaysDiffer`: other tasks
  off, another leaf, because every task that can be off has a branch above the leaves,
  the last one included, for which `make_task_links` adds a level of its own.
* `WalkImplementsConnected`: `Spec => []WalkConnects`. So what `Connections` states
  is what the code finds, and the theorems about `Microservices` are about the code's
  connections.

**Parameters_proofs.** For all tasks, parameters, types, requests and queue lengths:

* `ParametersInductive`: the invariant `IInv`: the three properties and `Remembers`,
  which says of every parameter what `ReadsBack` says of the parameters of an
  answer: a number it was acknowledged for, and that is in `Carries`, is its value. It is
  kept by `SetRemembers`: a set request with 200 as its answer has targets, and sets and is
  remembered for the same ones; any other sets nothing. `CarriedAreStored` and
  `CarriedAreSent` are about the two conversions: the wrap of an integer, the cut of its
  text and the rounding of a float change no number in `Carries`.
* `TypeCorrect`; `RequestsAnsweredPerService`: one lemma per handler says what it answers. For
  an output read the answers are counted (`TimesListed`): the service answers once for
  each time it is listed, and the dispatcher adds its own only when the last one
  listed is another, or when the service may not answer. Silence is left to a running
  service without an output value.
* `ReadsReturnWhatWasSet`: from `Remembers`, `ReadAnswersOnce` and `CarriedAreSent`, for the
  numbers in `Carries`; of DOUBLE and STRING parameters it says nothing.

**Devices_proofs.** For every board, with any candidates, ports and infos:

* `BusesStayApart`: `Spec => []BusesApart`. The invariant adds `BusesHeld`: an
  entry that was registered with a check holds its bus. So a bus that is found
  free belongs to no entry, of either table, and the new entry is apart from all.
  `FourWays` reduces every step to four: a table grows by a checked entry or by
  one with its driver, in either table, or tables and buses stay.
* `IdsNeverChange`: `Spec => IdsStay`, from the same four ways.
* `OnlyCheckedLeaveTheTable`: `Spec => []OnlyCheckedOverflow`, from the same four ways: a
  step appends one entry at most (`AppendPast`), and an entry with its driver is appended
  only before the end of the table.
* `TypeCorrect` (types only: an overfull table has them too), `LookupsAlwaysAgree`,
  `TasksServeTheirDevice`: from the invariant
  `Lookups`, which is the types and two parts. `NamesDiffer`: a name has one entry. No
  lookup by name could be answered without it. `TasksServe`: a task that runs was
  created when the registrations were over, and what it found is what a lookup finds
  now; `ServesItsDevice` alone says nothing of a task that has not looked yet, nor why a
  later registration does not change what another would find. That one lookup takes the
  last of a type and the others the first is no contradiction where there is one
  (`OfOne`).
* `LoraKeysStayTogether`: from `KeysOfMode`: the keys of the mode that was registered
  last are the ones that were given last. The keys of the other mode may be older; they
  are not the ones that `iw_get_lora_info` reads.

**Messages_proofs.** Collaboration messages, for every kind, all values of the fields, all
payloads:

* `MessagesAreReadBack` (`[]ReadAsBuilt`), `SizesAreExact` (`[]SizeIsUsed`): from the
  invariant `CmInv`: the bytes under way are those of the message that was built, the size
  is the one reported for it, and it is `WellFormed`: its counts say how much there is of
  everything, and each attribute has as many values as its length code says. What was read
  is that message. Neither property is inductive: before the bytes are read nothing ties
  them to the message. `RestIsKept` says what a reader without enough memory keeps.
* That a well-formed message is read back (`ReadsBack`) rests on three arguments. The bit
  fields of a byte do not touch each other (`TwoFields`, `HeaderFields`). The first byte
  tells the kinds apart, which is what `KindOf` needs to find the right one
  (`KindsDiffer`). And each piece is found where those before it end (`Slice`): the loops
  that add up the sizes, write the attributes and read them advance by the same amounts
  (`SizeOfPieces`, `FlattenIs`, `ReadsAll`). Each is shown for one round more than before
  (`UpTo`, from the well-foundedness of the order of numbers, since the library's induction
  theorems cannot be instantiated), which first takes a proof that the recursive function
  exists (`FlattenExists`).

Light-weight messages, for all keys, objects, items, numbers and texts:

* `KeysOccurOnce`: from `LwInv`: the message being built and the one that was read are a
  header and a body whose entries have different keys. Nothing is said of the text: the
  parser adds every entry with the operation that deletes the one its key had, and what a
  round leaves has different keys whatever the round reads (`EntriesOnce`). `SetOnce` and
  `DeletedOnce` are about that operation, `AtFirst` and `ChangedOnce` about the one that
  looks an object up and changes it where it is.

**PowerModes_proofs.** For all periods, any memory for connection tasks, and any number
of failures:

* `PowerInductive`: the invariant `IInv`. No property is inductive alone: whether the
  handle names a task that runs depends on whether the device is on
  (`HandleWhileOn`), which depends on where `WifiTask` is in the LOW mode sequence
  (`ReportingWhileUp`): it comes to the step that switches the device off only through
  a report, which takes a driver that is up, and a task ends by itself only when its
  driver failed. `LinkedWhileUp` says the same of the link and the server connection,
  `OneOfEach` that the ids the tasks looked up keep their meaning, `TasksServe` that
  the task works on that device.
* `TypeCorrect`, `OneTaskAtMost`, `LiveTaskDeleted`, `ServerOnlyWhileOn`: from `IInv`.

### Only model-checked

* Liveness (`EventuallyIdentified`, `RequestsEnd`, `RequestsAnswered`,
  `LowModeSaves`, `RunModeReports`, `SensorFollows`) is out of the prover's reach.
* `RoundTrip` and `NothingInvented` of `LwMessage`: what the parser makes of the text of a
  value depends on the structure of the value at every depth. That is an induction over
  nested data; the induction over rounds that the proofs above use goes along numbers.
* `SendsUntilAnswered`, `OffRearranges` and `SetIsStored` are violated: see the findings.

Every other property of a run is a theorem.

## 5. Not modelled

* What user functions compute; drivers; the kernel; the board support package;
  the Wi-Fi task and the server beyond what the message tasks expect of them.
* The one-shot board tests of the application start; the layout of the description
  messages, and the input parameters of a service, which nothing reads.
* Automatic control (`Microservice/ROFW/`): nothing starts its tasks, and the loop of
  `autocontrol_task` is never entered.
* Formatting of traces; the console; battery, LED and bus devices, which forward calls
  to drivers; the kernel wrappers.
* Texts with white space or cut in the middle, buffers shorter than their message, and
  lists of attribute names without memory.
* What a write behind the end of a device table destroys.

`iw_oal_list` writes through the `next` pointer of the first node of an empty list and
of the last node that is removed (lines 31, 44 and 46): what a store to low memory does
is up to the board. The lists of all models are sequences to which nodes are added at the
head, as the code does.

## 6. Plan

The order is that of importance: first what the server sees, then what
threads share.

Done: the modules of section 2 and the proofs of section 4.

1. `Device` - `LwMsgCore` and `Microservices` composed: the distribution task of
   one executes the requests of the other. Then `RegistrationRunsAlone` and
   `CreatedIsQuiet` say together that no service runs before the device is registered.
2. `RoundTrip` of `LwMessage` for values that are not nested: the text of one entry is read
   back as that entry, by the same argument as that of the collaboration messages.
