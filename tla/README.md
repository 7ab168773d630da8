# Verification of the IoTeye server

TLA+ models of the IoTeye server application and its client, their TLC instances,
and TLAPS proofs. Paths of the program are relative to the repository;
`src/device.cpp` is the file of that name in its `src` directory.

## 1. The system

The server keeps *devices*. A device is registered over HTTP, receives a token,
owns up to a maximum number of typed *virtual pins*, and has a *status* that its
owner keeps alive with pings. When the program is shut down the devices are saved
to `devices.json`, and loaded from it at the next start. A client program offers
the operations in a menu.

| Component | State | Operations |
|---|---|---|
| Status timer, `Device::StateTimer` (`src/device.cpp:30-126`) | `m_wasPing`, `m_isStopped` (atomic), two delays, `m_start`, `m_currentState`; `Device::m_state` (atomic) | a thread per device (`threadLoop`), `ping`, `setDelays`, `stop`, the destructor |
| Registry and handlers (`src/serverResources.cpp`) | `s_idDeviceMap`, `Device::m_idSequence` | eight `render*` functions of `/devices` and `/devices/{token}/pins`, `authCheck` |
| Virtual pins (`src/device.cpp:210-337`) | four maps, `m_pinsCounter`, `m_maxPins` | `addPin`, `changePin`, `removePin`, `getPin` |
| Persistence, `DeviceFileManager` (`src/file_manager.cpp:31-109`), `Device::Builder` | none of its own; `devices.json` | `saveFile`, `loadFile`, `build` |
| File access, `FileHandler` (`src/file_manager.cpp:111-228`) | stream, queue, `m_shutdown`, read position | `writeSync`, `writeAsync`, `readAll`, `readLine`, `openFile`, `closeFile`, a worker thread |
| Program (`main.cpp`) | file handler and manager | load, start the server, read keys, save |
| Options (`include/adminOptions.h`) | three `uint16_t` | `init` |
| Command codes (`src/functional.cpp`) | none | `GetCommandCode` |
| Client library (`client/src/client.cpp`) | none | one blocking HTTP exchange per call, and what it reads from the answer |
| Client menu (`client/client_main.cpp`) | the current token | asks, calls the library, prints the outcome |

**How they interact.** The handlers call the registry and, through it, the
device: pins directly, pings through an atomic flag that the device's timer
thread polls. The thread answers through a callback that stores `m_state`, which
`DeviceResource::renderGET` reads. `main` lets the file manager fill the map
before the server starts and read it after it stopped; the file manager uses the
file handler's stream. Deleting a device from the map runs its destructor, which
joins the timer thread inside the handler. The client's menu makes one call at a
time; a call is a connection, a request, and an answer or none.

**What is hard here.** The timer thread runs from inside the constructor of a
device that is not finished; it and the owner meet at single loads and stores,
not at locks. Ids come from one sequence that every *move* of a device sets
back or forward. A save overwrites a file of another length in place. A
conversion may throw in the middle of an operation on four maps that are kept in
step by hand. Reading and writing share one position of one stream, while a
worker empties a queue into it. Requests name devices by tokens that outlive the
devices and the process. The client cannot tell a request that was lost from an
answer that was lost, and a request it gave up may be handled later. The list of
hazards of `PROJECT.json` goes through them line by line.

**What makes each part correct.**

* *Timer*: ONLINE, OUTDATED, OFFLINE in this order and never too early; a ping
  shows; silence ends OFFLINE; a device can be destroyed at any time.
* *Registry*: a token that was answered works until its device is deleted;
  nobody else's token changes the device; every device can be found.
* *Pins*: the maps agree; an operation happens as a whole or not at all; the
  counter is the number of pins and within the limit, whatever failed.
* *Persistence*: a start restores what was saved, or nothing; after a crash during a
  save, what is left of it and of the save before, and one device at most that is
  of neither.
* *File access*: each line is written or refused once, those of the queue in
  order; closing leaves none behind and ends; a reader sees the file.
* *Client and server*: what the menu reports is so in the server; a deleted
  device stays away; a call reaches the handler it is meant for.

## 2. Modules

| Module | What it is |
|---|---|
| `DeviceStatus` | abstract specification: what the status of a device promises |
| `StateTimer`, `StateTimerProofs` | the timer thread, its owner, and the clock; theorems |
| `VirtualPins` | texts and conversions, maps of the C++ library, what adding and removing make of a device: shared by the three modules below |
| `PinTable` | abstract specification: the pins of a device as one table |
| `DevicePins`, `DevicePinsProofs` | the four maps and the counter; theorems |
| `DeviceRegistry`, `DeviceRegistryProofs` | the map of devices, the handlers, `devices.json`, starts, stops and crashes; theorems |
| `DeviceStore`, `DeviceStoreProofs` | abstract specification: a table from tokens to pins, what the server promises to the owners of tokens; the refinement proved |
| `WriteLog` | abstract specification: what `FileHandler` promises to writers |
| `FileHandler`, `FileHandlerProofs` | queue, worker, stream, read position, closing and opening; theorems |
| `Commands`, `CommandsProofs` | the command codes, what the client sends, what the handlers take; theorem |
| `ClientAnswers` | the bodies of the answers, and how the client finds a value in one |
| `ClientServer`, `ClientServerProofs` | client, connection and server together; theorems |
| `MCDeviceRegistry`, `MCDevicePins`, `MCClientServer` | texts and conversions for TLC |

`DeviceRegistry` extends `VirtualPins`; `ClientServer` extends `DeviceRegistry`,
`Commands` and `ClientAnswers`. `StateTimer` implements `DeviceStatus`,
`DevicePins` implements `PinTable`, `DeviceRegistry` implements `DeviceStore`,
`FileHandler` implements `WriteLog`, and `ClientServer` implements the
specification of `DeviceRegistry`.

### StateTimer

Variables carry the names of the members. `pc` is the line that the timer thread
executes next and `owner` what the owner does next, so every step of the model
touches at most one variable the threads share. `Init` is the state in which the
constructor has just started the thread: the delays are still the member
initialisers, and the owner goes on to store the device's own, in `setDelays`
(a new device: `SetDelays`, outdated first, under the mutex) or in the second
constructor (a moved device: `MoveDelays`, offline first, without it).

| Action | Code (`src/device.cpp`) |
|---|---|
| `SetDelays`, `MoveDelays` | 90-94, 139-143; 36-42, 154-157 |
| `Ping` | 74-76, from `DeviceResource::renderPUT` |
| `Stop`, `Join` | 121-126 |
| `While`, `IfWasPing`, `SampleStart`, `ClearPing` | 45-49 |
| `Publish` | 107-111, the callback 199-204 |
| `SampleNow`, `Switch` | 52-70 |
| `Tick` | the clock |

The store to `m_currentState` is merged with the step before it: only the
timer thread uses it. Time is discrete, and kept as *ages*: `sinceStart` is
`now - m_start`, zero when `m_start` is sampled. `Tick` can happen between any two
steps, so the thread may be delayed for as long as one likes. Ages are not
counted beyond `Horizon`; as no delay exceeds it, a longer age passes the same
comparisons.

Two history variables serve the properties: `sincePing`, the age of the last
ping, and `sinceHeard`, the age of the last one that did not arrive exactly
between lines 47 and 48, where it is swallowed (finding 1).

`DeviceStatus` knows a status, whether a ping is pending, and whether the device
is being destroyed. `StateTimer` implements it with `status <- m_state`,
`retired <- m_isStopped`, and a ping pending while the flag is set or ONLINE is
on its way to `m_state`.

### VirtualPins, DevicePins and PinTable

A pin has a type (`i`, `d`, `s`; a request may name another or none) and a value.
Texts in requests are members of a set, and `Stoi`, `Stod` are the conversions:
partial functions, outside whose domain the code throws. Pin numbers are narrowed
to `PinRange` values and the counter wraps at `CounterRange`, as `uint8_t` and
`uint16_t` do.

`DevicePins` keeps `m_pinsType`, the three maps of values (`values`, by type) and
`m_pinsCounter` apart, as the class does. `AddPin`, `ChangePin`, `RemovePin` and
`GetPin` are the methods with their returns in the order of the code and the
conversion where the code has it; `code` is the returned number, by name, or
`"throws"`. `at` throws for a number that is listed and has no value, which
`HasValue` decides: that this never happens is a result (`MapsAgree`), not an
assumption. `Reload` saves the device and loads it: the types are made from the
maps of values, and the counter starts at 0 because the builder cannot set it.
The values are taken to be ones JSON has a text for; those it has none for belong
to `DeviceRegistry`.

`PinTable` is one map of typed pins, on which an operation succeeds as a whole,
throws, or is refused and changes nothing. It uses `WithPin`, `WithoutPin` and
`Addable` of `VirtualPins`; `DeviceRegistry` gives every device the same table
with the same operators, so the refinement is what allows the registry to leave
the four maps out.

### DeviceRegistry and DeviceStore

`devices` is `s_idDeviceMap`: a function from ids to records of token, limit,
counter and pins. A token is its id and a `key`, which stands for the rest of the
signed text; two registrations may get the same key, because the code signs with
the remaining time and a small number. The limit of a new device is
`--pins` as `atoi` and the narrowing to 16 bits leave it (`MaxPinsOptions`).

| Action | Code |
|---|---|
| `Start` | `main.cpp:37-54`, `loadFile`, `Device::Builder`, the move constructor |
| `Shutdown` | `main.cpp:78-105`, `saveFile`, `writeSync` |
| `Crash`, `CrashWhileSaving` | the process ends without, or during, a save |
| `CreateFile` | external: the program opens `devices.json` but never creates it |
| `RegisterDevice`, `DeleteDevice` | `DeviceResource::renderPOST`, `renderDELETE` |
| `CreatePin`, `UpdatePin`, `DeletePin` | `PinsResource::renderPOST`, `renderPUT`, `renderDELETE` with `addPin`, `changePin`, `removePin` |
| `Consult` | the two `renderGET`, and `DeviceResource::renderPUT` (its ping is `StateTimer!Ping`) |
| `Refuse` | every refusal: `authCheck` fails, wrong command, pin number that does not convert |

`file` is the text of `devices.json` as a record: its length, whether it parses, and
the entries (an id and a device) that are whole at its end, in the order in which
the map was iterated; if it parses these are all of them. A save writes over the
old text from its beginning: when the new text is shorter, the tail of the old one
remains and the whole does not parse (`Overwritten`). A text that does not parse is,
for the next start, the same as one without devices, but the devices in its tail
are still on the disk, and a later save that is cut off can join them. Nothing is
written when a string pin is not UTF-8 (`Dumpable`). `Start` loads up to the first
device with a double that was dumped as `null`, and of two entries with one id the
first; the id sequence then stands behind the device that was read last.

`CrashWhileSaving` leaves the beginning of the new text over the rest of the old
one, in one of two ways:

* `Aligned`: the new text is as long as the old one and the two go over into each
  other inside the same part of a device, so that the whole parses. `Parts` lists
  what is written of a device in the order of the text (nlohmann::json sorts the
  keys): pins with doubles, id, integer pins, limit, counter, string pins, and the
  token, of which the id and the rest are parts of their own. What stands before
  the cut is of the one device and what stands behind it of the other; of the part
  that was cut, `Cut` says what can be read. So the device at the cut may have
  the id of one device and the token of another, or pins of both.
* `Spoiled`: anything else. The text does not parse, and a tail of the old entries
  is left in it, or none if the new text had already grown beyond the old one.

Which of the two a cut at a given byte is depends on the characters; the model
allows both wherever the lengths allow them. A cut that leaves the old text or
completes the new one is `Crash` and `Shutdown`.

Abstractions to know of: requests are handled one at a time; an aligned text joins
a part of a device with the same part of another (section 7 says what that leaves
out); id 0 stands for every token that does not decode or names no device; the
timers of the devices are not part of this module.

`DeviceStore` is the server as the owner of a token sees it: a table from the
tokens that work to the pins behind them, and what a start can bring back of it.
It knows no ids, no sequence, no counter, no limit and no text of a file. A
request is refused and changes nothing, or concerns one token and one pin and
happens as a whole; a pin keeps its type. What is kept for the next start is a set
of pairs of a token and its pins: a stop leaves it, replaces it by the table
(`Keep`), spoils it (`Spoil`), or keeps something of both and one pair that is of
neither (`Mix`); a start makes a table of a part of it. `DeviceRegistry` implements
it with `table <- Table(devices)`, `kept <- InFile(file.entries)` and
`readable <- file.parses`. `Table` turns the map from ids into one from tokens and
leaves out the devices that stand under another id than their token's: no request
reaches them. Two promises are weak because the code is: a registration may answer
a token that does not work (finding 2), and a start brings back *a part* of what
was kept (a double that was dumped as `null`, a text that does not parse).

### FileHandler and WriteLog

A step is a critical section of `m_queueMutex` or `m_fileMutex`. `m_queue`,
`m_shutdown`, `worker` and the `line` in the worker's hand are one half,
`isOpen`, `good`, `position` and `content` of the stream the other. The stream is
a `std::fstream` opened with `in|out`: one position for both, and a failed state
that only opening and the `clear()` of `readLine` end.

| Action | Code (`src/file_manager.cpp`) |
|---|---|
| `WriteSync`, `WriteAsync` | `writeSync`, `writeAsync` |
| `Wait`, `WakeUp`, `Leave`, `Take`, `Write` | `fileWorker`: the wait, which may end for no reason, the check, the line that is taken and written after the queue is unlocked |
| `ReadLine` | `readLine`: `clear`, `seekg`, `getline`, `tellg`, and what each does to a stream that is closed, at its end, at a last line without a newline, or at the position -1 |
| `ReadAll` | `readAll` |
| `Close`, `Join` | `closeFile` and the destructor, before and after the join |
| `OpenFile` | `openFile`, with and without `trunc` |
| `Terminate` | a second join, or opening what is open: either ends the process |

Lines have one length, so offsets count lines; empty lines, the flag `app` and the
buffer of the stream are left out, and a write is done or fails as a whole.
`closeFile` closes the stream without the mutex of the file; nobody but the
worker is taken to be active there. History variables: the lines written (`log`)
and refused (`dropped`), where the current opening starts in the log, the lines
`writeAsync` accepted while the file was open (`owed`), whether `readLine` moved
the position, and what it returned.

`WriteLog` is a queue and a log. `FileHandler` implements it with
`pending <- InHand \o m_queue`: the line in the worker's hand still pends.

### Commands and ClientAnswers

A command is the sum of two letters in 8 bits. `Endpoint` is what the client
library sends for each operation, `Dispatch` what the handler of its resource and
method makes of it. `ClientAnswers` has the bodies that carry something, and
`extractValue` as it is: it looks for the first character *that occurs in* the
key, skips the length of the key and one more, and takes what follows up to a
space or the end of a line. Bodies are strings there, since the point is where
characters stand.

### ClientServer

The registry with one client, a connection and other clients. `token` is the
menu's current token, `call` the arguments of the call that is made, `reply` what
came back, `shown` what the menu printed.

| Action | Code |
|---|---|
| `Choose` | the menu, which asks until the arguments are valid, and `sendRequest` up to the write |
| `ChangeToken` | `client_main.cpp:88-91` |
| `Serve` | the connection reaches the handler (`Execute`, an action of `DeviceRegistry`), which answers (`Reply`) |
| `Receive` | `sendTcpRequest` returns, the library reads the answer (`Registered`, `StatusOf`), the menu prints (`Show`) |
| `LoseBody` | the connection ends behind the headers; `sendTcpRequest` takes the end of the stream for the end of the answer (`client.cpp:66-100`) |
| `Break` | the connection ends before or after the handler: `sendRequest` returns an answer of its own; a request that was on its way may stay `late` |
| `ServeLate` | the server handles a request that was given up |
| `OthersRequest` | registrations, deletions and updates by others |
| `ServerStarts`, `ServerEnds` | `Start`, `CreateFile`; `Shutdown`, `Crash`, `CrashWhileSaving` |

The history says what a user may take from the menu: `known`, the pins that a
number of the current device can have since the last call about it succeeded;
`gone`, the tokens whose deletion was reported; `certain`, whether no late request
interfered with the call that is made. `since` and `final` of a call are the run
of the server it was sent to, and whether a deletion is about an id the sequence
has passed: an id from the file may be beyond it and be given out again.

Abstractions to know of: the status of a device is any of the three (it is
`StateTimer`'s matter); of an answer with status 500 the client reads nothing; the
token of the current device is used by nobody else, but tokens are guessed freely
otherwise; `MaxLate` bounds the requests that are given up and still on their way;
one registration is kept free for a client that has asked for it. After a
registration the menu's token is whatever `registerNewDevice` returned
(`Registered`): the token of the answer, the empty text when the call failed, or,
when an answer came without a body, the number of its status (`client.cpp:185`). A
registration in the model is answered with 201 only, so that number is "201"; the
calls that follow are sent with it, and refused.

## 3. Runs

| Run | Instance | Checks |
|---|---|---|
| `StateTimer` | delays 0, 1 and 3, defaults 1 and 2, horizon 3 | types, early delays, early status, stopping, the refinement, liveness |
| `StateTimerLostPing` | the same | finding 1 |
| `RegistryIds` | 2 keys, 3 registrations, 4 runs of the program, no pins | ids, tokens, reloads, saves cut off |
| `RegistryOwners` | 2 keys, 2 registrations, 3 runs; one pin number under two texts, limits 0 and 1, a text that is an infinite double and not UTF-8 | types, counter and limit (of loaded devices too), ownership, restarts, the refinement of `DeviceStore` |
| `RegistryReload`, `RegistryReloadPins`, `RegistryTail` | 1 to 3 registrations, 3 runs | findings 2, 3, 4 |
| `DevicePins` | 2 pin numbers, limits 1 and 2, five texts: two integers (one a double too), a double, a word, the empty one | types, agreement of the maps, the refinement |
| `FileHandler` | 3 lines, 0 to 2 old ones, lines with and without a newline, 2 openings | types, closing, wake-ups, content, readers, the refinement, liveness |
| `ClientPins` | 1 registration, 2 keys, 1 run of the server, 1 late request, answers without a body, all operations but the status | types, tokens, reports, own writes, what a call does |
| `ClientDeletes` | 3 registrations, 1 key, 2 runs, 1 late request, the operations on devices | deletions, statuses that are shown |
| `ClientStatus` | 1 registration, the status | finding 5 |

*Bounds.* `Delays` holds a delay of 0, delays on both sides of the defaults, and
every order of the two, the outdated delay above the offline one included.
Three runs of the program suffice for what reloads can do: save, load and change,
save over the old text, load again; the fourth of `RegistryIds` starts from a
mixture that was itself loaded and saved, or cut off again. Three registrations let
the sequence run into loaded ids from either side; with one key, in
`ClientDeletes`, the new token *is* the old one whenever the id is. The two keys of
`RegistryIds` and `RegistryOwners` are symmetric: they are only compared. `MCCut`
reads either of the two values at a cut, the case in which the device at the cut is
made of whole parts. `PinRange = 2` makes numbers alias, and
`CounterRange = 4` lets a counter wrap below zero and stand above every limit;
`RegistryOwners` gets its limits 0 and 1 by narrowing 4 and 5, and its one pin
reaches the 1. There a loaded
device loses pins it was loaded with, so that its counter goes below zero and comes
back; that one has more pins than its limit takes a second pin number, as in
`RegistryReloadPins`, and is otherwise left to the theorem. With one line more
than the worker can hold and one synchronous writer, three lines show every order
in which the queue is overtaken; two openings are what a flag that is never reset
needs. One late request is enough to follow a later call on the same pin or
device. `MaxRegistrations`, `MaxRuns`, `MaxOpens`, `MaxOld` and `MaxLate` are
guards of the models, not of the program; the theorems hold for every value of
them. The runs of the registry, of the file handler and of the client disable the
deadlock check because a bounded model stops when its registrations, runs, lines
or openings are used up; `StateTimer` and `DevicePins` keep it.

*Properties.* Each is preceded by a comment in its module that says what it claims.

* `StatusFollowsSilence` relates the answered status to the age of the last ping
  the thread could tell apart. The condition excludes the moments at which a ping
  waits or the new status is on its way.
* `StopIsBounded`: once `stop()` was called the thread takes at most one more pass of
  the loop, wherever it is and even if a ping waits, and never waits for the mutex.
* `DelaysStoredBeforeUse` is the argument why reading the delays without the mutex
  is harmless: a device starts OFFLINE, where no delay is read, and can leave it
  only through a ping, which needs a device that is constructed.
* `ImplementsDeviceStatus`, `SilenceEndsOffline`, `DestructorReturns`: see section 4.
* `TokenNamesItsDevice`, `RegistrationServed`, `OnlyOwnerChanges`: `authCheck` looks
  a device up by the id in the token and compares the texts; this is enough. The one
  thing that puts a device out of reach of its own token is a save cut off between
  the id and the token of a device (`cuts`), one device each time.
* `PinLimit`: for devices registered in the run. For loaded ones it fails, see
  finding 3; what holds of them is `LoadedPinLimit`: the wrapped counter is the
  number of pins the device gained since it was loaded, and a run adds at most the
  limit to those it had.
* `ImplementsDeviceStore`: ids, sequence, counters, conversions that throw, saves in
  place and crashes leave the picture of one table of tokens and pins intact.
* `RestartRestores`: a start only brings back devices of the last save, and all of
  them if the text filled the file and every double is finite. If a crash cut that
  save off and the text parses all the same, it brings back devices of that save and
  of the text below it, and one device more at most, the one at the cut.
* `MapsAgree`, `ImplementsPinTable`: no order of operations, refusals, throws and
  reloads gets the maps out of step, or leaves half of an operation behind.
* `ImplementsWriteLog`: a line is not lost between the queue and the stream, nor
  written twice, nor out of order, while synchronous lines overtake it.
  `ContentIsLog` says that the file agrees with the log as long as nobody reads
  line by line; `ReadLinesSeeFile` that the reader is not disturbed by the
  writers, with whom it shares the position.
* `NoLostWakeUp` is the safety in `AsyncCompletes`: the worker does not wait while a
  line is queued or the handler closes. `CloseIsBounded` is the one in
  `CloseReturns`: each step of the worker leaves two a line and one to leave fewer.
* `DrainedByClose`, `AsyncCompletes`, `CloseReturns`: the hand-over between the
  condition variable, the flag and the join. They speak of the first opening
  where a later one differs (section 6).
* `ReportedPinsHold`, `DeletedStaysDeleted`: what was reported remains so although
  requests get lost, are late, or come from others.
* `CallsDoWhatTheyName`: a call of the menu does to the table of `DeviceStore` what its
  name says, on its token and pin, or is refused: whatever became of it in command
  codes and conversions, and whatever the menu took for the token. The pin is the
  number the narrowing leaves, which comes before every check.
* `StatusShownIsServed`: a status that was answered is shown as it was. Everything
  else reads as *online* (finding 5) or as an error, never as one of the other two.
* `ReadsOwnWrites`: with the labels there are, `extractValue` finds the value
  behind a character that occurs anywhere in the label, and the user reads what
  was written.

## 4. Fairness

*Timer.* `WF(Timer)`: the operating system keeps scheduling the
thread, which never blocks but for the mutex the constructor holds over two
stores. `WF(Tick)`: time passes. `WF(SetDelays \/ MoveDelays)`: a constructor that
began comes to its end. `WF(Join)`: a join whose thread has ended returns. No
fairness is assumed of pings or of deletion: nobody has to use a device. Weak
fairness is enough for each, as an enabled step of one thread is not disabled by
the other for ever; the mutex, the one exception, is given back after one step of
the constructor.

`DeviceStatus` asks for fairness of its own, limited to devices that are not being
destroyed: the stop flag may end the loop before the last ping shows.

*File handler.* `WF(Worker)`: the worker thread is scheduled, and each of its
critical sections ends. `WF(Join)` as above. Nobody has to write, read or close,
and a wait need not end for no reason: what wakes the worker is the notification.

*Client and server* have no fairness. Nothing in the code makes a server answer
or a connection end, so no call is claimed to return.

## 5. Proofs

The theorems hold for every value of the constants that satisfies the named
assumptions of the modules: `ConversionAssumption` (stoi yields integers),
`WidthAssumption` (the ranges of pin numbers and counter are positive),
`PinsAssumption` (the counter can count as many pins as there are numbers: 256 of
65536 in the code),
`ArgumentAssumption` (`--pins` is an integer; that the limit then fits the counter
is a lemma, `LimitsFit`), `DelaysAssumption`, `LineAssumption`, `TextAssumption`
(texts of tokens differ, numbers have a text), `KeysAssumption` (there is a token
at all), and bounds that are natural numbers. Two hypotheses are stated in the
theorems that need them: that a text has a length (`DocLength`), and
`AnswersReadBack`. TLC evaluates them on the instances.

**StateTimer.** The inductive invariant `IInv` adds to `TypeOK`:

* `QuietWhileConstructing`: under construction the device is OFFLINE and not
  pinged, so the thread circles where no delay is read; `DelaysStored` says which
  delays the owner has stored at each of its steps;
* `PingUntilCleared`: the flag stays set between lines 46 and 48;
* `StartAfterPing`: unless a ping waits, `m_start` is not older than the last ping
  heard. An age measured too large is what would age the status early;
* `ViewFollowsSilence`: the claim of `StatusFollowsSilence` for the thread's own
  view, from which it is handed on to the clients.

From it follow
`TypeCorrect`, `NoDelayReadEarly` and `StatusNeverEarly`. `ImplementsSafety`
proves that every step maps to a step of `DeviceStatus` or a stutter; it
additionally needs (`RInv`) that `m_currentState` is at most one transition ahead of
`m_state`, and that only a device past its life is stopped. `StoppingNearsEnd` uses
the same invariant: a measure of the thread's distance to its end falls with each
of its steps, as a stopped device is pinged no more. With the fairness of the
thread, which the provers do not reach, this is `DestructorReturns`.

**DeviceRegistry.** The inductive invariant `IInv` adds to `TypeOK`:

* `Placed`: the ids under which the file has an entry with another token are at
  most `cuts`, the number of saves that were cut off and parse, and a device of the
  map that its token does not lead to is one of them. The file is counted whether
  it parses or not, because a later save that is cut off can make what is left of
  it readable again; a save adds none, and a cut one at most, for the entry there;
* `Known`: every device in the map is loaded or registered by this process, and
  the loaded ones are there;
* `Past`: what this process registered lies behind the id sequence, so only a
  loaded device can be in the way of a new one. The sequence itself may well
  stand on a loaded id;
* `Down`: a process that does not run has registered nothing;
* `RegistrationServed` and `PinLimit`.

Requests for pins share one lemma: each leaves everything alone or replaces one
device by a *successor* (same token, same limit, counter and pins in step), so the
invariant is shown once for all of them. `OwnersOnly` follows from the same lemmas.

Two invariants stand beside it. `LoadedPinLimit`, for `LoadedLimitKept`, compares the loaded
devices with what the file said of them: the counter of a successor moves by one where the pins
do, modulo its range (`CountedFrom`), and the number of pins gained, which may be
negative, is the counter or the counter less its range. `FileIsSaved`, for
`RestartsRestore`, says that the entries of a file that parses are saved ones, but
for one if the save was cut off, and all of the saved ones, each under an id of its
own (`OneId`), if the save was whole and its text is as long as the file. The id of
a device is any positive number: one from a text that was cut in the middle of an id
may be larger than every id that was given out.

**DeviceStore.** `ImplementsStore` maps each request to the request of the table, and
starts, stops and crashes to its two others. A device that its token leads to is one
entry of the table (`TableEntries`), so a change of it is a change of that entry, and
a registration adds an entry or none. `Dumps` keeps the pairs of the table
(`DumpKeepsTable`); `StopStep` maps a save to `Keep` or `Spoil` and one that was cut
off to `Mix` or `Spoil`; the devices a start loads are a part of the pairs in the
file (`StartStep`).

**DevicePins.** `TypeOK /\ MapsAgree` is inductive: agreement is what makes a
reload restore the types, and a listed pin have a value. `ImplementsTable` is the
whole refinement, for which each operation is taken apart into refusal, throw and
success, and each of these mapped to the disjunct of `PinTable`.

**FileHandler.** `TypeCorrect` needs that the worker's line is a caller's while it
writes (`HandIsLine`). `WakeUpsArrive` and `ClosingNearsEnd` need only that and the
flag of a handler that closes (`WakeInv`). `CloseDrains` needs `ControlInv`, which relates owner,
stream, worker and flag, and `OwedInv`: what is owed is settled, queued or in
hand. `ImplementsLog` uses the same invariant. `ContentFollowsLog` needs
`PositionIsCount`: without a reader the position of a good stream is the number of
lines written since the opening. `ReadersSeeFile` needs `ReadBehindWrites`: no
write lands before the line that is returned next.

**Commands.** `EndpointsAgree`: for every resource, method and operation the
handler does what the client asks exactly when the client asks it there.

**ClientServer.** The proofs build on the registry's: a call of the client is a
request of the registry (`ExecuteIsRequest`, through `EndpointsReach`), which
keeps every other device (`OthersKeep`) and every other pin (`CallOutcome`). The
inductive invariant `ClientInv` adds to the registry's

* `CallInv`: a call has the arguments of its operation and the current token, and
  the late ones had; the menu's token is that of a device, empty, or the number of
  a status (`TokenInv`), and no device answers to one of the latter two, because no
  device has id 0 (`TokenOfText`, `AuthText`);
* `KnownInv`, `PendingInv`: what is known is so, and what an answer on its way
  will make known is so too, unless a late request got in between;
* `DeletionInv`: an id whose deletion is the last word was passed by the sequence,
  which then only grows while the server runs;
* `ReadInv`: a value on its way is the one known.

`ServerUndisturbed` is the refinement: client, connection and late requests do
nothing to the server but what the registry's specification allows, so its
theorems hold of the composition, and so does `ComposedStore`, that the composition
implements `DeviceStore`. `CallsServed` takes a call through endpoint, dispatch,
and conversion to the step of the table that its name stands for.
`ReportsTrue`, `DeletedStaysAway`, `OwnWritesRead` and `ClientTypeCorrect` follow
from `ClientInv`. `ClientTypeCorrect` says what the menu can have for a token: the
token of an answer, nothing, or "201", when an answer came without its body.
`StatusesFaithful` follows from `StatusInv`, that already the answer on its
way will be shown as it was meant. What depends on the reading of answers is
stated under `AnswersReadBack`, which `MCClientServer` assumes in turn, so that TLC evaluates it
for the texts of every run: it speaks of the characters of strings, with which no
prover here computes.

**Only model-checked.** Liveness (`SilenceEndsOffline`, `DestructorReturns`,
`AsyncCompletes`, `CloseReturns`, and the fairness half of
`ImplementsDeviceStatus`): the provers do not reach fairness; of the second, third and
fourth the part that is safety is proved (`StoppingNearsEnd`, `WakeUpsArrive`,
`ClosingNearsEnd`). And `AnswersReadBack`, a statement about the characters of
strings.

## 6. Findings

1. *A lost ping* (`StateTimerLostPing`): the thread samples `m_start` and clears
   the flag in two steps (`src/device.cpp:47-48`); a ping in between is answered
   and forgotten, and the device is OUTDATED earlier than the delay promises.
2. *A dead token* (`RegistryReload`): after a load the sequence continues behind
   the device loaded last, not behind the largest id; a new device may meet an id
   that is taken, is not stored, and is answered with 201 all the same.
3. *Limit after a restart* (`RegistryReloadPins`): the counter of pins is saved and
   never restored.
4. *A file that no longer parses* (`RegistryTail`): a save shorter than the file
   leaves the tail of the old text, and the next start has no devices.
5. *Failed is online* (`ClientStatus`): `getDeviceStatus` returns 0 when the request
   failed, or when a piece of an error message is no number, and 0 is ONLINE; the
   menu's own message for the case is never reached.

Observed while modelling, without a line of the repository that says otherwise:

* `closeFile` never resets `m_shutdown`: after opening the file again the worker
  stops as soon as its queue is empty, and lines queued later are not written. The
  model has it so; the properties speak of the first opening.
* `readLine` leaves the position where it read, and the next write lands there; at
  a last line without a newline `tellg` fails, the read position is -1 for good
  and every later `readLine` fails, until the handler is made anew.
* A save that a crash cuts off may parse all the same when it is as long as the text
  it is written over, and the next start loads a mixture of the two: devices of
  either, and one at the cut with the pins or the id of the one and the token of the
  other. Such a device can be out of reach of its own token until the file is
  replaced.
* `registerNewDevice` returns the number of the status as the token when an answer
  has no body (`client.cpp:185`), and the end of a connection counts as the end of
  an answer. The menu then shows "201" as the token of the new device; the model has
  it so, and every call with it is refused.
* The letters of a command may be swapped, or be others with the same sum.
* The usage text names 65556 as the maximum of pins, which is stored as 20.
* For a pin that is not there, `getVirtualPin` returns a piece of the error message
  and the menu shows it as the value; an empty text is answered as no pin.

## 7. Not modelled

* *Handlers that run at the same time, or next to `main`.* Whether the HTTP
  library runs them so is decided in its sources, which are not in the repository;
  a model would guess what it claims to find. The unlocked places are in the list
  of hazards.
* *The HTTP library* itself. From it the models take that a request reaches one
  handler and that its answer, or none, gets back.
* *Console*: the prompts and loops of the menu, whose branch for an input left
  empty cannot be reached with `cin >>`; the key `m`, which prints the size of the
  map; `getchar` at the end of the input, on which the loop of keys never ends.
* *Saves cut off that join unlike parts.* Of the texts that parse, the model has
  those whose cut lies in the same part of two devices. Left out is a cut that goes
  over from one part, or one key, into another and happens to be JSON, for instance
  between two arrays of pins of which one is empty; that a number stands in two maps of
  values after the cut (`DevicePins` shows that the program itself never saves that);
  and a save of which parts in the middle are missing on the disk.
* *Answers cut anywhere else.* The client takes an answer that ends early for a
  whole one (`client.cpp:66-100`). The model ends it behind the headers or not at all;
  in the middle of a value "12" may stand for 123, in the middle of the status line
  an answer may have another code. No property here would hold of them, and none
  claims it.
* *A registration that fails in the server*: when no thread can be started for a new
  device, the HTTP library answers for the handler, and the number that passes for
  the token is another one.
* *Pin numbers before they are narrowed.* The registry sees the 8 bits that are left
  (`PinNumber`), so numbers 256 apart are one number in every property.
* *Options*: which of several options counts, and the usage text. What the values
  become is modelled.
* *Logging, tests and build files.*

What could come next. In the proofs: that the refinement of `DeviceStore` is exact
where the code is, namely that a registration which meets a free id and a start from
a text that parses lose nothing; and the lines `readLine` returns after it started
over. In the models: the status of a device as the client sees it over pings,
deletion and restarts (`StateTimer` in the place of the registry's `Consult`), and
`FileHandler` with the whole buffer of a stream, if a failed write is to be told
from one that is only late.
