--------------------------- MODULE DeviceRegistry ---------------------------
(***************************************************************************)
(* The server's registry of devices: the map from ids to devices, the      *)
(* handlers of the two resources that change it, and devices.json, which   *)
(* is read when the program starts and written when it is shut down.       *)
(*                                                                         *)
(* Requests are handled one at a time.  A request is described by what the *)
(* handlers look at: the token it carries, and for pins the texts of the   *)
(* pin number, the data type and the data.                                 *)
(***************************************************************************)
EXTENDS VirtualPins, FiniteSets, Sequences

CONSTANTS
    Keys,           \* what distinguishes the tokens signed for one id
    PinTexts,       \* the texts that requests carry as pin numbers
    NonFinite,      \* the doubles that JSON has no number for
    NotUTF8,        \* the texts that cannot be dumped as JSON
    PinsArguments,  \* what atoi makes of the values of --pins
    DocLength(_),   \* the length of the JSON text of a sequence of devices
    Cut(_, _),      \* what is read where the text of one value goes over into
                    \* that of another: both of them, and anything between
    MaxRegistrations, MaxRuns   \* bounds

ASSUME ArgumentAssumption == PinsArguments \subseteq Int

ASSUME PinsAssumption == PinRange <= CounterRange

ASSUME BoundAssumption == MaxRegistrations \in Nat /\ MaxRuns \in Nat

VARIABLES
    up,             \* the process runs
    maxPinsOpt,     \* OPTIONS->getMaxPins()
    devices,        \* s_idDeviceMap
    idSequence,     \* Device::m_idSequence
    fileExists,     \* somebody created devices.json
    file,           \* its length, whether it parses, and the devices that are
                    \* whole at the end of its text: all of them if it does
    response,       \* the last answer, and the token the request is about
    (***********************************************************************)
    (* History: what this process registered and did not delete since, the *)
    (* devices it still holds from the file, as they were there; what was  *)
    (* saved last, and when a crash cut that off, what is still whole of   *)
    (* it and of what it was written over, if the two parse together; how  *)
    (* many saves were cut off and parse all the same.                     *)
    (***********************************************************************)
    registered,
    loaded,
    saved,
    cuts,
    registrations, runs

disk    == <<fileExists, file>>
history == <<registered, loaded, saved, cuts, registrations, runs>>
vars    == <<up, maxPinsOpt, devices, idSequence, disk, response, history>>

-----------------------------------------------------------------------------
(***************************************************************************)
(* Devices, pins and tokens.                                               *)
(***************************************************************************)
\* Id 0 is the token of no device: one of an id that was never given out, or
\* a text that does not decode.
RequestTokens == [deviceID : 0 .. MaxRegistrations, key : Keys]
Tokens == [deviceID : Nat, key : Keys]

Statuses == {"none", "OK", "CREATED", "BAD_REQUEST", "UNAUTHORIZED",
             "EXCEPTION"}
NoResponse == [status |-> "none"]

\* AdminOptions stores the limit as a uint16_t.
MaxPinsOptions == {value % CounterRange : value \in PinsArguments}

PinNumber(text) == Stoi[text] % PinRange

\* The maps from a part of the keys to the values.
Maps(keys, values) == UNION {[part -> values] : part \in SUBSET keys}

\* A limit from a file is any number of its width.
Devices == [token : Tokens, maxPins : 0 .. CounterRange - 1,
            counter : 0 .. CounterRange - 1, pins : Maps(PinNumbers, Pins)]

Ids == Nat \ {0}

\* What the file says of a device.
Entries == [id : Ids, device : Devices]

\* A map from finitely many ids, of which there is no largest one.
IsIdMap(map, values) ==
    /\ DOMAIN map \subseteq Ids /\ IsFiniteSet(DOMAIN map)
    /\ map \in [DOMAIN map -> values]

Text(size, parses, entries) ==
    [size |-> size, parses |-> parses, entries |-> entries]

NothingSaved == [entries |-> {}, length |-> 0, cut |-> FALSE]

TypeOK ==
    /\ up \in BOOLEAN /\ fileExists \in BOOLEAN
    /\ maxPinsOpt \in MaxPinsOptions
    /\ idSequence \in Ids
    /\ IsIdMap(devices, Devices) /\ IsIdMap(loaded, Devices)
    /\ IsIdMap(registered, Tokens)
    /\ file.parses \in BOOLEAN /\ file.entries \in Seq(Entries)
    /\ saved.cut \in BOOLEAN /\ saved.entries \subseteq Entries
    /\ response.status \in Statuses
    /\ cuts \in Nat
    /\ registrations \in 0 .. MaxRegistrations /\ runs \in 0 .. MaxRuns

Init ==
    /\ up = FALSE
    /\ maxPinsOpt \in MaxPinsOptions
    /\ devices = EmptyMap /\ idSequence = 1
    /\ fileExists = FALSE /\ file = Text(0, FALSE, <<>>)
    /\ response = NoResponse
    /\ registered = EmptyMap /\ loaded = EmptyMap
    /\ saved = NothingSaved
    /\ cuts = 0 /\ registrations = 0 /\ runs = 0

-----------------------------------------------------------------------------
(***************************************************************************)
(* The process starts: main and loadFile.                                  *)
(***************************************************************************)

\* A double that JSON has no number for was dumped as null, which loadFile
\* cannot convert back.
Finite(d) == \A n \in DOMAIN d.pins :
                 d.pins[n].type = "d" => d.pins[n].value \notin NonFinite

\* It throws at the first device with such a pin: the devices before it stay.
Loadable ==
    {i \in DOMAIN file.entries :
        /\ file.parses
        /\ \A j \in 1 .. i : Finite(file.entries[j].device)}

\* emplace keeps the first of the devices that have one id.
Firsts ==
    {i \in Loadable :
        \A j \in Loadable : file.entries[j].id = file.entries[i].id => i <= j}

FromFile ==
    [id \in {file.entries[i].id : i \in Firsts} |->
        file.entries[CHOOSE i \in Firsts : file.entries[i].id = id].device]

\* Mutant: Device::Builder is not given the types of the pins.
RestoredWithoutPins(d) == [d EXCEPT !.counter = 0, !.pins = EmptyMap]

\* pinsCounter is in the file, but Device::Builder cannot set it.
Restored(d) == [d EXCEPT !.counter = 0]

\* Every device that is read is moved into place, and Device's move constructor
\* sets the sequence right behind its id.
SequenceBehind(read) ==
    IF read = {} THEN 1 ELSE file.entries[Cardinality(read)].id + 1

Start ==
    /\ ~up /\ runs < MaxRuns
    /\ up' = TRUE
    /\ maxPinsOpt' \in MaxPinsOptions
    /\ loaded' = FromFile
    /\ devices' = [id \in DOMAIN loaded' |-> Restored(loaded'[id])]
    /\ idSequence' = SequenceBehind(Loadable)
    /\ runs' = runs + 1
    /\ UNCHANGED <<disk, response, registered, saved, cuts, registrations>>

-----------------------------------------------------------------------------
(***************************************************************************)
(* The process ends: by the key ESC, which saves the devices, or not.      *)
(***************************************************************************)
Exit ==
    /\ up /\ up' = FALSE
    /\ devices' = EmptyMap /\ idSequence' = 1
    /\ response' = NoResponse
    /\ registered' = EmptyMap /\ loaded' = EmptyMap
    /\ UNCHANGED <<maxPinsOpt, fileExists, registrations, runs>>

\* dump throws at a text that is not UTF-8, before anything is written.
Dumpable ==
    \A id \in DOMAIN devices : \A n \in DOMAIN devices[id].pins :
        devices[id].pins[n].value \notin NotUTF8

CanSave == fileExists /\ Dumpable

\* An unordered_map is iterated in any order.
Dumps ==
    {[i \in DOMAIN order |-> [id |-> order[i], device |-> devices[order[i]]]] :
        order \in Bijection(1 .. Cardinality(DOMAIN devices), DOMAIN devices)}

Tails(s) == {SubSeq(s, i, Len(s)) : i \in 1 .. Len(s) + 1}

\* The file was opened to be read and written, not truncated: a shorter text
\* leaves the tail of the old one behind it, and the two do not parse.
Overwritten(new) ==
    IF DocLength(new) >= file.size
    THEN {Text(DocLength(new), TRUE, new)}
    ELSE {Text(file.size, FALSE, tail) : tail \in Tails(file.entries)}

Shutdown ==
    /\ Exit
    /\ \/ /\ CanSave
          /\ \E new \in Dumps :
                /\ file' \in Overwritten(new)
                /\ saved' = [entries |-> Range(new), length |-> DocLength(new),
                              cut |-> FALSE]
       \/ ~CanSave /\ UNCHANGED <<saved, file>>
    /\ UNCHANGED cuts

Crash ==
    /\ Exit
    /\ UNCHANGED <<saved, file, cuts>>

\* What is written of a device, in the order in which it stands in the text.
Parts(entry) ==
    LET d == entry.device
        PinsOf(type) ==
            Restrict(d.pins, {n \in DOMAIN d.pins : d.pins[n].type = type})
    IN  <<PinsOf("d"), entry.id, PinsOf("i"), d.maxPins, d.counter, PinsOf("s"),
          d.token.deviceID, d.token.key>>

Over(upper, lower) ==
    [k \in DOMAIN upper \cup DOMAIN lower |->
        IF k \in DOMAIN upper THEN upper[k] ELSE lower[k]]

\* A pin number that is read twice has the type of the later one.
ReadAs(parts) ==
    [id     |-> parts[2],
     device |-> [token   |-> [deviceID |-> parts[7], key |-> parts[8]],
                 maxPins |-> parts[4],
                 counter |-> parts[5],
                 pins    |-> Over(parts[6], Over(parts[1], parts[3]))]]

\* A device that begins as one and goes on, from some place in the same part of
\* its text on, as another.
Spliced(new, old) ==
    LET first == Parts(new)  last == Parts(old) IN
    {entry \in UNION {{ReadAs([i \in 1 .. 8 |-> IF i < at THEN first[i]
                                               ELSE IF i > at THEN last[i]
                                               ELSE value]) :
                        value \in Cut(first[at], last[at])} : at \in 1 .. 8} :
        entry \in Entries}

\* The beginning of the new text over that of the old one, where the old tail
\* goes on with the same part of a device.
Mixed(new) ==
    LET old == file.entries IN
    UNION {{SubSeq(new, 1, k - 1) \o <<entry>> \o SubSeq(old, j + 1, Len(old)) :
              entry \in Spliced(new[k], old[j])} :
           k \in DOMAIN new, j \in DOMAIN old}

\* A part of the new text is on the disk.  It parses when it goes over into the
\* old text as if it were one; if not, what is left of the old text is no
\* device to the next start, but may be to a later one.
Aligned(new) ==
    {Text(file.size, TRUE, text) :
        text \in {t \in Mixed(new) : DocLength(t) = file.size}}

Spoiled(new) ==
    {Text(file.size, FALSE, tail) : tail \in Tails(file.entries)}
    \cup {Text(size, FALSE, <<>>) :
            size \in file.size + 1 .. DocLength(new) - 1}

CrashWhileSaving ==
    /\ CanSave
    /\ Exit
    /\ \E new \in Dumps :
          \/ /\ file' \in Aligned(new)
             /\ saved' = [entries |-> Range(file'.entries)
                                \cap (Range(new) \cup Range(file.entries)),
                           length |-> file.size, cut |-> TRUE]
             /\ cuts' = cuts + 1
          \/ /\ file' \in Spoiled(new)
             /\ saved' = NothingSaved
             /\ UNCHANGED cuts

\* The program never creates devices.json; somebody else may.
CreateFile ==
    /\ ~fileExists /\ fileExists' = TRUE
    /\ UNCHANGED <<up, maxPinsOpt, devices, idSequence, file, response, history>>

-----------------------------------------------------------------------------
(***************************************************************************)
(* Requests.                                                               *)
(***************************************************************************)
Answer(status, token) ==
    /\ up
    /\ response' = [status |-> status, token |-> token]
    /\ UNCHANGED <<up, maxPinsOpt, disk, saved, cuts, runs>>

SameRegistry == UNCHANGED <<idSequence, registered, loaded, registrations>>

\* Mutant: the token is generated from the id sequence, one step on.
NewDeviceSignedLate(id, key) ==
    [token |-> [deviceID |-> id + 1, key |-> key], maxPins |-> maxPinsOpt,
     counter |-> 0, pins |-> EmptyMap]

NewDevice(id, key) ==
    [token |-> [deviceID |-> id, key |-> key], maxPins |-> maxPinsOpt,
     counter |-> 0, pins |-> EmptyMap]

\* The bound holds for the ids too: those from a file may be anything.
CanRegister == registrations < MaxRegistrations /\ idSequence <= MaxRegistrations

\* The answer is the token of the new device, whether or not the map took it.
RegisterDevice(key) ==
    LET device == NewDevice(idSequence, key) IN
    /\ CanRegister
    /\ Answer("CREATED", device.token)
    /\ devices' = Emplaced(devices, idSequence, device)
    /\ idSequence' = idSequence + 1
    /\ registered' = Stored(registered, idSequence, device.token)
    /\ registrations' = registrations + 1
    /\ UNCHANGED loaded

\* Mutant: the token is only decoded.
AuthCheckById(token) ==
    IF token.deviceID \notin DOMAIN devices THEN "BAD_REQUEST" ELSE "OK"

AuthCheck(token) ==
    IF token.deviceID \notin DOMAIN devices THEN "BAD_REQUEST"
    ELSE IF devices[token.deviceID].token # token THEN "UNAUTHORIZED"
    ELSE "OK"

\* Mutant: the next id is the number of the devices there are.
DeleteAndRecount(token) ==
    /\ AuthCheck(token) = "OK"
    /\ Answer("OK", token)
    /\ devices' = Erased(devices, token.deviceID)
    /\ idSequence' = Cardinality(DOMAIN devices)
    /\ registered' = Erased(registered, token.deviceID)
    /\ loaded' = Erased(loaded, token.deviceID)
    /\ UNCHANGED registrations

DeleteDevice(token) ==
    /\ AuthCheck(token) = "OK"
    /\ Answer("OK", token)
    /\ devices' = Erased(devices, token.deviceID)
    /\ registered' = Erased(registered, token.deviceID)
    /\ loaded' = Erased(loaded, token.deviceID)
    /\ UNCHANGED <<idSequence, registrations>>

\* The handlers that read a pin or the status, and the one that passes a ping
\* on to the timer, leave the registry as it is.
Consult(token) ==
    /\ AuthCheck(token) = "OK"
    /\ Answer("OK", token)
    /\ UNCHANGED devices /\ SameRegistry

\* What the seven handlers that take a token answer when authCheck fails or
\* the command is not theirs, and the four for pins when the pin number does
\* not convert, which they find out first.
Refuse(token) ==
    /\ \/ AuthCheck(token) # "OK" /\ Answer(AuthCheck(token), token)
       \/ AuthCheck(token) = "OK" /\ Answer("BAD_REQUEST", token)
       \/ PinTexts \ DOMAIN Stoi # {} /\ Answer("EXCEPTION", token)
    /\ UNCHANGED devices /\ SameRegistry

-----------------------------------------------------------------------------
\* A handler that got past authCheck: done tells whether the device does what
\* it is asked, d is the device afterwards.
Update(token, done, status, d) ==
    /\ \/ done /\ Answer(status, token)
          /\ devices' = [devices EXCEPT ![token.deviceID] = d]
       \/ ~done /\ Answer("BAD_REQUEST", token) /\ UNCHANGED devices
    /\ SameRegistry

\* std::stoi and std::stod throw through the handler.
Throw(token) ==
    /\ Answer("EXCEPTION", token)
    /\ UNCHANGED devices /\ SameRegistry

\* Mutant: the pin is there before its data is converted.
CreatePinThenConvert(token, n, type, text) ==
    LET d == devices[token.deviceID]
        fails == Addable(d, n, type) /\ text \notin Accepted(type)
    IN
    /\ AuthCheck(token) = "OK"
    /\ Update(token, Addable(d, n, type),
              IF fails THEN "EXCEPTION" ELSE "CREATED",
              WithPin(d, n, Pin(IF fails THEN "s" ELSE type, text)))

CreatePin(token, n, type, text) ==
    LET d == devices[token.deviceID] IN
    /\ AuthCheck(token) = "OK"
    /\ IF Addable(d, n, type) /\ text \notin Accepted(type)
       THEN Throw(token)
       ELSE Update(token, Addable(d, n, type), "CREATED",
                   WithPin(d, n, Pin(type, text)))

\* Mutant: the value is emplaced, where there is one.
UpdatePinEmplaced(token, n, text) ==
    LET d == devices[token.deviceID]
        exists == n \in DOMAIN d.pins
    IN
    /\ AuthCheck(token) = "OK"
    /\ IF exists /\ text \notin Accepted(d.pins[n].type)
       THEN Throw(token)
       ELSE Update(token, exists, "OK", d)

\* Mutant: the value is stored with operator[], which makes a pin of it.
UpdatePinOrCreate(token, n, text) ==
    LET d == devices[token.deviceID]
        exists == n \in DOMAIN d.pins
        type == IF exists THEN d.pins[n].type ELSE "s"
    IN
    /\ AuthCheck(token) = "OK"
    /\ IF text \notin Accepted(type)
       THEN Throw(token)
       ELSE Update(token, TRUE, "OK",
                   [d EXCEPT !.pins = Stored(d.pins, n, Pin(type, text))])

UpdatePin(token, n, text) ==
    LET d == devices[token.deviceID]
        exists == n \in DOMAIN d.pins
    IN
    /\ AuthCheck(token) = "OK"
    /\ IF exists /\ text \notin Accepted(d.pins[n].type)
       THEN Throw(token)
       ELSE Update(token, exists, "OK",
                   [d EXCEPT !.pins[n] = Pin(d.pins[n].type, text)])

DeletePin(token, n) ==
    LET d == devices[token.deviceID] IN
    /\ AuthCheck(token) = "OK"
    /\ Update(token, n \in DOMAIN d.pins, "OK", WithoutPin(d, n))

-----------------------------------------------------------------------------
Request ==
    \/ \E key \in Keys : RegisterDevice(key)
    \/ \E token \in RequestTokens :
          \/ DeleteDevice(token)
          \/ Consult(token)
          \/ Refuse(token)
          \/ \E n \in {PinNumber(text) : text \in PinTexts \cap DOMAIN Stoi} :
                \/ DeletePin(token, n)
                \/ \E text \in Texts :
                      \/ UpdatePin(token, n, text)
                      \/ \E type \in DataTypes : CreatePin(token, n, type, text)

Next == \/ Start \/ Shutdown \/ Crash \/ CrashWhileSaving \/ CreateFile
        \/ Request

Spec == Init /\ [][Next]_vars

-----------------------------------------------------------------------------
(***************************************************************************)
(* Properties.                                                             *)
(***************************************************************************)

\* The ids of the devices that their own tokens do not lead to.
Misplaced(map) == {id \in DOMAIN map : map[id].token.deviceID # id}

\* authCheck finds a device by the id in the token and then compares the
\* tokens.  That locks no device out, through registrations, loads and reused
\* ids: the map holds every device under the id its own token names, but for
\* one at most for every save that a crash cut off in the middle of a device.
TokenNamesItsDevice == Cardinality(Misplaced(devices)) <= cuts

\* The token that a registration was answered with works until the device is
\* deleted or the process ends, unless the id was taken by a device from the
\* file.  Within one run no registration takes the id of another.
RegistrationServed ==
    \A id \in DOMAIN registered :
        /\ id \in DOMAIN devices
        /\ id \in DOMAIN loaded \/ devices[id].token = registered[id]

\* The counter that addPin compares with the limit is the number of pins, and
\* the limit holds, for every device registered in this run: whatever creates,
\* updates and deletions did, the ones that failed or threw included.
PinLimit ==
    \A id \in DOMAIN devices \ DOMAIN loaded :
        /\ devices[id].counter = Cardinality(DOMAIN devices[id].pins)
        /\ devices[id].counter <= devices[id].maxPins

\* The counter of a device from the file starts at 0 and counts the pins it
\* gained since, in its width: it stands below zero, as a large number, after
\* it lost some.  A run adds at most the limit to the pins that were loaded.
LoadedPinLimit ==
    \A id \in DOMAIN loaded :
        LET gained == Cardinality(DOMAIN devices[id].pins)
                      - Cardinality(DOMAIN loaded[id].pins)
        IN  /\ devices[id].counter \in {gained, gained + CounterRange}
            /\ gained <= devices[id].maxPins

\* No request changes or removes a device other than the one whose token it
\* carries; a registration, which carries none, changes no device.
OnlyOwnerChanges ==
    [][up /\ up' =>
          \A id \in DOMAIN devices :
              \/ id \in DOMAIN devices' /\ devices'[id] = devices[id]
              \/ response'.token = devices[id].token]_vars

IsSaved(id, d) ==
    \E entry \in saved.entries :
        /\ entry.id = id
        /\ entry.device = [d EXCEPT !.counter = entry.device.counter]

\* A restart loads what was saved: every device is one of the last save, or,
\* when a crash cut that off, of the text it was written over, with its id,
\* token, limit and pins, but for one device at the cut.  It loads all of them
\* when the save was whole, its text filled the file and every double in it is
\* a number.
RestartRestores ==
    [][~up /\ up' =>
          LET new == {id \in DOMAIN devices' : ~IsSaved(id, devices'[id])} IN
          /\ Cardinality(new) <= (IF saved.cut THEN 1 ELSE 0)
          /\ /\ ~saved.cut /\ saved.length = file.size
             /\ \A entry \in saved.entries : Finite(entry.device)
             => {entry.id : entry \in saved.entries} = DOMAIN devices']_vars

\* The registry implements DeviceStore: to the owner of a token it is a table
\* from tokens to pins, whatever ids are reused, loaded or in the way, and a
\* refused request changes nothing, in which step of the handler it failed.  A
\* device that its token does not lead to has no owner.
Table(map) == [token \in {map[id].token : id \in DOMAIN map \ Misplaced(map)} |->
                  map[token.deviceID].pins]

InFile(text) ==
    {<<entry.device.token, entry.device.pins>> :
        entry \in {e \in Range(text) : e.device.token.deviceID = e.id}}

Store == INSTANCE DeviceStore WITH
             Tokens <- RequestTokens, Numbers <- PinNumbers,
             serving <- up, table <- Table(devices),
             kept <- InFile(file.entries), readable <- file.parses,
             answer <- response.status

ImplementsDeviceStore == Store!Spec

-----------------------------------------------------------------------------
(***************************************************************************)
(* What the repository's tests and comments say and the code does not do.  *)
(***************************************************************************)

\* The test of a registration takes the token of the answer to be the token
\* of the device in the map.
AnswerIsServed ==
    \A id \in DOMAIN registered :
        id \in DOMAIN devices /\ devices[id].token = registered[id]

\* addPin says that the number of pins must be less than the limit, and at
\* the least it must never exceed it.
PinsWithinLimit ==
    \A id \in DOMAIN devices :
        Cardinality(DOMAIN devices[id].pins) <= devices[id].maxPins

\* The test of saveFile and loadFile finds the devices it saved.
LoadFindsSaved ==
    [][~up /\ up' =>
          {entry.id : entry \in saved.entries} \subseteq DOMAIN devices']_vars

=============================================================================
