------------------------- MODULE DeviceStoreProofs -------------------------
(***************************************************************************)
(* The registry implements DeviceStore, for all texts and what their       *)
(* conversions make of them, all limits and any number of devices: every   *)
(* step of it is one of the table from tokens to pins, or leaves the table *)
(* as it is.  A device is in the table when its token leads to it; one     *)
(* that it does not lead to, after a save was cut off, no request reaches. *)
(***************************************************************************)
EXTENDS DeviceRegistryProofs

-----------------------------------------------------------------------------
(***************************************************************************)
(* The table of a map of devices.                                          *)
(***************************************************************************)

\* A device that its token leads to is found by it, and there is no other in the
\* table.
LEMMA TableEntries ==
  ASSUME NEW map
  PROVE  /\ \A id \in DOMAIN map : map[id].token.deviceID = id =>
               /\ map[id].token \in DOMAIN Table(map)
               /\ Table(map)[map[id].token] = map[id].pins
         /\ \A token \in DOMAIN Table(map) :
               /\ token.deviceID \in DOMAIN map
               /\ map[token.deviceID].token = token
               /\ Table(map)[token] = map[token.deviceID].pins
  BY DEF Misplaced, Table

\* The table of no devices.
LEMMA TableOfNone == Table(EmptyMap) = Store!Nothing
  BY DEF Table, Misplaced, EmptyMap, Store!Nothing

\* Other pins for one device are other pins behind its token.
LEMMA TableChanged ==
  ASSUME NEW map, NEW id \in DOMAIN map, map[id].token.deviceID = id, NEW new,
         DOMAIN new = DOMAIN map, new[id].token = map[id].token,
         \A k \in DOMAIN map \ {id} : new[k] = map[k]
  PROVE  Table(new) = [Table(map) EXCEPT ![map[id].token] = new[id].pins]
  <1> DEFINE token == map[id].token
             changed == [t \in DOMAIN Table(map) |->
                           IF t = token THEN new[id].pins ELSE Table(map)[t]]
  <1>1. \A k \in DOMAIN map : new[k].token = map[k].token
    OBVIOUS
  <1>2. DOMAIN Table(new) = DOMAIN Table(map)
    <2>1. Misplaced(new) = Misplaced(map)
      BY <1>1 DEF Misplaced
    <2>2. QED
      BY <1>1, <2>1 DEF Table
  <1>3. \A t \in DOMAIN Table(map) : Table(new)[t] = changed[t]
    BY <1>1, <1>2, TableEntries
  <1>4. Table(new) = changed
    BY <1>2, <1>3 DEF Table
  <1>5. [Table(map) EXCEPT ![token] = new[id].pins] = changed
    OBVIOUS
  <1>6. QED
    BY <1>4, <1>5

\* Erasing a device takes its token out of the table.
LEMMA TableErased ==
  ASSUME NEW map, NEW id \in DOMAIN map, map[id].token.deviceID = id
  PROVE  Table(Erased(map, id)) = Store!Without(Table(map), map[id].token)
  <1> DEFINE new == Erased(map, id)
             token == map[id].token
  <1>1. /\ DOMAIN new = DOMAIN map \ {id}
        /\ \A k \in DOMAIN map \ {id} : new[k] = map[k]
    BY DEF Erased, Restrict
  <1> HIDE DEF new
  <1>2. DOMAIN Table(new) = DOMAIN Table(map) \ {token}
    <2>1. ASSUME NEW t \in DOMAIN Table(new)
          PROVE  t \in DOMAIN Table(map) /\ t # token
      <3>1. /\ t.deviceID \in DOMAIN map \ {id}
            /\ map[t.deviceID].token = t
        BY <1>1, TableEntries
      <3>2. QED
        BY <3>1, TableEntries
    <2>2. ASSUME NEW t \in DOMAIN Table(map) \ {token}
          PROVE  t \in DOMAIN Table(new)
      <3>1. /\ t.deviceID \in DOMAIN map /\ map[t.deviceID].token = t
            /\ t.deviceID # id
        BY TableEntries
      <3>2. QED
        BY <1>1, <3>1, TableEntries
    <2>3. QED
      BY <2>1, <2>2
  <1>3. \A t \in DOMAIN Table(new) : Table(new)[t] = Table(map)[t]
    BY <1>1, <1>2, TableEntries
  <1>4. Table(new) = [t \in DOMAIN Table(map) \ {token} |-> Table(map)[t]]
    BY <1>2, <1>3 DEF Table
  <1>5. QED
    BY <1>4 DEF new, Store!Without, Store!Restrict

\* A device under a new id puts a new token into the table.
LEMMA TableStored ==
  ASSUME NEW map, NEW id, id \notin DOMAIN map,
         NEW d, d.token.deviceID = id
  PROVE  /\ d.token \notin DOMAIN Table(map)
         /\ Table(Stored(map, id, d)) = Store!With(Table(map), d.token, d.pins)
  <1> DEFINE new == Stored(map, id, d)
  <1>1. /\ DOMAIN new = DOMAIN map \cup {id} /\ new[id] = d
        /\ \A k \in DOMAIN map : new[k] = map[k]
    BY DEF Stored
  <1> HIDE DEF new
  <1>2. d.token \notin DOMAIN Table(map)
    BY TableEntries
  <1>3. DOMAIN Table(new) = DOMAIN Table(map) \cup {d.token}
    <2>1. ASSUME NEW t \in DOMAIN Table(new)
          PROVE  t \in DOMAIN Table(map) \cup {d.token}
      <3>1. /\ t.deviceID \in DOMAIN map \cup {id}
            /\ new[t.deviceID].token = t
        BY <1>1, TableEntries
      <3>2. CASE t.deviceID = id
        BY <1>1, <3>1, <3>2
      <3>3. CASE t.deviceID # id
        BY <1>1, <3>1, <3>3, TableEntries
      <3>4. QED
        BY <3>2, <3>3
    <2>2. ASSUME NEW t \in DOMAIN Table(map) PROVE t \in DOMAIN Table(new)
      <3>1. t.deviceID \in DOMAIN map /\ map[t.deviceID].token = t
        BY TableEntries
      <3>2. QED
        BY <1>1, <3>1, TableEntries
    <2>3. d.token \in DOMAIN Table(new)
      BY <1>1, TableEntries
    <2>4. QED
      BY <2>1, <2>2, <2>3
  <1>4. ASSUME NEW token \in DOMAIN Table(map) \cup {d.token}
        PROVE  Table(new)[token] =
                  IF token = d.token THEN d.pins ELSE Table(map)[token]
    BY <1>1, <1>2, <1>3, TableEntries
  <1>5. Table(new) = [token \in DOMAIN Table(map) \cup {d.token} |->
                        IF token = d.token THEN d.pins ELSE Table(map)[token]]
    BY <1>3, <1>4 DEF Table
  <1>6. QED
    BY <1>2, <1>5 DEF new, Store!With

-----------------------------------------------------------------------------
(***************************************************************************)
(* What a file keeps of a table.                                           *)
(***************************************************************************)

\* A table is what its pairs say.
LEMMA PairsOfTable ==
  ASSUME NEW map
  PROVE  Store!AsMap(Store!Pairs(Table(map))) = Table(map)
  <1> DEFINE t == Table(map)
             pairs == Store!Pairs(t)
  <1>1. t = [token \in DOMAIN t |-> t[token]]
    BY DEF Table
  <1> HIDE DEF t
  <1>2. /\ \A pair \in pairs : /\ pair[1] \in DOMAIN t
                               /\ pair[2] = t[pair[1]]
        /\ \A token \in DOMAIN t : \E pair \in pairs : pair[1] = token
    <2>1. ASSUME NEW pair \in pairs
          PROVE  pair[1] \in DOMAIN t /\ pair[2] = t[pair[1]]
      <3>1. PICK token \in DOMAIN t : pair = <<token, t[token]>>
        BY DEF Store!Pairs
      <3>2. QED
        BY <3>1
    <2>2. ASSUME NEW token \in DOMAIN t
          PROVE  \E pair \in pairs : pair[1] = token
      <3>1. <<token, t[token]>> \in pairs /\ <<token, t[token]>>[1] = token
        BY DEF Store!Pairs
      <3> HIDE DEF pairs
      <3>2. QED
        BY <3>1
    <2>3. QED
      BY <2>1, <2>2
  <1> HIDE DEF pairs
  <1>3. \A token \in DOMAIN t :
           (CHOOSE pair \in pairs : pair[1] = token)[2] = t[token]
    BY <1>2
  <1>4. Store!AsMap(pairs) = [token \in DOMAIN t |-> t[token]]
    <2>1. {pair[1] : pair \in pairs} = DOMAIN t
      <3>1. \A token \in {pair[1] : pair \in pairs} : token \in DOMAIN t
        BY <1>2
      <3>2. \A token \in DOMAIN t : token \in {pair[1] : pair \in pairs}
        BY <1>2
      <3>3. QED
        BY <3>1, <3>2
    <2>2. QED
      BY <1>3, <2>1 DEF Store!AsMap
  <1>5. QED
    BY <1>1, <1>4 DEF t, pairs

\* What a text has more than another, it keeps more.
LEMMA InFileMembers ==
  ASSUME NEW text
  PROVE  /\ \A e \in Range(text) : e.device.token.deviceID = e.id =>
               <<e.device.token, e.device.pins>> \in InFile(text)
         /\ \A pair \in InFile(text) : \E e \in Range(text) :
               /\ e.device.token.deviceID = e.id
               /\ pair = <<e.device.token, e.device.pins>>
  BY DEF InFile

\* A whole save keeps the whole table.
LEMMA DumpKeepsTable ==
  ASSUME IInv, NEW new \in Dumps
  PROVE  InFile(new) = Store!Pairs(Table(devices))
  <1> DEFINE pairs == Store!Pairs(Table(devices))
  <1>1. /\ \A entry \in Range(new) : /\ entry.id \in DOMAIN devices
                                     /\ entry.device = devices[entry.id]
        /\ \A id \in DOMAIN devices : \E entry \in Range(new) : entry.id = id
    BY DumpedText
  <1>2. ASSUME NEW pair \in InFile(new) PROVE pair \in pairs
    <2>1. PICK e \in Range(new) : /\ e.device.token.deviceID = e.id
                                  /\ pair = <<e.device.token, e.device.pins>>
      BY InFileMembers
    <2>2. /\ e.device.token \in DOMAIN Table(devices)
          /\ Table(devices)[e.device.token] = e.device.pins
      BY <1>1, <2>1, TableEntries
    <2>3. QED
      BY <2>1, <2>2 DEF Store!Pairs
  <1>3. ASSUME NEW token \in DOMAIN Table(devices)
        PROVE  <<token, Table(devices)[token]>> \in InFile(new)
    <2>1. /\ token.deviceID \in DOMAIN devices
          /\ devices[token.deviceID].token = token
          /\ Table(devices)[token] = devices[token.deviceID].pins
      BY TableEntries
    <2>2. PICK e \in Range(new) : e.id = token.deviceID
      BY <1>1, <2>1
    <2>3. e.device = devices[token.deviceID]
      BY <1>1, <2>2
    <2>4. QED
      BY <2>1, <2>2, <2>3, InFileMembers
  <1>4. QED
    BY <1>2, <1>3 DEF Store!Pairs

-----------------------------------------------------------------------------
(***************************************************************************)
(* Requests.                                                               *)
(***************************************************************************)

\* authCheck lets through the tokens in the table and no others.
LEMMA AuthorisedEntry ==
  ASSUME IInv, NEW token, AuthCheck(token) = "OK"
  PROVE  /\ token \in DOMAIN Table(devices)
         /\ Table(devices)[token] = devices[token.deviceID].pins
         /\ token.deviceID \in DOMAIN devices
         /\ devices[token.deviceID] \in Devices
         /\ devices[token.deviceID].token = token
  BY Authorised, AuthorisedDevice, TableEntries DEF IInv

\* A request that fails, with whatever status, leaves the table alone.
LEMMA Refused ==
  ASSUME NEW token,
         NEW status \in {"BAD_REQUEST", "UNAUTHORIZED", "EXCEPTION"},
         Answer(status, token), UNCHANGED devices
  PROVE  Store!Refuse
  BY DEF Answer, disk, Store!Refuse, Store!Answer

\* A request that succeeds changes the pins behind its own token.
LEMMA Updated ==
  ASSUME IInv, NEW token, AuthCheck(token) = "OK", NEW status,
         NEW d, d.token = token,
         Answer(status, token),
         devices' = [devices EXCEPT ![token.deviceID] = d]
  PROVE  Store!Update(token, status, d.pins)
  <1>1. /\ token.deviceID \in DOMAIN devices
        /\ devices[token.deviceID].token = token
    BY AuthorisedEntry
  <1>2. Table(devices') = [Table(devices) EXCEPT ![token] = d.pins]
    <2>1. /\ DOMAIN devices' = DOMAIN devices /\ devices'[token.deviceID] = d
          /\ \A k \in DOMAIN devices \ {token.deviceID} :
                devices'[k] = devices[k]
      BY <1>1
    <2> DEFINE id == token.deviceID
               new == devices'
    <2>2. /\ id \in DOMAIN devices /\ devices[id].token.deviceID = id
          /\ DOMAIN new = DOMAIN devices
          /\ new[id].token = devices[id].token
          /\ \A k \in DOMAIN devices \ {id} : new[k] = devices[k]
      BY <1>1, <2>1
    <2> HIDE DEF id, new
    <2>3. Table(new) = [Table(devices) EXCEPT ![devices[id].token] = new[id].pins]
      BY ONLY <2>2, TableChanged
    <2>4. QED
      BY <1>1, <2>1, <2>3 DEF id, new
  <1>3. /\ up /\ up' = up /\ file' = file /\ response'.status = status
    BY DEF Answer, disk
  <1>4. QED
    BY <1>2, <1>3, AuthorisedEntry DEF Store!Update, Store!Granted, Store!Answer

\* A pin has the type it was made for.
LEMMA TypeOfPin ==
  ASSUME NEW type, NEW text
  PROVE  Pin(type, text).type = type
  BY DEF Pin

\* Creating a pin adds it to the table, or nothing happens.
LEMMA CreatePinStep ==
  ASSUME IInv, NEW token, NEW n \in PinNumbers, NEW type, NEW text,
         CreatePin(token, n, type, text)
  PROVE  \/ Store!Refuse
         \/ /\ Pin(type, text) \in Pins
            /\ Store!AddPin(token, n, Pin(type, text))
  <1> DEFINE d == devices[token.deviceID]
             pin == Pin(type, text)
             new == WithPin(d, n, pin)
  <1>1. AuthCheck(token) = "OK" /\ d \in Devices /\ d.token = token
    BY AuthorisedEntry DEF CreatePin
  <1>2. CASE Throw(token) \/ (Answer("BAD_REQUEST", token) /\ UNCHANGED devices)
    BY <1>2, Refused DEF Throw
  <1>3. CASE /\ Addable(d, n, type) /\ text \in Accepted(type)
             /\ Answer("CREATED", token)
             /\ devices' = [devices EXCEPT ![token.deviceID] = new]
    <2>1. pin \in Pins /\ n \notin DOMAIN d.pins
      BY <1>3, PinOfAccepted DEF Addable
    <2>2. new.token = token /\ new.pins = Store!With(d.pins, n, pin)
      <3> HIDE DEF d, pin
      <3>1. QED
        BY <1>1, <2>1 DEF WithPin, Devices, Emplaced, Stored, Store!With
    <2>3. Store!Update(token, "CREATED", new.pins)
      <3> HIDE DEF new
      <3>1. QED
        BY <1>1, <1>3, <2>2, Updated
    <2>4. Store!AddPin(token, n, pin)
      BY <1>1, <2>1, <2>2, <2>3, AuthorisedEntry DEF Store!AddPin
    <2>5. QED
      BY <2>1, <2>4
  <1>4. QED
    BY <1>2, <1>3 DEF CreatePin, Update

\* New data replace a pin by one of the same type, or nothing happens.
LEMMA UpdatePinStep ==
  ASSUME IInv, NEW token, NEW n \in PinNumbers, NEW text,
         UpdatePin(token, n, text)
  PROVE  \/ Store!Refuse
         \/ \E type \in PinTypes :
               /\ text \in Accepted(type) /\ Pin(type, text) \in Pins
               /\ Store!ChangePin(token, n, Pin(type, text))
  <1> DEFINE d == devices[token.deviceID]
             type == d.pins[n].type
             pin == Pin(type, text)
             new == [d EXCEPT !.pins[n] = pin]
  <1>1. AuthCheck(token) = "OK" /\ d \in Devices /\ d.token = token
    BY AuthorisedEntry DEF UpdatePin
  <1>2. CASE Throw(token) \/ (Answer("BAD_REQUEST", token) /\ UNCHANGED devices)
    BY <1>2, Refused DEF Throw
  <1>3. CASE /\ n \in DOMAIN d.pins /\ text \in Accepted(type)
             /\ Answer("OK", token)
             /\ devices' = [devices EXCEPT ![token.deviceID] = new]
    <2>1. d.pins \in [DOMAIN d.pins -> Pins]
      BY <1>1, PinsOfDevice
    <2>2. type \in PinTypes
      BY <1>3, <2>1 DEF Pins, PinTypes
    <2>3. pin \in Pins /\ pin.type = type
      BY <1>3, <2>2, PinOfAccepted, TypeOfPin
    <2>4. new.token = token /\ new.pins = Store!With(d.pins, n, pin)
      <3> HIDE DEF pin
      <3>1. new.pins = [d.pins EXCEPT ![n] = pin] /\ new.token = d.token
        BY <1>1 DEF Devices
      <3>2. Store!With(d.pins, n, pin) = [d.pins EXCEPT ![n] = pin]
        BY <1>3, <2>1 DEF Store!With
      <3>3. QED
        BY <1>1, <3>1, <3>2
    <2>5. Store!Update(token, "OK", new.pins)
      <3> HIDE DEF new
      <3>1. QED
        BY <1>1, <1>3, <2>4, Updated
    <2>6. Store!ChangePin(token, n, pin)
      BY <1>1, <1>3, <2>3, <2>4, <2>5, AuthorisedEntry DEF Store!ChangePin
    <2>7. QED
      BY <1>3, <2>2, <2>3, <2>6
  <1>4. QED
    BY <1>2, <1>3 DEF UpdatePin, Update

\* Deleting a pin takes it out of the table, or nothing happens.
LEMMA DeletePinStep ==
  ASSUME IInv, NEW token, NEW n, DeletePin(token, n)
  PROVE  Store!Refuse \/ Store!RemovePin(token, n)
  <1> DEFINE d == devices[token.deviceID]
             new == WithoutPin(d, n)
  <1>1. AuthCheck(token) = "OK" /\ d \in Devices /\ d.token = token
    BY AuthorisedEntry DEF DeletePin
  <1>2. CASE Answer("BAD_REQUEST", token) /\ UNCHANGED devices
    BY <1>2, Refused
  <1>3. CASE /\ n \in DOMAIN d.pins /\ Answer("OK", token)
             /\ devices' = [devices EXCEPT ![token.deviceID] = new]
    <2>1. new.token = token /\ new.pins = Store!Without(d.pins, n)
      <3> HIDE DEF d
      <3>1. QED
        BY <1>1 DEF WithoutPin, Devices, Erased, Restrict, Store!Without,
           Store!Restrict
    <2>2. Store!Update(token, "OK", new.pins)
      <3> HIDE DEF new
      <3>1. QED
        BY <1>1, <1>3, <2>1, Updated
    <2>3. QED
      BY <1>1, <1>3, <2>1, <2>2, AuthorisedEntry DEF Store!RemovePin
  <1>4. QED
    BY <1>2, <1>3 DEF DeletePin, Update

\* A registration puts a new token into the table, or the id is taken and the
\* table stays as it is.
LEMMA RegisterStep ==
  ASSUME IInv, NEW key \in Keys, RegisterDevice(key)
  PROVE  \E token \in RequestTokens : Store!Register(token)
  <1> DEFINE d == NewDevice(idSequence, key)
             token == d.token
  <1>1. /\ token = [deviceID |-> idSequence, key |-> key]
        /\ d.pins = EmptyMap
    BY DEF NewDevice
  <1>2. token \in RequestTokens
    <2>1. idSequence \in 0 .. MaxRegistrations
      BY BoundAssumption DEF RegisterDevice, CanRegister, IInv, TypeOK, Ids
    <2>2. QED
      BY <1>1, <2>1 DEF RequestTokens
  <1>3. /\ up /\ up' = up /\ file' = file /\ response'.status = "CREATED"
        /\ devices' = Emplaced(devices, idSequence, d)
    BY DEF RegisterDevice, Answer, disk
  <1>4. CASE idSequence \in DOMAIN devices
    BY <1>2, <1>3, <1>4 DEF Emplaced, Store!Register, Store!Answer
  <1>5. CASE idSequence \notin DOMAIN devices
    <2>1. devices' = Stored(devices, idSequence, d)
      BY <1>3, <1>5 DEF Emplaced
    <2>2. d.pins = Store!Nothing /\ token.deviceID = idSequence
      BY <1>1 DEF EmptyMap, Store!Nothing
    <2> HIDE DEF d
    <2>3. /\ token \notin DOMAIN Table(devices)
          /\ Table(devices') = Store!With(Table(devices), token, Store!Nothing)
      BY <1>5, <2>1, <2>2, TableStored
    <2>4. QED
      BY <1>2, <1>3, <2>3 DEF Store!Register, Store!Answer
  <1>6. QED
    BY <1>4, <1>5

\* A deletion takes the token out of the table.
LEMMA DeleteStep ==
  ASSUME IInv, NEW token, DeleteDevice(token)
  PROVE  Store!Remove(token)
  <1>1. /\ AuthCheck(token) = "OK"
        /\ up /\ up' = up /\ file' = file /\ response'.status = "OK"
        /\ devices' = Erased(devices, token.deviceID)
    BY DEF DeleteDevice, Answer, disk
  <1>2. Table(devices') = Store!Without(Table(devices), token)
    BY <1>1, AuthorisedEntry, TableErased DEF IInv
  <1>3. QED
    BY <1>1, <1>2, AuthorisedEntry DEF Store!Remove, Store!Granted, Store!Answer

\* A request that only looks changes nothing, and the token is one that works.
LEMMA ConsultStep ==
  ASSUME IInv, NEW token, Consult(token)
  PROVE  Store!Look(token)
  BY AuthorisedEntry
  DEF Consult, Answer, disk, Store!Look, Store!Granted, Store!Answer

\* A request that is refused changes nothing.
LEMMA RefuseStep ==
  ASSUME NEW token, Refuse(token)
  PROVE  Store!Refuse
  <1>1. AuthCheck(token) \in {"OK", "BAD_REQUEST", "UNAUTHORIZED"}
    BY DEF AuthCheck
  <1>2. QED
    BY <1>1, Refused DEF Refuse

\* Every request is one of the table.
LEMMA RequestStep ==
  ASSUME IInv, Request
  PROVE  Store!Request
  <1>1. ASSUME NEW key \in Keys, RegisterDevice(key) PROVE Store!Request
    BY <1>1, RegisterStep DEF Store!Request
  <1>2. ASSUME NEW token \in RequestTokens, DeleteDevice(token)
        PROVE  Store!Request
    BY <1>2, DeleteStep DEF Store!Request, Store!Remove, Store!Granted
  <1>3. ASSUME NEW token \in RequestTokens, Consult(token) \/ Refuse(token)
        PROVE  Store!Request
    BY <1>3, ConsultStep, RefuseStep DEF Store!Request, Store!Look, Store!Granted
  <1>4. ASSUME NEW token \in RequestTokens,
               NEW n \in {PinNumber(text) : text \in PinTexts \cap DOMAIN Stoi},
               \/ DeletePin(token, n)
               \/ \E text \in Texts :
                     \/ UpdatePin(token, n, text)
                     \/ \E type \in DataTypes : CreatePin(token, n, type, text)
        PROVE  Store!Request
    <2>1. n \in PinNumbers
      BY PinNumberRange
    <2>2. CASE DeletePin(token, n)
      BY <2>1, <2>2, DeletePinStep
      DEF Store!Request, Store!RemovePin, Store!Update, Store!Granted
    <2>3. ASSUME NEW text \in Texts, UpdatePin(token, n, text)
          PROVE  Store!Request
      <3>1. Store!Refuse \/ \E pin \in Pins : Store!ChangePin(token, n, pin)
        BY <2>1, <2>3, UpdatePinStep
      <3>2. token \in DOMAIN Table(devices)
        BY <2>3, AuthorisedEntry DEF UpdatePin
      <3>3. QED
        BY <2>1, <3>1, <3>2 DEF Store!Request
    <2>4. ASSUME NEW text \in Texts, NEW type \in DataTypes,
                 CreatePin(token, n, type, text)
          PROVE  Store!Request
      <3>1. Store!Refuse \/ \E pin \in Pins : Store!AddPin(token, n, pin)
        BY <2>1, <2>4, CreatePinStep
      <3>2. token \in DOMAIN Table(devices)
        BY <2>4, AuthorisedEntry DEF CreatePin
      <3>3. QED
        BY <2>1, <3>1, <3>2 DEF Store!Request
    <2>5. QED
      BY <1>4, <2>2, <2>3, <2>4
  <1>5. QED
    BY <1>1, <1>2, <1>3, <1>4 DEF Request

-----------------------------------------------------------------------------
(***************************************************************************)
(* Starting and stopping.                                                  *)
(***************************************************************************)

\* A start brings back a part of what the file keeps, and nothing of one that
\* does not parse.
LEMMA StartStep ==
  ASSUME IInv, Start
  PROVE  Store!Start
  <1> DEFINE part == Store!Pairs(Table(devices'))
  <1>1. /\ up = FALSE /\ up' = TRUE /\ UNCHANGED <<file, response>>
    BY DEF Start, disk, IInv, TypeOK
  <1>2. Table(devices') = Store!AsMap(part)
    BY PairsOfTable
  <1>3. part \subseteq InFile(file.entries)
    <2> SUFFICES ASSUME NEW token \in DOMAIN Table(devices')
                 PROVE  <<token, Table(devices')[token]>> \in InFile(file.entries)
      BY DEF Store!Pairs
    <2>1. /\ token.deviceID \in DOMAIN devices'
          /\ devices'[token.deviceID].token = token
          /\ Table(devices')[token] = devices'[token.deviceID].pins
      BY TableEntries
    <2>2. PICK e \in Range(file.entries) :
             /\ e.id = token.deviceID
             /\ e.device = [devices'[token.deviceID]
                               EXCEPT !.counter = e.device.counter]
      BY <2>1, StartLoads
    <2>3. devices'[token.deviceID] \in Devices
      BY <2>1, StartIInv DEF IInv, TypeOK, IsIdMap
    <2>4. e.device.token = token /\ e.device.pins = Table(devices')[token]
      BY <2>1, <2>2, <2>3 DEF Devices
    <2>5. QED
      BY <2>2, <2>4, InFileMembers
  <1>4. ~file.parses => part = {}
    <2>1. ASSUME ~file.parses PROVE DOMAIN Table(devices') = {}
      BY <2>1, StartLoads, TableEntries
    <2>2. QED
      BY <2>1 DEF Store!Pairs
  <1> HIDE DEF part
  <1>5. QED
    BY <1>1, <1>2, <1>3, <1>4 DEF Store!Start

\* An end keeps all of the table, what was kept before, a part of it that no
\* start reads, or something of both and one device more.
LEMMA StopStep ==
  ASSUME IInv, Shutdown \/ Crash \/ CrashWhileSaving
  PROVE  Store!Stop
  <1> DEFINE kept == InFile(file.entries)
             pairs == Store!Pairs(Table(devices))
  <1>1. /\ up /\ up' = FALSE /\ devices' = EmptyMap
        /\ response'.status = "none"
    BY DEF Shutdown, Crash, CrashWhileSaving, Exit, NoResponse
  <1>2. Table(devices') = Store!Nothing
    BY <1>1, TableOfNone
  <1>3. ASSUME NEW text, Range(text) \subseteq Range(file.entries)
        PROVE  InFile(text) \subseteq kept
    BY <1>3, InFileMembers
  <1>4. CASE UNCHANGED <<saved, file>>
    BY <1>1, <1>2, <1>4 DEF Store!Stop
  <1>5. ASSUME NEW new \in Dumps, file' \in Overwritten(new)
        PROVE  Store!Stop
    <2>1. CASE file'.parses
      <3>1. file'.entries = new /\ file'.parses = TRUE
        BY <1>5, <2>1, OverwrittenText
      <3>2. Store!Keep
        BY <3>1, DumpKeepsTable DEF Store!Keep
      <3>3. QED
        BY <1>1, <1>2, <3>2 DEF Store!Stop
    <2>2. CASE ~file'.parses
      <3>1. InFile(file'.entries) \subseteq kept
        BY <1>3, <1>5, <2>2, OverwrittenText
      <3>2. QED
        BY <1>1, <1>2, <2>2, <3>1 DEF Store!Stop, Store!Spoil
    <2>3. QED
      BY <2>1, <2>2
  <1>6. ASSUME NEW new \in Dumps, file' \in Aligned(new)
        PROVE  Store!Stop
    <2>1. file'.parses = TRUE
      BY <1>6, AlignedText
    <2>2. PICK entry \in Entries :
             Range(file'.entries)
                 \subseteq Range(new) \cup {entry} \cup Range(file.entries)
      BY <1>6, AlignedText
    <2>3. InFile(new) = pairs
      BY DumpKeepsTable
    <2>4. ASSUME NEW pair \in InFile(file'.entries) \ (kept \cup pairs)
          PROVE  pair = <<entry.device.token, entry.device.pins>>
      <3>1. PICK e \in Range(file'.entries) :
               /\ e.device.token.deviceID = e.id
               /\ pair = <<e.device.token, e.device.pins>>
        BY InFileMembers
      <3>2. e \notin Range(new) /\ e \notin Range(file.entries)
        BY <2>3, <2>4, <3>1, InFileMembers
      <3>3. QED
        BY <2>2, <3>1, <3>2
    <2>5. Store!Mix
      BY <2>1, <2>4 DEF Store!Mix
    <2>6. QED
      BY <1>1, <1>2, <2>5 DEF Store!Stop
  <1>7. ASSUME NEW new \in Dumps, file' \in Spoiled(new)
        PROVE  Store!Stop
    <2>1. file'.parses = FALSE /\ InFile(file'.entries) \subseteq kept
      BY <1>3, <1>7, SpoiledText
    <2>2. QED
      BY <1>1, <1>2, <2>1 DEF Store!Stop, Store!Spoil
  <1>8. QED
    BY <1>4, <1>5, <1>6, <1>7 DEF Shutdown, Crash, CrashWhileSaving

\* Every step of the registry is a step of the table or leaves it as it is.
LEMMA StepImplementsStore ==
  IInv /\ [Next]_vars => [Store!Next]_(Store!vars)
  <1> SUFFICES ASSUME IInv, [Next]_vars PROVE [Store!Next]_(Store!vars)
    OBVIOUS
  <1>1. CASE Start
    BY <1>1, StartStep DEF Store!Next
  <1>2. CASE Shutdown \/ Crash \/ CrashWhileSaving
    BY <1>2, StopStep DEF Store!Next
  <1>3. CASE Request
    BY <1>3, RequestStep DEF Store!Next
  <1>4. CASE CreateFile
    BY <1>4 DEF CreateFile, Store!vars
  <1>5. CASE UNCHANGED vars
    BY <1>5 DEF vars, disk, Store!vars
  <1>6. QED
    BY <1>1, <1>2, <1>3, <1>4, <1>5 DEF Next

\* The server without devices and without a file is an empty table.
LEMMA InitImplementsStore == Init => Store!Init
  <1> SUFFICES ASSUME Init PROVE Store!Init
    OBVIOUS
  <1>1. /\ up = FALSE /\ devices = EmptyMap
        /\ file.entries = <<>> /\ file.parses = FALSE
        /\ response.status = "none"
    BY DEF Init, Text, NoResponse
  <1>2. InFile(file.entries) = {}
    BY <1>1 DEF InFile, Range
  <1>3. QED
    BY <1>1, <1>2, TableOfNone DEF Store!Init

\* The registry of devices implements the table from tokens to pins: through
\* registrations, deletions, failed conversions, reused ids, saves, crashes
\* and loads, a request happens to the pins behind its token as a whole or not
\* at all, and a start brings back nothing but what was kept, where a save that
\* was cut off keeps at most one token and pins that were neither in the table
\* nor kept before.
THEOREM ImplementsStore == Spec => ImplementsDeviceStore
  <1>1. Init => Store!Init
    BY InitImplementsStore
  <1>2. QED
    BY <1>1, StepImplementsStore, Invariance, PTL
    DEF Spec, ImplementsDeviceStore, Store!Spec

=============================================================================
