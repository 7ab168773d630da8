------------------------ MODULE DeviceRegistryProofs ------------------------
(***************************************************************************)
(* Theorems about DeviceRegistry, for all texts and what their conversions *)
(* make of them, all limits and all ranges of the counters.                *)
(***************************************************************************)
EXTENDS DeviceRegistry, FiniteSetTheorems, SequenceTheorems, TLAPS

-----------------------------------------------------------------------------
(***************************************************************************)
(* Lemmas about the operators of the registry.                             *)
(***************************************************************************)

\* A member of Maps is a function from a part of the keys to the values.
LEMMA MapsMembers ==
  ASSUME NEW keys, NEW values, NEW map
  PROVE  map \in Maps(keys, values) <=>
            DOMAIN map \subseteq keys /\ map \in [DOMAIN map -> values]
  BY DEF Maps

\* The empty map has no keys, whatever its values.
LEMMA EmptyMapType ==
  ASSUME NEW values
  PROVE  DOMAIN EmptyMap = {} /\ EmptyMap \in [{} -> values]
  BY DEF EmptyMap

\* emplace adds at most the key it is given and changes no other entry.
LEMMA EmplacedMap ==
  ASSUME NEW values, NEW map, map \in [DOMAIN map -> values],
         NEW key, NEW value \in values
  PROVE  /\ DOMAIN Emplaced(map, key, value) = DOMAIN map \cup {key}
         /\ Emplaced(map, key, value) \in [DOMAIN map \cup {key} -> values]
         /\ \A k \in DOMAIN map : Emplaced(map, key, value)[k] = map[k]
         /\ key \notin DOMAIN map => Emplaced(map, key, value)[key] = value
  BY DEF Emplaced, Stored

\* Erasing a key leaves the other entries as they are.
LEMMA ErasedMap ==
  ASSUME NEW values, NEW map, map \in [DOMAIN map -> values], NEW key
  PROVE  /\ DOMAIN Erased(map, key) = DOMAIN map \ {key}
         /\ Erased(map, key) \in [DOMAIN map \ {key} -> values]
         /\ \A k \in DOMAIN map \ {key} : Erased(map, key)[k] = map[k]
  BY DEF Erased, Restrict

\* Every limit fits in the width of the counter it is compared with.
LEMMA LimitsFit == MaxPinsOptions \subseteq 0 .. CounterRange - 1
  BY ArgumentAssumption, WidthAssumption DEF MaxPinsOptions

\* The pin number of every text that converts is one of the uint8_t range.
LEMMA PinNumberRange ==
  ASSUME NEW text \in DOMAIN Stoi
  PROVE  PinNumber(text) \in PinNumbers
  BY ConversionAssumption, WidthAssumption, LimitsFit DEF PinNumber, PinNumbers

\* A text that the conversion for a type accepts makes a pin.
LEMMA PinOfAccepted ==
  ASSUME NEW type \in PinTypes, NEW text \in Accepted(type)
  PROVE  Pin(type, text) \in Pins
  <1>1. CASE type = "i"
    BY <1>1 DEF Accepted, Pin, Pins, Range
  <1>2. CASE type = "d"
    BY <1>2 DEF Accepted, Pin, Pins, Range
  <1>3. CASE type = "s"
    BY <1>3 DEF Accepted, Pin, Pins
  <1>4. QED
    BY <1>1, <1>2, <1>3 DEF PinTypes

\* The pins of a device form a map, and are finitely many.
LEMMA PinsOfDevice ==
  ASSUME NEW d \in Devices
  PROVE  /\ DOMAIN d.pins \subseteq PinNumbers
         /\ d.pins \in [DOMAIN d.pins -> Pins]
         /\ IsFiniteSet(DOMAIN d.pins)
         /\ Cardinality(DOMAIN d.pins) \in 0 .. PinRange
  <1>1. d.pins \in Maps(PinNumbers, Pins)
    BY DEF Devices
  <1>2. DOMAIN d.pins \subseteq PinNumbers /\ d.pins \in [DOMAIN d.pins -> Pins]
    BY <1>1, MapsMembers
  <1>3. IsFiniteSet(PinNumbers) /\ Cardinality(PinNumbers) = PinRange
    <2>1. 0 \in Int /\ PinRange - 1 \in Int /\ PinRange \in Nat \ {0}
      BY WidthAssumption, LimitsFit
    <2>2. QED
      BY <2>1, FS_Interval DEF PinNumbers
  <1>4. /\ IsFiniteSet(DOMAIN d.pins)
        /\ Cardinality(DOMAIN d.pins) <= PinRange
    BY <1>2, <1>3, FS_Subset
  <1>5. Cardinality(DOMAIN d.pins) \in Nat
    BY <1>4, FS_CardinalityType
  <1>6. PinRange \in Nat
    BY WidthAssumption, LimitsFit
  <1>7. QED
    BY <1>2, <1>4, <1>5, <1>6

-----------------------------------------------------------------------------
(***************************************************************************)
(* Lemmas about texts, which are sequences of devices.                     *)
(***************************************************************************)

\* The elements of a sequence are those at its places, finitely many.
LEMMA SequenceRange ==
  ASSUME NEW S, NEW s \in Seq(S)
  PROVE  /\ Len(s) \in Nat /\ DOMAIN s = 1 .. Len(s)
         /\ Range(s) \subseteq S
         /\ \A i \in DOMAIN s : s[i] \in Range(s)
         /\ IsFiniteSet(DOMAIN s) /\ IsFiniteSet(Range(s))
  <1>1. Len(s) \in Nat /\ DOMAIN s = 1 .. Len(s) /\ s \in [DOMAIN s -> S]
    BY LenProperties
  <1>2. Range(s) \subseteq S /\ \A i \in DOMAIN s : s[i] \in Range(s)
    BY <1>1 DEF Range
  <1>3. IsFiniteSet(DOMAIN s)
    <2>1. 1 \in Int /\ Len(s) \in Int
      BY <1>1
    <2>2. QED
      BY <1>1, <2>1, FS_Interval
  <1>4. s \in Surjection(DOMAIN s, Range(s))
    BY <1>1 DEF Range, Surjection
  <1>5. QED
    BY <1>1, <1>2, <1>3, <1>4, FS_Surjection

\* What stands at the end of a text is of the text.
LEMMA TailOfText ==
  ASSUME NEW S, NEW s \in Seq(S), NEW tail \in Tails(s)
  PROVE  tail \in Seq(S) /\ Range(tail) \subseteq Range(s)
  <1>1. Len(s) \in Nat /\ DOMAIN s = 1 .. Len(s) /\ s \in [DOMAIN s -> S]
    BY LenProperties
  <1>2. PICK i \in 1 .. Len(s) + 1 : tail = SubSeq(s, i, Len(s))
    BY DEF Tails
  <1>3. \A j \in i .. Len(s) : s[j] \in Range(s) /\ s[j] \in S
    BY <1>1, <1>2 DEF Range
  <1>4. i \in Int /\ Len(s) \in Int
    BY <1>1, <1>2
  <1>5. tail \in Seq(S)
    BY <1>2, <1>3, <1>4, SubSeqProperties
  <1>6. tail \in Seq(Range(s))
    BY <1>2, <1>3, <1>4, SubSeqProperties
  <1>7. QED
    BY <1>5, <1>6, SequenceRange

\* Two texts that are joined at a device have what the two had, and that one.
LEMMA JoinedTexts ==
  ASSUME NEW S, NEW s \in Seq(S), NEW t \in Seq(S), NEW x \in S,
         NEW k \in DOMAIN s, NEW j \in DOMAIN t
  PROVE  LET joined == SubSeq(s, 1, k - 1) \o <<x>> \o SubSeq(t, j + 1, Len(t))
         IN  /\ joined \in Seq(S)
             /\ Range(joined) \subseteq Range(s) \cup {x} \cup Range(t)
  <1> DEFINE All == Range(s) \cup {x} \cup Range(t)
             first == SubSeq(s, 1, k - 1)
             last == SubSeq(t, j + 1, Len(t))
  <1>1. /\ Len(s) \in Nat /\ DOMAIN s = 1 .. Len(s)
        /\ Len(t) \in Nat /\ DOMAIN t = 1 .. Len(t)
    BY LenProperties
  <1>2. /\ \A i \in 1 .. k - 1 : s[i] \in All
        /\ \A i \in j + 1 .. Len(t) : t[i] \in All
    BY <1>1 DEF Range
  <1>3. All \subseteq S
    BY SequenceRange
  <1> HIDE DEF All
  <1>4. /\ 1 \in Int /\ k - 1 \in Int /\ j + 1 \in Int /\ Len(t) \in Int
    BY <1>1
  <1>5. first \in Seq(All)
    BY <1>2, <1>4, SubSeqProperties
  <1>6. last \in Seq(All)
    BY <1>2, <1>4, SubSeqProperties
  <1>7. <<x>> \in Seq(All)
    BY DEF All
  <1> HIDE DEF first, last
  <1>8. first \o <<x>> \in Seq(All)
    BY <1>5, <1>7, ConcatProperties
  <1>9. first \o <<x>> \o last \in Seq(All)
    BY <1>6, <1>8, ConcatProperties
  <1>10. /\ first \o <<x>> \o last \in Seq(S)
         /\ Range(first \o <<x>> \o last) \subseteq All
    BY <1>3, <1>9, SeqMonotonic, SequenceRange
  <1>11. QED
    BY <1>10 DEF All, first, last

-----------------------------------------------------------------------------
(***************************************************************************)
(* What the requests for pins make of a device.                            *)
(***************************************************************************)
Counted(d) == /\ d.counter = Cardinality(DOMAIN d.pins)
              /\ d.counter <= d.maxPins

\* Of a device that had as many pins when its counter was 0.
CountedFrom(d, before) ==
    LET gained == Cardinality(DOMAIN d.pins) - before IN
    /\ d.counter \in {gained, gained + CounterRange}
    /\ gained <= d.maxPins

\* new is old with other pins: the same device, and within its limit if old is.
Successor(old, new) ==
    /\ new \in Devices
    /\ new.token = old.token
    /\ Counted(old) => Counted(new)
    /\ \A before \in 0 .. PinRange :
           CountedFrom(old, before) => CountedFrom(new, before)

\* The counter and the limit of a device fit in their widths.
LEMMA DeviceNumbers ==
  ASSUME NEW d \in Devices
  PROVE  /\ d.counter \in Nat /\ d.counter < CounterRange
         /\ d.maxPins \in Nat /\ d.maxPins < CounterRange
         /\ CounterRange \in Nat \ {0}
  <1>1. d.counter \in 0 .. CounterRange - 1 /\ d.maxPins \in 0 .. CounterRange - 1
    BY DEF Devices
  <1>2. CounterRange \in Nat \ {0}
    BY WidthAssumption, LimitsFit
  <1>3. QED
    BY <1>1, <1>2

\* addPin keeps a device within its limit, counted right.
LEMMA WithPinSuccessor ==
  ASSUME NEW d \in Devices, NEW n \in PinNumbers, NEW pin \in Pins,
         d.counter # d.maxPins, n \notin DOMAIN d.pins
  PROVE  Successor(d, WithPin(d, n, pin))
  <1> DEFINE pins == Emplaced(d.pins, n, pin)
             new == WithPin(d, n, pin)
  <1>1. DOMAIN pins = DOMAIN d.pins \cup {n} /\ pins \in Maps(PinNumbers, Pins)
    <2>1. d.pins \in [DOMAIN d.pins -> Pins] /\ DOMAIN d.pins \subseteq PinNumbers
      BY PinsOfDevice
    <2>2. /\ DOMAIN pins = DOMAIN d.pins \cup {n}
          /\ pins \in [DOMAIN d.pins \cup {n} -> Pins]
      BY <2>1 DEF Emplaced, Stored
    <2>3. QED
      BY <2>1, <2>2, MapsMembers
  <1>2. Increment(d.counter) \in 0 .. CounterRange - 1
    BY DeviceNumbers DEF Increment
  <1>3. /\ new \in Devices
        /\ new.token = d.token /\ new.maxPins = d.maxPins
        /\ new.counter = Increment(d.counter) /\ new.pins = pins
    BY <1>1, <1>2 DEF WithPin, Devices
  <1>4. ASSUME Counted(d) PROVE Counted(new)
    <2>1. Cardinality(DOMAIN pins) = Cardinality(DOMAIN d.pins) + 1
      BY <1>1, PinsOfDevice, FS_AddElement
    <2>2. /\ d.counter < d.maxPins
          /\ Increment(d.counter) = d.counter + 1
      BY <1>4, DeviceNumbers DEF Counted, Increment
    <2>3. QED
      <3> HIDE DEF new, pins
      <3>1. QED
        BY <1>3, <1>4, <2>1, <2>2, DeviceNumbers DEF Counted
  <1>5. ASSUME NEW before \in 0 .. PinRange, CountedFrom(d, before)
        PROVE  CountedFrom(new, before)
    <2>1. Cardinality(DOMAIN pins) = Cardinality(DOMAIN d.pins) + 1
      BY <1>1, PinsOfDevice, FS_AddElement
    <2>2. Cardinality(DOMAIN d.pins) \in Nat /\ before \in Nat /\ PinRange \in Nat
      BY PinsOfDevice, WidthAssumption, LimitsFit
    <2> HIDE DEF new, pins
    <2>3. QED
      BY <1>3, <1>5, <2>1, <2>2, DeviceNumbers DEF CountedFrom, Increment
  <1>6. QED
    BY <1>3, <1>4, <1>5 DEF Successor

\* removePin too, whose counter cannot wrap when it counted right.
LEMMA WithoutPinSuccessor ==
  ASSUME NEW d \in Devices, NEW n \in DOMAIN d.pins
  PROVE  Successor(d, WithoutPin(d, n))
  <1> DEFINE pins == Erased(d.pins, n)
             new == WithoutPin(d, n)
  <1>1. DOMAIN pins = DOMAIN d.pins \ {n} /\ pins \in Maps(PinNumbers, Pins)
    <2>1. d.pins \in [DOMAIN d.pins -> Pins] /\ DOMAIN d.pins \subseteq PinNumbers
      BY PinsOfDevice
    <2>2. /\ DOMAIN pins = DOMAIN d.pins \ {n}
          /\ pins \in [DOMAIN d.pins \ {n} -> Pins]
      BY <2>1, ErasedMap
    <2>3. QED
      BY <2>1, <2>2, MapsMembers
  <1>2. Decrement(d.counter) \in 0 .. CounterRange - 1
    BY DeviceNumbers DEF Decrement
  <1>3. /\ new \in Devices
        /\ new.token = d.token /\ new.maxPins = d.maxPins
        /\ new.counter = Decrement(d.counter) /\ new.pins = pins
    BY <1>1, <1>2 DEF WithoutPin, Devices
  <1>4. ASSUME Counted(d) PROVE Counted(new)
    <2>1. Cardinality(DOMAIN pins) = Cardinality(DOMAIN d.pins) - 1
      BY <1>1, PinsOfDevice, FS_RemoveElement
    <2>2. d.counter # 0
      BY <1>4, PinsOfDevice, FS_EmptySet DEF Counted
    <2>3. Decrement(d.counter) = d.counter - 1
      BY <2>2 DEF Decrement
    <2>4. QED
      <3> HIDE DEF new, pins
      <3>1. QED
        BY <1>3, <1>4, <2>1, <2>3, DeviceNumbers DEF Counted
  <1>5. ASSUME NEW before \in 0 .. PinRange, CountedFrom(d, before)
        PROVE  CountedFrom(new, before)
    <2>1. Cardinality(DOMAIN pins) = Cardinality(DOMAIN d.pins) - 1
      BY <1>1, PinsOfDevice, FS_RemoveElement
    <2>2. /\ Cardinality(DOMAIN d.pins) \in Nat /\ before \in 0 .. PinRange
          /\ Cardinality(DOMAIN pins) \in Nat
      <3>1. IsFiniteSet(DOMAIN pins)
        BY <1>1, PinsOfDevice, FS_RemoveElement
      <3>2. QED
        BY <3>1, PinsOfDevice, FS_CardinalityType
    <2>3. PinRange \in Nat /\ PinRange <= CounterRange
      BY WidthAssumption, LimitsFit, PinsAssumption
    <2> HIDE DEF new, pins
    <2>4. QED
      BY <1>3, <1>5, <2>1, <2>2, <2>3, DeviceNumbers DEF CountedFrom, Decrement
  <1>6. QED
    BY <1>3, <1>4, <1>5 DEF Successor

\* changePin changes neither the set of pins nor the counter.
LEMMA ChangedPinSuccessor ==
  ASSUME NEW d \in Devices, NEW n \in DOMAIN d.pins, NEW pin \in Pins
  PROVE  Successor(d, [d EXCEPT !.pins[n] = pin])
  <1> DEFINE pins == [d.pins EXCEPT ![n] = pin]
             new == [d EXCEPT !.pins[n] = pin]
  <1>1. DOMAIN pins = DOMAIN d.pins /\ pins \in Maps(PinNumbers, Pins)
    <2>1. DOMAIN pins = DOMAIN d.pins /\ pins \in [DOMAIN d.pins -> Pins]
      BY PinsOfDevice
    <2>2. QED
      BY <2>1, PinsOfDevice, MapsMembers
  <1>2. /\ new \in Devices
        /\ new.token = d.token /\ new.maxPins = d.maxPins
        /\ new.counter = d.counter /\ new.pins = pins
    BY <1>1 DEF Devices
  <1>3. QED
    BY <1>1, <1>2 DEF Successor, Counted, CountedFrom

-----------------------------------------------------------------------------
(***************************************************************************)
(* What a request that only concerns pins, or is refused, does: it changes *)
(* no more than one device, to a successor, and that one's token is in the *)
(* answer.                                                                 *)
(***************************************************************************)
Modified ==
    \E id \in DOMAIN devices : \E d \in Devices :
        /\ Successor(devices[id], d)
        /\ devices' = [devices EXCEPT ![id] = d]
        /\ response'.token = devices[id].token

PinEffect ==
    /\ up
    /\ UNCHANGED <<up, maxPinsOpt, idSequence, fileExists, file, registered,
                   loaded, saved, cuts, registrations, runs>>
    /\ response'.status \in Statuses
    /\ UNCHANGED devices \/ Modified

\* authCheck lets only the token of a device in the map through.
LEMMA Authorised ==
  ASSUME NEW token, AuthCheck(token) = "OK"
  PROVE  token.deviceID \in DOMAIN devices /\ devices[token.deviceID].token = token
  BY DEF AuthCheck

\* A handler that got past authCheck changes the authorised device, if any.
LEMMA UpdateEffect ==
  ASSUME TypeOK, NEW token, AuthCheck(token) = "OK", NEW done, NEW d,
         NEW status \in {"OK", "CREATED"},
         done => Successor(devices[token.deviceID], d),
         Update(token, done, status, d)
  PROVE  PinEffect
  <1>1. token.deviceID \in DOMAIN devices /\ devices[token.deviceID].token = token
    BY Authorised
  <1>2. /\ up
        /\ UNCHANGED <<up, maxPinsOpt, idSequence, fileExists, file, registered,
                       loaded, saved, cuts, registrations, runs>>
        /\ response'.status \in Statuses
        /\ response'.token = token
    BY DEF Update, Answer, SameRegistry, disk, Statuses
  <1>3. CASE UNCHANGED devices
    BY <1>2, <1>3 DEF PinEffect
  <1>4. CASE done /\ devices' = [devices EXCEPT ![token.deviceID] = d]
    <2>1. Successor(devices[token.deviceID], d) /\ d \in Devices
      BY <1>4 DEF Successor
    <2>2. Modified
      BY <1>1, <1>2, <1>4, <2>1 DEF Modified
    <2>3. QED
      BY <1>2, <2>2 DEF PinEffect
  <1>5. QED
    BY <1>3, <1>4 DEF Update

\* An exception leaves the handler before anything changed.
LEMMA ThrowEffect ==
  ASSUME NEW token, Throw(token)
  PROVE  PinEffect
  BY DEF Throw, Answer, SameRegistry, disk, PinEffect, Statuses

\* The device that an authorised request is about is one of the type.
LEMMA AuthorisedDevice ==
  ASSUME TypeOK, NEW token, AuthCheck(token) = "OK"
  PROVE  devices[token.deviceID] \in Devices
  BY Authorised DEF TypeOK, IsIdMap

\* Creating a pin changes at most the authorised device.
LEMMA CreatePinEffect ==
  ASSUME TypeOK, NEW token, NEW n \in PinNumbers, NEW type, NEW text,
         CreatePin(token, n, type, text)
  PROVE  PinEffect
  <1> DEFINE d == devices[token.deviceID]
  <1>1. AuthCheck(token) = "OK" /\ d \in Devices
    BY AuthorisedDevice DEF CreatePin
  <1>2. CASE Throw(token)
    BY <1>2, ThrowEffect
  <1>3. CASE /\ Addable(d, n, type) => text \in Accepted(type)
             /\ Update(token, Addable(d, n, type), "CREATED",
                       WithPin(d, n, Pin(type, text)))
    <2>1. ASSUME Addable(d, n, type)
          PROVE  Successor(d, WithPin(d, n, Pin(type, text)))
      <3>1. Pin(type, text) \in Pins
        BY <1>3, <2>1, PinOfAccepted DEF Addable
      <3>2. d.counter # d.maxPins /\ n \notin DOMAIN d.pins
        BY <2>1 DEF Addable
      <3> HIDE DEF d
      <3>3. QED
        BY <1>1, <3>1, <3>2, WithPinSuccessor
    <2>2. QED
      BY <1>1, <1>3, <2>1, UpdateEffect
  <1>4. QED
    BY <1>2, <1>3 DEF CreatePin

\* So does giving a pin new data.
LEMMA UpdatePinEffect ==
  ASSUME TypeOK, NEW token, NEW n, NEW text, UpdatePin(token, n, text)
  PROVE  PinEffect
  <1> DEFINE d == devices[token.deviceID]
             exists == n \in DOMAIN d.pins
             new == [d EXCEPT !.pins[n] = Pin(d.pins[n].type, text)]
  <1>1. AuthCheck(token) = "OK" /\ d \in Devices
    BY AuthorisedDevice DEF UpdatePin
  <1>2. CASE Throw(token)
    BY <1>2, ThrowEffect
  <1>3. CASE /\ exists => text \in Accepted(d.pins[n].type)
             /\ Update(token, exists, "OK", new)
    <2>1. ASSUME exists PROVE Successor(d, new)
      <3>1. d.pins[n] \in Pins
        BY <1>1, <2>1, PinsOfDevice
      <3>2. d.pins[n].type \in PinTypes
        BY <3>1 DEF Pins, PinTypes
      <3>3. Pin(d.pins[n].type, text) \in Pins
        BY <1>3, <2>1, <3>2, PinOfAccepted
      <3> HIDE DEF d
      <3>4. QED
        BY <1>1, <2>1, <3>3, ChangedPinSuccessor
    <2>2. QED
      BY <1>1, <1>3, <2>1, UpdateEffect
  <1>4. QED
    BY <1>2, <1>3 DEF UpdatePin

\* So does deleting a pin.
LEMMA DeletePinEffect ==
  ASSUME TypeOK, NEW token, NEW n, DeletePin(token, n)
  PROVE  PinEffect
  <1> DEFINE d == devices[token.deviceID]
             exists == n \in DOMAIN d.pins
  <1>1. AuthCheck(token) = "OK" /\ d \in Devices
    BY AuthorisedDevice DEF DeletePin
  <1>2. Update(token, exists, "OK", WithoutPin(d, n))
    BY DEF DeletePin
  <1>3. exists => Successor(d, WithoutPin(d, n))
    <2> HIDE DEF d
    <2>1. QED
      BY <1>1, WithoutPinSuccessor
  <1>4. QED
    BY <1>1, <1>2, <1>3, UpdateEffect

\* A request that only reads, and a refused one, change nothing.
LEMMA LookEffect ==
  ASSUME NEW token, Consult(token) \/ Refuse(token)
  PROVE  PinEffect
  <1>1. AuthCheck(token) \in Statuses
    BY DEF AuthCheck, Statuses
  <1>2. CASE Consult(token)
    BY <1>2 DEF Consult, Answer, SameRegistry, disk, PinEffect, Statuses
  <1>3. CASE Refuse(token)
    BY <1>1, <1>3 DEF Refuse, Answer, SameRegistry, disk, PinEffect, Statuses
  <1>4. QED
    BY <1>2, <1>3

-----------------------------------------------------------------------------
(***************************************************************************)
(* The inductive invariant.  Every device in the map came from the file or *)
(* was registered by this process, and what this process registered lies   *)
(* behind the id sequence: so a new id can only be taken by a device from  *)
(* the file.  A device that its token does not lead to came from the file  *)
(* too, where a save that was cut off leaves one more at most.             *)
(***************************************************************************)
MisplacedIn(text) ==
    {entry.id : entry \in {e \in Range(text) : e.device.token.deviceID # e.id}}

Placed == /\ Misplaced(devices) \subseteq MisplacedIn(file.entries)
          /\ Cardinality(MisplacedIn(file.entries)) <= cuts

Known == DOMAIN loaded \subseteq DOMAIN devices
         /\ DOMAIN devices \subseteq DOMAIN loaded \cup DOMAIN registered

Past == \A id \in DOMAIN registered : id < idSequence

Down == ~up => registered = EmptyMap /\ DOMAIN devices = {}

IInv ==
    /\ TypeOK
    /\ Placed
    /\ Known /\ Past /\ Down
    /\ RegistrationServed
    /\ PinLimit

\* The empty map is a map from ids.
LEMMA EmptyIdMap ==
  ASSUME NEW values
  PROVE  IsIdMap(EmptyMap, values)
  BY EmptyMapType, FS_EmptySet DEF IsIdMap

\* The ids under which a text has misplaced devices are finitely many.
LEMMA MisplacedFinite ==
  ASSUME NEW text \in Seq(Entries)
  PROVE  /\ IsFiniteSet(MisplacedIn(text))
         /\ Cardinality(MisplacedIn(text)) \in Nat
         /\ MisplacedIn(text) \subseteq Ids
  <1> DEFINE entries == {e \in Range(text) : e.device.token.deviceID # e.id}
             ids == {entry.id : entry \in entries}
             idOf == [entry \in entries |-> entry.id]
  <1>1. IsFiniteSet(entries) /\ entries \subseteq Entries
    <2>1. IsFiniteSet(Range(text)) /\ Range(text) \subseteq Entries
      BY SequenceRange
    <2>2. entries \in SUBSET Range(text)
      OBVIOUS
    <2> HIDE DEF entries
    <2>3. QED
      BY <2>1, <2>2, FS_Subset
  <1> HIDE DEF entries
  <1>2. idOf \in Surjection(entries, ids)
    BY DEF Surjection
  <1>3. IsFiniteSet(ids)
    BY <1>1, <1>2, FS_Surjection
  <1>4. ids \subseteq Ids
    BY <1>1 DEF Entries
  <1>5. MisplacedIn(text) = ids
    BY DEF MisplacedIn, entries
  <1>6. QED
    BY <1>3, <1>4, <1>5, FS_CardinalityType

\* It holds before the first start, with nothing in the map or the file.
LEMMA InitIInv == Init => IInv
  <1> SUFFICES ASSUME Init PROVE IInv
    OBVIOUS
  <1>1. DOMAIN EmptyMap = {}
    BY DEF EmptyMap
  <1>2. \A values : IsIdMap(EmptyMap, values)
    BY EmptyIdMap
  <1>3. /\ file.parses = FALSE /\ file.entries = <<>>
        /\ saved.cut = FALSE /\ saved.entries = {} /\ cuts = 0
    BY DEF Init, Text, NothingSaved
  <1>4. TypeOK
    <2>1. up \in BOOLEAN /\ fileExists \in BOOLEAN
      BY DEF Init
    <2>2. registrations \in 0 .. MaxRegistrations /\ runs \in 0 .. MaxRuns
      BY BoundAssumption DEF Init
    <2>3. response.status \in Statuses
      BY DEF Init, NoResponse, Statuses
    <2>4. idSequence \in Ids
      BY DEF Init, Ids
    <2>5. maxPinsOpt \in MaxPinsOptions /\ IsIdMap(devices, Devices)
          /\ IsIdMap(loaded, Devices) /\ IsIdMap(registered, Tokens)
      BY <1>2 DEF Init
    <2>6. file.entries \in Seq(Entries)
      BY <1>3
    <2>7. QED
      BY <1>3, <2>1, <2>2, <2>3, <2>4, <2>5, <2>6 DEF TypeOK
  <1>5. Placed
    <2>1. Range(file.entries) = {}
      BY <1>3 DEF Range
    <2>2. MisplacedIn(file.entries) = {}
      BY <2>1 DEF MisplacedIn
    <2>3. Misplaced(devices) = {}
      BY <1>1 DEF Init, Misplaced
    <2>4. Cardinality(MisplacedIn(file.entries)) = 0
      BY <2>2, FS_EmptySet
    <2>5. QED
      BY <1>3, <2>3, <2>4 DEF Placed
  <1>6. QED
    BY <1>1, <1>4, <1>5 DEF Init, IInv, Known, Past, Down, RegistrationServed,
       PinLimit

\* A request that concerns pins, or is refused, keeps the invariant: it changes
\* no id and no token.
LEMMA PinEffectIInv ==
  ASSUME IInv, PinEffect
  PROVE  IInv'
  <1>1. CASE UNCHANGED devices
    BY <1>1 DEF IInv, PinEffect, TypeOK, IsIdMap, Placed, Misplaced, MisplacedIn,
       Known, Past, Down, RegistrationServed, PinLimit
  <1>2. CASE Modified
    <2>1. PICK id \in DOMAIN devices, d \in Devices :
             /\ Successor(devices[id], d)
             /\ devices' = [devices EXCEPT ![id] = d]
      BY <1>2 DEF Modified
    <2>2. /\ DOMAIN devices' = DOMAIN devices
          /\ devices'[id] = d
          /\ \A other \in DOMAIN devices \ {id} : devices'[other] = devices[other]
          /\ d.token = devices[id].token
      BY <2>1 DEF Successor, IInv, TypeOK, IsIdMap
    <2>3. TypeOK'
      BY <2>1, <2>2 DEF IInv, PinEffect, TypeOK, IsIdMap
    <2>4. Placed'
      BY <2>2 DEF IInv, PinEffect, Placed, Misplaced, MisplacedIn
    <2>5. (Known /\ Past /\ Down)'
      BY <2>2 DEF IInv, PinEffect, Known, Past, Down
    <2>6. RegistrationServed'
      BY <2>2 DEF IInv, PinEffect, RegistrationServed
    <2>7. PinLimit'
      BY <2>1, <2>2 DEF IInv, PinEffect, PinLimit, Successor, Counted
    <2>8. QED
      BY <2>3, <2>4, <2>5, <2>6, <2>7 DEF IInv
  <1>3. QED
    BY <1>1, <1>2 DEF PinEffect

\* A registration keeps it: an id that is taken was loaded, because the ids
\* registered before are behind the sequence.
LEMMA RegisterIInv ==
  ASSUME IInv, NEW key \in Keys, RegisterDevice(key)
  PROVE  IInv'
  <1> DEFINE id == idSequence
             new == NewDevice(id, key)
  <1>1. /\ up /\ up' /\ id \in Ids /\ id + 1 \in Ids
        /\ UNCHANGED <<maxPinsOpt, fileExists, file, loaded, saved, cuts, runs>>
        /\ devices' = Emplaced(devices, id, new)
        /\ registered' = Stored(registered, id, new.token)
        /\ idSequence' = id + 1
        /\ registrations' \in 0 .. MaxRegistrations
        /\ response'.status \in Statuses
    BY BoundAssumption
    DEF RegisterDevice, CanRegister, Answer, IInv, TypeOK, disk, Statuses, Ids
  <1>2. /\ new \in Devices
        /\ new.token \in Tokens /\ new.token.deviceID = id
        /\ DOMAIN new.pins = {} /\ new.counter = 0
    <2>1. EmptyMap \in Maps(PinNumbers, Pins)
      BY EmptyMapType, MapsMembers
    <2>2. 0 \in 0 .. CounterRange - 1
      BY WidthAssumption, LimitsFit
    <2>3. QED
      BY <1>1, <2>1, <2>2, EmptyMapType, LimitsFit
      DEF NewDevice, Devices, Tokens, IInv, TypeOK, Ids
  <1> HIDE DEF new
  <1>3. /\ DOMAIN devices' = DOMAIN devices \cup {id}
        /\ devices' \in [DOMAIN devices \cup {id} -> Devices]
        /\ \A k \in DOMAIN devices : devices'[k] = devices[k]
        /\ id \notin DOMAIN devices => devices'[id] = new
    BY <1>1, <1>2 DEF Emplaced, Stored, IInv, TypeOK, IsIdMap
  <1>4. /\ DOMAIN registered' = DOMAIN registered \cup {id}
        /\ registered' \in [DOMAIN registered \cup {id} -> Tokens]
        /\ \A k \in DOMAIN registered \ {id} : registered'[k] = registered[k]
        /\ registered'[id] = new.token
    BY <1>1, <1>2 DEF Stored, IInv, TypeOK, IsIdMap
  <1>5. id \notin DOMAIN registered
    BY <1>1 DEF IInv, Past, Ids
  <1>6. TypeOK'
    <2>1. IsFiniteSet(DOMAIN devices') /\ IsFiniteSet(DOMAIN registered')
      BY <1>3, <1>4, FS_AddElement DEF IInv, TypeOK, IsIdMap
    <2>2. IsIdMap(devices, Devices)' /\ IsIdMap(registered, Tokens)'
      BY <1>1, <1>3, <1>4, <2>1 DEF IInv, TypeOK, IsIdMap
    <2>3. QED
      BY <1>1, <2>2 DEF IInv, TypeOK, IsIdMap
  <1>7. Placed'
    BY <1>1, <1>2, <1>3 DEF IInv, Placed, Misplaced, MisplacedIn
  <1>8. (Known /\ Past /\ Down)'
    <2>1. Known' /\ Down'
      BY <1>1, <1>3, <1>4 DEF IInv, Known, Down
    <2>2. Past'
      BY <1>1, <1>4 DEF IInv, Past, TypeOK, IsIdMap, Ids
    <2>3. QED
      BY <2>1, <2>2
  <1>9. RegistrationServed'
    <2>1. CASE id \in DOMAIN devices
      <3>1. id \in DOMAIN loaded
        BY <1>5, <2>1 DEF IInv, Known
      <3>2. QED
        BY <1>1, <1>3, <1>4, <3>1 DEF IInv, RegistrationServed
    <2>2. CASE id \notin DOMAIN devices
      BY <1>1, <1>3, <1>4, <1>5, <2>2 DEF IInv, RegistrationServed
    <2>3. QED
      BY <2>1, <2>2
  <1>10. PinLimit'
    <2>1. new.counter = Cardinality(DOMAIN new.pins) /\ new.counter <= new.maxPins
      BY <1>2, FS_EmptySet, DeviceNumbers
    <2>2. QED
      BY <1>1, <1>3, <2>1 DEF IInv, PinLimit
  <1>11. QED
    BY <1>6, <1>7, <1>8, <1>9, <1>10 DEF IInv

\* A deletion keeps it: the device, its registration and what is known of it
\* from the file go together.
LEMMA DeleteIInv ==
  ASSUME IInv, NEW token, DeleteDevice(token)
  PROVE  IInv'
  <1> DEFINE id == token.deviceID
  <1>1. /\ up /\ up'
        /\ UNCHANGED <<maxPinsOpt, idSequence, fileExists, file, saved, cuts,
                       registrations, runs>>
        /\ devices' = Erased(devices, id)
        /\ registered' = Erased(registered, id)
        /\ loaded' = Erased(loaded, id)
        /\ response'.status \in Statuses
    BY DEF DeleteDevice, Answer, disk, Statuses
  <1>2. /\ DOMAIN devices' = DOMAIN devices \ {id}
        /\ devices' \in [DOMAIN devices \ {id} -> Devices]
        /\ \A k \in DOMAIN devices \ {id} : devices'[k] = devices[k]
    BY <1>1 DEF Erased, Restrict, IInv, TypeOK, IsIdMap
  <1>3. /\ DOMAIN registered' = DOMAIN registered \ {id}
        /\ registered' \in [DOMAIN registered \ {id} -> Tokens]
        /\ \A k \in DOMAIN registered \ {id} : registered'[k] = registered[k]
    BY <1>1 DEF Erased, Restrict, IInv, TypeOK, IsIdMap
  <1>4. /\ DOMAIN loaded' = DOMAIN loaded \ {id}
        /\ loaded' \in [DOMAIN loaded \ {id} -> Devices]
    BY <1>1 DEF Erased, Restrict, IInv, TypeOK, IsIdMap
  <1>5. TypeOK'
    <2>1. /\ IsFiniteSet(DOMAIN devices') /\ IsFiniteSet(DOMAIN registered')
          /\ IsFiniteSet(DOMAIN loaded')
      <3>1. /\ IsFiniteSet(DOMAIN devices) /\ IsFiniteSet(DOMAIN registered)
            /\ IsFiniteSet(DOMAIN loaded)
        BY DEF IInv, TypeOK, IsIdMap
      <3>2. \A S : IsFiniteSet(S) => IsFiniteSet(S \ {id})
        BY FS_RemoveElement
      <3>3. QED
        BY <1>2, <1>3, <1>4, <3>1, <3>2
    <2>2. /\ IsIdMap(devices, Devices)' /\ IsIdMap(registered, Tokens)'
          /\ IsIdMap(loaded, Devices)'
      BY <1>2, <1>3, <1>4, <2>1 DEF IInv, TypeOK, IsIdMap
    <2>3. QED
      BY <1>1, <2>2 DEF IInv, TypeOK, IsIdMap
  <1>6. Placed'
    BY <1>1, <1>2 DEF IInv, Placed, Misplaced, MisplacedIn
  <1>7. (Known /\ Past /\ Down)'
    BY <1>1, <1>2, <1>3, <1>4 DEF IInv, Known, Past, Down
  <1>8. RegistrationServed'
    BY <1>1, <1>2, <1>3, <1>4 DEF IInv, RegistrationServed
  <1>9. PinLimit'
    BY <1>1, <1>2, <1>4 DEF IInv, PinLimit
  <1>10. QED
    BY <1>5, <1>6, <1>7, <1>8, <1>9 DEF IInv

\* The devices that loadFile gets to are devices of the file, one for every id,
\* and the sequence is set right behind one of them, or to 1 if there is none.
LEMMA LoadedEntries ==
  ASSUME TypeOK
  PROVE  /\ \A id \in DOMAIN FromFile : \E entry \in Range(file.entries) :
               entry.id = id /\ FromFile[id] = entry.device
         /\ IsIdMap(FromFile, Devices)
         /\ SequenceBehind(Loadable) \in Ids
  <1> DEFINE n == Len(file.entries)
             ids == {file.entries[i].id : i \in Firsts}
             idAt == [i \in Firsts |-> file.entries[i].id]
             read == Loadable
  <1>1. /\ n \in Nat /\ DOMAIN file.entries = 1 .. n
        /\ file.entries \in [1 .. n -> Entries]
    BY LenProperties DEF TypeOK
  <1>2. read \subseteq 1 .. n /\ Firsts \subseteq 1 .. n
    BY <1>1 DEF Loadable, Firsts
  <1>3. DOMAIN FromFile = ids
    BY DEF FromFile
  <1>4. ASSUME NEW id \in ids
        PROVE  \E entry \in Range(file.entries) :
                  entry.id = id /\ FromFile[id] = entry.device
    <2> DEFINE i == CHOOSE j \in Firsts : file.entries[j].id = id
    <2>1. i \in Firsts /\ file.entries[i].id = id
      BY <1>4
    <2>2. FromFile[id] = file.entries[i].device
      BY <1>4 DEF FromFile
    <2>3. file.entries[i] \in Range(file.entries)
      BY <1>1, <1>2, <2>1 DEF Range
    <2>4. QED
      BY <2>1, <2>2, <2>3
  <1>5. \A entry \in Range(file.entries) : entry.id \in Ids /\ entry.device \in Devices
    BY <1>1 DEF Range, Entries
  <1>6. IsFiniteSet(ids)
    <2>1. IsFiniteSet(Firsts)
      <3>1. IsFiniteSet(DOMAIN file.entries)
        BY SequenceRange DEF TypeOK
      <3>2. QED
        BY <1>1, <1>2, <3>1, FS_Subset
    <2>2. idAt \in Surjection(Firsts, ids)
      BY DEF Surjection
    <2> HIDE DEF idAt, ids
    <2>3. QED
      BY <2>1, <2>2, FS_Surjection
  <1>7. IsIdMap(FromFile, Devices)
    <2>1. FromFile = [id \in ids |-> FromFile[id]]
      BY DEF FromFile
    <2>2. \A id \in ids : id \in Ids /\ FromFile[id] \in Devices
      BY <1>4, <1>5
    <2> HIDE DEF ids
    <2>3. QED
      BY <1>3, <1>6, <2>1, <2>2 DEF IsIdMap
  <1>8. ASSUME read # {} PROVE Cardinality(read) \in 1 .. n
    <2>1. IsFiniteSet(1 .. n) /\ Cardinality(1 .. n) = n
      BY <1>1, FS_Interval
    <2>2. IsFiniteSet(read) /\ Cardinality(read) <= n
      BY <1>2, <2>1, FS_Subset
    <2>3. Cardinality(read) \in Nat /\ Cardinality(read) # 0
      BY <1>8, <2>2, FS_CardinalityType, FS_EmptySet
    <2>4. QED
      BY <1>1, <2>2, <2>3
  <1>9. SequenceBehind(read) \in Ids
    <2> HIDE DEF read
    <2>1. CASE read = {}
      BY <2>1 DEF SequenceBehind, Ids
    <2>2. CASE read # {}
      <3>1. file.entries[Cardinality(read)].id \in Ids
        BY <1>1, <1>8, <2>2 DEF Entries
      <3>2. QED
        BY <2>2, <3>1 DEF SequenceBehind, Ids
    <2>3. QED
      BY <2>1, <2>2
  <1>10. QED
    BY <1>3, <1>4, <1>7, <1>9

\* A loaded device is the one of the file but for its counter.
LEMMA RestoredDevice ==
  ASSUME NEW d \in Devices
  PROVE  /\ Restored(d) \in Devices
         /\ Restored(d).token = d.token /\ Restored(d).maxPins = d.maxPins
         /\ Restored(d).pins = d.pins /\ Restored(d).counter = 0
         /\ d = [Restored(d) EXCEPT !.counter = d.counter]
  <1>1. 0 \in 0 .. CounterRange - 1
    BY WidthAssumption, LimitsFit
  <1>2. QED
    BY <1>1 DEF Restored, Devices

\* A start keeps it: all devices are loaded ones, none is registered.
LEMMA StartIInv ==
  ASSUME IInv, Start
  PROVE  IInv'
  <1>1. /\ up' /\ registered = EmptyMap
        /\ UNCHANGED <<fileExists, file, response, registered, saved, cuts,
                       registrations>>
        /\ maxPinsOpt' \in MaxPinsOptions
        /\ loaded' = FromFile
        /\ devices' = [id \in DOMAIN loaded' |-> Restored(loaded'[id])]
        /\ idSequence' = SequenceBehind(Loadable)
        /\ runs' \in 0 .. MaxRuns
    BY BoundAssumption DEF Start, IInv, Down, disk, TypeOK
  <1>2. IsIdMap(loaded, Devices)' /\ idSequence' \in Ids
    BY <1>1, LoadedEntries DEF IInv, IsIdMap
  <1>3. /\ DOMAIN devices' = DOMAIN loaded'
        /\ \A id \in DOMAIN loaded' : /\ devices'[id] \in Devices
                                      /\ devices'[id].token = loaded'[id].token
    BY <1>1, <1>2, RestoredDevice DEF IsIdMap
  <1>4. IsIdMap(devices, Devices)'
    BY <1>1, <1>2, <1>3 DEF IsIdMap
  <1>5. TypeOK'
    BY <1>1, <1>2, <1>4 DEF IInv, TypeOK, IsIdMap
  <1>6. DOMAIN registered' = {}
    BY <1>1, EmptyMapType
  <1>7. Placed'
    <2>1. \A id \in DOMAIN devices' : \E entry \in Range(file.entries) :
             entry.id = id /\ devices'[id].token = entry.device.token
      BY <1>1, <1>3, LoadedEntries DEF IInv
    <2>2. Misplaced(devices') \subseteq MisplacedIn(file.entries)
      BY <2>1 DEF Misplaced, MisplacedIn
    <2>3. QED
      BY <1>1, <2>2 DEF IInv, Placed, MisplacedIn, Misplaced
  <1>8. (Known /\ Past /\ Down /\ RegistrationServed /\ PinLimit)'
    BY <1>1, <1>3, <1>6 DEF Known, Past, Down, RegistrationServed, PinLimit
  <1>9. QED
    BY <1>5, <1>7, <1>8 DEF IInv

\* Any end of the process keeps it, with what it leaves on the disk.
LEMMA ExitIInv ==
  ASSUME IInv, Exit,
         file'.parses \in BOOLEAN, file'.entries \in Seq(Entries),
         saved'.cut \in BOOLEAN, saved'.entries \subseteq Entries,
         cuts' \in Nat, Cardinality(MisplacedIn(file'.entries)) <= cuts'
  PROVE  IInv'
  <1>1. /\ up' = FALSE /\ devices' = EmptyMap /\ registered' = EmptyMap
        /\ loaded' = EmptyMap /\ idSequence' \in Ids
        /\ UNCHANGED <<maxPinsOpt, fileExists, registrations, runs>>
        /\ response'.status \in Statuses
    BY DEF Exit, NoResponse, Statuses, Ids
  <1>2. DOMAIN EmptyMap = {}
    BY EmptyMapType
  <1>3. IsIdMap(EmptyMap, Devices) /\ IsIdMap(EmptyMap, Tokens)
    BY EmptyIdMap
  <1>4. TypeOK'
    BY <1>1, <1>3 DEF IInv, TypeOK, IsIdMap
  <1>5. Placed'
    BY <1>1, <1>2 DEF Placed, Misplaced, MisplacedIn
  <1>6. QED
    BY <1>1, <1>2, <1>4, <1>5 DEF IInv, Known, Past, Down, RegistrationServed,
       PinLimit

\* What a save writes is the devices under their ids: no more are misplaced
\* than were in the file.
LEMMA DumpedText ==
  ASSUME IInv, NEW new \in Dumps
  PROVE  /\ new \in Seq(Entries)
         /\ \A i, j \in DOMAIN new : new[i].id = new[j].id => i = j
         /\ \A entry \in Range(new) : /\ entry.id \in DOMAIN devices
                                      /\ entry.device = devices[entry.id]
         /\ \A id \in DOMAIN devices : \E entry \in Range(new) : entry.id = id
         /\ MisplacedIn(new) \subseteq MisplacedIn(file.entries)
  <1> DEFINE n == Cardinality(DOMAIN devices)
  <1>1. PICK order \in Bijection(1 .. n, DOMAIN devices) :
           new = [i \in DOMAIN order |-> [id |-> order[i],
                                          device |-> devices[order[i]]]]
    BY DEF Dumps
  <1>2. n \in Nat /\ DOMAIN order = 1 .. n
    BY FS_CardinalityType DEF IInv, TypeOK, IsIdMap, Bijection, Injection
  <1>3. /\ \A i \in 1 .. n : order[i] \in DOMAIN devices
        /\ \A i, j \in 1 .. n : order[i] = order[j] => i = j
        /\ \A id \in DOMAIN devices : \E i \in 1 .. n : order[i] = id
    BY DEF Bijection, Injection, Surjection, IsInjective
  <1>4. \A id \in DOMAIN devices : id \in Ids /\ devices[id] \in Devices
    BY DEF IInv, TypeOK, IsIdMap
  <1> HIDE DEF n
  <1>5. /\ DOMAIN new = 1 .. n
        /\ \A i \in 1 .. n : /\ new[i] \in Entries
                             /\ new[i].id = order[i]
                             /\ new[i].device = devices[order[i]]
    BY <1>1, <1>2, <1>3, <1>4 DEF Entries
  <1>6. new \in Seq(Entries)
    <2>1. new \in [1 .. n -> Entries]
      BY <1>1, <1>2, <1>5
    <2>2. QED
      BY <1>2, <2>1
  <1>7. /\ \A entry \in Range(new) : /\ entry.id \in DOMAIN devices
                                     /\ entry.device = devices[entry.id]
        /\ \A id \in DOMAIN devices : \E entry \in Range(new) : entry.id = id
    BY <1>3, <1>5 DEF Range
  <1>8. MisplacedIn(new) \subseteq Misplaced(devices)
    BY <1>7 DEF MisplacedIn, Misplaced
  <1>9. QED
    BY <1>3, <1>5, <1>6, <1>7, <1>8 DEF IInv, Placed

\* A text with nothing but what was in the file has no more misplaced.
LEMMA FewerMisplaced ==
  ASSUME IInv, NEW text \in Seq(Entries),
         MisplacedIn(text) \subseteq MisplacedIn(file.entries)
  PROVE  Cardinality(MisplacedIn(text)) <= cuts
  <1>1. file.entries \in Seq(Entries) /\ cuts \in Nat
    BY DEF IInv, TypeOK
  <1>2. /\ IsFiniteSet(MisplacedIn(file.entries))
        /\ Cardinality(MisplacedIn(file.entries)) \in Nat
        /\ Cardinality(MisplacedIn(text)) \in Nat
    BY <1>1, MisplacedFinite
  <1>3. Cardinality(MisplacedIn(text)) <= Cardinality(MisplacedIn(file.entries))
    BY <1>2, FS_Subset
  <1>4. QED
    BY <1>1, <1>2, <1>3 DEF IInv, Placed

\* The tail that a text leaves behind has nothing but what was in the file.
LEMMA LeftBehind ==
  ASSUME IInv, NEW tail \in Tails(file.entries)
  PROVE  /\ tail \in Seq(Entries) /\ Range(tail) \subseteq Range(file.entries)
         /\ Cardinality(MisplacedIn(tail)) <= cuts
  <1>1. tail \in Seq(Entries) /\ Range(tail) \subseteq Range(file.entries)
    BY TailOfText DEF IInv, TypeOK
  <1>2. MisplacedIn(tail) \subseteq MisplacedIn(file.entries)
    BY <1>1 DEF MisplacedIn
  <1>3. QED
    BY <1>1, <1>2, FewerMisplaced

\* What a save leaves on the disk when it is whole.
LEMMA OverwrittenText ==
  ASSUME IInv, NEW new \in Dumps, NEW text \in Overwritten(new)
  PROVE  /\ text.parses \in BOOLEAN /\ text.entries \in Seq(Entries)
         /\ Cardinality(MisplacedIn(text.entries)) <= cuts
         /\ text.parses => text.entries = new
         /\ ~text.parses => Range(text.entries) \subseteq Range(file.entries)
  <1>1. CASE text = Text(DocLength(new), TRUE, new)
    BY <1>1, DumpedText, FewerMisplaced DEF Text
  <1>2. ASSUME NEW tail \in Tails(file.entries),
               text = Text(file.size, FALSE, tail)
        PROVE  /\ text.parses = FALSE /\ text.entries \in Seq(Entries)
               /\ Range(text.entries) \subseteq Range(file.entries)
               /\ Cardinality(MisplacedIn(text.entries)) <= cuts
    BY <1>2, LeftBehind DEF Text
  <1>3. QED
    BY <1>1, <1>2 DEF Overwritten

\* What it leaves when it is cut off and the two texts parse together: at most
\* one device that neither of them has.
LEMMA AlignedText ==
  ASSUME IInv, NEW new \in Dumps, NEW text \in Aligned(new)
  PROVE  /\ text.parses = TRUE /\ text.entries \in Seq(Entries)
         /\ \E entry \in Entries :
               Range(text.entries) \subseteq
                   Range(new) \cup {entry} \cup Range(file.entries)
         /\ Cardinality(MisplacedIn(text.entries)) <= cuts + 1
  <1>1. new \in Seq(Entries) /\ file.entries \in Seq(Entries) /\ cuts \in Nat
    BY DumpedText DEF IInv, TypeOK
  <1>2. text.parses = TRUE /\ text.entries \in Mixed(new)
    BY DEF Aligned, Text
  <1>3. PICK k \in DOMAIN new, j \in DOMAIN file.entries :
           \E e \in Spliced(new[k], file.entries[j]) :
              text.entries = SubSeq(new, 1, k - 1) \o <<e>>
                             \o SubSeq(file.entries, j + 1, Len(file.entries))
    <2> DEFINE Joined(k, j) ==
                 {SubSeq(new, 1, k - 1) \o <<e>>
                    \o SubSeq(file.entries, j + 1, Len(file.entries)) :
                    e \in Spliced(new[k], file.entries[j])}
    <2>1. Mixed(new) = UNION {Joined(k, j) : k \in DOMAIN new,
                                             j \in DOMAIN file.entries}
      BY DEF Mixed
    <2>2. \E k \in DOMAIN new, j \in DOMAIN file.entries :
             text.entries \in Joined(k, j)
      <3> HIDE DEF Joined
      <3>1. QED
        BY <1>2, <2>1
    <2>3. QED
      BY <2>2
  <1>4. PICK entry \in Entries :
           text.entries = SubSeq(new, 1, k - 1) \o <<entry>>
                          \o SubSeq(file.entries, j + 1, Len(file.entries))
    BY <1>3 DEF Spliced
  <1>5. /\ text.entries \in Seq(Entries)
        /\ Range(text.entries) \subseteq
               Range(new) \cup {entry} \cup Range(file.entries)
    BY <1>1, <1>4, JoinedTexts
  <1>6. MisplacedIn(text.entries) \subseteq MisplacedIn(file.entries) \cup {entry.id}
    <2> SUFFICES ASSUME NEW id \in MisplacedIn(text.entries)
                 PROVE  id \in MisplacedIn(file.entries) \cup {entry.id}
      OBVIOUS
    <2>1. PICK e \in Range(text.entries) :
             e.id = id /\ e.device.token.deviceID # e.id
      BY DEF MisplacedIn
    <2>2. CASE e \in Range(new)
      <3>1. id \in MisplacedIn(new)
        BY <2>1, <2>2 DEF MisplacedIn
      <3>2. QED
        BY <3>1, DumpedText
    <2>3. CASE e = entry
      BY <2>1, <2>3
    <2>4. CASE e \in Range(file.entries)
      BY <2>1, <2>4 DEF MisplacedIn
    <2>5. QED
      BY <1>5, <2>2, <2>3, <2>4
  <1>7. Cardinality(MisplacedIn(text.entries)) <= cuts + 1
    <2> DEFINE more == MisplacedIn(file.entries) \cup {entry.id}
    <2>1. /\ IsFiniteSet(MisplacedIn(file.entries))
          /\ Cardinality(MisplacedIn(file.entries)) \in Nat
          /\ Cardinality(MisplacedIn(text.entries)) \in Nat
      BY <1>1, <1>5, MisplacedFinite
    <2>2. /\ IsFiniteSet(more)
          /\ \/ Cardinality(more) = Cardinality(MisplacedIn(file.entries))
             \/ Cardinality(more) = Cardinality(MisplacedIn(file.entries)) + 1
      BY <2>1, FS_AddElement
    <2>3. Cardinality(MisplacedIn(text.entries)) <= Cardinality(more)
      BY <1>6, <2>2, FS_Subset
    <2> HIDE DEF more
    <2>4. QED
      BY <1>1, <2>1, <2>2, <2>3 DEF IInv, Placed
  <1>8. QED
    BY <1>2, <1>4, <1>5, <1>7

\* What it leaves when they do not.
LEMMA SpoiledText ==
  ASSUME IInv, NEW new \in Dumps, NEW text \in Spoiled(new)
  PROVE  /\ text.parses = FALSE /\ text.entries \in Seq(Entries)
         /\ Range(text.entries) \subseteq Range(file.entries)
         /\ Cardinality(MisplacedIn(text.entries)) <= cuts
  <1>1. ASSUME NEW tail \in Tails(file.entries),
               text = Text(file.size, FALSE, tail)
        PROVE  /\ text.parses = FALSE /\ text.entries \in Seq(Entries)
               /\ Range(text.entries) \subseteq Range(file.entries)
               /\ Cardinality(MisplacedIn(text.entries)) <= cuts
    BY <1>1, LeftBehind DEF Text
  <1>2. ASSUME NEW size, text = Text(size, FALSE, <<>>)
        PROVE  /\ text.parses = FALSE /\ text.entries \in Seq(Entries)
               /\ Range(text.entries) \subseteq Range(file.entries)
               /\ Cardinality(MisplacedIn(text.entries)) <= cuts
    <2>1. text.parses = FALSE /\ text.entries = <<>>
      BY <1>2 DEF Text
    <2>2. text.entries \in Seq(Entries) /\ Range(text.entries) = {}
      BY <2>1 DEF Range
    <2>3. MisplacedIn(text.entries) \subseteq MisplacedIn(file.entries)
      BY <2>2 DEF MisplacedIn
    <2>4. QED
      BY <2>1, <2>2, <2>3, FewerMisplaced
  <1>3. QED
    BY <1>1, <1>2 DEF Spoiled

\* A request registers or deletes a device, or it has the effect above.
LEMMA RequestCases ==
  ASSUME IInv, Request
  PROVE  \/ \E key \in Keys : RegisterDevice(key)
         \/ \E token \in RequestTokens : DeleteDevice(token)
         \/ PinEffect
  <1>1. TypeOK
    BY DEF IInv
  <1>2. ASSUME NEW token \in RequestTokens, Consult(token) \/ Refuse(token)
        PROVE  PinEffect
    BY <1>2, LookEffect
  <1>3. ASSUME NEW token \in RequestTokens,
               NEW n \in {PinNumber(text) : text \in PinTexts \cap DOMAIN Stoi},
               \/ DeletePin(token, n)
               \/ \E text \in Texts :
                     \/ UpdatePin(token, n, text)
                     \/ \E type \in DataTypes : CreatePin(token, n, type, text)
        PROVE  PinEffect
    <2>1. n \in PinNumbers
      BY PinNumberRange
    <2>2. CASE DeletePin(token, n)
      BY <1>1, <2>2, DeletePinEffect
    <2>3. ASSUME NEW text \in Texts, UpdatePin(token, n, text) PROVE PinEffect
      BY <1>1, <2>3, UpdatePinEffect
    <2>4. ASSUME NEW text \in Texts, NEW type \in DataTypes,
                 CreatePin(token, n, type, text)
          PROVE  PinEffect
      BY <1>1, <2>1, <2>4, CreatePinEffect
    <2>5. QED
      BY <1>3, <2>2, <2>3, <2>4
  <1>4. QED
    BY <1>2, <1>3 DEF Request

\* Every step keeps the invariant.
LEMMA NextIInv == IInv /\ [Next]_vars => IInv'
  <1> SUFFICES ASSUME IInv, [Next]_vars PROVE IInv'
    OBVIOUS
  <1>1. CASE Start
    BY <1>1, StartIInv
  <1>2. ASSUME Exit, UNCHANGED <<saved, file, cuts>> PROVE IInv'
    <2>1. /\ file'.parses \in BOOLEAN /\ file'.entries \in Seq(Entries)
          /\ saved'.cut \in BOOLEAN /\ saved'.entries \subseteq Entries
          /\ cuts' \in Nat /\ Cardinality(MisplacedIn(file'.entries)) <= cuts'
      BY <1>2 DEF IInv, TypeOK, Placed
    <2>2. QED
      BY <1>2, <2>1, ExitIInv
  <1>3. CASE Shutdown
    <2>1. Exit /\ UNCHANGED cuts /\ cuts \in Nat
      BY <1>3 DEF Shutdown, IInv, TypeOK
    <2>2. CASE UNCHANGED <<saved, file>>
      BY <1>2, <2>1, <2>2
    <2>3. ASSUME NEW new \in Dumps, file' \in Overwritten(new),
                 saved' = [entries |-> Range(new), length |-> DocLength(new),
                           cut |-> FALSE]
          PROVE  IInv'
      <3>1. saved'.cut \in BOOLEAN /\ saved'.entries \subseteq Entries
        BY <2>3, DumpedText, SequenceRange
      <3>2. QED
        BY <2>1, <2>3, <3>1, ExitIInv, OverwrittenText
    <2>4. QED
      BY <1>3, <2>2, <2>3 DEF Shutdown
  <1>4. CASE CrashWhileSaving
    <2>1. Exit /\ cuts \in Nat /\ cuts + 1 \in Nat
      BY <1>4 DEF CrashWhileSaving, IInv, TypeOK
    <2>2. ASSUME NEW new \in Dumps, file' \in Aligned(new), cuts' = cuts + 1,
                 saved' = [entries |-> Range(file'.entries)
                              \cap (Range(new) \cup Range(file.entries)),
                           length |-> file.size, cut |-> TRUE]
          PROVE  IInv'
      <3>1. saved'.cut \in BOOLEAN /\ saved'.entries \subseteq Entries
        BY <2>2, AlignedText, SequenceRange
      <3>2. QED
        BY <2>1, <2>2, <3>1, ExitIInv, AlignedText
    <2>3. ASSUME NEW new \in Dumps, file' \in Spoiled(new), UNCHANGED cuts,
                 saved' = NothingSaved
          PROVE  IInv'
      <3>1. saved'.cut \in BOOLEAN /\ saved'.entries \subseteq Entries
        BY <2>3 DEF NothingSaved
      <3>2. QED
        BY <2>1, <2>3, <3>1, ExitIInv, SpoiledText
    <2>4. QED
      BY <1>4, <2>2, <2>3 DEF CrashWhileSaving
  <1>5. CASE CreateFile
    BY <1>5 DEF CreateFile, history, IInv, TypeOK, IsIdMap, Placed, Misplaced,
       MisplacedIn, Known, Past, Down, RegistrationServed, PinLimit
  <1>6. ASSUME NEW key \in Keys, RegisterDevice(key) PROVE IInv'
    BY <1>6, RegisterIInv
  <1>7. ASSUME NEW token \in RequestTokens, DeleteDevice(token) PROVE IInv'
    BY <1>7, DeleteIInv
  <1>8. ASSUME PinEffect PROVE IInv'
    BY <1>8, PinEffectIInv
  <1>9. CASE UNCHANGED vars
    BY <1>9 DEF vars, disk, history, IInv, TypeOK, IsIdMap, Placed, Misplaced,
       MisplacedIn, Known, Past, Down, RegistrationServed, PinLimit
  <1>10. CASE Crash
    BY <1>2, <1>10 DEF Crash
  <1>11. QED
    BY <1>1, <1>3, <1>4, <1>5, <1>6, <1>7, <1>8, <1>9, <1>10, RequestCases
    DEF Next

\* The inductive invariant holds in every reachable state of the registry.
THEOREM Invariance == Spec => []IInv
  <1>1. Init => IInv
    BY InitIInv
  <1>2. IInv /\ [Next]_vars => IInv'
    BY NextIInv
  <1>3. QED
    BY <1>1, <1>2, PTL DEF Spec

\* The registry, the file and the counters keep their types: no pin number and
\* no counter leaves the range of its width.
THEOREM TypeCorrect == Spec => []TypeOK
  <1>1. IInv => TypeOK
    BY DEF IInv
  <1>2. QED
    BY <1>1, Invariance, PTL

\* The map holds every device under the id its token names, across restarts,
\* but for one at most for every save that was cut off and parses.
THEOREM DevicesFound == Spec => []TokenNamesItsDevice
  <1>1. IInv => TokenNamesItsDevice
    <2> SUFFICES ASSUME IInv PROVE TokenNamesItsDevice
      OBVIOUS
    <2>1. file.entries \in Seq(Entries) /\ cuts \in Nat
      BY DEF IInv, TypeOK
    <2>2. /\ IsFiniteSet(MisplacedIn(file.entries))
          /\ Cardinality(MisplacedIn(file.entries)) \in Nat
      BY <2>1, MisplacedFinite
    <2>3. /\ IsFiniteSet(Misplaced(devices))
          /\ Cardinality(Misplaced(devices))
                <= Cardinality(MisplacedIn(file.entries))
      BY <2>2, FS_Subset DEF IInv, Placed
    <2>4. Cardinality(Misplaced(devices)) \in Nat
      BY <2>3, FS_CardinalityType
    <2>5. QED
      BY <2>1, <2>2, <2>3, <2>4 DEF IInv, Placed, TokenNamesItsDevice
  <1>2. QED
    BY <1>1, Invariance, PTL

\* The token a registration answered works until the device is deleted or the
\* process ends, unless a device from the file holds the id.
THEOREM RegistrationsServed == Spec => []RegistrationServed
  <1>1. IInv => RegistrationServed
    BY DEF IInv
  <1>2. QED
    BY <1>1, Invariance, PTL

\* Devices registered in this run keep to the limit of pins, for every limit
\* that a uint16_t can hold.
THEOREM LimitKept == Spec => []PinLimit
  <1>1. IInv => PinLimit
    BY DEF IInv
  <1>2. QED
    BY <1>1, Invariance, PTL

\* A request changes or removes only the device whose token it carries.
THEOREM OwnersOnly == Spec => OnlyOwnerChanges
  <1> DEFINE Owned ==
        up /\ up' =>
           \A id \in DOMAIN devices :
              \/ id \in DOMAIN devices' /\ devices'[id] = devices[id]
              \/ response'.token = devices[id].token
  <1>1. IInv /\ [Next]_vars => [Owned]_vars
    <2> SUFFICES ASSUME IInv, Next PROVE Owned
      OBVIOUS
    <2>1. ASSUME NEW key \in Keys, RegisterDevice(key) PROVE Owned
      BY <2>1 DEF RegisterDevice, Emplaced, Stored
    <2>2. ASSUME NEW token \in RequestTokens, DeleteDevice(token) PROVE Owned
      <3>1. devices[token.deviceID].token = token /\ response'.token = token
        BY <2>2, Authorised DEF DeleteDevice, Answer
      <3>2. QED
        BY <2>2, <3>1 DEF DeleteDevice, Erased, Restrict
    <2>3. CASE PinEffect
      BY <2>3 DEF PinEffect, Modified, IInv, TypeOK, IsIdMap
    <2>4. CASE Start \/ Shutdown \/ Crash \/ CrashWhileSaving
      BY <2>4 DEF Start, Shutdown, Crash, CrashWhileSaving, Exit
    <2>5. CASE CreateFile
      BY <2>5 DEF CreateFile
    <2>6. QED
      BY <2>1, <2>2, <2>3, <2>4, <2>5, RequestCases DEF Next
  <1>2. QED
    BY <1>1, Invariance, PTL DEF Spec, OnlyOwnerChanges

-----------------------------------------------------------------------------
(***************************************************************************)
(* Devices from the file, and the pins they had when they were loaded.     *)
(***************************************************************************)
PinsBefore(id) == Cardinality(DOMAIN loaded[id].pins)

\* The limit of loaded devices, in the words of the lemmas above.
LEMMA LoadedCounts ==
  LoadedPinLimit <=>
      \A id \in DOMAIN loaded : CountedFrom(devices[id], PinsBefore(id))
  BY DEF LoadedPinLimit, CountedFrom, PinsBefore

\* A device is loaded with no pins gained.
LEMMA StartLoaded ==
  ASSUME IInv, Start
  PROVE  LoadedPinLimit'
  <1>1. devices' = [id \in DOMAIN loaded' |-> Restored(loaded'[id])]
    BY DEF Start
  <1>2. IsIdMap(loaded', Devices)
    BY LoadedEntries DEF Start, IInv
  <1>3. ASSUME NEW id \in DOMAIN loaded'
        PROVE  CountedFrom(devices'[id], PinsBefore(id)')
    <2> DEFINE old == loaded'[id]
               new == devices'[id]
               n == Cardinality(DOMAIN old.pins)
    <2>1. old \in Devices
      BY <1>2, <1>3 DEF IsIdMap
    <2>2. new.counter = 0 /\ new.pins = old.pins /\ new.maxPins = old.maxPins
      BY <1>1, <1>3, <2>1, RestoredDevice
    <2>3. n \in Nat /\ PinsBefore(id)' = n /\ old.maxPins \in Nat
      BY <1>1, <2>1, PinsOfDevice, DeviceNumbers, WidthAssumption, LimitsFit
      DEF PinsBefore
    <2>4. CountedFrom(new, n)
      <3> HIDE DEF new
      <3>1. QED
        BY <2>2, <2>3 DEF CountedFrom
    <2>5. QED
      BY <2>3, <2>4
  <1>4. QED
    BY <1>3, LoadedCounts DEF LoadedPinLimit, CountedFrom, PinsBefore

\* A request for pins moves the counter of a loaded device with its pins.
LEMMA PinEffectLoaded ==
  ASSUME IInv, LoadedPinLimit, PinEffect
  PROVE  LoadedPinLimit'
  <1>1. UNCHANGED loaded
    BY DEF PinEffect
  <1>2. CASE UNCHANGED devices
    BY <1>1, <1>2 DEF LoadedPinLimit
  <1>3. CASE Modified
    <2>1. PICK id \in DOMAIN devices, d \in Devices :
             /\ Successor(devices[id], d)
             /\ devices' = [devices EXCEPT ![id] = d]
      BY <1>3 DEF Modified
    <2>2. \A other \in DOMAIN loaded : PinsBefore(other) \in 0 .. PinRange
      BY PinsOfDevice DEF PinsBefore, IInv, TypeOK, IsIdMap
    <2>3. ASSUME NEW other \in DOMAIN loaded
          PROVE  CountedFrom(devices'[other], PinsBefore(other))
      <3>1. CountedFrom(devices[other], PinsBefore(other))
        BY LoadedCounts
      <3>2. other \in DOMAIN devices
        BY DEF IInv, Known
      <3>3. CASE other = id
        BY <2>1, <2>2, <3>1, <3>3 DEF Successor
      <3>4. CASE other # id
        BY <2>1, <3>1, <3>2, <3>4
      <3>5. QED
        BY <3>3, <3>4
    <2>4. QED
      BY <1>1, <2>3 DEF LoadedPinLimit, CountedFrom, PinsBefore
  <1>4. QED
    BY <1>2, <1>3 DEF PinEffect

\* Every step keeps what is known of loaded devices.
LEMMA NextLoaded == IInv /\ LoadedPinLimit /\ [Next]_vars => LoadedPinLimit'
  <1> SUFFICES ASSUME IInv, LoadedPinLimit, [Next]_vars PROVE LoadedPinLimit'
    OBVIOUS
  <1>1. ASSUME NEW key \in Keys, RegisterDevice(key) PROVE LoadedPinLimit'
    <2>1. /\ UNCHANGED loaded
          /\ \A id \in DOMAIN devices : devices'[id] = devices[id]
      BY <1>1 DEF RegisterDevice, Answer, disk, Emplaced, Stored
    <2>2. QED
      BY <2>1 DEF LoadedPinLimit, IInv, Known
  <1>2. ASSUME NEW token \in RequestTokens, DeleteDevice(token)
        PROVE  LoadedPinLimit'
    <2>1. /\ DOMAIN loaded' = DOMAIN loaded \ {token.deviceID}
          /\ \A id \in DOMAIN loaded' : loaded'[id] = loaded[id]
          /\ \A id \in DOMAIN devices \ {token.deviceID} :
                devices'[id] = devices[id]
      BY <1>2 DEF DeleteDevice, Erased, Restrict
    <2>2. QED
      BY <2>1 DEF LoadedPinLimit, IInv, Known
  <1>3. CASE PinEffect
    BY <1>3, PinEffectLoaded
  <1>4. CASE Start
    BY <1>4, StartLoaded
  <1>5. CASE Shutdown \/ Crash \/ CrashWhileSaving
    BY <1>5, EmptyMapType
    DEF Shutdown, Crash, CrashWhileSaving, Exit, LoadedPinLimit
  <1>6. CASE CreateFile \/ UNCHANGED vars
    BY <1>6 DEF CreateFile, vars, disk, history, LoadedPinLimit
  <1>7. QED
    BY <1>1, <1>2, <1>3, <1>4, <1>5, <1>6, RequestCases DEF Next

\* A device from the file gains at most its limit of pins in a run, and its
\* counter is what it gained, below zero in the width of the counter.
THEOREM LoadedLimitKept == Spec => []LoadedPinLimit
  <1>1. Init => LoadedPinLimit
    BY EmptyMapType DEF Init, LoadedPinLimit
  <1>2. IInv /\ LoadedPinLimit /\ [Next]_vars => LoadedPinLimit'
    BY NextLoaded
  <1>3. QED
    BY <1>1, <1>2, Invariance, PTL DEF Spec

-----------------------------------------------------------------------------
(***************************************************************************)
(* Restarts.  What is in a file that parses was saved, but for one device  *)
(* where a crash cut the save off; and a text that fills the file is there *)
(* with all its devices, each under an id of its own.                      *)
(***************************************************************************)
OneId(text) == \A i, j \in DOMAIN text : text[i].id = text[j].id => i = j

FileIsSaved ==
    /\ file.parses =>
          /\ ~saved.cut => Range(file.entries) \subseteq saved.entries
          /\ saved.cut => \E entry \in Entries :
                Range(file.entries) \subseteq saved.entries \cup {entry}
    /\ ~saved.cut /\ saved.length = file.size =>
          /\ file.parses \/ saved.entries = {}
          /\ file.parses => /\ saved.entries \subseteq Range(file.entries)
                            /\ OneId(file.entries)

\* Saving, failing to save and saving a part of it all keep that relation.
LEMMA NextFileIsSaved ==
  ASSUME \A text : DocLength(text) \in Nat,
         IInv, FileIsSaved, [Next]_vars
  PROVE  FileIsSaved'
  <1>1. CASE UNCHANGED <<saved, file>>
    BY <1>1 DEF FileIsSaved
  <1>2. ASSUME NEW new \in Dumps, file' \in Overwritten(new),
               saved' = [entries |-> Range(new), length |-> DocLength(new),
                         cut |-> FALSE]
        PROVE  FileIsSaved'
    <2>1. /\ saved'.entries = Range(new) /\ saved'.length = DocLength(new)
          /\ saved'.cut = FALSE /\ DocLength(new) \in Nat
      BY <1>2
    <2>2. CASE DocLength(new) >= file.size
      <3>1. file'.parses = TRUE /\ file'.entries = new
        BY <1>2, <2>2 DEF Overwritten, Text
      <3>2. OneId(new)
        BY DumpedText DEF OneId
      <3>3. QED
        BY <2>1, <3>1, <3>2 DEF FileIsSaved, OneId
    <2>3. CASE ~(DocLength(new) >= file.size)
      <3>1. file'.size = file.size /\ file'.parses = FALSE
        BY <1>2, <2>3 DEF Overwritten, Text
      <3>2. DocLength(new) # file.size
        BY <2>1, <2>3
      <3>3. QED
        BY <2>1, <3>1, <3>2 DEF FileIsSaved
    <2>4. QED
      BY <2>2, <2>3
  <1>3. CASE Shutdown
    BY <1>1, <1>2, <1>3 DEF Shutdown
  <1>4. ASSUME NEW new \in Dumps, file' \in Aligned(new),
               saved' = [entries |-> Range(file'.entries)
                            \cap (Range(new) \cup Range(file.entries)),
                         length |-> file.size, cut |-> TRUE]
        PROVE  FileIsSaved'
    <2>1. /\ saved'.cut = TRUE
          /\ saved'.entries = Range(file'.entries)
                                 \cap (Range(new) \cup Range(file.entries))
      BY <1>4
    <2>2. PICK entry \in Entries :
             Range(file'.entries)
                 \subseteq Range(new) \cup {entry} \cup Range(file.entries)
      BY <1>4, AlignedText
    <2>3. Range(file'.entries) \subseteq saved'.entries \cup {entry}
      BY <2>1, <2>2
    <2>4. QED
      BY <2>1, <2>3 DEF FileIsSaved
  <1>5. ASSUME NEW new \in Dumps, file' \in Spoiled(new), saved' = NothingSaved
        PROVE  FileIsSaved'
    <2>1. file'.parses = FALSE /\ saved'.entries = {}
      BY <1>5, SpoiledText DEF NothingSaved
    <2>2. QED
      BY <2>1 DEF FileIsSaved
  <1>6. CASE CrashWhileSaving
    BY <1>4, <1>5, <1>6 DEF CrashWhileSaving
  <1>7. CASE Start \/ Crash \/ CreateFile \/ UNCHANGED vars
    BY <1>1, <1>7 DEF Start, Crash, CreateFile, vars, disk, history
  <1>8. CASE Request
    <2>1. UNCHANGED <<saved, file>>
      BY <1>8, RequestCases
      DEF RegisterDevice, DeleteDevice, PinEffect, Answer, disk
    <2>2. QED
      BY <1>1, <2>1
  <1>9. QED
    BY <1>3, <1>6, <1>7, <1>8 DEF Next

\* The devices that a start loads are the ones of the file, as they are there
\* but for their counters.
LEMMA StartLoads ==
  ASSUME IInv, Start
  PROVE  /\ DOMAIN devices' = DOMAIN FromFile
         /\ \A id \in DOMAIN devices' : \E entry \in Range(file.entries) :
               /\ entry.id = id
               /\ entry.device =
                     [devices'[id] EXCEPT !.counter = entry.device.counter]
         /\ ~file.parses => DOMAIN devices' = {}
  <1>1. devices' = [id \in DOMAIN FromFile |-> Restored(FromFile[id])]
    BY DEF Start
  <1>2. TypeOK /\ IsIdMap(FromFile, Devices)
    BY LoadedEntries DEF IInv
  <1>3. ASSUME NEW id \in DOMAIN devices'
        PROVE  \E entry \in Range(file.entries) :
                  /\ entry.id = id
                  /\ entry.device =
                        [devices'[id] EXCEPT !.counter = entry.device.counter]
    <2>1. PICK entry \in Range(file.entries) :
             entry.id = id /\ FromFile[id] = entry.device
      BY <1>1, <1>2, <1>3, LoadedEntries
    <2>2. entry.device \in Devices /\ devices'[id] = Restored(entry.device)
      BY <1>1, <1>2, <1>3, <2>1 DEF IsIdMap
    <2>3. entry.device = [devices'[id] EXCEPT !.counter = entry.device.counter]
      BY <2>2, RestoredDevice
    <2>4. QED
      BY <2>1, <2>3
  <1>4. ASSUME ~file.parses PROVE DOMAIN FromFile = {}
    <2>1. Loadable = {}
      BY <1>4 DEF Loadable
    <2>2. QED
      BY <2>1 DEF Firsts, FromFile
  <1>5. QED
    BY <1>1, <1>3, <1>4

\* It loads all of them if each has an id of its own and JSON a number for
\* every double.
LEMMA AllLoaded ==
  ASSUME IInv, file.parses, OneId(file.entries),
         \A entry \in Range(file.entries) : Finite(entry.device)
  PROVE  DOMAIN FromFile = {entry.id : entry \in Range(file.entries)}
  <1>1. /\ Len(file.entries) \in Nat
        /\ DOMAIN file.entries = 1 .. Len(file.entries)
    BY LenProperties DEF IInv, TypeOK
  <1>2. Loadable = DOMAIN file.entries
    <2>1. \A i \in DOMAIN file.entries : \A j \in 1 .. i : j \in DOMAIN file.entries
      BY <1>1
    <2>2. QED
      BY <2>1 DEF Loadable, Range
  <1>3. \A i, j \in DOMAIN file.entries :
           file.entries[j].id = file.entries[i].id => i = j
    BY DEF OneId
  <1>4. Firsts = DOMAIN file.entries
    BY <1>1, <1>2, <1>3 DEF Firsts
  <1>5. QED
    BY <1>4 DEF FromFile, Range

\* A restart loads devices of the last save, with their ids, tokens, limits and
\* pins, and all of them if the save was whole, nothing was left behind its
\* text and every double is a number.  When a crash cut the save off and the
\* file parses all the same, they are devices of the save or of the text it was
\* written over, but for one at most.  Texts are assumed to have a length.
THEOREM RestartsRestore ==
  ASSUME \A text : DocLength(text) \in Nat
  PROVE  Spec => RestartRestores
  <1> DEFINE New == {id \in DOMAIN devices' : ~IsSaved(id, devices'[id])}
             Restores ==
        ~up /\ up' =>
          /\ Cardinality(New) <= (IF saved.cut THEN 1 ELSE 0)
          /\ /\ ~saved.cut /\ saved.length = file.size
             /\ \A entry \in saved.entries : Finite(entry.device)
             => {entry.id : entry \in saved.entries} = DOMAIN devices'
  <1>1. Init => FileIsSaved
    BY DEF Init, FileIsSaved, Text, NothingSaved
  <1>2. IInv /\ FileIsSaved /\ [Next]_vars => FileIsSaved'
    BY NextFileIsSaved
  <1>3. IInv /\ FileIsSaved /\ [Next]_vars => [Restores]_vars
    <2> SUFFICES ASSUME IInv, FileIsSaved, Next, ~up, up' PROVE Restores
      OBVIOUS
    <2>1. Start
      BY RequestCases
      DEF Next, Shutdown, Crash, CrashWhileSaving, CreateFile, Exit, PinEffect,
          RegisterDevice, DeleteDevice, Answer
    <2>2. \A id \in DOMAIN devices' : \E entry \in Range(file.entries) :
             /\ entry.id = id
             /\ entry.device =
                   [devices'[id] EXCEPT !.counter = entry.device.counter]
      BY <2>1, StartLoads
    <2>3. ~file.parses => DOMAIN devices' = {}
      BY <2>1, StartLoads
    <2>4. saved.cut \in BOOLEAN
      BY DEF IInv, TypeOK
    <2>5. ASSUME ~saved.cut \/ ~file.parses
          PROVE  Cardinality(New) <= (IF saved.cut THEN 1 ELSE 0)
      <3>1. New = {}
        BY <2>2, <2>3, <2>5 DEF FileIsSaved, IsSaved
      <3>2. QED
        BY <2>4, <3>1, FS_EmptySet
    <2>6. ASSUME saved.cut, file.parses
          PROVE  Cardinality(New) <= (IF saved.cut THEN 1 ELSE 0)
      <3>1. PICK entry \in Entries :
               Range(file.entries) \subseteq saved.entries \cup {entry}
        BY <2>6 DEF FileIsSaved
      <3>2. New \subseteq {entry.id}
        BY <2>2, <3>1 DEF IsSaved
      <3>3. Cardinality(New) <= 1
        <4>1. IsFiniteSet({entry.id}) /\ Cardinality({entry.id}) = 1
          BY FS_Singleton
        <4>2. QED
          BY <3>2, <4>1, FS_Subset
      <3>4. QED
        BY <2>6, <3>3
    <2>7. ASSUME ~saved.cut, saved.length = file.size,
                 \A entry \in saved.entries : Finite(entry.device)
          PROVE  {entry.id : entry \in saved.entries} = DOMAIN devices'
      <3>1. CASE ~file.parses
        BY <2>3, <2>7, <3>1 DEF FileIsSaved
      <3>2. CASE file.parses
        <4>1. saved.entries = Range(file.entries) /\ OneId(file.entries)
          BY <2>7, <3>2 DEF FileIsSaved
        <4>2. DOMAIN FromFile = {entry.id : entry \in Range(file.entries)}
          BY <2>7, <3>2, <4>1, AllLoaded
        <4>3. QED
          BY <2>1, <4>1, <4>2, StartLoads
      <3>3. QED
        BY <3>1, <3>2
    <2>8. QED
      BY <2>5, <2>6, <2>7
  <1>4. QED
    BY <1>1, <1>2, <1>3, Invariance, PTL DEF Spec, RestartRestores

=============================================================================
