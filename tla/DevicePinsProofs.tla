-------------------------- MODULE DevicePinsProofs --------------------------
(***************************************************************************)
(* Theorems about DevicePins, for all texts and what their conversions     *)
(* make of them, all limits, and all ranges of pin numbers and counters.   *)
(***************************************************************************)
EXTENDS DevicePins, TLAPS

-----------------------------------------------------------------------------
(***************************************************************************)
(* Lemmas about maps and conversions.                                      *)
(***************************************************************************)

\* Erasing a key leaves the other entries as they are.
LEMMA ErasedMap ==
  ASSUME NEW S, NEW map, map \in [DOMAIN map -> S], NEW key
  PROVE  /\ DOMAIN Erased(map, key) = DOMAIN map \ {key}
         /\ Erased(map, key) \in [DOMAIN map \ {key} -> S]
         /\ \A k \in DOMAIN map \ {key} : Erased(map, key)[k] = map[k]
  BY DEF Erased, Restrict

\* The empty map has no keys, whatever its values.
LEMMA EmptyMapType ==
  ASSUME NEW S
  PROVE  DOMAIN EmptyMap = {} /\ EmptyMap \in [{} -> S]
  BY DEF EmptyMap

\* A text that the conversion for a type accepts becomes a value of the type.
LEMMA ConvertedType ==
  ASSUME NEW type \in PinTypes, NEW data \in Accepted(type)
  PROVE  Converted(type, data) \in ValuesOf(type)
  <1>1. CASE type = "i"
    BY <1>1 DEF Accepted, Converted, Pin, ValuesOf, Range
  <1>2. CASE type = "d"
    BY <1>2 DEF Accepted, Converted, Pin, ValuesOf, Range
  <1>3. CASE type = "s"
    BY <1>3 DEF Accepted, Converted, Pin, ValuesOf
  <1>4. QED
    BY <1>1, <1>2, <1>3 DEF PinTypes

\* The counter wraps within its range in either direction.
LEMMA CounterType ==
  ASSUME NEW counter \in 0 .. CounterRange - 1
  PROVE  /\ Increment(counter) \in 0 .. CounterRange - 1
         /\ Decrement(counter) \in 0 .. CounterRange - 1
         /\ 0 \in 0 .. CounterRange - 1
  BY WidthAssumption DEF Increment, Decrement

-----------------------------------------------------------------------------
(***************************************************************************)
(* The inductive invariant.  The types are those of the maps of values, so *)
(* a look-up always finds its value.                                       *)
(***************************************************************************)
IInv == TypeOK /\ MapsAgree

\* A listed pin has its value in the map that its type selects.
LEMMA ListedHasValue ==
  ASSUME IInv, NEW n \in DOMAIN m_pinsType
  PROVE  /\ m_pinsType[n] \in PinTypes
         /\ HasValue(n)
  BY DEF IInv, TypeOK, MapsAgree, HasValue

\* The types that loadFile makes from the values are the ones that were there.
LEMMA TypesRestored ==
  ASSUME IInv
  PROVE  TypesOfValues = m_pinsType
  <1>1. DOMAIN TypesOfValues = DOMAIN m_pinsType
    <2>1. DOMAIN TypesOfValues = UNION {DOMAIN values[type] : type \in PinTypes}
      BY DEF TypesOfValues
    <2>2. \A n : n \in UNION {DOMAIN values[type] : type \in PinTypes}
                    <=> n \in DOMAIN m_pinsType
      BY DEF IInv, TypeOK, MapsAgree
    <2>3. QED
      BY <2>1, <2>2
  <1>2. ASSUME NEW n \in DOMAIN m_pinsType
        PROVE  TypesOfValues[n] = m_pinsType[n]
    BY <1>1, ListedHasValue DEF TypesOfValues, IInv, MapsAgree, PinTypes
  <1>3. QED
    BY <1>1, <1>2 DEF TypesOfValues, IInv, TypeOK

LEMMA InitIInv == Init => IInv
  <1> SUFFICES ASSUME Init PROVE IInv
    OBVIOUS
  <1>1. /\ DOMAIN m_pinsType = {} /\ m_pinsType \in [{} -> PinTypes]
        /\ \A type \in PinTypes : /\ DOMAIN values[type] = {}
                                  /\ values[type] \in [{} -> ValuesOf(type)]
    BY EmptyMapType DEF Init
  <1>2. TypeOK
    BY <1>1, CounterType, WidthAssumption
      DEF Init, TypeOK, Codes
  <1>3. MapsAgree
    BY <1>1 DEF MapsAgree
  <1>4. QED
    BY <1>2, <1>3 DEF IInv

\* What addPin does not refuse is a new pin of one of the types.
LEMMA RefusalOK ==
  ASSUME NEW n, NEW type, Refusal(n, type) = "OK"
  PROVE  /\ m_pinsCounter # m_maxPins
         /\ n \notin DOMAIN m_pinsType
         /\ type \in PinTypes
  <1> USE DEF Refusal, PinTypes
  <1>1. m_pinsCounter # m_maxPins
    OBVIOUS
  <1>2. type # ""
    BY <1>1
  <1>3. n \notin DOMAIN m_pinsType
    BY <1>1, <1>2
  <1>4. type \in PinTypes
    BY <1>1, <1>2, <1>3
  <1>5. QED
    BY <1>1, <1>3, <1>4

\* addPin puts a new pin into the map of types and into one of the others.
LEMMA AddPinIInv ==
  ASSUME IInv, NEW n \in PinNumbers, NEW type \in DataTypes, NEW data \in Texts,
         Refusal(n, type) = "OK", data \in Accepted(type),
         values' = [values EXCEPT ![type] =
                       Emplaced(@, n, Converted(type, data))],
         m_pinsType' = Emplaced(m_pinsType, n, type),
         m_pinsCounter' = Increment(m_pinsCounter),
         Return("OK")
  PROVE  IInv'
  <1>1. type \in PinTypes /\ n \notin DOMAIN m_pinsType
    BY RefusalOK
  <1>2. n \notin DOMAIN values[type]
    BY <1>1 DEF IInv, MapsAgree
  <1>3. /\ DOMAIN m_pinsType' = DOMAIN m_pinsType \cup {n}
        /\ m_pinsType' \in [DOMAIN m_pinsType \cup {n} -> PinTypes]
        /\ \A k \in DOMAIN m_pinsType : m_pinsType'[k] = m_pinsType[k]
        /\ m_pinsType'[n] = type
    <2>1. m_pinsType \in [DOMAIN m_pinsType -> PinTypes]
      BY DEF IInv, TypeOK
    <2>2. QED
      BY <1>1, <2>1 DEF Emplaced, Stored
  <1>4. /\ DOMAIN values' = PinTypes
        /\ \A t \in PinTypes \ {type} : values'[t] = values[t]
        /\ values'[type] = Emplaced(values[type], n, Converted(type, data))
    BY <1>1 DEF IInv, TypeOK
  <1>5. /\ DOMAIN values'[type] = DOMAIN values[type] \cup {n}
        /\ values'[type] \in [DOMAIN values[type] \cup {n} -> ValuesOf(type)]
    <2>1. values[type] \in [DOMAIN values[type] -> ValuesOf(type)]
      BY <1>1 DEF IInv, TypeOK
    <2>2. Converted(type, data) \in ValuesOf(type)
      BY <1>1, ConvertedType
    <2>3. QED
      BY <1>4, <2>1, <2>2 DEF Emplaced, Stored
  <1>6. TypeOK'
    BY <1>3, <1>4, <1>5, CounterType DEF IInv, TypeOK, Return, Codes
  <1>7. MapsAgree'
    BY <1>1, <1>3, <1>4, <1>5 DEF IInv, MapsAgree
  <1>8. QED
    BY <1>6, <1>7 DEF IInv

\* changePin keeps the keys of all maps.
LEMMA ChangePinIInv ==
  ASSUME IInv, NEW n \in DOMAIN m_pinsType, NEW data \in Accepted(m_pinsType[n]),
         values' = [values EXCEPT ![m_pinsType[n]][n] =
                       Converted(m_pinsType[n], data)],
         UNCHANGED <<m_pinsType, m_pinsCounter>>,
         Return("OK")
  PROVE  IInv'
  <1> DEFINE type == m_pinsType[n]
  <1>1. type \in PinTypes /\ n \in DOMAIN values[type]
    BY ListedHasValue DEF HasValue
  <1>2. /\ DOMAIN values' = PinTypes
        /\ \A t \in PinTypes \ {type} : values'[t] = values[t]
        /\ DOMAIN values'[type] = DOMAIN values[type]
        /\ values'[type] \in [DOMAIN values[type] -> ValuesOf(type)]
    <2>1. Converted(type, data) \in ValuesOf(type)
      BY <1>1, ConvertedType
    <2>2. values[type] \in [DOMAIN values[type] -> ValuesOf(type)]
      BY <1>1 DEF IInv, TypeOK
    <2>3. values'[type] = [values[type] EXCEPT ![n] = Converted(type, data)]
      BY <1>1 DEF IInv, TypeOK
    <2>4. QED
      BY <1>1, <2>1, <2>2, <2>3 DEF IInv, TypeOK
  <1>3. TypeOK'
    BY <1>2 DEF IInv, TypeOK, Return, Codes
  <1>4. MapsAgree'
    BY <1>1, <1>2 DEF IInv, MapsAgree
  <1>5. QED
    BY <1>3, <1>4 DEF IInv

\* removePin takes a pin out of the map of types and of the one it selects.
LEMMA RemovePinIInv ==
  ASSUME IInv, NEW n \in DOMAIN m_pinsType,
         values' = [values EXCEPT ![m_pinsType[n]] = Erased(@, n)],
         m_pinsType' = Erased(m_pinsType, n),
         m_pinsCounter' = Decrement(m_pinsCounter),
         Return("OK")
  PROVE  IInv'
  <1> DEFINE type == m_pinsType[n]
  <1>1. type \in PinTypes
    BY ListedHasValue
  <1>2. /\ DOMAIN m_pinsType' = DOMAIN m_pinsType \ {n}
        /\ m_pinsType' \in [DOMAIN m_pinsType \ {n} -> PinTypes]
        /\ \A k \in DOMAIN m_pinsType \ {n} : m_pinsType'[k] = m_pinsType[k]
    BY ErasedMap DEF IInv, TypeOK
  <1>3. /\ DOMAIN values' = PinTypes
        /\ \A t \in PinTypes \ {type} : values'[t] = values[t]
        /\ values'[type] = Erased(values[type], n)
    BY <1>1 DEF IInv, TypeOK
  <1>4. /\ DOMAIN values'[type] = DOMAIN values[type] \ {n}
        /\ values'[type] \in [DOMAIN values[type] \ {n} -> ValuesOf(type)]
    <2>1. values[type] \in [DOMAIN values[type] -> ValuesOf(type)]
      BY <1>1 DEF IInv, TypeOK
    <2>2. QED
      BY <1>3, <2>1 DEF Erased, Restrict
  <1>5. TypeOK'
    BY <1>2, <1>3, <1>4, CounterType DEF IInv, TypeOK, Return, Codes
  <1>6. MapsAgree'
    BY <1>1, <1>2, <1>3, <1>4 DEF IInv, MapsAgree
  <1>7. QED
    BY <1>5, <1>6 DEF IInv

\* An operation that fails leaves the maps alone, and returns a code.
LEMMA FailIInv ==
  ASSUME IInv, NEW result \in Codes, Fail(result)
  PROVE  IInv'
  BY DEF IInv, TypeOK, MapsAgree, Fail, Return, maps

LEMMA ReturnCodes ==
  /\ {"missing", "throws"} \subseteq Codes
  /\ \A n, type : Refusal(n, type) \in Codes
  BY DEF Codes, Refusals, Refusal

LEMMA NextIInv == IInv /\ [Next]_vars => IInv'
  <1> SUFFICES ASSUME IInv, [Next]_vars PROVE IInv'
    OBVIOUS
  <1>1. CASE UNCHANGED vars
    BY <1>1 DEF IInv, TypeOK, MapsAgree, vars, maps
  <1>2. CASE Reload
    BY <1>2, TypesRestored, CounterType DEF Reload, IInv, TypeOK, MapsAgree
  <1>3. ASSUME NEW n \in PinNumbers, RemovePin(n)
        PROVE  IInv'
    <2>1. CASE n \notin DOMAIN m_pinsType /\ Fail("missing")
      BY <2>1, FailIInv, ReturnCodes
    <2>2. CASE ~(n \notin DOMAIN m_pinsType /\ Fail("missing"))
      BY <1>3, <2>2, RemovePinIInv DEF RemovePin
    <2>3. QED
      BY <2>1, <2>2
  <1>4. ASSUME NEW n \in PinNumbers, GetPin(n)
        PROVE  IInv'
    BY <1>4 DEF Codes, GetPin, maps, IInv, TypeOK, MapsAgree
  <1>5. ASSUME NEW n \in PinNumbers, NEW data \in Texts, ChangePin(n, data)
        PROVE  IInv'
    <2>1. CASE Fail("missing") \/ Fail("throws")
      BY <2>1, FailIInv, ReturnCodes
    <2>2. CASE ~(Fail("missing") \/ Fail("throws"))
      BY <1>5, <2>2, ChangePinIInv DEF ChangePin
    <2>3. QED
      BY <2>1, <2>2
  <1>6. ASSUME NEW n \in PinNumbers, NEW data \in Texts, NEW type \in DataTypes,
               AddPin(n, type, data)
        PROVE  IInv'
    <2>1. CASE Fail(Refusal(n, type)) \/ Fail("throws")
      BY <2>1, FailIInv, ReturnCodes
    <2>2. CASE ~(Fail(Refusal(n, type)) \/ Fail("throws"))
      BY <1>6, <2>2, AddPinIInv DEF AddPin
    <2>3. QED
      BY <2>1, <2>2
  <1>7. QED
    BY <1>1, <1>2, <1>3, <1>4, <1>5, <1>6 DEF Next

LEMMA Invariance == Spec => []IInv
  <1>1. QED
    BY InitIInv, NextIInv, PTL DEF Spec

-----------------------------------------------------------------------------

\* The four maps, the wrapping counter and the results keep their types.
THEOREM TypeCorrect == Spec => []TypeOK
  <1>1. IInv => TypeOK
    BY DEF IInv
  <1>2. QED
    BY <1>1, Invariance, PTL

\* A pin has a value of exactly the type it is listed under, whatever was
\* refused or thrown, so that no at throws and no end iterator is erased.
THEOREM MapsAlwaysAgree == Spec => []MapsAgree
  <1>1. IInv => MapsAgree
    BY DEF IInv
  <1>2. QED
    BY <1>1, Invariance, PTL

-----------------------------------------------------------------------------
(***************************************************************************)
(* The refinement.  PinsOf is the table of pins that the maps stand for.   *)
(***************************************************************************)
PinsOf == [k \in DOMAIN m_pinsType |->
              [type |-> m_pinsType[k], value |-> values[m_pinsType[k]][k]]]

\* The pins of the table, its counter and its limit.
LEMMA TableParts ==
  /\ Table = [maxPins |-> m_maxPins, counter |-> m_pinsCounter, pins |-> PinsOf]
  /\ Table' = [maxPins |-> m_maxPins', counter |-> m_pinsCounter',
               pins |-> PinsOf']
  /\ DOMAIN Table.pins = DOMAIN m_pinsType
  /\ Table.counter = m_pinsCounter /\ Table.maxPins = m_maxPins
  /\ Table.pins = PinsOf
  BY DEF Table, PinsOf

\* What adding and removing make of a table, field by field.
LEMMA TableUpdates ==
  ASSUME NEW limit, NEW counter, NEW pins, NEW n, NEW pin,
         NEW t, t = [maxPins |-> limit, counter |-> counter, pins |-> pins]
  PROVE  /\ PT!WithPin(t, n, pin) =
               [maxPins |-> limit, counter |-> PT!Increment(counter),
                pins |-> PT!Emplaced(pins, n, pin)]
         /\ PT!WithoutPin(t, n) =
               [maxPins |-> limit, counter |-> PT!Decrement(counter),
                pins |-> PT!Erased(pins, n)]
  <1>1. ASSUME NEW p, NEW c
        PROVE  [t EXCEPT !.pins = p, !.counter = c] =
                   [maxPins |-> limit, counter |-> c, pins |-> p]
    <2> DEFINE u == [t EXCEPT !.pins = p]
               w == [u EXCEPT !.counter = c]
    <2>1. u = [maxPins |-> limit, counter |-> counter, pins |-> p]
      OBVIOUS
    <2> HIDE DEF u
    <2>2. w = [maxPins |-> limit, counter |-> c, pins |-> p]
      BY <2>1
    <2>3. QED
      BY <2>2 DEF u
  <1>2. t.pins = pins /\ t.counter = counter
    OBVIOUS
  <1>3. QED
    BY <1>1, <1>2 DEF PT!WithPin, PT!WithoutPin

\* A pin of the table holds the value the code converts the text to.
LEMMA PinIsConverted ==
  ASSUME NEW type \in PinTypes, NEW data
  PROVE  PT!Pin(type, data) = [type |-> type, value |-> Converted(type, data)]
  <1>1. CASE type = "i"
    BY <1>1 DEF PT!Pin, Pin, Converted
  <1>2. CASE type = "d"
    BY <1>2 DEF PT!Pin, Pin, Converted
  <1>3. CASE type = "s"
    BY <1>3 DEF PT!Pin, Pin, Converted
  <1>4. QED
    BY <1>1, <1>2, <1>3 DEF PinTypes

\* A new device has an empty table.
LEMMA InitRefined == Init => PT!Init
  <1> SUFFICES ASSUME Init PROVE PT!Init
    OBVIOUS
  <1>1. PinsOf = PT!EmptyMap
    BY DEF Init, PinsOf, EmptyMap, PT!EmptyMap
  <1>2. QED
    BY <1>1, TableParts DEF Init, PT!Init, Outcome

\* What fails in the code fails in the table.
LEMMA FailRefined ==
  ASSUME NEW result \in Codes, Fail(result)
  PROVE  /\ result \in Refusals => PT!Fail("refused")
         /\ result = "throws" => PT!Fail("throws")
  <1>1. UNCHANGED Table
    BY DEF Fail, Return, maps, Table
  <1>2. code' = result /\ text' = EmptyText
    BY DEF Fail, Return
  <1>3. QED
    BY <1>1, <1>2 DEF PT!Fail, PT!Answer, Outcome, Refusals, Codes

\* What addPin does not refuse is what the table can add.
LEMMA AddableIffNotRefused ==
  ASSUME NEW n, NEW type
  PROVE  PT!Addable(Table, n, type) <=> Refusal(n, type) = "OK"
  BY TableParts DEF PT!Addable, Refusal, PT!PinTypes, PinTypes

LEMMA AddPinRefined ==
  ASSUME IInv, NEW n \in PinNumbers, NEW type \in DataTypes, NEW data \in Texts,
         AddPin(n, type, data)
  PROVE  PT!AddPin(n, type, data)
  <1>1. CASE Refusal(n, type) # "OK" /\ Fail(Refusal(n, type))
    <2>1. Refusal(n, type) \in Refusals
      BY <1>1 DEF Refusal, Refusals
    <2>2. QED
      BY <1>1, <2>1, FailRefined, AddableIffNotRefused DEF PT!AddPin, Codes
  <1>2. CASE Refusal(n, type) = "OK" /\ data \notin Accepted(type) /\ Fail("throws")
    BY <1>2, FailRefined, AddableIffNotRefused
       DEF PT!AddPin, Codes, PT!Accepted, Accepted
  <1>3. CASE /\ Refusal(n, type) = "OK" /\ data \in Accepted(type)
             /\ values' = [values EXCEPT ![type] =
                              Emplaced(@, n, Converted(type, data))]
             /\ m_pinsType' = Emplaced(m_pinsType, n, type)
             /\ m_pinsCounter' = Increment(m_pinsCounter)
             /\ Return("OK")
    <2>1. type \in PinTypes /\ n \notin DOMAIN m_pinsType
      BY <1>3, RefusalOK
    <2>2. n \notin DOMAIN values[type] /\ DOMAIN values = PinTypes
      BY <2>1 DEF IInv, MapsAgree, TypeOK
    <2>3. PinsOf' = PT!Emplaced(PinsOf, n, PT!Pin(type, data))
      <3>1. PT!Pin(type, data) = [type |-> type, value |-> Converted(type, data)]
        BY <2>1, PinIsConverted
      <3>2. /\ DOMAIN m_pinsType' = DOMAIN m_pinsType \cup {n}
            /\ m_pinsType'[n] = type
            /\ \A k \in DOMAIN m_pinsType : m_pinsType'[k] = m_pinsType[k]
        BY <1>3, <2>1 DEF Emplaced, Stored
      <3>3. values'[type][n] = Converted(type, data)
        BY <1>3, <2>1, <2>2 DEF Emplaced, Stored
      <3>4. ASSUME NEW k \in DOMAIN m_pinsType
            PROVE  values'[m_pinsType[k]][k] = values[m_pinsType[k]][k]
        <4>1. m_pinsType[k] \in PinTypes /\ k \in DOMAIN values[m_pinsType[k]]
          BY ListedHasValue DEF HasValue
        <4>2. k # n
          BY <2>1
        <4>3. QED
          BY <1>3, <2>1, <2>2, <4>1, <4>2 DEF Emplaced, Stored
      <3>5. QED
        BY <2>1, <3>1, <3>2, <3>3, <3>4 DEF PinsOf, PT!Emplaced, PT!Stored
    <2>4. Table' = PT!WithPin(Table, n, PT!Pin(type, data))
      <3>1. m_pinsCounter' = PT!Increment(m_pinsCounter)
        BY <1>3 DEF PT!Increment, Increment
      <3>2. m_maxPins' = m_maxPins
        BY <1>3 DEF Return
      <3>3. QED
        BY <2>3, <3>1, <3>2, TableParts, TableUpdates
    <2>5. QED
      BY <1>3, <2>4, AddableIffNotRefused
         DEF PT!AddPin, PT!Answer, Return, Outcome, PT!Accepted, Accepted
  <1>4. QED
    BY <1>1, <1>2, <1>3 DEF AddPin

LEMMA ChangePinRefined ==
  ASSUME IInv, NEW n \in PinNumbers, NEW data \in Texts, ChangePin(n, data)
  PROVE  PT!ChangePin(n, data)
  <1> DEFINE type == m_pinsType[n]
  <1>1. CASE n \notin DOMAIN m_pinsType
    BY <1>1, FailRefined, TableParts
       DEF ChangePin, PT!ChangePin, Codes, Refusals
  <1>2. CASE n \in DOMAIN m_pinsType
    <2>1. /\ type \in PinTypes /\ n \in DOMAIN values[type]
          /\ DOMAIN values = PinTypes
      BY <1>2, ListedHasValue DEF HasValue, IInv, TypeOK
    <2>2. Table.pins[n].type = type
      BY <1>2 DEF Table
    <2>3. CASE data \notin Accepted(type)
      <3>1. Fail("throws")
        BY <1>2, <2>3 DEF ChangePin
      <3>2. PT!Fail("throws")
        BY <3>1, FailRefined DEF Codes
      <3>3. data \notin PT!Accepted(Table.pins[n].type)
        BY <2>2, <2>3 DEF PT!Accepted, Accepted
      <3>4. QED
        BY <1>2, <3>2, <3>3, TableParts DEF PT!ChangePin
    <2>4. CASE data \in Accepted(type)
      <3>1. /\ values' = [values EXCEPT ![type][n] = Converted(type, data)]
            /\ UNCHANGED <<m_pinsType, m_pinsCounter>>
            /\ Return("OK")
        BY <1>2, <2>1, <2>4 DEF ChangePin, HasValue
      <3>2. PinsOf' = [PinsOf EXCEPT ![n] = PT!Pin(type, data)]
        <4>1. PT!Pin(type, data) =
                 [type |-> type, value |-> Converted(type, data)]
          BY <2>1, PinIsConverted
        <4>2. values'[type][n] = Converted(type, data)
          BY <2>1, <3>1
        <4>3. ASSUME NEW k \in DOMAIN m_pinsType, k # n
              PROVE  values'[m_pinsType[k]][k] = values[m_pinsType[k]][k]
          BY <2>1, <3>1, <4>3, ListedHasValue DEF HasValue
        <4>4. QED
          BY <1>2, <3>1, <4>1, <4>2, <4>3 DEF PinsOf
      <3>3. Table' = [Table EXCEPT !.pins[n] = PT!Pin(type, data)]
        BY <3>1, <3>2, TableParts DEF Return
      <3>4. QED
        BY <1>2, <2>2, <2>4, <3>1, <3>3, TableParts
           DEF PT!ChangePin, PT!Answer, Return, Outcome, PT!Accepted, Accepted
    <2>5. QED
      BY <2>3, <2>4
  <1>3. QED
    BY <1>1, <1>2

LEMMA RemovePinRefined ==
  ASSUME IInv, NEW n \in PinNumbers, RemovePin(n)
  PROVE  PT!RemovePin(n)
  <1> DEFINE type == m_pinsType[n]
  <1>1. CASE n \notin DOMAIN m_pinsType
    BY <1>1, FailRefined, TableParts
       DEF RemovePin, PT!RemovePin, Codes, Refusals
  <1>2. CASE n \in DOMAIN m_pinsType
    <2>1. /\ values' = [values EXCEPT ![type] = Erased(@, n)]
          /\ m_pinsType' = Erased(m_pinsType, n)
          /\ m_pinsCounter' = Decrement(m_pinsCounter)
          /\ Return("OK")
      BY <1>2 DEF RemovePin
    <2>2. type \in PinTypes /\ DOMAIN values = PinTypes
      BY <1>2, ListedHasValue DEF IInv, TypeOK
    <2>3. PinsOf' = PT!Erased(PinsOf, n)
      <3>1. /\ DOMAIN m_pinsType' = DOMAIN m_pinsType \ {n}
            /\ \A k \in DOMAIN m_pinsType \ {n} : m_pinsType'[k] = m_pinsType[k]
        BY <2>1 DEF Erased, Restrict
      <3>2. ASSUME NEW k \in DOMAIN m_pinsType \ {n}
            PROVE  values'[m_pinsType[k]][k] = values[m_pinsType[k]][k]
        <4>1. m_pinsType[k] \in PinTypes /\ k \in DOMAIN values[m_pinsType[k]]
          BY ListedHasValue DEF HasValue
        <4>2. QED
          BY <2>1, <2>2, <4>1 DEF Erased, Restrict
      <3>3. QED
        BY <3>1, <3>2 DEF PinsOf, PT!Erased, PT!Restrict, Restrict
    <2>4. Table' = PT!WithoutPin(Table, n)
      <3>1. m_pinsCounter' = PT!Decrement(m_pinsCounter)
        BY <2>1 DEF PT!Decrement, Decrement
      <3>2. m_maxPins' = m_maxPins
        BY <2>1 DEF Return
      <3>3. QED
        BY <2>3, <3>1, <3>2, TableParts, TableUpdates
    <2>5. QED
      BY <1>2, <2>1, <2>4, TableParts
         DEF PT!RemovePin, PT!Answer, Return, Outcome
  <1>3. QED
    BY <1>1, <1>2

LEMMA GetPinRefined ==
  ASSUME IInv, NEW n \in PinNumbers, GetPin(n)
  PROVE  PT!GetPin(n)
  <1>1. UNCHANGED Table
    BY DEF GetPin, maps, Table
  <1>2. CASE n \in DOMAIN m_pinsType
    <2>1. code' = "OK" /\ text' = ValueText(n)
      BY <1>2, ListedHasValue DEF GetPin
    <2>2. Table.pins[n] = [type  |-> m_pinsType[n],
                           value |-> values[m_pinsType[n]][n]]
      BY <1>2 DEF Table
    <2>3. ValueText(n) = PT!TextOf(Table.pins[n])
      BY <2>2 DEF ValueText, PT!TextOf
    <2>4. QED
      BY <1>1, <1>2, <2>1, <2>3, TableParts DEF PT!GetPin, PT!Answer, Outcome
  <1>3. CASE n \notin DOMAIN m_pinsType
    BY <1>1, <1>3, TableParts DEF GetPin, PT!GetPin, PT!Answer, Outcome
  <1>4. QED
    BY <1>2, <1>3

LEMMA ReloadRefined ==
  ASSUME IInv, Reload
  PROVE  PT!Reload
  <1>1. m_pinsType' = m_pinsType
    BY TypesRestored DEF Reload
  <1>2. PinsOf' = PinsOf
    BY <1>1 DEF Reload, PinsOf
  <1>3. QED
    BY <1>2, TableParts DEF Reload, PT!Reload, Outcome

LEMMA StepRefined == IInv /\ [Next]_vars => [PT!Next]_(PT!vars)
  <1> SUFFICES ASSUME IInv, [Next]_vars PROVE [PT!Next]_(PT!vars)
    OBVIOUS
  <1>1. PinNumbers = PT!PinNumbers /\ DataTypes = PT!DataTypes
    BY DEF PinNumbers, PT!PinNumbers, DataTypes, PT!DataTypes, PinTypes,
           PT!PinTypes
  <1>2. CASE UNCHANGED vars
    BY <1>2 DEF vars, maps, PT!vars, Table, Outcome
  <1>3. CASE Next
    BY <1>1, <1>3, ReloadRefined, RemovePinRefined, GetPinRefined,
       ChangePinRefined, AddPinRefined DEF Next, PT!Next
  <1>4. QED
    BY <1>2, <1>3

\* Every operation on the four maps is the operation on one table of typed
\* pins: it succeeds as a whole or changes nothing.
THEOREM ImplementsTable == Spec => ImplementsPinTable
  <1>1. QED
    BY InitRefined, StepRefined, Invariance, PTL
       DEF Spec, ImplementsPinTable, PT!Spec

=============================================================================
