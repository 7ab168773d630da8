---------------------------- MODULE DevicePins -----------------------------
(***************************************************************************)
(* The virtual pins as Device keeps them: a map of types, a map of values  *)
(* for each type, and a counter.  The operations look a pin up in the map  *)
(* of types and then in the map its type selects, and the conversions may  *)
(* throw between the checks and the changes.                               *)
(***************************************************************************)
EXTENDS VirtualPins

CONSTANTS
    NumberText,       \* std::to_string: the text of every pin with a number
    EmptyText,      \* the text of no characters
    MaxPinsOptions  \* the limits devices are built with

VARIABLES
    m_pinsType,     \* the type of every pin
    values,         \* m_intPins, m_doublePins and m_stringPins, by their type
    m_pinsCounter, m_maxPins,
    code,           \* what the last operation returned, or that it threw
    text            \* the text it read

maps == <<m_pinsType, values>>
vars == <<maps, m_pinsCounter, m_maxPins, code, text>>

\* What the operations return, for the numbers 0 to 4, and what throws.
Refusals == {"limit", "unspecified", "exists", "invalid", "missing"}
Codes == {"OK", "throws"} \cup Refusals

ValuesOf(type) == CASE type = "i" -> Range(Stoi)
                    [] type = "d" -> Range(Stod)
                    [] type = "s" -> Texts

TypeOK ==
    /\ DOMAIN m_pinsType \subseteq PinNumbers
    /\ m_pinsType \in [DOMAIN m_pinsType -> PinTypes]
    /\ DOMAIN values = PinTypes
    /\ \A type \in PinTypes :
          values[type] \in [DOMAIN values[type] -> ValuesOf(type)]
    /\ m_pinsCounter \in 0 .. CounterRange - 1
    /\ m_maxPins \in MaxPinsOptions
    /\ code \in Codes

Init ==
    /\ m_pinsType = EmptyMap /\ values = [type \in PinTypes |-> EmptyMap]
    /\ m_pinsCounter = 0 /\ m_maxPins \in MaxPinsOptions
    /\ code = "OK" /\ text = EmptyText

-----------------------------------------------------------------------------
Return(result) == code' = result /\ text' = EmptyText /\ UNCHANGED m_maxPins

Fail(result) == Return(result) /\ UNCHANGED <<maps, m_pinsCounter>>

Converted(type, data) == Pin(type, data).value

\* What addPin returns before it gets to the conversion.
Refusal(n, type) ==
    IF m_pinsCounter = m_maxPins THEN "limit"
    ELSE IF type = "" THEN "unspecified"
    ELSE IF n \in DOMAIN m_pinsType THEN "exists"
    ELSE IF type \notin PinTypes THEN "invalid"
    ELSE "OK"

\* Mutant: the type is put down before the data is converted.
AddPinTypeFirst(n, type, data) ==
    \/ Refusal(n, type) # "OK" /\ Fail(Refusal(n, type))
    \/ /\ Refusal(n, type) = "OK"
       /\ m_pinsType' = Emplaced(m_pinsType, n, type)
       /\ IF data \in Accepted(type)
          THEN /\ values' = [values EXCEPT ![type] =
                                Emplaced(@, n, Converted(type, data))]
               /\ m_pinsCounter' = Increment(m_pinsCounter)
               /\ Return("OK")
          ELSE Return("throws") /\ UNCHANGED <<values, m_pinsCounter>>

AddPin(n, type, data) ==
    \/ Refusal(n, type) # "OK" /\ Fail(Refusal(n, type))
    \/ Refusal(n, type) = "OK" /\ data \notin Accepted(type) /\ Fail("throws")
    \/ /\ Refusal(n, type) = "OK" /\ data \in Accepted(type)
       /\ values' = [values EXCEPT ![type] =
                        Emplaced(@, n, Converted(type, data))]
       /\ m_pinsType' = Emplaced(m_pinsType, n, type)
       /\ m_pinsCounter' = Increment(m_pinsCounter)
       /\ Return("OK")

\* The map that the pin's type selects has the pin; at throws if it has not.
HasValue(n) == n \in DOMAIN values[m_pinsType[n]]

ChangePin(n, data) ==
    LET exists == n \in DOMAIN m_pinsType
        type   == m_pinsType[n]
        change == HasValue(n) /\ data \in Accepted(type)
    IN
    \/ ~exists /\ Fail("missing")
    \/ exists /\ ~change /\ Fail("throws")
    \/ /\ exists /\ change
       /\ values' = [values EXCEPT ![type][n] = Converted(type, data)]
       /\ UNCHANGED <<m_pinsType, m_pinsCounter>>
       /\ Return("OK")

\* Mutant: the value stays in its map.
RemovePinType(n) ==
    \/ n \notin DOMAIN m_pinsType /\ Fail("missing")
    \/ /\ n \in DOMAIN m_pinsType
       /\ m_pinsType' = Erased(m_pinsType, n)
       /\ m_pinsCounter' = Decrement(m_pinsCounter)
       /\ UNCHANGED values
       /\ Return("OK")

RemovePin(n) ==
    \/ n \notin DOMAIN m_pinsType /\ Fail("missing")
    \/ /\ n \in DOMAIN m_pinsType
       /\ values' = [values EXCEPT ![m_pinsType[n]] = Erased(@, n)]
       /\ m_pinsType' = Erased(m_pinsType, n)
       /\ m_pinsCounter' = Decrement(m_pinsCounter)
       /\ Return("OK")

ValueText(n) ==
    LET type == m_pinsType[n]
        value == values[type][n]
    IN  IF type = "s" THEN value
        ELSE NumberText[[type |-> type, value |-> value]]

GetPin(n) ==
    /\ \/ n \in DOMAIN m_pinsType /\ ~HasValue(n)
          /\ code' = "throws" /\ text' = EmptyText
       \/ n \in DOMAIN m_pinsType /\ HasValue(n)
          /\ code' = "OK" /\ text' = ValueText(n)
       \/ n \notin DOMAIN m_pinsType
          /\ code' = "OK" /\ text' = EmptyText
    /\ UNCHANGED <<maps, m_pinsCounter, m_maxPins>>

\* saveFile writes the three maps of values, and loadFile makes the types from
\* them, a string winning over a double and a double over an integer.
TypesOfValues ==
    [n \in UNION {DOMAIN values[type] : type \in PinTypes} |->
        IF n \in DOMAIN values["s"] THEN "s"
        ELSE IF n \in DOMAIN values["d"] THEN "d"
        ELSE "i"]

\* The device is saved and loaded again.  The values are ones that JSON has a
\* text for.
Reload ==
    /\ m_pinsType' = TypesOfValues
    /\ m_pinsCounter' = 0
    /\ UNCHANGED <<values, m_maxPins, code, text>>

Next ==
    \/ Reload
    \/ \E n \in PinNumbers :
          \/ RemovePin(n)
          \/ GetPin(n)
          \/ \E data \in Texts :
                \/ ChangePin(n, data)
                \/ \E type \in DataTypes : AddPin(n, type, data)

Spec == Init /\ [][Next]_vars

-----------------------------------------------------------------------------
(***************************************************************************)
(* Properties.                                                             *)
(***************************************************************************)

\* Whatever was refused or thrown on the way, the maps agree: a number has a
\* value of exactly the type that it is listed under, so no lookup throws, no
\* end iterator is advanced or erased, and the types need not be saved.
MapsAgree ==
    \A type \in PinTypes :
        DOMAIN values[type] = {n \in DOMAIN m_pinsType : m_pinsType[n] = type}

\* The four maps are one table of typed pins, and every operation succeeds as
\* a whole or changes nothing, in spite of the conversions that throw.
Outcome == CASE code = "OK" -> "done"
             [] code = "throws" -> "throws"
             [] OTHER -> "refused"

Table == [maxPins |-> m_maxPins, counter |-> m_pinsCounter,
          pins |-> [n \in DOMAIN m_pinsType |->
                       [type  |-> m_pinsType[n],
                        value |-> values[m_pinsType[n]][n]]]]

PT == INSTANCE PinTable WITH
          table <- Table, answer <- [outcome |-> Outcome, text |-> text]

ImplementsPinTable == PT!Spec

=============================================================================
