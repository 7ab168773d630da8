---------------------------- MODULE VirtualPins ----------------------------
(***************************************************************************)
(* The virtual pins of a device, for the modules that change them: the     *)
(* texts that requests carry, what the conversions make of them, the maps  *)
(* of the C++ library, and what adding and removing make of a device's     *)
(* counter and pins.                                                       *)
(***************************************************************************)
EXTENDS Integers, Functions

CONSTANTS
    Texts,          \* the texts that requests carry as data
    Stoi,           \* std::stoi: the value of every text it accepts
    Stod,           \* std::stod, likewise
    PinRange,       \* 2^8, the range of the handlers' uint8_t pinNumber
    CounterRange    \* 2^16, the range of the uint16_t m_pinsCounter

ASSUME ConversionAssumption == \A text \in DOMAIN Stoi : Stoi[text] \in Int

ASSUME WidthAssumption == PinRange \in Nat \ {0} /\ CounterRange \in Nat \ {0}

-----------------------------------------------------------------------------
(***************************************************************************)
(* Maps: std::unordered_map.                                               *)
(***************************************************************************)
EmptyMap == [k \in {} |-> k]

Stored(map, key, value) ==
    [k \in DOMAIN map \cup {key} |-> IF k = key THEN value ELSE map[k]]

\* emplace leaves a key that is there as it is.
Emplaced(map, key, value) ==
    IF key \in DOMAIN map THEN map ELSE Stored(map, key, value)

Erased(map, key) == Restrict(map, DOMAIN map \ {key})

-----------------------------------------------------------------------------
(***************************************************************************)
(* Pins.                                                                   *)
(***************************************************************************)

\* The data types a request may name: a pin's type is the first letter in
\* lower case, "x" any other one and "" none at all.
PinTypes == {"i", "d", "s"}
DataTypes == PinTypes \cup {"x", ""}

\* The texts that a pin of the type can hold; the conversion of any other
\* throws.
Accepted(type) == CASE type = "i" -> DOMAIN Stoi
                    [] type = "d" -> DOMAIN Stod
                    [] type = "s" -> Texts

Pin(type, text) == [type  |-> type,
                    value |-> CASE type = "i" -> Stoi[text]
                                [] type = "d" -> Stod[text]
                                [] type = "s" -> text]

PinNumbers == 0 .. PinRange - 1

Pins == [type : {"i"}, value : Range(Stoi)]
        \cup [type : {"d"}, value : Range(Stod)]
        \cup [type : {"s"}, value : Texts]

Increment(counter) == IF counter + 1 = CounterRange THEN 0 ELSE counter + 1

\* Mutant: the counter is signed.
DecrementSigned(counter) == counter - 1

Decrement(counter) == IF counter = 0 THEN CounterRange - 1 ELSE counter - 1

\* Mutant: the limit itself is let through.
AddableOneMore(d, n, type) ==
    /\ d.counter <= d.maxPins
    /\ n \notin DOMAIN d.pins
    /\ type \in PinTypes

Addable(d, n, type) ==
    /\ d.counter # d.maxPins
    /\ n \notin DOMAIN d.pins
    /\ type \in PinTypes

WithPin(d, n, pin) == [d EXCEPT !.pins = Emplaced(d.pins, n, pin),
                                !.counter = Increment(d.counter)]

\* Mutant: the pin is not taken off the counter.
WithoutPinUncounted(d, n) == [d EXCEPT !.pins = Erased(d.pins, n)]

WithoutPin(d, n) == [d EXCEPT !.pins = Erased(d.pins, n),
                              !.counter = Decrement(d.counter)]

=============================================================================
