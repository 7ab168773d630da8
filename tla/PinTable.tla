----------------------------- MODULE PinTable ------------------------------
(***************************************************************************)
(* What a device promises about its virtual pins: one table of typed pins, *)
(* in which an operation succeeds as a whole or leaves everything as it    *)
(* is.  DevicePins implements it; DeviceRegistry gives every device such a *)
(* table.                                                                  *)
(***************************************************************************)
EXTENDS VirtualPins

CONSTANTS
    NumberText,       \* std::to_string: the text of every pin with a number
    EmptyText,      \* the text of no characters
    MaxPinsOptions  \* the limits devices are built with

VARIABLES
    table,          \* the limit, the counter that is held against it, the pins
    answer          \* what the last operation came to, and the text it read

vars == <<table, answer>>

Init ==
    /\ table \in [maxPins : MaxPinsOptions, counter : {0}, pins : {EmptyMap}]
    /\ answer = [outcome |-> "done", text |-> EmptyText]

Answer(outcome, text) == answer' = [outcome |-> outcome, text |-> text]

\* An operation that does not go through changes nothing.
Fail(outcome) == Answer(outcome, EmptyText) /\ UNCHANGED table

AddPin(n, type, text) ==
    \/ /\ Addable(table, n, type) /\ text \in Accepted(type)
       /\ table' = WithPin(table, n, Pin(type, text))
       /\ Answer("done", EmptyText)
    \/ Addable(table, n, type) /\ text \notin Accepted(type) /\ Fail("throws")
    \/ ~Addable(table, n, type) /\ Fail("refused")

ChangePin(n, text) ==
    LET exists == n \in DOMAIN table.pins
        type   == table.pins[n].type
    IN
    \/ /\ exists /\ text \in Accepted(type)
       /\ table' = [table EXCEPT !.pins[n] = Pin(type, text)]
       /\ Answer("done", EmptyText)
    \/ exists /\ text \notin Accepted(type) /\ Fail("throws")
    \/ ~exists /\ Fail("refused")

RemovePin(n) ==
    \/ /\ n \in DOMAIN table.pins
       /\ table' = WithoutPin(table, n)
       /\ Answer("done", EmptyText)
    \/ n \notin DOMAIN table.pins /\ Fail("refused")

TextOf(pin) == IF pin.type = "s" THEN pin.value ELSE NumberText[pin]

\* A pin that is not there reads as the empty text.
GetPin(n) ==
    /\ Answer("done", IF n \in DOMAIN table.pins
                      THEN TextOf(table.pins[n]) ELSE EmptyText)
    /\ UNCHANGED table

\* The device is saved and loaded again: its counter starts over.
Reload ==
    /\ table' = [table EXCEPT !.counter = 0]
    /\ UNCHANGED answer

Next ==
    \/ Reload
    \/ \E n \in PinNumbers :
          \/ RemovePin(n)
          \/ GetPin(n)
          \/ \E text \in Texts :
                \/ ChangePin(n, text)
                \/ \E type \in DataTypes : AddPin(n, type, text)

Spec == Init /\ [][Next]_vars

=============================================================================
