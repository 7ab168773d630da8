-------------------------- MODULE MCDeviceRegistry --------------------------
(***************************************************************************)
(* Instances of DeviceRegistry for TLC: a handful of texts and what the    *)
(* conversions of the C++ library make of them.                            *)
(***************************************************************************)
EXTENDS DeviceRegistry, TLC

CONSTANTS zero, one, two,       \* integers
          infBytes, infinity,   \* a double, and a text that starts with its
                                \* text and goes on with a byte not in UTF-8
          word                  \* any other text

Integers3 == zero :> 0 @@ one :> 1 @@ two :> 2
MCStoi == Integers3
MCStod == Integers3 @@ infBytes :> infinity

\* The text of a device is longer than that of a pin, and that of no device at
\* all, null, is not empty.
MCDocLength(entries) ==
    IF entries = <<>> THEN 1
    ELSE LET pins == UNION {{i} \X DOMAIN entries[i].device.pins :
                            i \in DOMAIN entries}
         IN  2 * Len(entries) + Cardinality(pins)

\* The keys are only compared with one another.
KeySymmetry == Permutations(Keys)

\* Nothing between the two values.
MCCut(first, last) == {first, last}

=============================================================================
