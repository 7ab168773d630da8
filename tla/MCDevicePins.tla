--------------------------- MODULE MCDevicePins ----------------------------
(***************************************************************************)
(* An instance of DevicePins for TLC: texts of which some convert.  As     *)
(* with to_string, the text of a double differs from that of the integer,  *)
(* and a small one loses its digits.                                       *)
(***************************************************************************)
EXTENDS DevicePins, TLC

CONSTANTS zero, one,        \* integers
          small,            \* a double too small for the digits of to_string
          word, empty,      \* texts that are no numbers
          zeroPointZero     \* the text of the double zero

MCStoi == zero :> 0 @@ one :> 1
MCStod == zero :> 0 @@ small :> -1

MCNumberText ==
    [pin \in {p \in Pins : p.type # "s"} |->
        IF pin.type = "d" THEN zeroPointZero
        ELSE IF pin.value = 0 THEN zero ELSE one]

=============================================================================
