-------------------------- MODULE MCClientServer ---------------------------
(***************************************************************************)
(* Instances of ClientServer for TLC.  Texts are strings here, because the *)
(* client takes answers apart: "x" is no number, the other ones are.       *)
(***************************************************************************)
EXTENDS ClientServer, TLC

MCStoi == "0" :> 0 @@ "1" :> 1 @@ "2" :> 2
MCStod == EmptyMap

MCNumberText ==
    [pin \in {p \in Pins : p.type # "s"} |-> StatusTexts[pin.value + 1]]

Digits == <<"0", "1", "2", "3">>
MCTokenText == [t \in RequestTokens |-> t.key \o Digits[t.deviceID + 1]]

\* The text always fills devices.json.
MCDocLength(entries) == 0

MCCut(first, last) == {first, last}

\* What the theorems of ClientServerProofs assume of the texts.
ASSUME MCReadBack == AnswersReadBack

=============================================================================
