---------------------------- MODULE DeviceStore ----------------------------
(***************************************************************************)
(* What the server promises about its devices: a table from tokens to the  *)
(* pins of their devices, with no word about ids, counters, limits and the *)
(* text of a file.  A request concerns one token and one pin, and happens  *)
(* as a whole or, when it is refused, not at all; a stop keeps the whole   *)
(* table or what was kept before, or spoils it, or keeps something of both *)
(* and one token and its pins that are of neither; a start brings back     *)
(* nothing but what was kept.  DeviceRegistry implements it.               *)
(***************************************************************************)
EXTENDS Functions

CONSTANTS Tokens, Numbers, Pins

VARIABLES
    serving,    \* requests are answered
    table,      \* the pins behind every token that works
    kept,       \* the tokens and their pins that were kept of it
    readable,   \* the next start can bring them back
    answer      \* the status of the last answer

vars == <<serving, table, kept, readable, answer>>

Nothing == [key \in {} |-> key]

With(map, key, value) ==
    [k \in DOMAIN map \cup {key} |-> IF k = key THEN value ELSE map[k]]

Without(map, key) == Restrict(map, DOMAIN map \ {key})

Pairs(map) == {<<key, map[key]>> : key \in DOMAIN map}

\* Of two values for one key the map has one.
AsMap(pairs) ==
    [key \in {pair[1] : pair \in pairs} |->
        (CHOOSE pair \in pairs : pair[1] = key)[2]]

Init ==
    /\ serving = FALSE
    /\ table = Nothing /\ kept = {} /\ readable = FALSE
    /\ answer = "none"

-----------------------------------------------------------------------------
Answer(statuses) ==
    /\ serving /\ answer' \in statuses
    /\ UNCHANGED <<serving, kept, readable>>

Refuse ==
    /\ Answer({"BAD_REQUEST", "UNAUTHORIZED", "EXCEPTION"})
    /\ UNCHANGED table

\* A new token has no pins.  It may be answered and not work: the place of
\* its device can be taken.
Register(token) ==
    /\ Answer({"CREATED"})
    /\ \/ UNCHANGED table
       \/ token \notin DOMAIN table /\ table' = With(table, token, Nothing)

Granted(token, status) == token \in DOMAIN table /\ Answer({status})

Look(token) == Granted(token, "OK") /\ UNCHANGED table

Remove(token) == Granted(token, "OK") /\ table' = Without(table, token)

Update(token, status, pins) ==
    /\ Granted(token, status)
    /\ table' = [table EXCEPT ![token] = pins]

AddPin(token, n, pin) ==
    /\ n \notin DOMAIN table[token]
    /\ Update(token, "CREATED", With(table[token], n, pin))

\* A pin keeps its type.
ChangePin(token, n, pin) ==
    /\ n \in DOMAIN table[token] /\ pin.type = table[token][n].type
    /\ Update(token, "OK", With(table[token], n, pin))

RemovePin(token, n) ==
    /\ n \in DOMAIN table[token]
    /\ Update(token, "OK", Without(table[token], n))

Request ==
    \/ Refuse
    \/ \E token \in Tokens : Register(token)
    \/ \E token \in DOMAIN table :
          \/ Look(token)
          \/ Remove(token)
          \/ \E n \in Numbers :
                \/ RemovePin(token, n)
                \/ \E pin \in Pins : AddPin(token, n, pin) \/ ChangePin(token, n, pin)

-----------------------------------------------------------------------------
Start ==
    /\ ~serving /\ serving' = TRUE
    /\ \E part \in SUBSET kept : table' = AsMap(part) /\ (part = {} \/ readable)
    /\ UNCHANGED <<kept, readable, answer>>

Keep == kept' = Pairs(table) /\ readable'

\* Something of what was kept and of the table, and one pair more.
Mix ==
    /\ readable'
    /\ \A one, other \in kept' \ (kept \cup Pairs(table)) : one = other

\* What is left is nothing to the next start.
Spoil == kept' \subseteq kept /\ ~readable'

Stop ==
    /\ serving /\ serving' = FALSE
    /\ UNCHANGED <<kept, readable>> \/ Keep \/ Mix \/ Spoil
    /\ table' = Nothing /\ answer' = "none"

Next == Start \/ Stop \/ Request

Spec == Init /\ [][Next]_vars

=============================================================================
