--------------------------- MODULE ClientAnswers ---------------------------
(***************************************************************************)
(* How the client library reads the body of an answer.  Bodies are strings *)
(* here, because it finds a value by its place among the characters.       *)
(***************************************************************************)
EXTENDS Sequences, FiniteSetsExt

\* The bodies of the server, as parseHttpResponse hands them on: every line
\* ends in a line feed, and an answer that did not come has no line.  An
\* apostrophe stands for the grave accent of the source.
NoDevice   == "Device doesn't exist!\n"
AuthFailed == "Auth failure!\n"
NoPin      == "Pin does not exists!\n"
Labelled(key, value) == key \o "=" \o value \o "\n"
NoBody     == ""

Characters(text) == {SubSeq(text, i, i) : i \in 1 .. Len(text)}

Places(text, characters, from) ==
    {i \in from .. Len(text) : SubSeq(text, i, i) \in characters}

\* find_first_of stops at any character of the key, not at the key.
ValueStart(text, key) ==
    Min(Places(text, Characters(key) \cup {"="}, 1)) + Len(key) + 1

ExtractValue(text, key) ==
    IF Places(text, Characters(key) \cup {"="}, 1) = {} THEN ""
    ELSE LET start == ValueStart(text, key)
             ends  == Places(text, {" ", "\r", "\n"}, start)
         IN  SubSeq(text, start, IF ends = {} THEN Len(text) ELSE Min(ends) - 1)

=============================================================================
