---------------------------- MODULE ClientServer ----------------------------
(***************************************************************************)
(* The client program and the server together.  The menu makes one call at *)
(* a time: the client library opens a connection, sends the request, waits *)
(* for the answer and returns what it makes of it, which the menu shows.   *)
(* The connection can break before the request is handled or before the    *)
(* answer is read; the client cannot tell, and the server may still handle *)
(* a request the client has given up.  Other clients send requests about   *)
(* other tokens meanwhile, and the server stops and starts.                *)
(***************************************************************************)
EXTENDS DeviceRegistry, Commands, ClientAnswers

CONSTANTS
    TokenText,      \* the text of every token
    NumberText,     \* std::to_string, of every pin that holds a number
    Offered,        \* the operations the user chooses from
    MaxLate         \* bound on the requests that were given up on

UserPins == PinNumbers \ {0}

\* The numbers of the statuses as text, and what the menu prints for them.
StatusTexts == <<"0", "1", "2">>
StatusNames == <<"online", "offline", "out of date">>

ASSUME TextAssumption ==
    /\ UserPins \subseteq {PinNumber(text) : text \in PinTexts \cap DOMAIN Stoi}
    /\ DOMAIN TokenText = RequestTokens /\ IsInjective(TokenText)
    /\ DOMAIN NumberText = {pin \in Pins : pin.type # "s"}
    /\ \A i \in 1 .. 3 : /\ StatusTexts[i] \in DOMAIN Stoi
                         /\ Stoi[StatusTexts[i]] = i - 1

ASSUME KeysAssumption == Keys # {}

ASSUME LateAssumption == MaxLate \in Nat

VARIABLES
    token,          \* the menu's current token; empty at first
    call,           \* the arguments of the call to the client library
    pc,             \* the menu is shown, the request is sent or answered
    reply,          \* what came back
    shown,          \* what the menu printed about the last call, and the
                    \* status a handler had answered with
    late,           \* requests the client gave up that can still be handled
    (***********************************************************************)
    (* History: what the user may take from the menu about the current     *)
    (* device, the pins that each number can then have, and about others;  *)
    (* whether the current call is the last word on what it asks for.      *)
    (***********************************************************************)
    known,
    gone,
    certain

client  == <<token, call, pc, reply, shown>>
report  == <<known, gone, certain>>
allVars == <<vars, client, late, report>>

TokenTexts == Range(TokenText)

\* A text that is no token does not decode.
TokenOf(text) ==
    CHOOSE t \in RequestTokens :
        IF text \in TokenTexts THEN TokenText[t] = text ELSE t.deviceID = 0

CodeText(code) == CASE code = 200 -> "200" [] code = 201 -> "201"
                    [] code = 400 -> "400" [] code = 401 -> "401"
                    [] code = 500 -> "500"

NoCall  == [op |-> "none"]
NoReply == [code |-> 0, body |-> NoBody, truth |-> ""]

ClientTypeOK ==
    /\ token \in TokenTexts \cup {CodeText(201), ""}
    /\ pc \in {"menu", "sent", "answered"}
    /\ pc = "menu" <=> call = NoCall
    /\ reply.code \in {0, 200, 201, 400, 401, 500}
    /\ Cardinality(late) <= MaxLate
    /\ DOMAIN known \subseteq UserPins /\ UNION Range(known) \subseteq Pins
    /\ gone \subseteq TokenTexts /\ certain \in BOOLEAN

ClientInit ==
    /\ Init
    /\ token = "" /\ call = NoCall /\ pc = "menu"
    /\ reply = NoReply /\ shown = NoCall
    /\ late = {} /\ known = EmptyMap /\ gone = {} /\ certain = FALSE

-----------------------------------------------------------------------------
(***************************************************************************)
(* The server handles a request.                                           *)
(***************************************************************************)
TextOf(pin) == IF pin.type = "s" THEN pin.value ELSE NumberText[pin]

Answered(status) == response'.status = status

Execute(c) ==
    LET t    == TokenOf(c.token)
        op   == Dispatch(Endpoint(c.op))
        held == devices[t.deviceID].pins
    IN
    \/ op = "REGISTER_DEVICE" /\ \E key \in Keys : RegisterDevice(key)
    \/ op # "REGISTER_DEVICE" /\ AuthCheck(t) # "OK"
       /\ Refuse(t) /\ Answered(AuthCheck(t))
    \/ op = "DELETE_DEVICE" /\ DeleteDevice(t)
    \/ op \in {"DEVICE_STATUS", "DEVICE_STATUS_UPDATE"} /\ Consult(t)
    \/ op = "CREATE_PIN" /\ CreatePin(t, c.n, c.type, c.text)
    \/ op = "UPDATE_PIN" /\ UpdatePin(t, c.n, c.text)
    \/ op = "DELETE_PIN" /\ DeletePin(t, c.n)
    \/ op = "GET_PIN" /\ AuthCheck(t) = "OK"
       /\ IF c.n \in DOMAIN held /\ TextOf(held[c.n]) # "" THEN Consult(t)
          ELSE Refuse(t) /\ Answered("BAD_REQUEST")

CodeOf == [OK |-> 200, CREATED |-> 201, BAD_REQUEST |-> 400,
           UNAUTHORIZED |-> 401, EXCEPTION |-> 500]

Replied(body, truth) ==
    reply' = [code |-> CodeOf[response'.status], body |-> body,
              truth |-> truth]

\* The bodies, as far as the client reads them.  What state the timer of a
\* device is in is StateTimer's matter: any.
Served(c) ==
    CASE c.op = "REGISTER_DEVICE" ->
            Replied(Labelled("token", TokenText[response'.token]), "")
      [] c.op = "GET_PIN" ->
            LET pin == devices[response'.token.deviceID].pins[c.n]
            IN  Replied(Labelled("PinValue", TextOf(pin)), "")
      [] c.op = "DEVICE_STATUS" ->
            \E i \in 1 .. 3 :
                Replied(Labelled("devStatus", StatusTexts[i]), StatusNames[i])
      [] OTHER -> Replied(NoBody, "")

Reply(c) ==
    \/ Answered("UNAUTHORIZED") /\ Replied(AuthFailed, "")
    \/ /\ Answered("BAD_REQUEST")
       /\ Replied(IF AuthCheck(TokenOf(c.token)) = "OK"
                  THEN NoPin ELSE NoDevice, "")
    \/ ~Answered("UNAUTHORIZED") /\ ~Answered("BAD_REQUEST") /\ Served(c)

Connected == up /\ runs = call.since

Serve ==
    /\ pc = "sent" /\ Connected
    /\ Execute(call)
    /\ Reply(call)
    /\ pc' = "answered"
    /\ UNCHANGED <<token, call, shown, late, report>>

-----------------------------------------------------------------------------
(***************************************************************************)
(* The client sends a request.                                             *)
(***************************************************************************)

PinChanges == {"CREATE_PIN", "UPDATE_PIN", "DELETE_PIN"}

\* What the user knew and the call may change.
Forget(c) ==
    CASE c.op \in {"REGISTER_DEVICE", "DELETE_DEVICE"} -> EmptyMap
      [] c.op \in PinChanges -> Erased(known, c.n)
      [] OTHER -> known

\* An id below the sequence is not given out again while the server runs.  One
\* from the file may be beyond it: the sequence is behind the device that was
\* loaded last.
Final(op) ==
    op = "DELETE_DEVICE" /\ TokenOf(token).deviceID < idSequence

Send(op, n, type, text) ==
    /\ op \in Offered
    /\ call' = [op |-> op, token |-> token, n |-> n, type |-> type,
                text |-> text, since |-> runs, final |-> Final(op)]
    /\ pc' = "sent" /\ shown' = NoCall
    /\ known' = Forget(call') /\ certain' = TRUE
    /\ UNCHANGED <<vars, token, reply, late, gone>>

\* The menu asks for the number, the type and the data until they are valid.
ChoosePin ==
    \E n \in UserPins :
        \/ Send("GET_PIN", n, "", "")
        \/ Send("DELETE_PIN", n, "", "")
        \/ \E text \in Texts :
              \/ Send("UPDATE_PIN", n, "", text)
              \/ \E type \in PinTypes : Send("CREATE_PIN", n, type, text)

ChooseDevice ==
    \/ Send("DELETE_DEVICE", 0, "", "")
    \/ Send("DEVICE_STATUS_UPDATE", 0, "", "")

\* Everything but a registration needs a token.
Choose ==
    /\ pc = "menu"
    /\ \/ /\ CanRegister
          /\ Send("REGISTER_DEVICE", 0, "", "")
       \/ /\ token # ""
          /\ Send("DEVICE_STATUS", 0, "", "") \/ ChoosePin \/ ChooseDevice

ChangeToken ==
    /\ pc = "menu"
    /\ token' \in TokenTexts \ {token}
    /\ known' = EmptyMap
    /\ UNCHANGED <<vars, call, pc, reply, shown, late, gone, certain>>

-----------------------------------------------------------------------------
(***************************************************************************)
(* The call returns.                                                       *)
(***************************************************************************)
\* Mutant: the label is spelt with a capital letter.
RegisteredByWrongLabel(r) ==
    CASE r.code = 0 -> ""
      [] r.code # 0 /\ r.body # NoBody -> ExtractValue(r.body, "Token")
      [] r.code # 0 /\ r.body = NoBody -> CodeText(r.code)

\* Without a body the number of the status passes for the token.
Registered(r) ==
    CASE r.code = 0 -> ""
      [] r.code # 0 /\ r.body # NoBody -> ExtractValue(r.body, "token")
      [] r.code # 0 /\ r.body = NoBody -> CodeText(r.code)

\* Mutant: a text that stoi does not accept counts as offline.
StatusOfElseOffline(r) ==
    LET text == ExtractValue(r.body, "devStatus") IN
    IF r.code = 0 THEN 0
    ELSE IF text = "" THEN r.code
    ELSE IF text \in DOMAIN Stoi THEN Stoi[text] ELSE 1

\* A text that stoi does not accept counts as 0.
StatusOf(r) ==
    LET text == ExtractValue(r.body, "devStatus") IN
    CASE r.code = 0 -> 0
      [] r.code # 0 /\ text = "" -> r.code
      [] r.code # 0 /\ text # "" ->
            IF text \in DOMAIN Stoi THEN Stoi[text] ELSE 0

Success == [CREATE_PIN |-> 201, UPDATE_PIN |-> 200, DELETE_PIN |-> 200,
            DELETE_DEVICE |-> 200, DEVICE_STATUS_UPDATE |-> 200]

\* What the menu prints, as far as it tells success from failure.
Says(op, r) ==
    CASE op = "REGISTER_DEVICE" ->
            IF Registered(r) = "" THEN "error" ELSE "done"
      [] op = "DEVICE_STATUS" ->
            IF StatusOf(r) < 3 THEN StatusNames[StatusOf(r) + 1] ELSE "error"
      [] op = "GET_PIN" -> ExtractValue(r.body, "PinValue")
      [] OTHER -> IF r.code = Success[op] THEN "done" ELSE "error"

\* What the user may now take a pin to be: the type of one that was written is
\* anybody's guess.
Told(c) ==
    CASE c.op = "CREATE_PIN" -> {Pin(c.type, c.text)}
      [] c.op = "UPDATE_PIN" ->
            {Pin(type, c.text) : type \in
                {ty \in PinTypes : c.text \in Accepted(ty)}}
      [] c.op = "DELETE_PIN" -> {}

Learn(c) == IF c.op \in PinChanges THEN Stored(known, c.n, Told(c)) ELSE known

Deleted(c) == IF c.final THEN {c.token} ELSE {}

Show(r) ==
    LET says == Says(call.op, r)
        sure == says = "done" /\ certain
    IN
    /\ shown' = [op |-> call.op, says |-> says, truth |-> r.truth]
    /\ token' = IF call.op = "REGISTER_DEVICE" THEN Registered(r) ELSE token
    /\ known' = IF sure THEN Learn(call) ELSE known
    /\ gone' = IF sure THEN gone \cup Deleted(call) ELSE gone
    /\ pc' = "menu" /\ call' = NoCall /\ reply' = NoReply
    /\ certain' = FALSE
    /\ UNCHANGED vars

Receive == pc = "answered" /\ Show(reply) /\ UNCHANGED late

\* The end of the connection counts as the end of the answer, wherever it
\* comes: here behind the headers.
LoseBody ==
    /\ pc = "answered"
    /\ Show([code |-> reply.code, body |-> NoBody, truth |-> ""])
    /\ UNCHANGED late

\* sendRequest catches whatever went wrong and returns an answer of its own.
Break ==
    /\ pc \in {"sent", "answered"}
    /\ Show(NoReply)
    /\ \/ late' = late
       \/ /\ pc = "sent" /\ Connected /\ call.op \in PinChanges \cup {"DELETE_DEVICE"}
          /\ Cardinality(late) < MaxLate
          /\ late' = late \cup {call}

-----------------------------------------------------------------------------
(***************************************************************************)
(* What else happens.                                                      *)
(***************************************************************************)
ServeLate ==
    \E c \in late :
        /\ Execute(c)
        /\ late' = late \ {c}
        /\ known' = IF c.token = token THEN Forget(c) ELSE known
        /\ certain' = (certain /\ c.token # token)
        /\ UNCHANGED <<client, gone>>

\* Nobody else has the current token.  One registration is left for the client
\* that has asked for it.
OthersRequest ==
    /\ \/ call.op # "REGISTER_DEVICE" /\ \E key \in Keys : RegisterDevice(key)
       \/ \E t \in RequestTokens :
             /\ TokenText[t] # token
             /\ \/ DeleteDevice(t)
                \/ \E n \in UserPins, text \in Texts : UpdatePin(t, n, text)
    /\ UNCHANGED <<client, late, report>>

ServerStarts ==
    /\ Start \/ CreateFile
    /\ UNCHANGED <<client, late, report>>

ServerEnds ==
    /\ Shutdown \/ Crash \/ CrashWhileSaving
    /\ late' = {}
    /\ known' = EmptyMap /\ gone' = {} /\ certain' = FALSE
    /\ UNCHANGED client

ClientNext ==
    \/ Choose \/ ChangeToken \/ Serve \/ Receive \/ LoseBody \/ Break
    \/ ServeLate \/ OthersRequest \/ ServerStarts \/ ServerEnds

ClientSpec == ClientInit /\ [][ClientNext]_allVars

-----------------------------------------------------------------------------
(***************************************************************************)
(* Properties.                                                             *)
(***************************************************************************)

\* A device whose token is t has one of the pins under a number, or, if there
\* are none, has no pin there.
Has(t, n, pins) ==
    LET held == devices[t.deviceID].pins IN
    /\ AuthCheck(t) = "OK"
    /\ IF n \in DOMAIN held THEN held[n] \in pins ELSE pins = {}

\* ExtractValue stops at the first character that the label has anywhere in
\* it.  For the labels and the values there are it gives back what the server
\* put behind the label; a body that did not come has no value.
AnswersReadBack ==
    /\ \A t \in RequestTokens :
          LET body == Labelled("token", TokenText[t])
          IN  body # NoBody /\ ExtractValue(body, "token") = TokenText[t]
    /\ \A text \in Texts \cup Range(NumberText) :
          /\ text # ""
          /\ ExtractValue(Labelled("PinValue", text), "PinValue") = text
    /\ \A key \in {"PinValue", "devStatus"} : ExtractValue(NoBody, key) = ""
    /\ \A i \in 1 .. 3 :
          /\ StatusTexts[i] # ""
          /\ ExtractValue(Labelled("devStatus", StatusTexts[i]), "devStatus")
                = StatusTexts[i]
    /\ \A body \in {NoDevice, AuthFailed} :
          ExtractValue(body, "devStatus") \notin DOMAIN Stoi \cup {""}

\* What the menu reported about the pins of the current device is so in the
\* server, through refusals, conversions that throw, broken connections and
\* the requests of others, until a call that may change the pin is made, one
\* that was given up is handled after all or the server stops.
ReportedPinsHold == \A n \in DOMAIN known : Has(TokenOf(token), n, known[n])

\* A device whose deletion was reported stays away while the server runs: no
\* late request, registration or call of another brings its token back.
DeletedStaysDeleted == \A text \in gone : AuthCheck(TokenOf(text)) # "OK"

\* What a call asks of the table that the server is to the owners of tokens.
ServedAsNamed(c) ==
    LET t == TokenOf(c.token) IN
    \/ Store!Refuse
    \/ /\ c.op = "REGISTER_DEVICE"
       /\ \E new \in RequestTokens : Store!Register(new)
    \/ c.op = "DELETE_DEVICE" /\ Store!Remove(t)
    \/ /\ c.op \in {"DEVICE_STATUS", "DEVICE_STATUS_UPDATE", "GET_PIN"}
       /\ Store!Look(t)
    \/ /\ c.op = "CREATE_PIN"
       /\ \E pin \in Told(c) : Store!AddPin(t, c.n, pin)
    \/ /\ c.op = "UPDATE_PIN"
       /\ \E pin \in Told(c) : Store!ChangePin(t, c.n, pin)
    \/ c.op = "DELETE_PIN" /\ Store!RemovePin(t, c.n)

\* A call is served as the operation it is named for, on the token and the pin
\* it names, as a whole, or refused and changes nothing: whatever the command
\* codes and the conversions make of it, and whatever text the menu took for
\* the token.
CallsDoWhatTheyName ==
    [][pc = "sent" /\ pc' = "answered" => ServedAsNamed(call)]_allVars

\* A status that a handler answered is shown as it was answered, and offline
\* or out of date never unless it was: no text of an error, no message of a
\* failed call and no missing answer reads as one of the two.
StatusShownIsServed ==
    shown.op = "DEVICE_STATUS" =>
        /\ shown.truth # "" => shown.says = shown.truth
        /\ shown.says \in {"offline", "out of date"} => shown.truth = shown.says

\* A value that is read and answered is the one the user is known to have
\* written last: to_string, the label and the way the client finds the value
\* behind it give it back.
ReadsOwnWrites ==
    [][/\ pc = "answered" /\ pc' = "menu" /\ shown'.says # ""
       /\ call.op = "GET_PIN" /\ call.n \in DOMAIN known /\ known[call.n] # {}
       => shown'.says \in {TextOf(pin) : pin \in known[call.n]}]_allVars

-----------------------------------------------------------------------------
(***************************************************************************)
(* What the messages of the client say and the code does not do.           *)
(***************************************************************************)

\* The menu has a message for a status that could not be read, so that online
\* is printed only for a device the server answered to be online.
OnlineIsOnline ==
    shown.op = "DEVICE_STATUS" /\ shown.says = "online"
        => shown.truth = "online"

=============================================================================
