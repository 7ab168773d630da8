------------------------- MODULE ClientServerProofs -------------------------
(***************************************************************************)
(* Theorems about the client and the server together, for all texts, all   *)
(* tokens and any number of late requests.  They take AnswersReadBack from *)
(* the runs: no prover here computes with the characters of a string.      *)
(***************************************************************************)
EXTENDS ClientServer, DeviceStoreProofs, CommandsProofs

-----------------------------------------------------------------------------
(***************************************************************************)
(* What a request of the client does to the registry.                      *)
(***************************************************************************)

\* The arguments that the menu passes for each operation.
IsCall(c) ==
    /\ c.op \in Operations
    /\ c.op \in PinChanges \cup {"GET_PIN"} => c.n \in UserPins
    /\ c.op \in {"CREATE_PIN", "UPDATE_PIN"} => c.text \in Texts
    /\ c.op = "CREATE_PIN" => c.type \in PinTypes
    /\ c.final => c.op = "DELETE_DEVICE"
    /\ c.since \in Nat

\* Every text is about some token: the text of a token about that one, any
\* other about one with id 0.
LEMMA TokenOfText ==
  ASSUME NEW text
  PROVE  /\ TokenOf(text) \in RequestTokens
         /\ text \in TokenTexts => TokenText[TokenOf(text)] = text
         /\ text \notin TokenTexts => TokenOf(text).deviceID = 0
  <1>1. CASE text \in TokenTexts
    <2>1. \E t \in RequestTokens : TokenText[t] = text
      BY <1>1, TextAssumption DEF TokenTexts, Range
    <2>2. QED
      BY <1>1, <2>1 DEF TokenOf
  <1>2. CASE text \notin TokenTexts
    <2>1. PICK key \in Keys : TRUE
      BY KeysAssumption
    <2>2. [deviceID |-> 0, key |-> key] \in RequestTokens
      BY BoundAssumption DEF RequestTokens
    <2>3. \E t \in RequestTokens : t.deviceID = 0
      BY <2>2
    <2>4. QED
      BY <1>2, <2>3 DEF TokenOf
  <1>3. QED
    BY <1>1, <1>2

\* No device has id 0: a text that authCheck lets through is that of a token.
LEMMA AuthText ==
  ASSUME IInv, NEW text, AuthCheck(TokenOf(text)) = "OK"
  PROVE  text \in TokenTexts
  <1>1. TokenOf(text).deviceID \in DOMAIN devices
    BY Authorised
  <1>2. DOMAIN devices \subseteq Ids
    BY DEF IInv, TypeOK, IsIdMap
  <1>3. QED
    BY <1>1, <1>2, TokenOfText DEF Ids

\* The handler that a call reaches is the one of its operation.
LEMMA ExecuteCases ==
  ASSUME NEW c, IsCall(c), Execute(c)
  PROVE  LET t == TokenOf(c.token) IN
         \/ /\ c.op = "REGISTER_DEVICE"
            /\ \E key \in Keys : RegisterDevice(key)
         \/ /\ c.op # "REGISTER_DEVICE" /\ AuthCheck(t) # "OK"
            /\ Refuse(t) /\ Answered(AuthCheck(t))
         \/ c.op = "DELETE_DEVICE" /\ DeleteDevice(t)
         \/ c.op \in {"DEVICE_STATUS", "DEVICE_STATUS_UPDATE"} /\ Consult(t)
         \/ c.op = "CREATE_PIN" /\ CreatePin(t, c.n, c.type, c.text)
         \/ c.op = "UPDATE_PIN" /\ UpdatePin(t, c.n, c.text)
         \/ c.op = "DELETE_PIN" /\ DeletePin(t, c.n)
         \/ /\ c.op = "GET_PIN" /\ AuthCheck(t) = "OK"
            /\ \/ /\ c.n \in DOMAIN devices[t.deviceID].pins
                  /\ Consult(t)
               \/ /\ \/ c.n \notin DOMAIN devices[t.deviceID].pins
                     \/ TextOf(devices[t.deviceID].pins[c.n]) = ""
                  /\ Refuse(t) /\ Answered("BAD_REQUEST")
  <1>1. Dispatch(Endpoint(c.op)) = c.op
    BY EndpointsReach DEF IsCall
  <1>2. QED
    BY <1>1 DEF Execute

\* It is a request as the registry knows them.
LEMMA ExecuteIsRequest ==
  ASSUME NEW c, IsCall(c), Execute(c)
  PROVE  Request
  <1> DEFINE t == TokenOf(c.token)
             numbers == {PinNumber(text) : text \in PinTexts \cap DOMAIN Stoi}
  <1>1. t \in RequestTokens
    BY TokenOfText
  <1>2. c.op \in PinChanges => c.n \in numbers
    BY TextAssumption DEF IsCall
  <1>3. CASE c.op = "REGISTER_DEVICE" /\ \E key \in Keys : RegisterDevice(key)
    BY <1>3 DEF Request
  <1>4. CASE c.op # "REGISTER_DEVICE"
             /\ (DeleteDevice(t) \/ Consult(t) \/ Refuse(t))
    BY <1>1, <1>4 DEF Request
  <1>5. CASE c.op = "CREATE_PIN" /\ CreatePin(t, c.n, c.type, c.text)
    BY <1>1, <1>2, <1>5 DEF Request, IsCall, PinChanges, DataTypes
  <1>6. CASE c.op = "UPDATE_PIN" /\ UpdatePin(t, c.n, c.text)
    BY <1>1, <1>2, <1>6 DEF Request, IsCall, PinChanges
  <1>7. CASE c.op = "DELETE_PIN" /\ DeletePin(t, c.n)
    BY <1>1, <1>2, <1>7 DEF Request, PinChanges
  <1>8. QED
    BY <1>3, <1>4, <1>5, <1>6, <1>7, ExecuteCases

\* The answer to it is about the token it carries.
LEMMA ExecuteAnswers ==
  ASSUME NEW c, IsCall(c), Execute(c), c.op # "REGISTER_DEVICE"
  PROVE  response'.token = TokenOf(c.token)
  <1> DEFINE t == TokenOf(c.token)
  <1>1. ASSUME NEW status, Answer(status, t) PROVE response'.token = t
    BY <1>1 DEF Answer
  <1>2. ASSUME NEW done, NEW status, NEW d, Update(t, done, status, d)
        PROVE  response'.token = t
    BY <1>1, <1>2 DEF Update
  <1>3. CASE DeleteDevice(t) \/ Consult(t) \/ Refuse(t) \/ Throw(t)
    BY <1>1, <1>3 DEF DeleteDevice, Consult, Refuse, Throw
  <1>4. CASE CreatePin(t, c.n, c.type, c.text)
    BY <1>2, <1>3, <1>4 DEF CreatePin
  <1>5. CASE UpdatePin(t, c.n, c.text)
    BY <1>2, <1>3, <1>5 DEF UpdatePin
  <1>6. CASE DeletePin(t, c.n)
    BY <1>2, <1>6 DEF DeletePin
  <1>7. QED
    BY <1>3, <1>4, <1>5, <1>6, ExecuteCases

\* Its status is one that the HTTP library has a number for.
LEMMA ExecuteStatus ==
  ASSUME NEW c, IsCall(c), Execute(c)
  PROVE  response'.status \in DOMAIN CodeOf
  <1> DEFINE t == TokenOf(c.token)
             statuses == {"OK", "CREATED", "BAD_REQUEST", "UNAUTHORIZED",
                          "EXCEPTION"}
  <1> SUFFICES response'.status \in statuses
    BY DEF CodeOf
  <1>1. ASSUME NEW status \in statuses, NEW u, Answer(status, u)
        PROVE  response'.status \in statuses
    BY <1>1 DEF Answer
  <1>2. ASSUME NEW done, NEW status \in {"OK", "CREATED"}, NEW d,
               Update(t, done, status, d)
        PROVE  response'.status \in statuses
    BY <1>1, <1>2 DEF Update
  <1>3. ASSUME NEW key \in Keys, RegisterDevice(key)
        PROVE  response'.status \in statuses
    BY <1>1, <1>3 DEF RegisterDevice
  <1>4. CASE DeleteDevice(t) \/ Consult(t) \/ Throw(t)
    BY <1>1, <1>4 DEF DeleteDevice, Consult, Throw
  <1>5. CASE Refuse(t)
    BY <1>1, <1>5 DEF Refuse, AuthCheck
  <1>6. CASE CreatePin(t, c.n, c.type, c.text)
    BY <1>2, <1>4, <1>6 DEF CreatePin
  <1>7. CASE UpdatePin(t, c.n, c.text)
    BY <1>2, <1>4, <1>7 DEF UpdatePin
  <1>8. CASE DeletePin(t, c.n)
    BY <1>2, <1>8 DEF DeletePin
  <1>9. QED
    BY <1>3, <1>4, <1>5, <1>6, <1>7, <1>8, ExecuteCases

\* The counters and ids are natural numbers.
LEMMA RegistryNumbers ==
  ASSUME IInv
  PROVE  /\ idSequence \in Nat /\ registrations \in Nat /\ runs \in Nat
         /\ DOMAIN devices \subseteq Nat
  <1>1. TypeOK
    BY DEF IInv
  <1>2. QED
    BY <1>1, BoundAssumption DEF TypeOK, IsIdMap, Ids

\* While the server runs, the id sequence grows and no device gets an id that
\* the sequence has passed.
Grows ==
    /\ up /\ up' /\ runs' = runs
    /\ idSequence' \in Nat /\ idSequence <= idSequence'
    /\ \/ /\ DOMAIN devices' = DOMAIN devices \cup {idSequence}
          /\ idSequence' = idSequence + 1
       \/ DOMAIN devices' \subseteq DOMAIN devices

\* Every request lets it grow.
LEMMA RequestGrows ==
  ASSUME IInv, Request
  PROVE  Grows
  <1>1. idSequence \in Nat /\ devices \in [DOMAIN devices -> Devices]
    BY DEF IInv, TypeOK, IsIdMap, Ids
  <1>2. ASSUME NEW key \in Keys, RegisterDevice(key) PROVE Grows
    <2>1. /\ up /\ up' /\ runs' = runs /\ idSequence' = idSequence + 1
          /\ devices' = Emplaced(devices, idSequence,
                                 NewDevice(idSequence, key))
      BY <1>2 DEF RegisterDevice, Answer
    <2>2. DOMAIN devices' = DOMAIN devices \cup {idSequence}
      BY <2>1 DEF Emplaced, Stored
    <2>3. QED
      BY <1>1, <2>1, <2>2 DEF Grows
  <1>3. ASSUME NEW t \in RequestTokens, DeleteDevice(t) PROVE Grows
    BY <1>1, <1>3 DEF DeleteDevice, Answer, Erased, Restrict, Grows
  <1>4. CASE PinEffect
    BY <1>1, <1>4 DEF PinEffect, Modified, Grows
  <1>5. QED
    BY <1>2, <1>3, <1>4, RequestCases

\* The device whose token is t stays as it is.
Kept(t) == /\ t.deviceID \in DOMAIN devices'
           /\ devices'[t.deviceID] = devices[t.deviceID]

\* A request that carries another token, or none, leaves a device alone.
LEMMA OthersKeep ==
  ASSUME IInv, Request, NEW t, AuthCheck(t) = "OK",
         response'.token # t \/ \E key \in Keys : RegisterDevice(key)
  PROVE  Kept(t)
  <1>1. t.deviceID \in DOMAIN devices /\ devices[t.deviceID].token = t
    BY Authorised
  <1>2. devices \in [DOMAIN devices -> Devices]
    BY DEF IInv, TypeOK, IsIdMap
  <1>3. ASSUME NEW key \in Keys, RegisterDevice(key) PROVE Kept(t)
    BY <1>1, <1>3 DEF RegisterDevice, Emplaced, Stored, Kept
  <1>4. ASSUME NEW u \in RequestTokens, DeleteDevice(u), response'.token # t
        PROVE  Kept(t)
    <2>1. u # t /\ devices[u.deviceID].token = u
      BY <1>4, Authorised DEF DeleteDevice, Answer
    <2>2. QED
      BY <1>1, <1>4, <2>1 DEF DeleteDevice, Erased, Restrict, Kept
  <1>5. CASE PinEffect /\ response'.token # t
    BY <1>1, <1>2, <1>5 DEF PinEffect, Modified, Kept
  <1>6. CASE PinEffect /\ \E key \in Keys : RegisterDevice(key)
    BY <1>3, <1>6
  <1>7. QED
    BY <1>3, <1>4, <1>5, <1>6, RequestCases

-----------------------------------------------------------------------------
(***************************************************************************)
(* What a call for a pin does to the device it is about.                   *)
(***************************************************************************)

\* What Has says, in terms of a device.
Shows(d, n, pins) ==
    IF n \in DOMAIN d.pins THEN d.pins[n] \in pins ELSE pins = {}

\* The device is the same but perhaps for the pin the call names.
Touches(c, d, new) ==
    /\ new.token = d.token
    /\ \A n, pins : (c.op \in PinChanges => n # c.n) /\ Shows(d, n, pins)
                       => Shows(new, n, pins)

\* The call did what the client is told when it succeeds.
Achieved(c, new) == Shows(new, c.n, Told(c)) /\ Told(c) \subseteq Pins

Succeeded(c) == CodeOf[response'.status] = Success[c.op]

\* The outcome of a call for a pin on a device it may change to new.
LEMMA UpdateOutcome ==
  ASSUME IInv, NEW c, c.op \in PinChanges, NEW t, AuthCheck(t) = "OK",
         NEW done, NEW status, NEW new, Update(t, done, status, new),
         done => /\ Touches(c, devices[t.deviceID], new)
                 /\ Achieved(c, new)
  PROVE  /\ t.deviceID \in DOMAIN devices'
         /\ Touches(c, devices[t.deviceID], devices'[t.deviceID])
         /\ Succeeded(c) => Achieved(c, devices'[t.deviceID])
  <1>1. t.deviceID \in DOMAIN devices /\ devices \in [DOMAIN devices -> Devices]
    BY Authorised DEF IInv, TypeOK, IsIdMap
  <1>2. CASE done /\ devices' = [devices EXCEPT ![t.deviceID] = new]
    BY <1>1, <1>2
  <1>3. CASE Answer("BAD_REQUEST", t) /\ UNCHANGED devices
    <2>1. ~Succeeded(c)
      BY <1>3 DEF Answer, Succeeded, CodeOf, Success, PinChanges
    <2>2. QED
      BY <1>1, <1>3, <2>1 DEF Touches
  <1>4. QED
    BY <1>2, <1>3 DEF Update

\* A handler that throws has the outcome of a call that fails.
LEMMA ThrowOutcome ==
  ASSUME IInv, NEW c, c.op \in PinChanges, NEW t, AuthCheck(t) = "OK", Throw(t)
  PROVE  /\ t.deviceID \in DOMAIN devices'
         /\ Touches(c, devices[t.deviceID], devices'[t.deviceID])
         /\ ~Succeeded(c)
  BY Authorised
  DEF Throw, Answer, Touches, Succeeded, CodeOf, Success, PinChanges

\* A refused call, and one that only looks, leave every device as it is.
LEMMA LookOutcome ==
  ASSUME NEW t, Refuse(t) \/ Consult(t)
  PROVE  UNCHANGED devices
  BY DEF Refuse, Consult

\* What a call for a pin, or one that only looks, does to the device it is
\* about: nothing but to the pin it names, and what the client is told.
LEMMA CallOutcome ==
  ASSUME IInv, NEW c, IsCall(c), Execute(c),
         c.op \notin {"REGISTER_DEVICE", "DELETE_DEVICE"},
         AuthCheck(TokenOf(c.token)) = "OK"
  PROVE  LET id == TokenOf(c.token).deviceID IN
         /\ id \in DOMAIN devices'
         /\ Touches(c, devices[id], devices'[id])
         /\ c.op \in PinChanges /\ Succeeded(c) => Achieved(c, devices'[id])
  <1> DEFINE t == TokenOf(c.token)
             id == t.deviceID
             d == devices[id]
  <1>1. id \in DOMAIN devices /\ d \in Devices
    BY Authorised, AuthorisedDevice DEF IInv
  <1>2. d.pins \in [DOMAIN d.pins -> Pins]
    BY <1>1, PinsOfDevice
  <1>3. CASE c.op \notin PinChanges /\ (Refuse(t) \/ Consult(t))
    BY <1>1, <1>3, LookOutcome DEF Touches
  <1>4. CASE c.op = "CREATE_PIN" /\ CreatePin(t, c.n, c.type, c.text)
    <2> DEFINE pin == Pin(c.type, c.text)
    <2>1. CASE Throw(t)
      BY <1>4, <2>1, ThrowOutcome DEF PinChanges
    <2>2. CASE /\ Addable(d, c.n, c.type) => c.text \in Accepted(c.type)
               /\ Update(t, Addable(d, c.n, c.type), "CREATED",
                         WithPin(d, c.n, pin))
      <3>1. ASSUME Addable(d, c.n, c.type)
            PROVE  /\ Touches(c, d, WithPin(d, c.n, pin))
                   /\ Achieved(c, WithPin(d, c.n, pin))
        <4>1. pin \in Pins /\ c.n \notin DOMAIN d.pins
          BY <2>2, <3>1, PinOfAccepted DEF Addable
        <4>2. WithPin(d, c.n, pin).token = d.token
              /\ WithPin(d, c.n, pin).pins = Stored(d.pins, c.n, pin)
          BY <1>1, <4>1 DEF WithPin, Devices, Emplaced
        <4> HIDE DEF d, pin
        <4>3. Touches(c, d, WithPin(d, c.n, pin))
          BY <1>4, <4>2 DEF Touches, Shows, Stored, PinChanges
        <4>4. Told(c) = {pin}
          BY <1>4 DEF Told, pin
        <4>5. Achieved(c, WithPin(d, c.n, pin))
          BY <4>1, <4>2, <4>4 DEF Achieved, Shows, Stored
        <4>6. QED
          BY <4>3, <4>5
      <3>2. QED
        BY <1>4, <2>2, <3>1, UpdateOutcome DEF PinChanges
    <2>3. QED
      BY <1>4, <2>1, <2>2 DEF CreatePin
  <1>5. CASE c.op = "UPDATE_PIN" /\ UpdatePin(t, c.n, c.text)
    <2> DEFINE exists == c.n \in DOMAIN d.pins
               pin == Pin(d.pins[c.n].type, c.text)
               new == [d EXCEPT !.pins[c.n] = pin]
    <2>1. CASE Throw(t)
      BY <1>5, <2>1, ThrowOutcome DEF PinChanges
    <2>2. CASE /\ exists => c.text \in Accepted(d.pins[c.n].type)
               /\ Update(t, exists, "OK", new)
      <3>1. ASSUME exists PROVE Touches(c, d, new) /\ Achieved(c, new)
        <4>1. d.pins[c.n].type \in PinTypes
          BY <1>2, <3>1 DEF Pins, PinTypes
        <4>2. pin \in Told(c)
          BY <1>5, <2>2, <3>1, <4>1 DEF Told
        <4>3. Told(c) \subseteq Pins
          BY <1>5, PinOfAccepted DEF Told
        <4>4. /\ new.token = d.token
              /\ new.pins = [d.pins EXCEPT ![c.n] = pin]
          BY <1>1 DEF Devices
        <4> HIDE DEF d, pin, new
        <4>5. Touches(c, d, new)
          BY <1>2, <1>5, <3>1, <4>4 DEF Touches, Shows, PinChanges
        <4>6. Achieved(c, new)
          BY <1>2, <3>1, <4>2, <4>3, <4>4 DEF Achieved, Shows, d
        <4>7. QED
          BY <4>5, <4>6
      <3>2. c.op \in PinChanges /\ Update(t, exists, "OK", new)
        BY <1>5, <2>2 DEF PinChanges
      <3> HIDE DEF exists, new
      <3>3. QED
        BY <3>1, <3>2, UpdateOutcome
    <2>3. QED
      BY <1>5, <2>1, <2>2 DEF UpdatePin
  <1>6. CASE c.op = "DELETE_PIN" /\ DeletePin(t, c.n)
    <2> DEFINE new == WithoutPin(d, c.n)
    <2>1. Update(t, c.n \in DOMAIN d.pins, "OK", new)
      BY <1>6 DEF DeletePin
    <2>2. new.token = d.token /\ new.pins = Erased(d.pins, c.n)
      BY <1>1 DEF WithoutPin, Devices
    <2> HIDE DEF d, new
    <2>3. Touches(c, d, new)
      BY <1>6, <2>2 DEF Touches, Shows, Erased, Restrict, PinChanges
    <2>4. Achieved(c, new)
      BY <1>6, <2>2 DEF Achieved, Shows, Told, Erased, Restrict
    <2> USE DEF d
    <2>5. QED
      BY <1>6, <2>1, <2>3, <2>4, UpdateOutcome DEF PinChanges
  <1>7. QED
    BY <1>3, <1>4, <1>5, <1>6, ExecuteCases DEF PinChanges

-----------------------------------------------------------------------------
\* The token of a new device has a text.
LEMMA NewTokenHasText ==
  ASSUME IInv, NEW key \in Keys, RegisterDevice(key)
  PROVE  /\ response'.token \in RequestTokens
         /\ TokenText[response'.token] \in TokenTexts
  <1>1. /\ response'.token = [deviceID |-> idSequence, key |-> key]
        /\ CanRegister
    BY DEF RegisterDevice, Answer, NewDevice
  <1>2. idSequence \in 0 .. MaxRegistrations
    BY <1>1, BoundAssumption DEF CanRegister, IInv, TypeOK, Ids
  <1>3. QED
    BY <1>1, <1>2, TextAssumption DEF RequestTokens, TokenTexts, Range

-----------------------------------------------------------------------------
(***************************************************************************)
(* The calls of the client.                                                *)
(***************************************************************************)

TokenInv == token \in TokenTexts \cup {CodeText(201), ""}

CurrentCall ==
    /\ pc \in {"menu", "sent", "answered"}
    /\ pc = "menu" => call = NoCall
    /\ pc # "menu" => IsCall(call) /\ call.token = token /\ call.since <= runs

ReplyInv ==
    /\ reply.code \in {0, 200, 201, 400, 401, 500}
    /\ pc = "answered" => reply.code # 0
    /\ pc = "answered" /\ call.op = "REGISTER_DEVICE"
          => reply.code = 201 /\ Registered(reply) \in TokenTexts

LateInv == /\ IsFiniteSet(late) /\ Cardinality(late) <= MaxLate
           /\ \A c \in late : IsCall(c)

CallInv == TokenInv /\ CurrentCall /\ ReplyInv /\ LateInv /\ certain \in BOOLEAN

\* Every step of the two together is a step of the registry, or none.
LEMMA ServerStep ==
  ASSUME CallInv, ClientNext
  PROVE  Next \/ UNCHANGED vars
  <1>1. CASE Choose \/ ChangeToken
    BY <1>1 DEF Choose, ChoosePin, ChooseDevice, Send, ChangeToken
  <1>2. CASE Serve
    BY <1>2, ExecuteIsRequest DEF Serve, CallInv, CurrentCall, Next
  <1>3. CASE Receive \/ LoseBody \/ Break
    BY <1>3 DEF Receive, LoseBody, Break, Show
  <1>4. CASE ServeLate
    BY <1>4, ExecuteIsRequest DEF ServeLate, CallInv, LateInv, Next
  <1>5. CASE OthersRequest
    BY <1>5, TextAssumption DEF OthersRequest, Next, Request
  <1>6. CASE ServerStarts \/ ServerEnds
    BY <1>6 DEF ServerStarts, ServerEnds, Next
  <1>7. QED
    BY <1>1, <1>2, <1>3, <1>4, <1>5, <1>6 DEF ClientNext

\* A call that is sent has the arguments of its operation.
LEMMA SendCall ==
  ASSUME IInv, CallInv,
         NEW op \in Operations, NEW n, NEW type, NEW text,
         Send(op, n, type, text),
         op \in PinChanges \cup {"GET_PIN"} => n \in UserPins,
         op \in {"CREATE_PIN", "UPDATE_PIN"} => text \in Texts,
         op = "CREATE_PIN" => type \in PinTypes
  PROVE  CallInv'
  <1>1. call' = [op |-> op, token |-> token, n |-> n, type |-> type,
                 text |-> text, since |-> runs, final |-> Final(op)]
        /\ pc' = "sent" /\ certain' = TRUE
        /\ UNCHANGED <<runs, token, reply, late>>
    BY DEF Send, vars, history
  <1>2. runs \in Nat
    BY RegistryNumbers
  <1>3. Final(op) => op = "DELETE_DEVICE"
    BY DEF Final
  <1> DEFINE c == [op |-> op, token |-> token, n |-> n, type |-> type,
                   text |-> text, since |-> runs, final |-> Final(op)]
  <1>5. IsCall(c)
    BY <1>2, <1>3 DEF IsCall, PinChanges
  <1>6. CurrentCall'
    <2>1. call' = c /\ call'.token = token' /\ call'.since = runs'
      BY <1>1
    <2>2. IsCall(call')
      BY ONLY <1>5, <2>1
    <2>3. call'.since <= runs'
      <3>1. runs' = runs
        BY <1>1
      <3>2. QED
        BY ONLY <1>2, <2>1, <3>1
    <2>4. pc' = "sent"
      BY <1>1
    <2>5. QED
      BY ONLY <2>1, <2>2, <2>3, <2>4 DEF CurrentCall
  <1>7. (TokenInv /\ ReplyInv /\ LateInv)'
    BY ONLY CallInv, <1>1 DEF CallInv, TokenInv, ReplyInv, LateInv
  <1>8. QED
    BY <1>1, <1>6, <1>7 DEF CallInv

\* What the server does by itself leaves a call as it is.
LEMMA ClientWaits ==
  ASSUME IInv, CallInv, UNCHANGED client, runs <= runs', runs' \in Nat
  PROVE  (TokenInv /\ CurrentCall /\ ReplyInv)'
  <1>1. UNCHANGED <<token, call, pc, reply>>
    BY DEF client
  <1>2. runs \in Nat
    BY RegistryNumbers
  <1>3. CurrentCall'
    BY <1>1, <1>2 DEF CallInv, CurrentCall, IsCall
  <1>4. (TokenInv /\ ReplyInv)'
    BY <1>1 DEF CallInv, TokenInv, ReplyInv
  <1>5. QED
    BY <1>3, <1>4

\* An answer carries the number of its status, and its body.
LEMMA AnswerCarries ==
  ASSUME NEW body, NEW truth, Replied(body, truth)
  PROVE  /\ reply'.code = CodeOf[response'.status] /\ reply'.body = body
         /\ reply'.truth = truth
  BY DEF Replied

\* Whatever the operation.
LEMMA ReplyCode ==
  ASSUME NEW c, IsCall(c), Reply(c)
  PROVE  reply'.code = CodeOf[response'.status]
  <1>1. CASE Served(c)
    <2>1. CASE c.op = "REGISTER_DEVICE"
      BY <1>1, <2>1, AnswerCarries DEF Served
    <2>2. CASE c.op = "GET_PIN"
      BY <1>1, <2>2, AnswerCarries DEF Served
    <2>3. CASE c.op = "DEVICE_STATUS"
      BY <1>1, <2>3, AnswerCarries DEF Served
    <2>4. CASE c.op \notin {"REGISTER_DEVICE", "GET_PIN", "DEVICE_STATUS"}
      BY <1>1, <2>4, AnswerCarries DEF Served
    <2>5. QED
      BY <2>1, <2>2, <2>3, <2>4
  <1>2. QED
    BY <1>1, AnswerCarries DEF Reply

\* The token that a registration returns has a text.
LEMMA ServedToken ==
  ASSUME AnswersReadBack, IInv, CallInv, Serve,
         call.op = "REGISTER_DEVICE"
  PROVE  reply'.code = 201 /\ Registered(reply') \in TokenTexts
  <1>1. PICK key \in Keys : RegisterDevice(key)
    BY ExecuteCases DEF Serve, CallInv, CurrentCall
  <1>2. /\ response'.token \in RequestTokens
        /\ TokenText[response'.token] \in TokenTexts
    BY <1>1, NewTokenHasText
  <1>3. response'.status = "CREATED"
    BY <1>1 DEF RegisterDevice, Answer
  <1>4. ~Answered("UNAUTHORIZED") /\ ~Answered("BAD_REQUEST")
    BY <1>3 DEF Answered
  <1>5. Served(call)
    BY <1>4 DEF Serve, Reply
  <1>6. Replied(Labelled("token", TokenText[response'.token]), "")
    BY <1>5 DEF Served
  <1>7. /\ reply'.code = 201
        /\ reply'.body = Labelled("token", TokenText[response'.token])
    <2> DEFINE body == Labelled("token", TokenText[response'.token])
    <2>1. Replied(body, "")
      BY <1>6
    <2> HIDE DEF body
    <2>2. reply'.code = CodeOf[response'.status] /\ reply'.body = body
      BY <2>1, AnswerCarries
    <2>3. QED
      BY <1>3, <2>2 DEF CodeOf, body
  <1>8. reply'.body # NoBody /\ ExtractValue(reply'.body, "token") \in TokenTexts
    <2>1. \A t \in RequestTokens :
             /\ Labelled("token", TokenText[t]) # NoBody
             /\ ExtractValue(Labelled("token", TokenText[t]), "token")
                   = TokenText[t]
      BY DEF AnswersReadBack
    <2>2. QED
      BY ONLY <1>2, <1>7, <2>1
  <1>9. QED
    BY <1>7, <1>8 DEF Registered

\* What the client reads: nothing, the answer, or the answer without its body.
Read(r) == \/ r = NoReply
           \/ /\ pc = "answered" /\ r.code = reply.code
              /\ r = reply \/ r.body = NoBody

\* When a call returns, the menu is shown again: with the text of a token,
\* with none, or with the number of the status of a registration.
LEMMA ShowCallInv ==
  ASSUME CallInv, pc # "menu", NEW r, Show(r), Read(r)
  PROVE  (TokenInv /\ CurrentCall /\ ReplyInv)' /\ certain' \in BOOLEAN
  <1>1. /\ pc' = "menu" /\ call' = NoCall /\ reply' = NoReply
        /\ certain' = FALSE
        /\ token' = IF call.op = "REGISTER_DEVICE" THEN Registered(r) ELSE token
    BY DEF Show
  <1>2. ASSUME call.op = "REGISTER_DEVICE"
        PROVE  Registered(r) \in TokenTexts \cup {CodeText(201), ""}
    <2>1. CASE r = NoReply
      BY <2>1 DEF Registered, NoReply
    <2>2. CASE pc = "answered" /\ r = reply
      BY <1>2, <2>2 DEF CallInv, ReplyInv
    <2>3. CASE pc = "answered" /\ r.code = reply.code /\ r.body = NoBody
      <3>1. r.code = 201 /\ r.code # 0
        BY <1>2, <2>3 DEF CallInv, ReplyInv
      <3>2. QED
        BY <2>3, <3>1 DEF Registered
    <2>4. QED
      BY <2>1, <2>2, <2>3 DEF Read
  <1>3. TokenInv'
    BY <1>1, <1>2 DEF CallInv, TokenInv
  <1>4. CurrentCall' /\ ReplyInv'
    BY <1>1 DEF CurrentCall, ReplyInv, NoReply
  <1>5. QED
    BY <1>1, <1>3, <1>4

\* Every step keeps the calls and answers in order.
LEMMA NextCallInv ==
  ASSUME AnswersReadBack, IInv, CallInv, ClientNext
  PROVE  CallInv'
  <1> USE DEF CallInv
  <1>1. CASE Choose
    BY <1>1, SendCall
    DEF Choose, ChoosePin, ChooseDevice, Operations, COMMANDS, PinChanges
  <1>2. CASE ChangeToken
    <2>1. UNCHANGED <<call, pc, reply, late, certain>> /\ token' \in TokenTexts
          /\ pc = "menu"
      BY <1>2 DEF ChangeToken
    <2>2. QED
      BY <2>1 DEF TokenInv, CurrentCall, ReplyInv, LateInv
  <1>3. CASE Serve
    <2>1. /\ pc' = "answered" /\ IsCall(call)
          /\ UNCHANGED <<token, call, late, certain>>
      BY <1>3 DEF Serve, report, CurrentCall
    <2>2. runs' = runs
      BY <1>3, <2>1, ExecuteIsRequest, RequestGrows DEF Serve, Grows
    <2>3. CurrentCall'
      BY <1>3, <2>1, <2>2 DEF Serve, CurrentCall, IsCall
    <2>4. reply'.code = CodeOf[response'.status]
      BY <1>3, <2>1, ReplyCode DEF Serve
    <2>5. response'.status \in DOMAIN CodeOf
      BY <1>3, <2>1, ExecuteStatus DEF Serve
    <2>6. ReplyInv'
      BY <1>3, <2>1, <2>4, <2>5, ServedToken DEF ReplyInv, CodeOf
    <2>7. QED
      BY <2>1, <2>3, <2>6 DEF TokenInv, LateInv
  <1>4. CASE Receive
    <2>1. (TokenInv /\ CurrentCall /\ ReplyInv)' /\ certain' \in BOOLEAN
      BY <1>4, ShowCallInv DEF Receive, Read
    <2>2. QED
      BY <1>4, <2>1 DEF Receive, LateInv
  <1>5. CASE LoseBody
    <2>1. (TokenInv /\ CurrentCall /\ ReplyInv)' /\ certain' \in BOOLEAN
      <3> DEFINE r == [code |-> reply.code, body |-> NoBody, truth |-> ""]
      <3>1. pc = "answered" /\ Show(r) /\ Read(r)
        BY <1>5 DEF LoseBody, Read
      <3> HIDE DEF r
      <3>2. QED
        BY <3>1, ShowCallInv
    <2>2. QED
      BY <1>5, <2>1 DEF LoseBody, LateInv
  <1>6. CASE Break
    <2>1. (TokenInv /\ CurrentCall /\ ReplyInv)' /\ certain' \in BOOLEAN
      <3>1. pc # "menu" /\ Show(NoReply) /\ Read(NoReply)
        BY <1>6 DEF Break, Read
      <3>2. QED
        BY <3>1, ShowCallInv
    <2>2. CASE late' = late
      BY <2>1, <2>2 DEF LateInv
    <2>3. CASE Cardinality(late) < MaxLate /\ late' = late \cup {call}
      <3>1. IsCall(call)
        BY <1>6 DEF Break, CurrentCall
      <3>2. IsFiniteSet(late') /\ Cardinality(late') <= MaxLate
        <4>1. IsFiniteSet(late) /\ Cardinality(late) \in Nat
          BY FS_CardinalityType DEF LateInv
        <4>2. /\ IsFiniteSet(late')
              /\ \/ Cardinality(late') = Cardinality(late)
                 \/ Cardinality(late') = Cardinality(late) + 1
          BY <2>3, <4>1, FS_AddElement
        <4>3. QED
          BY ONLY <2>3, <4>1, <4>2, LateAssumption
      <3>3. QED
        BY <2>1, <2>3, <3>1, <3>2 DEF LateInv
    <2>4. QED
      BY <1>6, <2>2, <2>3 DEF Break
  <1>7. ASSUME NEW c \in late, Execute(c), late' = late \ {c},
               certain' = (certain /\ c.token # token), UNCHANGED client
        PROVE  CallInv'
    <2>1. runs' = runs
      BY <1>7, ExecuteIsRequest, RequestGrows DEF LateInv, Grows
    <2>2. (TokenInv /\ CurrentCall /\ ReplyInv)'
      BY <1>7, <2>1, ClientWaits, RegistryNumbers
    <2>3. IsFiniteSet(late') /\ Cardinality(late') <= MaxLate
      <3>1. IsFiniteSet(late) /\ Cardinality(late) \in Nat
            /\ Cardinality(late) <= MaxLate
        BY FS_CardinalityType DEF LateInv
      <3>2. IsFiniteSet(late') /\ Cardinality(late') = Cardinality(late) - 1
        BY <1>7, <3>1, FS_RemoveElement
      <3>3. QED
        BY ONLY <3>1, <3>2, LateAssumption
    <2>4. certain' \in BOOLEAN
      BY <1>7
    <2>5. QED
      BY <1>7, <2>2, <2>3, <2>4 DEF LateInv
  <1>8. CASE OthersRequest
    <2>1. runs' = runs
      BY <1>8, ServerStep, TextAssumption, RequestGrows
      DEF OthersRequest, Request, Grows
    <2>2. QED
      BY <1>8, <2>1, ClientWaits, RegistryNumbers
      DEF OthersRequest, report, LateInv
  <1>9. CASE ServerStarts
    <2>1. runs' \in {runs, runs + 1}
      BY <1>9 DEF ServerStarts, Start, CreateFile, history
    <2>2. QED
      BY <1>9, <2>1, ClientWaits, RegistryNumbers
      DEF ServerStarts, report, LateInv
  <1>10. CASE ServerEnds
    <2>1. runs' = runs
      BY <1>10 DEF ServerEnds, Shutdown, Crash, CrashWhileSaving, Exit
    <2>2. (TokenInv /\ CurrentCall /\ ReplyInv)'
      BY <1>10, <2>1, ClientWaits, RegistryNumbers DEF ServerEnds
    <2>3. late' = {} /\ certain' = FALSE
      BY <1>10 DEF ServerEnds
    <2>4. IsFiniteSet({}) /\ Cardinality({}) <= MaxLate
      BY FS_EmptySet, LateAssumption
    <2>5. QED
      BY <2>2, <2>3, <2>4 DEF LateInv
  <1>11. QED
    BY <1>1, <1>2, <1>3, <1>4, <1>5, <1>6, <1>7, <1>8, <1>9, <1>10
    DEF ClientNext, ServeLate

-----------------------------------------------------------------------------
(***************************************************************************)
(* What the client was told about its device.                              *)
(***************************************************************************)

\* What Has says, in terms of a map of devices.
Held(map, t, n, pins) ==
    /\ t.deviceID \in DOMAIN map /\ map[t.deviceID].token = t
    /\ Shows(map[t.deviceID], n, pins)

LEMMA HeldAuth ==
  ASSUME NEW t
  PROVE  AuthCheck(t) = "OK"
            <=> t.deviceID \in DOMAIN devices /\ devices[t.deviceID].token = t
  BY DEF AuthCheck

LEMMA HasHeld ==
  ASSUME NEW t, NEW n, NEW pins
  PROVE  Has(t, n, pins) <=> Held(devices, t, n, pins)
  BY HeldAuth DEF Has, Held, Shows

\* A call changes nothing but the pin it names.
LEMMA ExecuteHeld ==
  ASSUME IInv, NEW c, IsCall(c), Execute(c),
         c.op \notin {"REGISTER_DEVICE", "DELETE_DEVICE"},
         NEW n, NEW pins, Held(devices, TokenOf(c.token), n, pins),
         c.op \in PinChanges => n # c.n
  PROVE  Held(devices', TokenOf(c.token), n, pins)
  <1>1. AuthCheck(TokenOf(c.token)) = "OK"
    BY HeldAuth DEF Held
  <1>2. QED
    BY <1>1, CallOutcome DEF Held, Touches

\* When it is answered with success, the pin is as asked.
LEMMA ExecuteAchieved ==
  ASSUME IInv, NEW c, IsCall(c), Execute(c), c.op \in PinChanges, Succeeded(c)
  PROVE  /\ Held(devices', TokenOf(c.token), c.n, Told(c))
         /\ Told(c) \subseteq Pins
  <1> DEFINE t == TokenOf(c.token)
  <1>1. AuthCheck(t) = "OK"
    <2>1. SUFFICES ASSUME AuthCheck(t) # "OK" PROVE FALSE
      OBVIOUS
    <2>2. response'.status \in {"BAD_REQUEST", "UNAUTHORIZED"}
      BY <2>1, ExecuteCases
      DEF PinChanges, Answered, AuthCheck, CreatePin, UpdatePin, DeletePin
    <2>3. QED
      BY <2>2 DEF Succeeded, CodeOf, Success, PinChanges
  <1>2. devices[t.deviceID].token = t
    BY <1>1, HeldAuth
  <1>3. c.op \notin {"REGISTER_DEVICE", "DELETE_DEVICE"}
    BY DEF PinChanges
  <1>4. QED
    BY <1>1, <1>2, <1>3, CallOutcome DEF Held, Touches, Achieved

\* The requests of others change nothing of it.
LEMMA OthersHeld ==
  ASSUME IInv, Request, NEW t, NEW n, NEW pins, Held(devices, t, n, pins),
         response'.token # t \/ \E key \in Keys : RegisterDevice(key)
  PROVE  Held(devices', t, n, pins)
  <1>1. AuthCheck(t) = "OK"
    BY HeldAuth DEF Held
  <1>2. QED
    BY <1>1, OthersKeep DEF Held, Kept

\* A device that is gone and whose id was given out before.
Gone(running, map, sequence, t) ==
    running /\ t.deviceID \notin DOMAIN map /\ t.deviceID < sequence

\* It stays so for as long as the sequence only grows.
LEMMA GoneStays ==
  ASSUME IInv, Grows, NEW t \in RequestTokens,
         Gone(up, devices, idSequence, t)
  PROVE  Gone(up', devices', idSequence', t)
  <1>1. t.deviceID \in Int
    BY BoundAssumption DEF RequestTokens
  <1>2. QED
    BY <1>1, RegistryNumbers DEF Grows, Gone

\* The user knows nothing that is not so.
KnownInv ==
    /\ DOMAIN known \subseteq UserPins
    /\ \A n \in DOMAIN known :
          /\ known[n] \subseteq Pins
          /\ Held(devices, TokenOf(token), n, known[n])

\* Nor does an answer that is on its way tell anything else, and while a call
\* is made nothing is known of what it changes.
PendingInv ==
    /\ pc # "menu" =>
          /\ call.op \in PinChanges => call.n \notin DOMAIN known
          /\ call.op \in {"REGISTER_DEVICE", "DELETE_DEVICE"}
                => DOMAIN known = {}
    /\ pc = "answered" /\ certain /\ call.op \in PinChanges
          /\ reply.code = Success[call.op]
       => /\ Held(devices, TokenOf(token), call.n, Told(call))
          /\ Told(call) \subseteq Pins

\* A deletion that is the last word is about an id that was given out before,
\* and when it has succeeded the device is gone.
DeletionInv ==
    /\ pc = "sent" /\ call.op = "DELETE_DEVICE" /\ call.final /\ Connected
       => TokenOf(token).deviceID < idSequence
    /\ pc = "answered" /\ certain /\ call.op = "DELETE_DEVICE" /\ call.final
          /\ reply.code = 200
       => token \in TokenTexts /\ Gone(up, devices, idSequence, TokenOf(token))
    /\ \A text \in gone : /\ text \in TokenTexts
                          /\ Gone(up, devices, idSequence, TokenOf(text))

\* A value that is on its way to the client is the one it knows of.
ReadInv ==
    pc = "answered" /\ call.op = "GET_PIN" /\ call.n \in DOMAIN known
          /\ known[call.n] # {}
    => ExtractValue(reply.body, "PinValue")
          \in {TextOf(pin) : pin \in known[call.n]}

UserInv == KnownInv /\ PendingInv /\ DeletionInv /\ ReadInv

-----------------------------------------------------------------------------
(***************************************************************************)
(* Every step keeps it.                                                    *)
(***************************************************************************)

\* What is forgotten is known no more, and the rest stays known.
LEMMA ForgetLess ==
  ASSUME NEW c
  PROVE  /\ DOMAIN Forget(c) \subseteq DOMAIN known
         /\ \A n \in DOMAIN Forget(c) : Forget(c)[n] = known[n]
         /\ c.op \in PinChanges => c.n \notin DOMAIN Forget(c)
         /\ c.op \in {"REGISTER_DEVICE", "DELETE_DEVICE"}
               => DOMAIN Forget(c) = {}
  <1>1. CASE c.op \in {"REGISTER_DEVICE", "DELETE_DEVICE"}
    BY <1>1, EmptyMapType DEF Forget, PinChanges
  <1>2. CASE c.op \in PinChanges
    BY <1>2 DEF Forget, PinChanges, Erased, Restrict
  <1>3. CASE c.op \notin PinChanges \cup {"REGISTER_DEVICE", "DELETE_DEVICE"}
    BY <1>3 DEF Forget
  <1>4. QED
    BY <1>1, <1>2, <1>3

\* When a call is sent.
LEMMA SendUser ==
  ASSUME UserInv, NEW op, NEW n, NEW type, NEW text, Send(op, n, type, text)
  PROVE  UserInv'
  <1>1. /\ call'.op = op /\ call'.n = n /\ call'.final = Final(op)
        /\ pc' = "sent" /\ known' = Forget(call')
        /\ UNCHANGED <<devices, up, idSequence, token, gone>>
    BY DEF Send, vars
  <1>2. KnownInv'
    BY <1>1, ForgetLess DEF UserInv, KnownInv
  <1>3. PendingInv'
    BY <1>1, ForgetLess DEF PendingInv
  <1>4. DeletionInv'
    BY <1>1 DEF UserInv, DeletionInv, Final
  <1>5. ReadInv'
    BY <1>1 DEF ReadInv
  <1>6. QED
    BY <1>2, <1>3, <1>4, <1>5 DEF UserInv

\* When the server handles the call of the client.
LEMMA ServeUser ==
  ASSUME AnswersReadBack, IInv, CallInv, UserInv, Serve
  PROVE  UserInv'
  <1> DEFINE t == TokenOf(token)
  <1>1. /\ pc = "sent" /\ Connected /\ IsCall(call) /\ call.token = token
        /\ Execute(call) /\ Reply(call) /\ pc' = "answered"
        /\ UNCHANGED <<token, call, known, gone, certain>>
    BY DEF Serve, report, CallInv, CurrentCall
  <1>2. Request /\ Grows
    BY <1>1, ExecuteIsRequest, RequestGrows
  <1>3. reply'.code = CodeOf[response'.status]
    BY <1>1, ReplyCode
  <1>4. KnownInv'
    <2>1. ASSUME NEW n \in DOMAIN known
          PROVE  Held(devices', t, n, known[n])
      <3>1. /\ call.op \notin {"REGISTER_DEVICE", "DELETE_DEVICE"}
            /\ call.op \in PinChanges => n # call.n
        BY <1>1 DEF UserInv, PendingInv
      <3>2. Held(devices, TokenOf(call.token), n, known[n])
        BY <1>1 DEF UserInv, KnownInv
      <3>3. QED
        BY <1>1, <3>1, <3>2, ExecuteHeld
    <2>2. QED
      BY <1>1, <2>1 DEF UserInv, KnownInv
  <1>5. PendingInv'
    <2>1. ASSUME call.op \in PinChanges, reply'.code = Success[call.op]
          PROVE  /\ Held(devices', t, call.n, Told(call))
                 /\ Told(call) \subseteq Pins
      BY <1>1, <1>3, <2>1, ExecuteAchieved DEF Succeeded
    <2>2. pc # "menu"
      BY <1>1
    <2>3. QED
      BY <1>1, <2>1, <2>2 DEF UserInv, PendingInv
  <1>6. DeletionInv'
    <2>1. ASSUME call.op = "DELETE_DEVICE", call.final, reply'.code = 200
          PROVE  token \in TokenTexts /\ Gone(up', devices', idSequence', t)
      <3>1. t.deviceID < idSequence
        BY <1>1, <2>1 DEF UserInv, DeletionInv
      <3>3. response'.status = "OK"
        BY <1>1, <1>3, <2>1, ExecuteStatus DEF CodeOf
      <3>4. DeleteDevice(t)
        BY <1>1, <2>1, <3>3, ExecuteCases DEF Answered, AuthCheck, PinChanges
      <3>5. t.deviceID \notin DOMAIN devices'
            /\ idSequence' = idSequence /\ up'
        BY <3>4 DEF DeleteDevice, Erased, Restrict, Answer
      <3>6. token \in TokenTexts
        BY <3>4, AuthText DEF DeleteDevice
      <3>7. QED
        BY <3>1, <3>5, <3>6 DEF Gone
    <2>2. ASSUME NEW text \in gone
          PROVE  /\ text \in TokenTexts
                 /\ Gone(up', devices', idSequence', TokenOf(text))
      BY <1>2, <2>2, TokenOfText, GoneStays DEF UserInv, DeletionInv
    <2>3. QED
      BY <1>1, <2>1, <2>2 DEF DeletionInv
  <1>7. ReadInv'
    <2> SUFFICES ASSUME call.op = "GET_PIN", call.n \in DOMAIN known,
                        known[call.n] # {}
                 PROVE  ExtractValue(reply'.body, "PinValue")
                           \in {TextOf(pin) : pin \in known[call.n]}
      BY <1>1 DEF ReadInv
    <2> DEFINE held == devices[t.deviceID].pins
               pin  == held[call.n]
    <2>1. Held(devices, t, call.n, known[call.n]) /\ known[call.n] \subseteq Pins
      BY DEF UserInv, KnownInv
    <2>2. AuthCheck(t) = "OK" /\ call.n \in DOMAIN held /\ pin \in known[call.n]
      BY <2>1, HeldAuth DEF Held, Shows
    <2>3. TextOf(pin) \in Texts \cup Range(NumberText)
      <3>1. pin \in Pins
        BY <2>1, <2>2
      <3>2. QED
        BY <3>1, TextAssumption DEF TextOf, Pins, Range
    <2>4. TextOf(pin) # ""
          /\ ExtractValue(Labelled("PinValue", TextOf(pin)), "PinValue")
                = TextOf(pin)
      BY <2>3 DEF AnswersReadBack
    <2>5. Consult(t)
      BY <1>1, <2>2, <2>4, ExecuteCases DEF PinChanges
    <2>6. response'.status = "OK" /\ response'.token = t
      BY <2>5 DEF Consult, Answer
    <2>7. Served(call)
      BY <1>1, <2>6 DEF Reply, Answered
    <2> DEFINE body == Labelled("PinValue", TextOf(pin))
    <2>8. Replied(body, "")
      BY <2>6, <2>7 DEF Served
    <2>9. reply'.body = body
      <3> HIDE DEF body
      <3>1. QED
        BY <2>8, AnswerCarries
    <2>10. QED
      BY <2>2, <2>4, <2>9
  <1>8. QED
    BY <1>4, <1>5, <1>6, <1>7 DEF UserInv

\* When the call returns.
LEMMA ShowUser ==
  ASSUME CallInv, UserInv, pc # "menu", NEW r, Show(r), Read(r)
  PROVE  UserInv'
  <1> DEFINE sure == Says(call.op, r) = "done" /\ certain
  <1>1. /\ token' = IF call.op = "REGISTER_DEVICE" THEN Registered(r) ELSE token
        /\ known' = IF sure THEN Learn(call) ELSE known
        /\ gone' = IF sure THEN gone \cup Deleted(call) ELSE gone
        /\ pc' = "menu"
        /\ UNCHANGED <<up, devices, idSequence>>
    BY DEF Show, vars
  <1>2. IsCall(call) /\ call.token = token
    BY DEF CallInv, CurrentCall
  <1>3. ASSUME sure, call.op \in PinChanges \cup {"DELETE_DEVICE"}
        PROVE  /\ pc = "answered" /\ certain
               /\ reply.code = Success[call.op]
    <2>1. r.code = Success[call.op]
      BY <1>3 DEF Says, PinChanges
    <2>2. Success[call.op] \in {200, 201}
      BY <1>3 DEF Success, PinChanges
    <2>3. NoReply.code = 0
      BY DEF NoReply
    <2>4. QED
      BY <1>3, <2>1, <2>2, <2>3 DEF Read
  <1>4. KnownInv'
    <2>1. CASE call.op = "REGISTER_DEVICE"
      <3>1. known' = known /\ DOMAIN known = {}
        BY <1>1, <2>1 DEF Learn, PinChanges, UserInv, PendingInv
      <3>2. QED
        BY <3>1 DEF KnownInv
    <2>2. CASE call.op \in PinChanges /\ sure
      <3>1. /\ Held(devices, TokenOf(token), call.n, Told(call))
            /\ Told(call) \subseteq Pins
        BY <1>3, <2>2 DEF UserInv, PendingInv
      <3>2. token' = token /\ known' = Stored(known, call.n, Told(call))
        BY <1>1, <2>2 DEF Learn, PinChanges
      <3>3. call.n \in UserPins
        BY <1>2, <2>2 DEF IsCall, PinChanges
      <3>4. QED
        BY <1>1, <3>1, <3>2, <3>3 DEF UserInv, KnownInv, Stored
    <2>3. CASE call.op # "REGISTER_DEVICE" /\ ~(call.op \in PinChanges /\ sure)
      <3>1. token' = token /\ known' = known
        BY <1>1, <2>3 DEF Learn
      <3>2. QED
        BY <1>1, <3>1 DEF UserInv, KnownInv
    <2>4. QED
      BY <2>1, <2>2, <2>3
  <1>5. DeletionInv'
    <2>1. ASSUME NEW text \in gone'
          PROVE  /\ text \in TokenTexts
                 /\ Gone(up, devices, idSequence, TokenOf(text))
      <3>1. CASE text \in gone
        BY <3>1 DEF UserInv, DeletionInv
      <3>2. CASE text \notin gone
        <4>1. sure /\ call.final /\ text = token
          BY <1>1, <1>2, <2>1, <3>2 DEF Deleted
        <4>2. call.op = "DELETE_DEVICE"
          BY <1>2, <4>1 DEF IsCall
        <4>3. reply.code = 200 /\ pc = "answered" /\ certain
          BY <1>3, <4>1, <4>2 DEF Success
        <4>4. QED
          BY <4>1, <4>2, <4>3 DEF UserInv, DeletionInv
      <3>3. QED
        BY <3>1, <3>2
    <2>2. QED
      BY <1>1, <2>1 DEF DeletionInv
  <1>6. (PendingInv /\ ReadInv)'
    BY <1>1 DEF PendingInv, ReadInv
  <1>7. QED
    BY <1>4, <1>5, <1>6 DEF UserInv

\* What happens on the server apart from the call of the client: it changes
\* nothing the client still knows of, and no token comes back.
LEMMA OthersUser ==
  ASSUME IInv, CallInv, UserInv, Grows, UNCHANGED client, gone' = gone,
         certain' => certain,
         \/ UNCHANGED known
         \/ \E c : known' = Forget(c) /\ ~certain',
         \A n \in DOMAIN known' : \A pins :
            Held(devices, TokenOf(token), n, pins)
               => Held(devices', TokenOf(token), n, pins),
         certain' => \A n, pins :
            Held(devices, TokenOf(token), n, pins)
               => Held(devices', TokenOf(token), n, pins)
  PROVE  UserInv'
  <1>1. UNCHANGED <<token, call, pc, reply>>
    BY DEF client
  <1>2. /\ DOMAIN known' \subseteq DOMAIN known
        /\ \A n \in DOMAIN known' : known'[n] = known[n]
    BY ForgetLess
  <1>3. KnownInv'
    BY <1>1, <1>2 DEF UserInv, KnownInv
  <1>4. PendingInv'
    <2>1. ASSUME pc = "answered", certain', call.op \in PinChanges,
                 reply.code = Success[call.op]
          PROVE  /\ Held(devices', TokenOf(token), call.n, Told(call))
                 /\ Told(call) \subseteq Pins
      <3>1. /\ Held(devices, TokenOf(token), call.n, Told(call))
            /\ Told(call) \subseteq Pins
        BY <2>1 DEF UserInv, PendingInv
      <3>2. QED
        BY <2>1, <3>1
    <2>2. QED
      BY <1>1, <1>2, <2>1 DEF UserInv, PendingInv
  <1>5. DeletionInv'
    <2>1. ASSUME NEW text \in TokenTexts,
                 Gone(up, devices, idSequence, TokenOf(text))
          PROVE  Gone(up', devices', idSequence', TokenOf(text))
      BY <2>1, TokenOfText, GoneStays
    <2>2. ASSUME pc = "sent", call.op = "DELETE_DEVICE", call.final, Connected'
          PROVE  TokenOf(token).deviceID < idSequence'
      <3>1. TokenOf(token).deviceID < idSequence
        BY <1>1, <2>2 DEF UserInv, DeletionInv, Connected, Grows
      <3>2. TokenOf(token).deviceID \in Int
        BY TokenOfText, BoundAssumption DEF RequestTokens
      <3>3. QED
        BY <3>1, <3>2, RegistryNumbers DEF Grows
    <2>3. QED
      BY <1>1, <2>1, <2>2 DEF UserInv, DeletionInv
  <1>6. ReadInv'
    BY <1>1, <1>2 DEF UserInv, ReadInv
  <1>7. QED
    BY <1>3, <1>4, <1>5, <1>6 DEF UserInv

\* A request that carries another token is answered about another device.
LEMMA OtherToken ==
  ASSUME IInv, NEW c, IsCall(c), Execute(c), NEW text, c.token # text,
         NEW n, NEW pins, Held(devices, TokenOf(text), n, pins)
  PROVE  Held(devices', TokenOf(text), n, pins)
  <1>1. CASE c.op = "REGISTER_DEVICE"
    <2>1. \E key \in Keys : RegisterDevice(key)
      BY <1>1, ExecuteCases DEF PinChanges
    <2>2. QED
      BY <2>1, ExecuteIsRequest, OthersHeld
  <1>2. CASE c.op # "REGISTER_DEVICE"
    <2>1. response'.token = TokenOf(c.token)
      BY <1>2, ExecuteAnswers
    <2>2. TokenOf(c.token) # TokenOf(text)
      <3>1. text \in TokenTexts
        BY AuthText, HeldAuth DEF Held
      <3>2. TokenOf(text).deviceID # 0
        BY DEF Held, IInv, TypeOK, IsIdMap, Ids
      <3>3. QED
        BY <3>1, <3>2, TokenOfText
    <2>3. QED
      BY <2>1, <2>2, ExecuteIsRequest, OthersHeld
  <1>3. QED
    BY <1>1, <1>2

\* When a request that was given up is handled after all.
LEMMA LateUser ==
  ASSUME IInv, CallInv, UserInv, NEW c \in late, Execute(c),
         known' = (IF c.token = token THEN Forget(c) ELSE known),
         certain' = (certain /\ c.token # token),
         UNCHANGED <<client, gone>>
  PROVE  UserInv'
  <1>1. IsCall(c)
    BY DEF CallInv, LateInv
  <1>2. Grows
    BY <1>1, ExecuteIsRequest, RequestGrows
  <1>3. CASE c.token = token
    <2>1. known' = Forget(c) /\ ~certain'
      BY <1>3
    <2>2. ASSUME NEW n \in DOMAIN known', NEW pins,
                 Held(devices, TokenOf(token), n, pins)
          PROVE  Held(devices', TokenOf(token), n, pins)
      <3>1. /\ c.op \notin {"REGISTER_DEVICE", "DELETE_DEVICE"}
            /\ c.op \in PinChanges => n # c.n
        BY <2>1, <2>2, ForgetLess
      <3>2. QED
        BY <1>1, <1>3, <2>2, <3>1, ExecuteHeld
    <2>3. QED
      BY <1>2, <2>1, <2>2, OthersUser
  <1>4. CASE c.token # token
    <2>1. known' = known /\ (certain' => certain)
      BY <1>4
    <2>2. ASSUME NEW n, NEW pins,
                 Held(devices, TokenOf(token), n, pins)
          PROVE  Held(devices', TokenOf(token), n, pins)
      BY <1>1, <1>4, <2>2, OtherToken
    <2>3. QED
      BY <1>2, <2>1, <2>2, OthersUser
  <1>5. QED
    BY <1>3, <1>4

\* When the server handles a request of somebody else.
LEMMA OthersRequestUser ==
  ASSUME IInv, CallInv, UserInv, OthersRequest
  PROVE  UserInv'
  <1>1. /\ UNCHANGED <<client, known, gone, certain>>
        /\ \/ \E key \in Keys : RegisterDevice(key)
           \/ \E t \in RequestTokens :
                 /\ TokenText[t] # token
                 /\ \/ DeleteDevice(t)
                    \/ \E n \in UserPins, text \in Texts : UpdatePin(t, n, text)
    BY DEF OthersRequest, report
  <1>2. Request
    BY <1>1, TextAssumption DEF Request
  <1>3. Grows
    BY <1>2, RequestGrows
  <1>4. \/ \E key \in Keys : RegisterDevice(key)
        \/ \E t \in RequestTokens :
              TokenText[t] # token /\ response'.token = t
    <2>1. ASSUME NEW t, DeleteDevice(t) PROVE response'.token = t
      BY <2>1 DEF DeleteDevice, Answer
    <2>2. ASSUME NEW t, NEW n, NEW text, UpdatePin(t, n, text)
          PROVE  response'.token = t
      BY <2>2 DEF UpdatePin, Throw, Update, Answer
    <2>3. QED
      BY <1>1, <2>1, <2>2
  <1>5. ASSUME NEW n, NEW pins,
               Held(devices, TokenOf(token), n, pins)
        PROVE  Held(devices', TokenOf(token), n, pins)
    <2>1. \/ \E key \in Keys : RegisterDevice(key)
          \/ response'.token # TokenOf(token)
      <3>1. token \in TokenTexts
        BY <1>5, AuthText, HeldAuth DEF Held
      <3>2. QED
        BY <1>4, <3>1, TokenOfText
    <2>2. QED
      BY <1>2, <1>5, <2>1, OthersHeld
  <1>6. QED
    BY <1>1, <1>3, <1>5, OthersUser

\* A server that is down has nothing the client could know of.
LEMMA ServerStartsUser ==
  ASSUME IInv, CallInv, UserInv, ServerStarts
  PROVE  UserInv'
  <1>1. /\ UNCHANGED <<token, call, pc, reply, known, gone, certain>>
        /\ Start \/ CreateFile
    BY DEF ServerStarts, client, report
  <1>2. CASE CreateFile
    <2>1. UNCHANGED <<up, devices, idSequence, runs>>
      BY <1>2 DEF CreateFile, history
    <2>2. (KnownInv /\ PendingInv)'
      BY <1>1, <2>1 DEF UserInv, KnownInv, PendingInv
    <2>3. (DeletionInv /\ ReadInv)'
      BY <1>1, <2>1 DEF UserInv, DeletionInv, ReadInv, Connected
    <2>4. QED
      BY <2>2, <2>3 DEF UserInv
  <1>3. CASE Start
    <2>1. ~up /\ runs' = runs + 1
      BY <1>3 DEF Start
    <2>2. DOMAIN devices = {}
      BY <2>1 DEF IInv, Down
    <2>3. DOMAIN known = {}
      BY <2>2 DEF UserInv, KnownInv, Held
    <2>4. gone = {}
      BY <2>1 DEF UserInv, DeletionInv, Gone
    <2>5. /\ ~(pc = "answered" /\ certain /\ call.op \in PinChanges
                 /\ reply.code = Success[call.op])
          /\ ~(pc = "answered" /\ certain /\ call.op = "DELETE_DEVICE"
                 /\ call.final /\ reply.code = 200)
      BY <2>1, <2>2 DEF UserInv, PendingInv, DeletionInv, Held, Gone
    <2>6. pc = "sent" => runs' # call.since
      BY <2>1, RegistryNumbers DEF CallInv, CurrentCall, IsCall
    <2>7. (KnownInv /\ PendingInv)'
      BY <1>1, <2>3, <2>5 DEF KnownInv, PendingInv
    <2>8. (DeletionInv /\ ReadInv)'
      BY <1>1, <2>3, <2>4, <2>5, <2>6 DEF DeletionInv, ReadInv, Connected
    <2>9. QED
      BY <2>7, <2>8 DEF UserInv
  <1>4. QED
    BY <1>1, <1>2, <1>3

\* Nothing is known of a server that went down.
LEMMA ServerEndsUser ==
  ASSUME UserInv, ServerEnds
  PROVE  UserInv'
  <1>1. /\ UNCHANGED <<token, call, pc, reply>>
        /\ known' = EmptyMap /\ gone' = {} /\ certain' = FALSE
        /\ Shutdown \/ Crash \/ CrashWhileSaving
    BY DEF ServerEnds, client
  <1>2. ~up'
    BY <1>1 DEF Shutdown, Crash, CrashWhileSaving, Exit
  <1>3. DOMAIN known' = {}
    BY <1>1, EmptyMapType
  <1>4. (KnownInv /\ PendingInv)'
    BY <1>1, <1>3 DEF KnownInv, PendingInv
  <1>5. (DeletionInv /\ ReadInv)'
    BY <1>1, <1>2, <1>3 DEF DeletionInv, ReadInv, Connected
  <1>6. QED
    BY <1>4, <1>5 DEF UserInv

-----------------------------------------------------------------------------
(***************************************************************************)
(* The theorems.                                                           *)
(***************************************************************************)

\* The invariant of the two together: that of the registry, the call that is
\* made, and what its outcome and the history have to do with the devices.
ClientInv == IInv /\ CallInv /\ UserInv

\* At first there are no devices, and the client knows nothing.
LEMMA InitClientInv == ClientInit => ClientInv
  <1> SUFFICES ASSUME ClientInit PROVE ClientInv
    OBVIOUS
  <1>1. /\ Init /\ token = "" /\ pc = "menu" /\ call = NoCall
        /\ reply = NoReply /\ late = {} /\ known = EmptyMap /\ gone = {}
        /\ certain = FALSE
    BY DEF ClientInit
  <1>2. IInv
    BY <1>1, InitIInv
  <1>3. CallInv
    <2>1. IsFiniteSet({}) /\ Cardinality({}) <= MaxLate
      BY FS_EmptySet, LateAssumption
    <2>2. LateInv
      BY <1>1, <2>1 DEF LateInv
    <2>3. TokenInv /\ CurrentCall /\ ReplyInv
      BY <1>1 DEF TokenInv, CurrentCall, ReplyInv, NoReply
    <2>4. QED
      BY <1>1, <2>2, <2>3 DEF CallInv
  <1>4. UserInv
    <2>1. DOMAIN known = {}
      BY <1>1, EmptyMapType
    <2>2. KnownInv
      BY <2>1 DEF KnownInv
    <2>3. PendingInv /\ DeletionInv /\ ReadInv
      BY <1>1 DEF PendingInv, DeletionInv, ReadInv
    <2>4. QED
      BY <2>2, <2>3 DEF UserInv
  <1>5. QED
    BY <1>2, <1>3, <1>4 DEF ClientInv

\* The menu is left with a call.
LEMMA ChooseUser ==
  ASSUME UserInv, Choose
  PROVE  UserInv'
  BY SendUser DEF Choose, ChoosePin, ChooseDevice

\* Every step of the two keeps the invariant.
LEMMA NextClientInv ==
  ASSUME AnswersReadBack, ClientInv, [ClientNext]_allVars
  PROVE  ClientInv'
  <1> USE DEF ClientInv
  <1>1. CASE ClientNext
    <2>1. [Next]_vars
      BY <1>1, ServerStep
    <2>2. IInv'
      BY <2>1, NextIInv
    <2>3. CallInv'
      BY <1>1, NextCallInv
    <2>4. UserInv'
      <3>1. CASE Choose
        BY <3>1, ChooseUser
      <3>2. CASE ChangeToken
        <4>1. /\ pc' = "menu" /\ token' \in TokenTexts /\ known' = EmptyMap
              /\ UNCHANGED <<up, devices, idSequence, gone>>
          BY <3>2 DEF ChangeToken, vars
        <4>2. DOMAIN known' = {}
          BY <4>1, EmptyMapType
        <4>3. (KnownInv /\ PendingInv)'
          BY <4>1, <4>2 DEF KnownInv, PendingInv
        <4>4. (DeletionInv /\ ReadInv)'
          BY <4>1 DEF UserInv, DeletionInv, ReadInv
        <4>5. QED
          BY <4>3, <4>4 DEF UserInv
      <3>3. CASE Serve
        BY <3>3, ServeUser
      <3>4. CASE Receive
        BY <3>4, ShowUser DEF Receive, Read
      <3>5. CASE Break
        BY <3>5, ShowUser DEF Break, Read
      <3>6. CASE ServeLate
        BY <3>6, LateUser DEF ServeLate
      <3>7. CASE OthersRequest
        BY <3>7, OthersRequestUser
      <3>8. CASE ServerStarts
        BY <3>8, ServerStartsUser
      <3>9. CASE ServerEnds
        BY <3>9, ServerEndsUser
      <3>10. CASE LoseBody
        <4> DEFINE r == [code |-> reply.code, body |-> NoBody, truth |-> ""]
        <4>1. pc = "answered" /\ Show(r) /\ Read(r)
          BY <3>10 DEF LoseBody, Read
        <4> HIDE DEF r
        <4>2. QED
          BY <4>1, ShowUser
      <3>11. QED
        BY <1>1, <3>1, <3>2, <3>3, <3>4, <3>5, <3>6, <3>7, <3>8, <3>9, <3>10
        DEF ClientNext
    <2>5. QED
      BY <2>2, <2>3, <2>4
  <1>2. CASE UNCHANGED allVars
    <2>1. /\ UNCHANGED vars
          /\ UNCHANGED <<token, call, pc, reply, late, known, gone, certain>>
      BY <1>2 DEF allVars, client, report
    <2>2. IInv'
      BY <2>1, NextIInv
    <2>3. UNCHANGED <<up, devices, idSequence, runs>>
      BY <2>1 DEF vars, history
    <2>4. CallInv'
      <3>1. CurrentCall'
        BY <2>1, <2>3 DEF CallInv, CurrentCall, IsCall
      <3>2. (TokenInv /\ ReplyInv /\ LateInv)'
        BY <2>1 DEF CallInv, TokenInv, ReplyInv, LateInv
      <3>3. QED
        BY <2>1, <3>1, <3>2 DEF CallInv
    <2>5. UserInv'
      BY <2>1, <2>3
      DEF UserInv, KnownInv, PendingInv, DeletionInv, ReadInv, Connected
    <2>6. QED
      BY <2>2, <2>4, <2>5
  <1>3. QED
    BY <1>1, <1>2

\* The invariant holds in every state the two can reach.
THEOREM ClientInvariance ==
  ASSUME AnswersReadBack
  PROVE  ClientSpec => []ClientInv
  <1>1. ClientInv /\ [ClientNext]_allVars => ClientInv'
    BY NextClientInv
  <1>2. QED
    BY <1>1, InitClientInv, PTL DEF ClientSpec

\* The client and the network can do nothing to the server but send it the
\* requests it knows: the composition implements the registry, and whatever is
\* proved of the registry holds of it.
THEOREM ServerUndisturbed ==
  ASSUME AnswersReadBack
  PROVE  ClientSpec => Spec
  <1>1. ClientInit => Init
    BY DEF ClientInit
  <1>2. ClientInv /\ [ClientNext]_allVars => [Next]_vars
    <2>1. ClientInv /\ ClientNext => [Next]_vars
      BY ServerStep DEF ClientInv
    <2>2. UNCHANGED allVars => UNCHANGED vars
      BY DEF allVars
    <2>3. QED
      BY <2>1, <2>2
  <1>3. QED
    BY <1>1, <1>2, ClientInvariance, PTL DEF ClientSpec, Spec

\* What the menu reported about the pins of the current device is so in the
\* server, whatever texts the pins hold and however many requests are late.
THEOREM ReportsTrue ==
  ASSUME AnswersReadBack
  PROVE  ClientSpec => []ReportedPinsHold
  <1>1. ClientInv => ReportedPinsHold
    BY HasHeld DEF ClientInv, UserInv, KnownInv, ReportedPinsHold
  <1>2. QED
    BY <1>1, ClientInvariance, PTL

\* A token whose deletion was reported is refused until the server stops.
THEOREM DeletedStaysAway ==
  ASSUME AnswersReadBack
  PROVE  ClientSpec => []DeletedStaysDeleted
  <1>1. ClientInv => DeletedStaysDeleted
    BY HeldAuth DEF ClientInv, UserInv, DeletionInv, Gone, DeletedStaysDeleted
  <1>2. QED
    BY <1>1, ClientInvariance, PTL

\* The value that the client shows for a pin it wrote is the one it wrote.
THEOREM OwnWritesRead ==
  ASSUME AnswersReadBack
  PROVE  ClientSpec => ReadsOwnWrites
  <1> DEFINE A == pc = "answered" /\ pc' = "menu" /\ shown'.says # ""
                  /\ call.op = "GET_PIN" /\ call.n \in DOMAIN known
                  /\ known[call.n] # {}
                  => shown'.says \in {TextOf(pin) : pin \in known[call.n]}
  <1>1. ClientInv /\ [ClientNext]_allVars => [A]_allVars
    <2> SUFFICES ASSUME ClientInv, ClientNext,
                        pc = "answered", pc' = "menu", shown'.says # "",
                        call.op = "GET_PIN", call.n \in DOMAIN known,
                        known[call.n] # {}
                 PROVE  shown'.says \in {TextOf(pin) : pin \in known[call.n]}
      OBVIOUS
    <2>1. \/ Receive
          \/ \E r : Show(r) /\ r.body = NoBody
      <3>1. Receive \/ LoseBody \/ Break
        BY DEF ClientNext, Choose, ChangeToken, Serve, ServeLate, OthersRequest,
               ServerStarts, ServerEnds, client
      <3> DEFINE lost == [code |-> reply.code, body |-> NoBody, truth |-> ""]
      <3>2. lost.body = NoBody /\ NoReply.body = NoBody
        BY DEF NoReply
      <3>3. LoseBody => Show(lost)
        BY DEF LoseBody
      <3> HIDE DEF lost
      <3>4. QED
        BY <3>1, <3>2, <3>3 DEF Break
    <2>2. ASSUME NEW r, Show(r)
          PROVE  shown'.says = ExtractValue(r.body, "PinValue")
      BY <2>2 DEF Show, Says
    <2>3. ExtractValue(NoBody, "PinValue") = ""
      BY DEF AnswersReadBack
    <2>4. shown'.says = ExtractValue(reply.body, "PinValue")
      BY <2>1, <2>2, <2>3 DEF Receive
    <2>5. QED
      BY <2>4 DEF ClientInv, UserInv, ReadInv
  <1>2. QED
    BY <1>1, ClientInvariance, PTL DEF ClientSpec, ReadsOwnWrites

\* The types of the client's state: what the menu takes for the token is the
\* text of a token, nothing, or the number of the status of a registration
\* whose answer lost its body; and a deletion is reported of tokens only.
THEOREM ClientTypeCorrect ==
  ASSUME AnswersReadBack
  PROVE  ClientSpec => []ClientTypeOK
  <1>1. ClientInv => ClientTypeOK
    <2> SUFFICES ASSUME ClientInv PROVE ClientTypeOK
      OBVIOUS
    <2>1. pc = "menu" <=> call = NoCall
      BY DEF ClientInv, CallInv, CurrentCall, IsCall, NoCall, Operations, COMMANDS
    <2>2. /\ DOMAIN known \subseteq UserPins
          /\ UNION Range(known) \subseteq Pins
      BY DEF ClientInv, UserInv, KnownInv, Range
    <2>3. gone \subseteq TokenTexts
      BY DEF ClientInv, UserInv, DeletionInv
    <2>4. QED
      BY <2>1, <2>2, <2>3
      DEF ClientInv, CallInv, TokenInv, CurrentCall, ReplyInv, LateInv,
          ClientTypeOK
  <1>2. QED
    BY <1>1, ClientInvariance, PTL

-----------------------------------------------------------------------------
(***************************************************************************)
(* What a call is to the table of DeviceStore, and through it to whoever   *)
(* owns the token.                                                         *)
(***************************************************************************)

\* A call that the server handles is the operation it is named for, or refused.
LEMMA ExecuteServes ==
  ASSUME IInv, NEW c, IsCall(c), Execute(c)
  PROVE  ServedAsNamed(c)
  <1> DEFINE t == TokenOf(c.token)
  <1>1. c.op \in PinChanges \cup {"GET_PIN"} => c.n \in PinNumbers
    BY DEF IsCall, UserPins
  <1>2. ASSUME NEW key \in Keys, RegisterDevice(key), c.op = "REGISTER_DEVICE"
        PROVE  ServedAsNamed(c)
    BY <1>2, RegisterStep DEF ServedAsNamed
  <1>3. CASE Refuse(t) \/ (Consult(t) /\ c.op \in {"DEVICE_STATUS",
                                             "DEVICE_STATUS_UPDATE", "GET_PIN"})
    <2>1. CASE Consult(t) /\ c.op \in {"DEVICE_STATUS", "DEVICE_STATUS_UPDATE",
                                       "GET_PIN"}
      BY <2>1, ConsultStep DEF ServedAsNamed
    <2>2. CASE Refuse(t)
      BY <2>2, RefuseStep DEF ServedAsNamed
    <2>3. QED
      BY <1>3, <2>1, <2>2
  <1>4. CASE c.op = "DELETE_DEVICE" /\ DeleteDevice(t)
    BY <1>4, DeleteStep DEF ServedAsNamed
  <1>5. CASE c.op = "CREATE_PIN" /\ CreatePin(t, c.n, c.type, c.text)
    <2>1. Store!Refuse \/ Store!AddPin(t, c.n, Pin(c.type, c.text))
      BY <1>1, <1>5, CreatePinStep DEF PinChanges
    <2>2. Pin(c.type, c.text) \in Told(c)
      BY <1>5 DEF Told
    <2>3. QED
      BY <1>5, <2>1, <2>2 DEF ServedAsNamed
  <1>6. CASE c.op = "UPDATE_PIN" /\ UpdatePin(t, c.n, c.text)
    <2>1. \/ Store!Refuse
          \/ \E type \in PinTypes : /\ c.text \in Accepted(type)
                                    /\ Store!ChangePin(t, c.n, Pin(type, c.text))
      BY <1>1, <1>6, UpdatePinStep DEF PinChanges
    <2>2. \A type \in PinTypes :
             c.text \in Accepted(type) => Pin(type, c.text) \in Told(c)
      BY <1>6 DEF Told
    <2>3. QED
      BY <1>6, <2>1, <2>2 DEF ServedAsNamed
  <1>7. CASE c.op = "DELETE_PIN" /\ DeletePin(t, c.n)
    BY <1>7, DeletePinStep DEF ServedAsNamed
  <1>8. QED
    BY <1>2, <1>3, <1>4, <1>5, <1>6, <1>7, ExecuteCases

\* Between the call of the client library and the table of the server nothing
\* is mistaken for anything else: not the command, nor the token, nor the pin.
THEOREM CallsServed ==
  ASSUME AnswersReadBack
  PROVE  ClientSpec => CallsDoWhatTheyName
  <1> DEFINE A == pc = "sent" /\ pc' = "answered" => ServedAsNamed(call)
  <1>1. ClientInv /\ [ClientNext]_allVars => [A]_allVars
    <2> SUFFICES ASSUME ClientInv, ClientNext, pc = "sent", pc' = "answered"
                 PROVE  ServedAsNamed(call)
      OBVIOUS
    <2>1. Serve
      BY DEF ClientNext, Choose, ChoosePin, ChooseDevice, Send, ChangeToken,
             Receive, LoseBody, Break, Show, ServeLate, OthersRequest, ServerStarts,
             ServerEnds, client
    <2>2. IsCall(call)
      BY DEF ClientInv, CallInv, CurrentCall
    <2>3. QED
      BY <2>1, <2>2, ExecuteServes DEF ClientInv, Serve
  <1>2. QED
    BY <1>1, ClientInvariance, PTL DEF ClientSpec, CallsDoWhatTheyName

\* The composition is a table to the owners of the tokens, as the server alone.
THEOREM ComposedStore ==
  ASSUME AnswersReadBack
  PROVE  ClientSpec => ImplementsDeviceStore
  BY ServerUndisturbed, ImplementsStore

-----------------------------------------------------------------------------
(***************************************************************************)
(* The status that is shown.                                               *)
(***************************************************************************)
Faithful(says, truth) ==
    /\ truth # "" => says = truth
    /\ says \in {"offline", "out of date"} => truth = says

\* Already the answer that waits to be read is one of these.
StatusInv ==
    /\ StatusShownIsServed
    /\ pc = "answered" /\ call.op = "DEVICE_STATUS"
          => Faithful(Says("DEVICE_STATUS", reply), reply.truth)

\* A status that was answered is found in the answer, and what cannot be read
\* as a number is shown as online.
LEMMA SaysStatus ==
  ASSUME NEW r, r.code # 0
  PROVE  LET text == ExtractValue(r.body, "devStatus") IN
         /\ \A i \in 1 .. 3 :
               AnswersReadBack /\ text = StatusTexts[i]
                  => Says("DEVICE_STATUS", r) = StatusNames[i]
         /\ text \notin DOMAIN Stoi \cup {""}
               => Says("DEVICE_STATUS", r) = "online"
  <1> DEFINE text == ExtractValue(r.body, "devStatus")
  <1>1. Says("DEVICE_STATUS", r) =
           IF StatusOf(r) < 3 THEN StatusNames[StatusOf(r) + 1] ELSE "error"
    BY DEF Says
  <1>2. text # "" => StatusOf(r) = IF text \in DOMAIN Stoi THEN Stoi[text] ELSE 0
    BY DEF StatusOf
  <1>3. ASSUME NEW i \in 1 .. 3, AnswersReadBack, text = StatusTexts[i]
        PROVE  Says("DEVICE_STATUS", r) = StatusNames[i]
    <2>1. text # "" /\ text \in DOMAIN Stoi /\ Stoi[text] = i - 1
      BY <1>3, TextAssumption DEF AnswersReadBack
    <2>2. StatusOf(r) = i - 1
      BY <1>2, <2>1
    <2>3. i - 1 < 3 /\ (i - 1) + 1 = i
      OBVIOUS
    <2>4. QED
      BY <1>1, <2>2, <2>3
  <1>4. ASSUME text \notin DOMAIN Stoi \cup {""}
        PROVE  Says("DEVICE_STATUS", r) = "online"
    <2>1. StatusOf(r) = 0
      BY <1>2, <1>4
    <2>2. QED
      BY <1>1, <2>1 DEF StatusNames
  <1>5. QED
    BY <1>3, <1>4

\* A call that nothing came back to is shown as online.
LEMMA SaysNoReply == Says("DEVICE_STATUS", NoReply) = "online"
  <1>1. StatusOf(NoReply) = 0
    BY DEF StatusOf, NoReply
  <1>2. QED
    BY <1>1 DEF Says, StatusNames

\* An answer without its body is shown as an error.
LEMMA SaysNoBody ==
  ASSUME AnswersReadBack, NEW r, r.body = NoBody, r.truth = "",
         r.code # 0, ~(r.code < 3)
  PROVE  Faithful(Says("DEVICE_STATUS", r), r.truth)
  <1>1. ExtractValue(r.body, "devStatus") = ""
    BY DEF AnswersReadBack
  <1>2. StatusOf(r) = r.code
    BY <1>1 DEF StatusOf
  <1>3. Says("DEVICE_STATUS", r) =
           IF StatusOf(r) < 3 THEN StatusNames[StatusOf(r) + 1] ELSE "error"
    BY DEF Says
  <1>4. Says("DEVICE_STATUS", r) = "error"
    BY <1>2, <1>3
  <1>5. QED
    BY <1>4 DEF Faithful

\* What the server answers to a call for the status reads as it was meant, or
\* as no status but online.
LEMMA ServeStatus ==
  ASSUME AnswersReadBack, NEW c, IsCall(c), c.op = "DEVICE_STATUS",
         Execute(c), Reply(c)
  PROVE  Faithful(Says("DEVICE_STATUS", reply'), reply'.truth)
  <1> DEFINE t == TokenOf(c.token)
  <1>1. \/ AuthCheck(t) # "OK" /\ Answered(AuthCheck(t))
        \/ Consult(t)
    BY ExecuteCases
  <1>2. CASE AuthCheck(t) # "OK" /\ Answered(AuthCheck(t))
    <2>1. AuthCheck(t) \in {"BAD_REQUEST", "UNAUTHORIZED"}
      BY <1>2 DEF AuthCheck
    <2>2. PICK body \in {NoDevice, AuthFailed} : Replied(body, "")
      BY <1>2, <2>1 DEF Reply, Answered
    <2>3. /\ reply'.body = body /\ reply'.truth = ""
          /\ reply'.code = CodeOf[response'.status]
      BY <2>2, AnswerCarries
    <2>4. reply'.code # 0
      <3>1. response'.status \in {"BAD_REQUEST", "UNAUTHORIZED"}
        BY <1>2, <2>1 DEF Answered
      <3>2. \A s \in {"BAD_REQUEST", "UNAUTHORIZED"} : CodeOf[s] # 0
        BY ONLY TRUE DEF CodeOf
      <3>3. QED
        BY ONLY <2>3, <3>1, <3>2
    <2>5. ExtractValue(reply'.body, "devStatus") \notin DOMAIN Stoi \cup {""}
      BY <2>3 DEF AnswersReadBack
    <2>6. Says("DEVICE_STATUS", reply') = "online"
      BY <2>4, <2>5, SaysStatus
    <2>7. QED
      BY <2>3, <2>6 DEF Faithful
  <1>3. CASE Consult(t)
    <2>1. response'.status = "OK"
      BY <1>3 DEF Consult, Answer
    <2>2. Served(c)
      BY <2>1 DEF Reply, Answered
    <2>3. PICK i \in 1 .. 3 :
             Replied(Labelled("devStatus", StatusTexts[i]), StatusNames[i])
      BY <2>2 DEF Served
    <2>4. /\ reply'.body = Labelled("devStatus", StatusTexts[i])
          /\ reply'.truth = StatusNames[i]
          /\ reply'.code = CodeOf["OK"]
      <3> DEFINE body == Labelled("devStatus", StatusTexts[i])
                 name == StatusNames[i]
      <3>1. Replied(body, name)
        BY <2>3
      <3> HIDE DEF body, name
      <3>2. reply'.body = body /\ reply'.truth = name
            /\ reply'.code = CodeOf[response'.status]
        BY <3>1, AnswerCarries
      <3>3. QED
        BY <2>1, <3>2 DEF body, name
    <2>5. ExtractValue(reply'.body, "devStatus") = StatusTexts[i]
      <3>1. ExtractValue(Labelled("devStatus", StatusTexts[i]), "devStatus")
               = StatusTexts[i]
        BY DEF AnswersReadBack
      <3>2. QED
        BY <2>4, <3>1
    <2>6. Says("DEVICE_STATUS", reply') = StatusNames[i]
      <3>1. reply'.code # 0
        BY <2>4 DEF CodeOf
      <3>2. QED
        BY <2>5, <3>1, SaysStatus
    <2>7. QED
      BY <2>4, <2>6 DEF Faithful
  <1>4. QED
    BY <1>1, <1>2, <1>3

\* Every step keeps what is shown faithful.
LEMMA NextStatusInv ==
  ASSUME AnswersReadBack, CallInv, StatusInv, [ClientNext]_allVars
  PROVE  StatusInv'
  <1>1. ASSUME UNCHANGED <<pc, call, reply, shown>> PROVE StatusInv'
    BY <1>1 DEF StatusInv, StatusShownIsServed, Says, StatusOf, Registered
  <1>2. CASE Choose
    <2>1. pc' = "sent" /\ shown' = NoCall
      BY <1>2 DEF Choose, ChoosePin, ChooseDevice, Send
    <2>2. QED
      BY <2>1 DEF StatusInv, StatusShownIsServed, NoCall
  <1>3. CASE Serve
    <2>1. /\ IsCall(call) /\ Execute(call) /\ Reply(call)
          /\ UNCHANGED <<call, shown>>
      BY <1>3 DEF Serve, CallInv, CurrentCall
    <2>2. call.op = "DEVICE_STATUS"
             => Faithful(Says("DEVICE_STATUS", reply'), reply'.truth)
      BY <2>1, ServeStatus
    <2>3. StatusShownIsServed'
      BY <2>1 DEF StatusInv, StatusShownIsServed
    <2>4. QED
      BY <2>1, <2>2, <2>3 DEF StatusInv
  <1>4. ASSUME NEW r, Show(r),
               call.op = "DEVICE_STATUS"
                  => Faithful(Says("DEVICE_STATUS", r), r.truth)
        PROVE  StatusInv'
    <2>1. /\ pc' = "menu"
          /\ shown' = [op |-> call.op, says |-> Says(call.op, r),
                       truth |-> r.truth]
      BY <1>4 DEF Show
    <2>2. QED
      BY <1>4, <2>1 DEF StatusInv, StatusShownIsServed, Faithful
  <1>5. CASE Receive
    BY <1>4, <1>5 DEF Receive, StatusInv
  <1>6. CASE Break
    <2>1. Faithful(Says("DEVICE_STATUS", NoReply), NoReply.truth)
      BY SaysNoReply DEF Faithful, NoReply
    <2>2. QED
      BY <1>4, <1>6, <2>1 DEF Break
  <1>7. CASE LoseBody
    <2> DEFINE r == [code |-> reply.code, body |-> NoBody, truth |-> ""]
    <2>1. Faithful(Says("DEVICE_STATUS", r), r.truth)
      <3>1. reply.code \in {200, 201, 400, 401, 500}
        BY <1>7 DEF LoseBody, CallInv, ReplyInv
      <3>2. /\ r.code # 0 /\ ~(r.code < 3)
            /\ r.body = NoBody /\ r.truth = ""
        BY ONLY <3>1
      <3> HIDE DEF r
      <3>3. QED
        BY ONLY AnswersReadBack, <3>2, SaysNoBody
    <2>2. Show(r)
      BY <1>7 DEF LoseBody
    <2> HIDE DEF r
    <2>3. QED
      BY <1>4, <2>1, <2>2
  <1>8. CASE ChangeToken \/ ServeLate \/ OthersRequest \/ ServerStarts
             \/ ServerEnds \/ UNCHANGED allVars
    BY <1>1, <1>8 DEF ChangeToken, ServeLate, OthersRequest, ServerStarts,
       ServerEnds, client, allVars
  <1>9. QED
    BY <1>2, <1>3, <1>5, <1>6, <1>7, <1>8 DEF ClientNext

\* Whatever breaks and whichever error comes back, the status that is shown is
\* the one that was answered, and offline or out of date is never made up.
THEOREM StatusesFaithful ==
  ASSUME AnswersReadBack
  PROVE  ClientSpec => []StatusShownIsServed
  <1>1. ClientInit => StatusInv
    <2> SUFFICES ASSUME ClientInit PROVE StatusInv
      OBVIOUS
    <2>1. shown.op = "none" /\ pc = "menu"
      BY DEF ClientInit, NoCall
    <2>2. QED
      BY <2>1 DEF StatusInv, StatusShownIsServed
  <1>2. ClientInv /\ StatusInv /\ [ClientNext]_allVars => StatusInv'
    BY NextStatusInv DEF ClientInv
  <1>3. StatusInv => StatusShownIsServed
    BY DEF StatusInv
  <1>4. QED
    BY <1>1, <1>2, <1>3, ClientInvariance, PTL DEF ClientSpec

=============================================================================
