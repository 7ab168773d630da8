----------------------------- MODULE Commands ------------------------------
(***************************************************************************)
(* How a request names the operation it wants: the endpoints of the client *)
(* library, the command codes of the server, and the handlers that compare *)
(* the two.  A command is a sequence of characters, by their numbers.      *)
(***************************************************************************)
EXTENDS Integers, Sequences

Ord == [c |-> 99, d |-> 100, p |-> 112, r |-> 114, s |-> 115, u |-> 117,
        v |-> 118]

\* The sum of two characters, as uint8_t.
GetCommandCode(cmd) == IF Len(cmd) = 2 THEN (cmd[1] + cmd[2]) % 256 ELSE 0

COMMANDS == [REGISTER_DEVICE      |-> Ord["r"] + Ord["d"],
             DELETE_DEVICE        |-> Ord["d"] + Ord["d"],
             DEVICE_STATUS        |-> Ord["d"] + Ord["s"],
             DEVICE_STATUS_UPDATE |-> Ord["u"] + Ord["s"],
             CREATE_PIN           |-> Ord["c"] + Ord["p"],
             UPDATE_PIN           |-> Ord["u"] + Ord["p"],
             DELETE_PIN           |-> Ord["d"] + Ord["p"],
             GET_PIN              |-> Ord["p"] + Ord["v"]]

Operations == DOMAIN COMMANDS
Resources == {"devices", "pins"}
Methods == {"GET", "POST", "PUT", "DELETE"}

\* What the client library sends for each operation.
Endpoint(op) ==
    LET Request(method, resource, first, second) ==
            [method |-> method, resource |-> resource,
             cmd |-> <<Ord[first], Ord[second]>>]
    IN
    CASE op = "REGISTER_DEVICE"      -> Request("POST", "devices", "r", "d")
      [] op = "DELETE_DEVICE"        -> Request("DELETE", "devices", "d", "d")
      [] op = "DEVICE_STATUS"        -> Request("GET", "devices", "d", "s")
      [] op = "DEVICE_STATUS_UPDATE" -> Request("PUT", "devices", "u", "s")
      [] op = "CREATE_PIN"           -> Request("POST", "pins", "c", "p")
      [] op = "UPDATE_PIN"           -> Request("PUT", "pins", "u", "p")
      [] op = "DELETE_PIN"           -> Request("DELETE", "pins", "d", "p")
      [] op = "GET_PIN"              -> Request("GET", "pins", "p", "v")

\* The one command that the render function of a method knows.
Handler(resource, method) ==
    IF resource = "devices"
    THEN CASE method = "POST"   -> "REGISTER_DEVICE"
           [] method = "GET"    -> "DEVICE_STATUS"
           [] method = "PUT"    -> "DEVICE_STATUS_UPDATE"
           [] method = "DELETE" -> "DELETE_DEVICE"
    ELSE CASE method = "POST"   -> "CREATE_PIN"
           [] method = "GET"    -> "GET_PIN"
           [] method = "PUT"    -> "UPDATE_PIN"
           [] method = "DELETE" -> "DELETE_PIN"

\* The operation a request gets, or the answer "Wrong command!".
Dispatch(request) ==
    LET op == Handler(request.resource, request.method) IN
    IF GetCommandCode(request.cmd) = COMMANDS[op] THEN op ELSE "NON_COMMAND"

=============================================================================
