--------------------------- MODULE CommandsProofs ---------------------------
(***************************************************************************)
(* What the client asks for is what the server does.                       *)
(***************************************************************************)
EXTENDS Commands, TLAPS

\* No two operations of the client meet in a handler: for the command of an
\* operation, the handler of every resource and method does that operation if
\* it is the one the client sends it to, and refuses it otherwise.
THEOREM EndpointsAgree ==
    \A op \in Operations, resource \in Resources, method \in Methods :
        LET endpoint == Endpoint(op)
            own == resource = endpoint.resource /\ method = endpoint.method
        IN  Dispatch([resource |-> resource, method |-> method,
                      cmd |-> endpoint.cmd])
              = IF own THEN op ELSE "NON_COMMAND"
  BY DEF Operations, COMMANDS, GetCommandCode, Endpoint, Ord, Resources,
         Methods, Dispatch, Handler

\* Every operation of the client reaches its handler.
LEMMA EndpointsReach == \A op \in Operations : Dispatch(Endpoint(op)) = op
  <1>1. \A op \in Operations :
           LET endpoint == Endpoint(op) IN
           /\ endpoint = [resource |-> endpoint.resource,
                          method |-> endpoint.method, cmd |-> endpoint.cmd]
           /\ endpoint.resource \in Resources /\ endpoint.method \in Methods
    BY DEF Operations, COMMANDS, Endpoint, Resources, Methods
  <1>2. QED
    BY <1>1, EndpointsAgree

=============================================================================
