------------------------------ MODULE WriteLog ------------------------------
(***************************************************************************)
(* What FileHandler promises to those who write lines: a line is accepted, *)
(* waits its turn when it was handed over asynchronously, and is then      *)
(* written or given up, once.  Lines that wait keep their order; a         *)
(* synchronous write does not wait for them.  FileHandler implements it.   *)
(***************************************************************************)
EXTENDS Sequences, Functions

CONSTANT Lines

VARIABLES
    pending,    \* accepted by writeAsync, not yet written
    log,        \* the lines written, in order
    dropped     \* the lines the stream refused

vars == <<pending, log, dropped>>

TypeOK ==
    /\ pending \in Seq(Lines)
    /\ log \in Seq(Lines)
    /\ dropped \subseteq Lines

Init == pending = <<>> /\ log = <<>> /\ dropped = {}

Accepted == Range(pending) \cup Range(log) \cup dropped

\* The line leaves the handler: it is written, or given up.
Settle(line) ==
    \/ log' = Append(log, line) /\ UNCHANGED dropped
    \/ dropped' = dropped \cup {line} /\ UNCHANGED log

\* Lines are told apart, so each is handed over once.
WriteAsync(line) ==
    /\ line \notin Accepted
    /\ pending' = Append(pending, line)
    /\ UNCHANGED <<log, dropped>>

WriteSync(line) ==
    /\ line \notin Accepted
    /\ Settle(line)
    /\ UNCHANGED pending

Commit ==
    /\ pending # <<>>
    /\ Settle(Head(pending))
    /\ pending' = Tail(pending)

Next == Commit \/ \E line \in Lines : WriteAsync(line) \/ WriteSync(line)

Spec == Init /\ [][Next]_vars

=============================================================================
