---------------------------- MODULE FileHandler ----------------------------
(***************************************************************************)
(* FileHandler: lines are written to a file by the callers (writeSync) or  *)
(* by a worker thread that empties a queue (writeAsync); the same stream   *)
(* is read line by line, and the owner closes and opens it again.          *)
(*                                                                         *)
(* A step is a critical section of m_queueMutex or m_fileMutex.  The file  *)
(* is a sequence of lines of one length, of which some end in a newline;   *)
(* offsets count lines.  The stream is a std::fstream opened with in|out,  *)
(* with one position for reading and writing, which no operation but open  *)
(* and the clear() of readLine gets out of a failed state.                 *)
(***************************************************************************)
EXTENDS Integers, Sequences, Functions

CONSTANTS
    Lines,          \* the lines callers write, each at most once
    OldLine,        \* what the file holds before
    Terminated,     \* the lines that end in a newline
    MaxOld,         \* bound: lines in the file before
    MaxOpens        \* bound: times the file is opened

ASSUME LineAssumption == OldLine \notin Lines
ASSUME BoundAssumption == MaxOld \in Nat /\ MaxOpens \in Nat \ {0}

VARIABLES
    owner,          \* what the owner of the handler has done last
    (***********************************************************************)
    (* The queue and the worker, which holds one line while it writes.     *)
    (***********************************************************************)
    m_queue, m_shutdown, worker, line,
    (***********************************************************************)
    (* m_fileStream, the file, and m_currentReadPos.                       *)
    (***********************************************************************)
    isOpen, good, position, content, m_currentReadPos,
    (***********************************************************************)
    (* History: the lines written, where this opening of the file starts   *)
    (* among them, the lines refused, those that writeAsync accepted while *)
    (* the file was open, whether readLine moved the position since the    *)
    (* opening, and what it returned since it last started over.           *)
    (***********************************************************************)
    log, base, dropped, owed, moved, returned, opens

control == <<m_queue, m_shutdown, worker, line>>
stream  == <<isOpen, good, position, content>>
reading == <<m_currentReadPos, moved, returned>>
writing == <<log, dropped>>
vars == <<owner, control, stream, reading, writing, base, owed, opens>>

Cells == Lines \cup {OldLine}
NoPosition == -1
Settled == Range(log) \cup dropped

\* A write lands inside the file or right behind it.
TypeOK ==
    /\ owner \in {"open", "closing", "closed", "terminated"}
    /\ m_queue \in Seq(Lines) /\ m_shutdown \in BOOLEAN
    /\ worker \in {"check", "waiting", "write", "done"} /\ line \in Cells
    /\ isOpen \in BOOLEAN /\ good \in BOOLEAN
    /\ content \in Seq(Cells) /\ position \in Nat
    /\ isOpen /\ good => position <= Len(content)
    /\ m_currentReadPos \in Nat \cup {NoPosition}
    /\ log \in Seq(Lines) /\ base \in 0 .. Len(log)
    /\ dropped \subseteq Lines /\ owed \subseteq Lines
    /\ moved \in BOOLEAN /\ returned \in Seq(Cells)
    /\ opens \in 1 .. MaxOpens

Init ==
    /\ owner = "open"
    /\ m_queue = <<>> /\ m_shutdown = FALSE
    /\ worker = "check" /\ line = OldLine
    /\ isOpen = TRUE /\ good = TRUE /\ position = 0
    /\ \E n \in 0 .. MaxOld : content = [i \in 1 .. n |-> OldLine]
    /\ m_currentReadPos = 0
    /\ log = <<>> /\ base = 0 /\ dropped = {} /\ owed = {}
    /\ moved = FALSE /\ returned = <<>> /\ opens = 1

-----------------------------------------------------------------------------
(***************************************************************************)
(* Writing.                                                                *)
(***************************************************************************)
Alive == owner # "terminated"

New(l) == l \notin Range(m_queue) \cup Settled
          /\ ~(worker = "write" /\ line = l)

\* Mutant: every write goes to the end of the file.
AppendedCell(l) == Append(content, l)

Overwritten(l) ==
    [i \in 1 .. Len(content) \cup {position + 1} |->
        IF i = position + 1 THEN l ELSE content[i]]

\* m_fileStream << l.  A stream that is good may fail the write.
Put(l) ==
    \/ /\ isOpen /\ good
       /\ content' = Overwritten(l) /\ position' = position + 1
       /\ log' = Append(log, l)
       /\ UNCHANGED <<isOpen, good, dropped>>
    \/ /\ good' = (good /\ ~isOpen)
       /\ dropped' = dropped \cup {l}
       /\ UNCHANGED <<isOpen, position, content, log>>

WriteSync(l) ==
    /\ Alive /\ New(l)
    /\ Put(l)
    /\ UNCHANGED <<owner, control, reading, base, owed, opens>>

Notified == IF worker = "waiting" THEN "check" ELSE worker

\* Mutant: writeAsync does not notify the worker.
WriteAsyncSilently(l) ==
    /\ Alive /\ New(l)
    /\ m_queue' = Append(m_queue, l)
    /\ owed' = IF owner = "open" THEN owed \cup {l} ELSE owed
    /\ UNCHANGED <<owner, m_shutdown, worker, line, stream, reading, writing,
                   base, opens>>

WriteAsync(l) ==
    /\ Alive /\ New(l)
    /\ m_queue' = Append(m_queue, l)
    /\ worker' = Notified
    /\ owed' = IF owner = "open" THEN owed \cup {l} ELSE owed
    /\ UNCHANGED <<owner, m_shutdown, line, stream, reading, writing, base,
                   opens>>

-----------------------------------------------------------------------------
(***************************************************************************)
(* The worker: fileWorker.                                                 *)
(***************************************************************************)
Runs(from, to) == Alive /\ worker = from /\ worker' = to

WorkerOnly == UNCHANGED <<owner, m_shutdown, reading, base, owed, opens>>

\* Mutant: the worker waits for lines only.
NoLines == m_queue = <<>>

Idle == m_queue = <<>> /\ ~m_shutdown

Wait ==
    /\ Runs("check", "waiting")
    /\ Idle
    /\ WorkerOnly /\ UNCHANGED <<m_queue, line, stream, writing>>

\* Mutant: the worker leaves as soon as it is told to.
LeaveAtOnce == m_shutdown

MayLeave == m_shutdown /\ m_queue = <<>>

Leave ==
    /\ Runs("check", "done")
    /\ MayLeave
    /\ WorkerOnly /\ UNCHANGED <<m_queue, line, stream, writing>>

\* Mutant: the last line is taken first.
TakenLast == m_queue[Len(m_queue)]

Taken == Head(m_queue)

Take ==
    /\ Runs("check", "write")
    /\ m_queue # <<>>
    /\ line' = Taken /\ m_queue' = Tail(m_queue)
    /\ WorkerOnly /\ UNCHANGED <<stream, writing>>

Write ==
    /\ Runs("write", "check")
    /\ Put(line)
    /\ WorkerOnly /\ UNCHANGED <<m_queue, line>>

Worker == Wait \/ Leave \/ Take \/ Write

\* A wait may end for no reason.
WakeUp ==
    /\ Runs("waiting", "check")
    /\ WorkerOnly /\ UNCHANGED <<m_queue, line, stream, writing>>

-----------------------------------------------------------------------------
(***************************************************************************)
(* Reading.                                                                *)
(***************************************************************************)
ReadOnly == UNCHANGED <<owner, control, isOpen, content, writing, base, owed,
                        opens>>

\* Mutant: the seekg to m_currentReadPos is missing.
ReadFromPointer == position

ReadFrom == m_currentReadPos

LineEnds == {i \in ReadFrom + 1 .. Len(content) : content[i] \in Terminated}

\* seekg fails, of a closed stream and to the position -1.
ReadFails ==
    /\ ~isOpen \/ ReadFrom = NoPosition
    /\ good' = FALSE
    /\ UNCHANGED <<position, reading>>

\* Mutant: the stream is cleared behind the end of the file.
ReadAtEndAndClear ==
    /\ isOpen /\ ReadFrom # NoPosition /\ ReadFrom >= Len(content)
    /\ good' = TRUE
    /\ position' = ReadFrom /\ m_currentReadPos' = 0
    /\ moved' = TRUE /\ returned' = <<>>

\* getline finds nothing: start over, but leave the stream failed.
ReadAtEnd ==
    /\ isOpen /\ ReadFrom # NoPosition /\ ReadFrom >= Len(content)
    /\ good' = FALSE
    /\ position' = ReadFrom /\ m_currentReadPos' = 0
    /\ moved' = TRUE /\ returned' = <<>>

ReadWholeLine ==
    /\ isOpen /\ ReadFrom # NoPosition /\ LineEnds # {}
    /\ \E end \in LineEnds :
          /\ \A i \in LineEnds : end <= i
          /\ position' = end /\ m_currentReadPos' = end
          /\ returned' = returned \o SubSeq(content, ReadFrom + 1, end)
    /\ good' = TRUE /\ moved' = TRUE

\* getline meets the end of the file and succeeds, and tellg then fails.
ReadLastLine ==
    /\ isOpen /\ ReadFrom # NoPosition
    /\ LineEnds = {} /\ ReadFrom < Len(content)
    /\ good' = FALSE
    /\ position' = Len(content) /\ m_currentReadPos' = NoPosition
    /\ moved' = TRUE /\ UNCHANGED returned

ReadLine ==
    /\ Alive
    /\ ReadFails \/ ReadAtEnd \/ ReadWholeLine \/ ReadLastLine
    /\ ReadOnly

\* tellg and both seekg fail on a failed stream, and what is read is the rest.
ReadAll ==
    /\ Alive
    /\ good' = (good /\ isOpen)
    /\ position' = IF isOpen /\ ~good /\ position < Len(content)
                   THEN Len(content) ELSE position
    /\ UNCHANGED reading /\ ReadOnly

-----------------------------------------------------------------------------
(***************************************************************************)
(* Closing and opening again.                                              *)
(***************************************************************************)

\* Mutant: closeFile does not notify the worker.
CloseSilently ==
    /\ owner = "open" /\ owner' = "closing"
    /\ m_shutdown' = TRUE
    /\ UNCHANGED <<m_queue, worker, line, stream, reading, writing, base, owed,
                   opens>>

\* closeFile and the destructor, up to the join.
Close ==
    /\ owner = "open" /\ owner' = "closing"
    /\ m_shutdown' = TRUE
    /\ worker' = Notified
    /\ UNCHANGED <<m_queue, line, stream, reading, writing, base, owed, opens>>

Join ==
    /\ owner = "closing" /\ owner' = "closed"
    /\ worker = "done"
    /\ isOpen' = FALSE
    /\ UNCHANGED <<control, good, position, content, reading, writing, base,
                   owed, opens>>

\* With or without trunc.  m_shutdown and m_currentReadPos are as they were.
OpenFile ==
    /\ owner = "closed" /\ owner' = "open"
    /\ opens < MaxOpens /\ opens' = opens + 1
    /\ isOpen' = TRUE /\ good' = TRUE /\ position' = 0
    /\ content' \in {content, <<>>}
    /\ worker' = "check"
    /\ base' = Len(log) /\ moved' = FALSE
    /\ UNCHANGED <<m_queue, m_shutdown, line, m_currentReadPos, returned,
                   writing, owed>>

\* The destructor of a handler that is closed joins a thread that is not
\* there, and opening an open one assigns a thread that is joinable; either
\* ends the process.
Terminate ==
    /\ owner \in {"open", "closed"} /\ owner' = "terminated"
    /\ UNCHANGED <<control, stream, reading, writing, base, owed, opens>>

Next == \/ \E l \in Lines : WriteSync(l) \/ WriteAsync(l)
        \/ Worker \/ WakeUp \/ ReadLine \/ ReadAll
        \/ Close \/ Join \/ OpenFile \/ Terminate

\* The system runs the worker and lets a join return; nobody has to write,
\* read or close, and a wait need not end for no reason.
Fairness == WF_vars(Worker) /\ WF_vars(Join)

Spec == Init /\ [][Next]_vars /\ Fairness

-----------------------------------------------------------------------------
(***************************************************************************)
(* Properties.                                                             *)
(***************************************************************************)

\* closeFile leaves nothing behind: once the stream is closed the worker is
\* gone, so it never writes to a closed stream, and every line that writeAsync
\* accepted before the first closing was written or refused.
DrainedByClose ==
    ~isOpen => /\ worker = "done"
               /\ opens = 1 => owed \subseteq Settled

\* The worker waits only while there is nothing to do, whichever of queueing,
\* closing and opening again comes between its check of the queue and its
\* wait: no wake-up is lost.
NoLostWakeUp == worker = "waiting" => Idle

\* The steps the worker may still take: two a line, one to leave.
Left == 2 * Len(m_queue) + CASE worker = "waiting" -> 3
                             [] worker = "write"   -> 2
                             [] worker = "check"   -> 1
                             [] worker = "done"    -> 0

\* While closeFile waits for it, every step of the worker leaves fewer to
\* take; only new lines make it stay longer.
CloseIsBounded ==
    [][owner = "closing" /\ worker' # worker => Left' < Left]_vars

\* As long as nobody reads line by line, the file starts with the lines
\* written since it was opened, in the order in which the writers got at the
\* stream, whatever was queued, refused and read as a whole in between.
ContentIsLog ==
    isOpen /\ ~moved =>
        /\ Len(log) - base <= Len(content)
        /\ \A i \in 1 .. Len(log) - base : content[i] = log[base + i]

\* Though it shares its stream with the writers, readLine returns the file
\* from the beginning without a gap or a repetition until it starts over,
\* and no write gets at what it has returned.
ReadLinesSeeFile ==
    opens = 1 /\ m_currentReadPos # NoPosition =>
        returned = SubSeq(content, 1, m_currentReadPos)

\* Every line is written or refused once, the queued ones in the order in
\* which writeAsync accepted them, none out of nowhere.
InHand == IF worker = "write" THEN <<line>> ELSE <<>>

WL == INSTANCE WriteLog WITH pending <- InHand \o m_queue

ImplementsWriteLog == WL!Spec

\* A line that writeAsync accepts before the first closing does not stay in
\* the queue: no wake-up is lost, of a worker that is just going to wait or
\* that is asked to leave, unless the process is terminated.
AsyncCompletes ==
    \A l \in Lines :
        opens = 1 /\ l \in owed ~> l \in Settled \/ owner = "terminated"

\* Closing comes to an end: the worker sees the request whatever it is doing.
CloseReturns == owner = "closing" ~> owner # "closing"

=============================================================================
