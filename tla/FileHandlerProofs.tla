------------------------- MODULE FileHandlerProofs -------------------------
(***************************************************************************)
(* Theorems about FileHandler, for all lines, whatever the file holds and  *)
(* however often it is opened.                                             *)
(***************************************************************************)
EXTENDS FileHandler, SequenceTheorems, TLAPS

-----------------------------------------------------------------------------
(***************************************************************************)
(* What a write makes of the file, and what writing does to the types.     *)
(***************************************************************************)

\* A write at a position inside the file, or right behind it, leaves a
\* sequence in which one cell is new.
LEMMA OverwrittenCells ==
  ASSUME content \in Seq(Cells), position \in 0 .. Len(content),
         NEW l \in Cells
  PROVE  /\ Overwritten(l) \in Seq(Cells)
         /\ Len(Overwritten(l)) = IF position = Len(content)
                                  THEN Len(content) + 1 ELSE Len(content)
         /\ Overwritten(l)[position + 1] = l
         /\ \A i \in 1 .. Len(content) :
                i # position + 1 => Overwritten(l)[i] = content[i]
  <1> DEFINE n == IF position = Len(content)
                  THEN Len(content) + 1 ELSE Len(content)
  <1>1. Len(content) \in Nat /\ n \in Nat /\ position + 1 \in 1 .. n
    BY LenProperties
  <1>2. 1 .. Len(content) \cup {position + 1} = 1 .. n
    BY <1>1
  <1>3. \A i \in 1 .. Len(content) : content[i] \in Cells
    BY ElementOfSeq
  <1>4. Overwritten(l) \in [1 .. n -> Cells]
    BY <1>1, <1>2, <1>3 DEF Overwritten
  <1>5. Overwritten(l) \in Seq(Cells) /\ Len(Overwritten(l)) = n
    BY <1>1, <1>4
  <1>6. QED
    BY <1>1, <1>2, <1>5 DEF Overwritten

\* Writing keeps the types of the file and of the history.
LEMMA PutTypes ==
  ASSUME TypeOK, NEW l \in Lines, Put(l)
  PROVE  /\ isOpen' \in BOOLEAN /\ good' \in BOOLEAN
         /\ content' \in Seq(Cells) /\ position' \in Nat
         /\ isOpen' /\ good' => position' <= Len(content')
         /\ log' \in Seq(Lines) /\ base \in 0 .. Len(log')
         /\ dropped' \subseteq Lines
  <1> USE DEF TypeOK
  <1>1. CASE /\ isOpen /\ good
             /\ content' = Overwritten(l) /\ position' = position + 1
             /\ log' = Append(log, l)
             /\ UNCHANGED <<isOpen, good, dropped>>
    <2>1. position \in 0 .. Len(content)
      BY <1>1, LenProperties
    <2>2. l \in Cells
      BY DEF Cells
    <2>3. /\ content' \in Seq(Cells)
          /\ Len(content') = IF position = Len(content)
                             THEN Len(content) + 1 ELSE Len(content)
      BY <1>1, <2>1, <2>2, OverwrittenCells
    <2>4. content' \in Seq(Cells) /\ position' <= Len(content')
      BY <1>1, <2>1, <2>3, LenProperties
    <2>5. log' \in Seq(Lines) /\ Len(log') = Len(log) + 1
      BY <1>1, AppendProperties
    <2>6. QED
      BY <1>1, <2>4, <2>5, LenProperties
  <1>2. CASE /\ good' = (good /\ ~isOpen)
             /\ dropped' = dropped \cup {l}
             /\ UNCHANGED <<isOpen, position, content, log>>
    BY <1>2
  <1>3. QED
    BY <1>1, <1>2 DEF Put

LEMMA InitTypes == Init => TypeOK
  <1> SUFFICES ASSUME Init PROVE TypeOK
    OBVIOUS
  <1>1. PICK n \in 0 .. MaxOld : content = [i \in 1 .. n |-> OldLine]
    BY DEF Init
  <1>2. n \in Nat /\ content \in Seq(Cells) /\ Len(content) \in Nat
    BY <1>1, BoundAssumption, LenProperties DEF Cells
  <1>3. <<>> \in Seq(Lines) /\ <<>> \in Seq(Cells) /\ Len(<<>>) = 0
    OBVIOUS
  <1>4. /\ m_shutdown \in BOOLEAN /\ isOpen \in BOOLEAN /\ good \in BOOLEAN
        /\ moved \in BOOLEAN
    BY DEF Init
  <1>5. /\ m_queue \in Seq(Lines) /\ log \in Seq(Lines) /\ returned \in Seq(Cells)
        /\ base \in 0 .. Len(log) /\ opens \in 1 .. MaxOpens
        /\ position \in Nat /\ position <= Len(content)
    BY <1>2, <1>3, BoundAssumption DEF Init
  <1>6. QED
    BY <1>2, <1>4, <1>5 DEF Init, TypeOK, Cells

-----------------------------------------------------------------------------
\* The callers' steps keep the types.
LEMMA CallerTypes ==
  ASSUME TypeOK, NEW l \in Lines, WriteSync(l) \/ WriteAsync(l)
  PROVE  TypeOK'
  <1>1. CASE WriteSync(l)
    <2>1. /\ isOpen' \in BOOLEAN /\ good' \in BOOLEAN
          /\ content' \in Seq(Cells) /\ position' \in Nat
          /\ isOpen' /\ good' => position' <= Len(content')
          /\ log' \in Seq(Lines) /\ base \in 0 .. Len(log')
          /\ dropped' \subseteq Lines
      BY <1>1, PutTypes DEF WriteSync
    <2>2. QED
      BY <1>1, <2>1 DEF WriteSync, TypeOK, control, reading
  <1>2. CASE WriteAsync(l)
    <2>1. m_queue' \in Seq(Lines)
      BY <1>2, AppendProperties DEF WriteAsync, TypeOK
    <2>2. QED
      BY <1>2, <2>1 DEF WriteAsync, Notified, TypeOK, stream, reading, writing
  <1>3. QED
    BY <1>1, <1>2

\* The line in hand is one the callers handed over.
HandIsLine == worker = "write" => line \in Lines

\* The worker's steps keep the types.
LEMMA WorkerTypes ==
  ASSUME TypeOK, HandIsLine, Worker \/ WakeUp
  PROVE  TypeOK' /\ HandIsLine'
  <1> USE DEF Runs, WorkerOnly, reading, HandIsLine
  <1>1. CASE Wait \/ Leave \/ WakeUp
    BY <1>1 DEF Wait, Leave, WakeUp, stream, writing, TypeOK
  <1>2. CASE Take
    <2>1. line' \in Lines /\ m_queue' \in Seq(Lines)
      BY <1>2, HeadTailProperties DEF Take, Taken, TypeOK
    <2>2. QED
      BY <1>2, <2>1 DEF Take, stream, writing, TypeOK, Cells
  <1>3. CASE Write
    <2>1. /\ isOpen' \in BOOLEAN /\ good' \in BOOLEAN
          /\ content' \in Seq(Cells) /\ position' \in Nat
          /\ isOpen' /\ good' => position' <= Len(content')
          /\ log' \in Seq(Lines) /\ base \in 0 .. Len(log')
          /\ dropped' \subseteq Lines
      BY <1>3, PutTypes DEF Write
    <2>2. QED
      BY <1>3, <2>1 DEF Write, TypeOK
  <1>4. QED
    BY <1>1, <1>2, <1>3 DEF Worker

\* readLine and readAll keep the types: a position behind the end of the
\* file goes with a stream that has failed.
LEMMA ReadTypes ==
  ASSUME TypeOK, ReadLine \/ ReadAll
  PROVE  TypeOK'
  <1> USE DEF TypeOK, ReadOnly, control, writing, reading, ReadFrom
  <1>1. Len(content) \in Nat
    BY LenProperties
  <1>2. CASE ReadLine /\ ReadFails
    BY <1>2 DEF ReadLine, ReadFails
  <1>3. CASE ReadLine /\ ReadAtEnd
    <2>1. m_currentReadPos \in Nat
      BY <1>3 DEF ReadAtEnd
    <2>2. returned' \in Seq(Cells) /\ position' \in Nat /\ m_currentReadPos' \in Nat
      BY <1>3, <2>1, EmptySeq DEF ReadAtEnd
    <2>3. good' = FALSE /\ moved' \in BOOLEAN
      BY <1>3 DEF ReadAtEnd
    <2>4. QED
      BY <1>3, <2>2, <2>3 DEF ReadLine
  <1>4. CASE ReadLine /\ ReadWholeLine
    <2>1. PICK end \in LineEnds :
              /\ position' = end /\ m_currentReadPos' = end
              /\ returned' = returned \o SubSeq(content, ReadFrom + 1, end)
      BY <1>4 DEF ReadWholeLine
    <2>2. m_currentReadPos \in Nat /\ end \in ReadFrom + 1 .. Len(content)
      BY <1>4, <2>1 DEF ReadWholeLine, LineEnds
    <2>3. \A i \in ReadFrom + 1 .. end : content[i] \in Cells
      BY <1>1, <2>2, ElementOfSeq
    <2>4. SubSeq(content, ReadFrom + 1, end) \in Seq(Cells)
      BY <1>1, <2>2, <2>3, SubSeqProperties
    <2>5. returned' \in Seq(Cells)
      BY <2>1, <2>4, ConcatProperties
    <2>6. QED
      BY <1>1, <1>4, <2>1, <2>2, <2>5 DEF ReadLine, ReadWholeLine
  <1>5. CASE ReadLine /\ ReadLastLine
    BY <1>1, <1>5 DEF ReadLine, ReadLastLine
  <1>6. CASE ReadAll
    BY <1>1, <1>6 DEF ReadAll
  <1>7. QED
    BY <1>2, <1>3, <1>4, <1>5, <1>6 DEF ReadLine

\* The owner's steps keep the types.
LEMMA OwnerTypes ==
  ASSUME TypeOK, Close \/ Join \/ OpenFile \/ Terminate
  PROVE  TypeOK'
  <1> USE DEF TypeOK, control, stream, reading, writing
  <1>1. CASE Close
    BY <1>1 DEF Close, Notified
  <1>2. CASE Join
    BY <1>2 DEF Join
  <1>3. CASE OpenFile
    <2>1. content' \in Seq(Cells) /\ Len(content') \in Nat /\ Len(log) \in Nat
      BY <1>3, LenProperties, EmptySeq DEF OpenFile
    <2>2. opens' \in 1 .. MaxOpens
      BY <1>3, BoundAssumption DEF OpenFile
    <2>3. isOpen' \in BOOLEAN /\ good' \in BOOLEAN /\ moved' \in BOOLEAN
      BY <1>3 DEF OpenFile
    <2>4. position' \in Nat /\ position' <= Len(content') /\ base' \in 0 .. Len(log')
      BY <1>3, <2>1 DEF OpenFile
    <2>5. QED
      BY <1>3, <2>1, <2>2, <2>3, <2>4 DEF OpenFile
  <1>4. CASE Terminate
    BY <1>4 DEF Terminate
  <1>5. QED
    BY <1>1, <1>2, <1>3, <1>4

\* The part of the invariant that every other one rests on.
TypeInv == TypeOK /\ HandIsLine

LEMMA TypeStep == TypeInv /\ [Next]_vars => TypeInv'
  <1> SUFFICES ASSUME TypeInv, [Next]_vars PROVE TypeInv'
    OBVIOUS
  <1> USE DEF TypeInv
  <1>1. ASSUME NEW l \in Lines, WriteSync(l) \/ WriteAsync(l) PROVE TypeInv'
    <2>1. TypeOK'
      BY <1>1, CallerTypes
    <2>2. HandIsLine'
      BY <1>1 DEF WriteSync, WriteAsync, Notified, HandIsLine, control, TypeOK
    <2>3. QED
      BY <2>1, <2>2
  <1>2. CASE Worker \/ WakeUp
    BY <1>2, WorkerTypes
  <1>3. CASE ReadLine \/ ReadAll
    BY <1>3, ReadTypes DEF ReadLine, ReadAll, ReadOnly, control, HandIsLine
  <1>4. CASE Close \/ Join \/ OpenFile \/ Terminate
    <2>1. HandIsLine'
      BY <1>4 DEF Close, Join, OpenFile, Terminate, Notified, HandIsLine,
         control
    <2>2. QED
      BY <1>4, <2>1, OwnerTypes
  <1>5. CASE UNCHANGED vars
    BY <1>5 DEF TypeOK, HandIsLine, vars, control, stream, reading, writing
  <1>6. QED
    BY <1>1, <1>2, <1>3, <1>4, <1>5 DEF Next

LEMMA TypeInvariant == Spec => []TypeInv
  <1>1. Init => TypeInv
    BY InitTypes DEF TypeInv, HandIsLine, Init
  <1>2. QED
    BY <1>1, TypeStep, PTL DEF Spec

\* The variables of the handler keep their types, and a stream that is good
\* never stands behind the end of the file.
THEOREM TypeCorrect == Spec => []TypeOK
  <1>1. TypeInv => TypeOK
    BY DEF TypeInv
  <1>2. QED
    BY <1>1, TypeInvariant, PTL
-----------------------------------------------------------------------------
(***************************************************************************)
(* Closing.  The worker is gone only after it was told to, with an empty   *)
(* queue; while the file is open for the first time it was not told to, so *)
(* what is accepted later is not owed.                                     *)
(***************************************************************************)
ControlInv ==
    /\ owner \in {"open", "closing"} => isOpen
    /\ owner = "closed" => ~isOpen
    /\ ~isOpen => worker = "done"
    /\ opens = 1 /\ owner = "open" => ~m_shutdown
    /\ opens = 1 /\ worker = "done" => m_shutdown

OwedInv ==
    opens = 1 => /\ owed \subseteq Settled \cup Range(m_queue) \cup Range(InHand)
                 /\ worker = "done" => owed \subseteq Settled

CloseInv == TypeInv /\ ControlInv /\ OwedInv

\* Appending an element adds it to the range, and the head is one.
LEMMA RangeAppend ==
  ASSUME NEW S, NEW s \in Seq(S), NEW e \in S
  PROVE  Range(Append(s, e)) = Range(s) \cup {e}
  <1>1. Append(s, e) \in Seq(S) /\ Len(s) \in Nat
    BY AppendProperties, LenProperties
  <1>2. /\ Range(Append(s, e)) = {Append(s, e)[i] : i \in 1 .. Len(Append(s, e))}
        /\ Range(s) = {s[i] : i \in 1 .. Len(s)}
    BY <1>1, RangeEquality
  <1>3. QED
    BY <1>1, <1>2, AppendProperties

LEMMA RangeHeadTail ==
  ASSUME NEW S, NEW s \in Seq(S), s # <<>>
  PROVE  Range(s) = {Head(s)} \cup Range(Tail(s))
  <1>1. Tail(s) \in Seq(S) /\ Len(s) \in Nat /\ Len(Tail(s)) = Len(s) - 1
    BY HeadTailProperties, LenProperties
  <1>2. /\ Range(Tail(s)) = {Tail(s)[i] : i \in 1 .. Len(Tail(s))}
        /\ Range(s) = {s[i] : i \in 1 .. Len(s)}
    BY <1>1, RangeEquality
  <1>3. \A i \in 1 .. Len(s) : i = 1 \/ s[i] = Tail(s)[i - 1]
    BY <1>1, HeadTailProperties
  <1>4. \A i \in 1 .. Len(Tail(s)) : Tail(s)[i] = s[i + 1]
    BY HeadTailProperties
  <1>5. Head(s) = s[1] /\ 1 \in 1 .. Len(s)
    BY <1>1, EmptySeq
  <1>6. Range(s) \subseteq {Head(s)} \cup Range(Tail(s))
    <2> SUFFICES ASSUME NEW i \in 1 .. Len(s), i # 1
                 PROVE  s[i] \in Range(Tail(s))
      BY <1>2, <1>5
    <2>1. i - 1 \in 1 .. Len(Tail(s))
      BY <1>1
    <2>2. s[i] = Tail(s)[i - 1]
      BY <1>3
    <2>3. QED
      BY <1>2, <2>1, <2>2
  <1>7. Range(Tail(s)) \subseteq Range(s)
    <2>1. \A i \in 1 .. Len(Tail(s)) : i + 1 \in 1 .. Len(s)
      BY <1>1
    <2>2. QED
      BY <1>2, <1>4, <2>1
  <1>8. QED
    BY <1>2, <1>5, <1>6, <1>7

LEMMA RangeInHand == Range(InHand) = IF worker = "write" THEN {line} ELSE {}
  <1>1. Range(<<line>>) = {line} /\ Range(<<>>) = {}
    BY DEF Range
  <1>2. QED
    BY <1>1 DEF InHand

LEMMA PutSettled ==
  ASSUME TypeOK, NEW l \in Lines, Put(l)
  PROVE  Settled' = Settled \cup {l}
  <1>1. Range(Append(log, l)) = Range(log) \cup {l}
    BY RangeAppend DEF TypeOK
  <1>2. QED
    BY <1>1 DEF Put, Settled

\* No step loses track of what is owed.
LEMMA ControlStep == TypeInv /\ ControlInv /\ [Next]_vars => ControlInv'
  <1> SUFFICES ASSUME TypeInv, ControlInv, [Next]_vars PROVE ControlInv'
    OBVIOUS
  <1> USE DEF TypeInv, TypeOK, ControlInv, control, stream
  <1>1. ASSUME NEW l \in Lines, WriteSync(l) PROVE ControlInv'
    BY <1>1 DEF WriteSync, Put
  <1>2. ASSUME NEW l \in Lines, WriteAsync(l) PROVE ControlInv'
    BY <1>2 DEF WriteAsync, Notified
  <1>3. CASE Wait \/ Leave \/ Take \/ WakeUp
    BY <1>3 DEF Wait, Leave, MayLeave, Take, WakeUp, Runs, WorkerOnly
  <1>4. CASE Write
    BY <1>4 DEF Write, Put, Runs, WorkerOnly
  <1>5. CASE ReadLine \/ ReadAll
    BY <1>5 DEF ReadLine, ReadAll, ReadOnly
  <1>6. CASE Close \/ Join \/ Terminate
    BY <1>6 DEF Close, Notified, Join, Terminate
  <1>7. CASE OpenFile
    BY <1>7 DEF OpenFile
  <1>8. CASE UNCHANGED vars
    BY <1>8 DEF vars
  <1>9. QED
    BY <1>1, <1>2, <1>3, <1>4, <1>5, <1>6, <1>7, <1>8 DEF Next, Worker

LEMMA OwedStep == CloseInv /\ [Next]_vars => OwedInv'
  <1> SUFFICES ASSUME CloseInv, [Next]_vars, opens' = 1
               PROVE  /\ owed' \subseteq Settled' \cup Range(m_queue')
                                            \cup Range(InHand')
                      /\ worker' = "done" => owed' \subseteq Settled'
    BY DEF OwedInv
  <1> USE DEF CloseInv, TypeInv, OwedInv
  <1>1. /\ Range(InHand) = IF worker = "write" THEN {line} ELSE {}
        /\ Range(InHand') = IF worker' = "write" THEN {line'} ELSE {}
    BY RangeInHand DEF InHand, Range
  <1>2. opens = 1
    BY DEF Next, WriteSync, WriteAsync, Worker, Wait, Leave, Take, Write,
       WakeUp, WorkerOnly, ReadLine, ReadAll, ReadOnly, Close, Join, OpenFile,
       Terminate, vars, TypeOK
  <1>3. ASSUME NEW l \in Lines, WriteSync(l)
        PROVE  Settled \subseteq Settled' /\ UNCHANGED <<owed, control>>
    BY <1>3, PutSettled DEF WriteSync
  <1>4. ASSUME NEW l \in Lines, WriteAsync(l)
        PROVE  /\ owed' \subseteq owed \cup {l} /\ Settled' = Settled
               /\ Range(m_queue') = Range(m_queue) \cup {l}
               /\ Range(InHand') = Range(InHand)
               /\ worker' = "done" => worker = "done" /\ owed' = owed
    <2>1. Range(Append(m_queue, l)) = Range(m_queue) \cup {l}
      BY RangeAppend DEF TypeOK
    <2>2. QED
      BY <1>1, <1>2, <1>4, <2>1 DEF WriteAsync, Notified, writing, Settled,
         ControlInv, TypeOK
  <1>5. CASE Wait \/ WakeUp
    BY <1>1, <1>2, <1>5 DEF Wait, WakeUp, Runs, WorkerOnly, writing, Settled
  <1>6. CASE Leave
    <2>1. Range(m_queue) = {} /\ Range(InHand) = {}
      BY <1>1, <1>6 DEF Leave, MayLeave, Runs, Range
    <2>2. QED
      BY <1>2, <1>6, <2>1 DEF Leave, WorkerOnly, writing, Settled
  <1>7. CASE Take
    <2>1. Range(m_queue) = {line'} \cup Range(m_queue')
      BY <1>7, RangeHeadTail DEF Take, Taken, TypeOK
    <2>2. QED
      BY <1>1, <1>2, <1>7, <2>1 DEF Take, Runs, WorkerOnly, writing, Settled
  <1>8. CASE Write
    <2>1. Settled' = Settled \cup {line}
      BY <1>8, PutSettled DEF Write, Runs, HandIsLine
    <2>2. QED
      BY <1>1, <1>2, <1>8, <2>1 DEF Write, Runs, WorkerOnly
  <1>9. CASE ReadLine \/ ReadAll
    BY <1>1, <1>2, <1>9 DEF ReadLine, ReadAll, ReadOnly, control, writing,
       Settled
  <1>10. CASE Close
    BY <1>1, <1>2, <1>10 DEF Close, Notified, writing, Settled, TypeOK
  <1>11. CASE Join \/ Terminate
    BY <1>1, <1>2, <1>11 DEF Join, Terminate, control, writing, Settled
  <1>12. CASE OpenFile
    BY <1>2, <1>12 DEF OpenFile, TypeOK
  <1>13. CASE UNCHANGED vars
    BY <1>1, <1>2, <1>13 DEF vars, control, writing, Settled
  <1>14. QED
    BY <1>1, <1>2, <1>3, <1>4, <1>5, <1>6, <1>7, <1>8, <1>9, <1>10, <1>11,
       <1>12, <1>13 DEF Next, Worker, control

LEMMA CloseInvariant == Spec => []CloseInv
  <1>1. Init => CloseInv
    BY InitTypes DEF Init, CloseInv, TypeInv, HandIsLine, ControlInv, OwedInv
  <1>2. CloseInv /\ [Next]_vars => CloseInv'
    BY TypeStep, ControlStep, OwedStep DEF CloseInv
  <1>3. QED
    BY <1>1, <1>2, PTL DEF Spec

\* Closing drains the queue: when the stream is closed the worker is gone, and
\* no line accepted before the first closing is lost in the queue.
THEOREM CloseDrains == Spec => []DrainedByClose
  <1>1. CloseInv => DrainedByClose
    BY DEF CloseInv, ControlInv, OwedInv, DrainedByClose
  <1>2. QED
    BY <1>1, CloseInvariant, PTL

-----------------------------------------------------------------------------
(***************************************************************************)
(* The wake-ups.  What queues a line or asks the worker to leave does so   *)
(* in one critical section with the notification, so NoLostWakeUp is       *)
(* inductive given that the owner who closes has set the flag.             *)
(***************************************************************************)
WakeInv ==
    /\ NoLostWakeUp
    /\ owner \in {"closing", "closed"} => m_shutdown

LEMMA WakeStep == WakeInv /\ TypeInv /\ [Next]_vars => WakeInv'
  <1> SUFFICES ASSUME WakeInv, TypeInv, [Next]_vars PROVE WakeInv'
    OBVIOUS
  <1> USE DEF WakeInv, TypeInv, TypeOK, NoLostWakeUp, Idle, control
  <1>1. ASSUME NEW l \in Lines, WriteSync(l) PROVE WakeInv'
    BY <1>1 DEF WriteSync
  <1>2. ASSUME NEW l \in Lines, WriteAsync(l) PROVE WakeInv'
    BY <1>2 DEF WriteAsync, Notified
  <1>3. CASE Worker \/ WakeUp
    BY <1>3 DEF Worker, Wait, Leave, Take, Write, WakeUp, Runs, WorkerOnly
  <1>4. CASE ReadLine \/ ReadAll
    BY <1>4 DEF ReadLine, ReadAll, ReadOnly
  <1>5. CASE Close \/ Join \/ OpenFile \/ Terminate
    BY <1>5 DEF Close, Notified, Join, OpenFile, Terminate
  <1>6. CASE UNCHANGED vars
    BY <1>6 DEF vars
  <1>7. QED
    BY <1>1, <1>2, <1>3, <1>4, <1>5, <1>6 DEF Next

LEMMA WakeInvariant == Spec => [](WakeInv /\ TypeInv)
  <1>1. Init => WakeInv
    BY DEF Init, WakeInv, NoLostWakeUp
  <1>2. QED
    BY <1>1, WakeStep, TypeInvariant, PTL DEF Spec

\* The worker never waits while a line is queued or the handler closes,
\* whatever the callers, the owner and the worker do in between.
THEOREM WakeUpsArrive == Spec => []NoLostWakeUp
  <1>1. WakeInv => NoLostWakeUp
    BY DEF WakeInv
  <1>2. QED
    BY <1>1, WakeInvariant, PTL

\* A step of the worker of a handler that closes leaves it nearer to its end.
LEMMA WorkerNearsEnd ==
  ASSUME TypeInv, WakeInv, Worker \/ WakeUp, owner = "closing",
         worker' # worker
  PROVE  Left' < Left
  <1> USE DEF TypeInv, TypeOK, WakeInv, NoLostWakeUp, Idle, Runs
  <1>1. m_shutdown /\ worker # "waiting" /\ Len(m_queue) \in Nat
    BY LenProperties
  <1>2. CASE Wait \/ WakeUp
    BY <1>1, <1>2 DEF Wait, WakeUp
  <1>3. CASE Leave
    <2>1. Left' = 2 * Len(m_queue) /\ Left = 2 * Len(m_queue) + 1
      BY <1>3 DEF Leave, Left
    <2>2. QED
      BY <1>1, <2>1
  <1>4. CASE Take
    <2>1. Len(m_queue') = Len(m_queue) - 1
      BY <1>4, HeadTailProperties DEF Take
    <2>2. Left' = 2 * Len(m_queue') + 2 /\ Left = 2 * Len(m_queue) + 1
      BY <1>4 DEF Take, Left
    <2>3. 2 * (Len(m_queue) - 1) + 2 < 2 * Len(m_queue) + 1
      BY <1>1
    <2>4. QED
      BY <2>1, <2>2, <2>3
  <1>5. CASE Write
    <2>1. Left' = 2 * Len(m_queue) + 1 /\ Left = 2 * Len(m_queue) + 2
      BY <1>5 DEF Write, Left
    <2>2. QED
      BY <1>1, <2>1
  <1>6. QED
    BY <1>2, <1>3, <1>4, <1>5 DEF Worker

\* A closing handler whose callers hand over nothing more waits for no more
\* steps of the worker than two a line and one, for every length of the queue.
THEOREM ClosingNearsEnd == Spec => CloseIsBounded
  <1>1. WakeInv /\ TypeInv /\ [Next]_vars
           => [owner = "closing" /\ worker' # worker => Left' < Left]_vars
    <2> SUFFICES ASSUME WakeInv, TypeInv, Next, owner = "closing",
                        worker' # worker
                 PROVE  Left' < Left
      BY DEF vars, control
    <2>1. worker # "waiting"
      BY DEF WakeInv, NoLostWakeUp, Idle
    <2>2. CASE Worker \/ WakeUp
      BY <2>2, WorkerNearsEnd
    <2>3. ASSUME NEW l \in Lines, WriteSync(l) \/ WriteAsync(l) PROVE FALSE
      BY <2>1, <2>3 DEF WriteSync, WriteAsync, Notified, control
    <2>4. CASE ReadLine \/ ReadAll \/ Close \/ Join \/ OpenFile \/ Terminate
      BY <2>4 DEF ReadLine, ReadAll, ReadOnly, Close, Join, OpenFile,
         Terminate, control
    <2>5. QED
      BY <2>2, <2>3, <2>4 DEF Next
  <1>2. QED
    BY <1>1, WakeInvariant, PTL DEF Spec, CloseIsBounded

-----------------------------------------------------------------------------
(***************************************************************************)
(* The refinement: the line in hand and the queue are the pending lines.   *)
(***************************************************************************)
LEMMA PendingLines ==
  ASSUME TypeInv
  PROVE  /\ InHand \in Seq(Lines) /\ InHand \o m_queue \in Seq(Lines)
         /\ Range(InHand \o m_queue) = Range(InHand) \cup Range(m_queue)
  <1>1. InHand \in Seq(Lines) /\ m_queue \in Seq(Lines)
    BY DEF TypeInv, TypeOK, HandIsLine, InHand
  <1>2. QED
    BY <1>1, ConcatProperties, RangeConcatenation

\* A line that is new to the handler is new to the log.
LEMMA NewIsUnknown ==
  ASSUME TypeInv, NEW l \in Lines, New(l)
  PROVE  l \notin WL!Accepted
  <1>1. Range(InHand) = IF worker = "write" THEN {line} ELSE {}
    BY RangeInHand
  <1>2. WL!Accepted = (Range(InHand) \cup Range(m_queue)) \cup Range(log)
                          \cup dropped
    <2>1. /\ WL!Range(InHand \o m_queue) = Range(InHand \o m_queue)
          /\ WL!Range(log) = Range(log)
      BY DEF WL!Range, Range
    <2>2. QED
      BY <2>1, PendingLines DEF WL!Accepted
  <1>3. QED
    BY <1>1, <1>2 DEF New, Settled

LEMMA PutSettles == ASSUME NEW l, Put(l) PROVE WL!Settle(l)
  BY DEF Put, WL!Settle

\* Every step is a step of WriteLog or leaves it as it is.
LEMMA StepRefines == CloseInv /\ [Next]_vars => [WL!Next]_(WL!vars)
  <1> SUFFICES ASSUME CloseInv, [Next]_vars PROVE [WL!Next]_(WL!vars)
    OBVIOUS
  <1> DEFINE pending == InHand \o m_queue
  <1> USE DEF CloseInv
  <1>1. m_queue \in Seq(Lines) /\ InHand \in Seq(Lines)
    BY PendingLines DEF TypeInv, TypeOK
  <1>2. ASSUME UNCHANGED <<worker, line, m_queue>> PROVE pending' = pending
    BY <1>2 DEF InHand
  <1>3. ASSUME NEW l \in Lines, WriteSync(l) PROVE WL!Next
    <2>1. l \notin WL!Accepted /\ WL!Settle(l)
      BY <1>3, NewIsUnknown, PutSettles DEF WriteSync
    <2>2. pending' = pending
      BY <1>2, <1>3 DEF WriteSync, control
    <2>3. WL!WriteSync(l)
      BY <2>1, <2>2 DEF WL!WriteSync
    <2>4. QED
      BY <2>3 DEF WL!Next
  <1>4. ASSUME NEW l \in Lines, WriteAsync(l) PROVE WL!Next
    <2>1. l \notin WL!Accepted
      BY <1>4, NewIsUnknown DEF WriteAsync
    <2>2. InHand' = InHand /\ m_queue' = Append(m_queue, l)
      BY <1>4 DEF WriteAsync, Notified, InHand
    <2>3. pending' = Append(pending, l)
      <3>1. <<l>> \in Seq(Lines) /\ m_queue' = m_queue \o <<l>>
        BY <1>1, <2>2, AppendIsConcat
      <3>2. pending' = pending \o <<l>>
        BY <1>1, <2>2, <3>1, ConcatAssociative
      <3>3. QED
        BY <3>2, PendingLines, AppendIsConcat
    <2>4. WL!WriteAsync(l)
      BY <1>4, <2>1, <2>3 DEF WriteAsync, writing, WL!WriteAsync
    <2>5. QED
      BY <2>4 DEF WL!Next
  <1>5. CASE Take
    <2>1. InHand = <<>> /\ InHand' = <<Head(m_queue)>>
      BY <1>5 DEF Take, Taken, Runs, InHand
    <2>2. m_queue = <<Head(m_queue)>> \o m_queue'
      BY <1>1, <1>5, HeadTailProperties, SeqEqual, ConcatProperties DEF Take
    <2>3. pending' = pending
      BY <1>1, <2>1, <2>2, ConcatEmptySeq
    <2>4. QED
      BY <1>5, <2>3 DEF Take, writing, WL!vars
  <1>6. CASE Write
    <2>1. InHand = <<line>> /\ InHand' = <<>> /\ m_queue' = m_queue
      BY <1>6 DEF Write, Runs, InHand
    <2>2. pending = <<line>> \o m_queue /\ pending' = m_queue
      BY <1>1, <2>1, ConcatEmptySeq
    <2>3. pending # <<>> /\ Head(pending) = line /\ Tail(pending) = m_queue
      BY <1>1, <2>1, <2>2, ConcatProperties, HeadTailProperties, SeqEqual
    <2>4. WL!Settle(line)
      BY <1>6, PutSettles DEF Write
    <2>5. WL!Commit
      BY <2>2, <2>3, <2>4 DEF WL!Commit
    <2>6. QED
      BY <2>5 DEF WL!Next
  <1>7. CASE Wait \/ Leave \/ WakeUp
    <2>1. pending' = pending
      BY <1>7 DEF Wait, Leave, WakeUp, Runs, InHand
    <2>2. QED
      BY <1>7, <2>1 DEF Wait, Leave, WakeUp, writing, WL!vars
  <1>8. CASE ReadLine \/ ReadAll
    BY <1>2, <1>8 DEF ReadLine, ReadAll, ReadOnly, control, writing, WL!vars
  <1>9. CASE Close \/ Join \/ Terminate
    <2>1. pending' = pending
      BY <1>9 DEF Close, Join, Terminate, Notified, InHand, control
    <2>2. QED
      BY <1>9, <2>1 DEF Close, Join, Terminate, writing, WL!vars
  <1>10. CASE OpenFile
    <2>1. pending' = pending
      BY <1>10 DEF OpenFile, InHand, ControlInv
    <2>2. QED
      BY <1>10, <2>1 DEF OpenFile, writing, WL!vars
  <1>11. CASE UNCHANGED vars
    BY <1>2, <1>11 DEF vars, control, writing, WL!vars
  <1>12. QED
    BY <1>3, <1>4, <1>5, <1>6, <1>7, <1>8, <1>9, <1>10, <1>11 DEF Next, Worker

\* Every line is written or given up once, the queued ones in the order in
\* which they were accepted, whoever reads, closes and opens in between.
THEOREM ImplementsLog == Spec => ImplementsWriteLog
  <1>1. Init => WL!Init
    BY DEF Init, InHand, WL!Init
  <1>2. QED
    BY <1>1, StepRefines, CloseInvariant, PTL DEF Spec, ImplementsWriteLog, WL!Spec

-----------------------------------------------------------------------------
(***************************************************************************)
(* Writers alone.  While nobody reads line by line the position of a good  *)
(* stream is the number of lines written since the opening.                *)
(***************************************************************************)
PositionIsCount == isOpen /\ good /\ ~moved => position = Len(log) - base

LogInv == TypeInv /\ PositionIsCount /\ ContentIsLog

\* A line put on the stream extends both the log and the file.
LEMMA PutExtends ==
  ASSUME LogInv, NEW l \in Lines, Put(l), UNCHANGED <<base, moved>>
  PROVE  (PositionIsCount /\ ContentIsLog)'
  <1> USE DEF LogInv, TypeInv, TypeOK, PositionIsCount, ContentIsLog
  <1>1. CASE /\ isOpen /\ good /\ ~moved
             /\ content' = Overwritten(l) /\ position' = position + 1
             /\ log' = Append(log, l)
             /\ UNCHANGED <<isOpen, good, dropped>>
    <2> DEFINE n == Len(log) - base
    <2>1. /\ n \in Nat /\ Len(log) \in Nat /\ Len(content) \in Nat
          /\ position = n /\ position \in 0 .. Len(content)
      BY <1>1, LenProperties
    <2>2. l \in Cells
      BY DEF Cells
    <2>3. /\ Len(content') >= n + 1 /\ content'[n + 1] = l
          /\ \A i \in 1 .. n : content'[i] = content[i]
      <3>1. \A i \in 1 .. n : i \in 1 .. Len(content) /\ i # position + 1
        BY <2>1
      <3>2. /\ Len(content') = IF position = Len(content)
                               THEN Len(content) + 1 ELSE Len(content)
            /\ content'[position + 1] = l
            /\ \A i \in 1 .. Len(content) :
                   i # position + 1 => content'[i] = content[i]
        BY <1>1, <2>1, <2>2, OverwrittenCells
      <3>3. Len(content') >= n + 1 /\ content'[n + 1] = l
        BY <2>1, <3>2
      <3>4. QED
        BY <3>1, <3>2, <3>3
    <2>4. /\ Len(log') = Len(log) + 1 /\ log'[base + n + 1] = l
          /\ \A i \in 1 .. n : log'[base + i] = log[base + i]
      BY <1>1, <2>1, AppendProperties
    <2>5. \A i \in 1 .. n + 1 : content'[i] = log'[base + i]
      <3>1. \A i \in 1 .. n + 1 : i = n + 1 \/ i \in 1 .. n
        BY <2>1
      <3>2. \A i \in 1 .. n : content[i] = log[base + i]
        BY <1>1
      <3>3. QED
        BY <2>1, <2>3, <2>4, <3>1, <3>2
    <2>6. Len(log') - base' = n + 1
      BY <2>1, <2>4
    <2>7. QED
      BY <1>1, <2>1, <2>3, <2>5, <2>6
  <1>2. CASE moved
    BY <1>2
  <1>3. CASE /\ good' = (good /\ ~isOpen)
             /\ UNCHANGED <<isOpen, position, content, log>>
    <2>1. ~(isOpen' /\ good')
      BY <1>3
    <2>2. QED
      BY <1>3, <2>1
  <1>4. QED
    BY <1>1, <1>2, <1>3 DEF Put

LEMMA LogStep == LogInv /\ [Next]_vars => LogInv'
  <1> SUFFICES ASSUME LogInv, [Next]_vars
               PROVE  (PositionIsCount /\ ContentIsLog)'
    BY TypeStep DEF LogInv
  <1> USE DEF LogInv, PositionIsCount, ContentIsLog
  <1>1. ASSUME NEW l \in Lines, WriteSync(l)
        PROVE  (PositionIsCount /\ ContentIsLog)'
    <2>1. Put(l) /\ UNCHANGED <<base, moved>>
      BY <1>1 DEF WriteSync, reading
    <2>2. QED
      BY <2>1, PutExtends
  <1>2. CASE Write
    <2>1. line \in Lines /\ Put(line) /\ UNCHANGED <<base, moved>>
      BY <1>2 DEF Write, Runs, WorkerOnly, reading, TypeInv, HandIsLine
    <2>2. QED
      BY <2>1, PutExtends
  <1>3. ASSUME NEW l \in Lines, WriteAsync(l)
        PROVE  (PositionIsCount /\ ContentIsLog)'
    BY <1>3 DEF WriteAsync, stream, reading, writing
  <1>4. CASE Wait \/ Leave \/ Take \/ WakeUp
    BY <1>4 DEF Wait, Leave, Take, WakeUp, WorkerOnly, stream, reading, writing
  <1>5. CASE ReadLine
    BY <1>5 DEF ReadLine, ReadFails, ReadAtEnd, ReadWholeLine, ReadLastLine,
       ReadOnly, reading, writing
  <1>6. CASE ReadAll
    BY <1>6 DEF ReadAll, ReadOnly, reading, writing
  <1>7. CASE Close \/ Join \/ Terminate
    BY <1>7 DEF Close, Join, Terminate, stream, reading, writing
  <1>8. CASE OpenFile
    <2>1. Len(log) \in Nat /\ content' \in Seq(Cells)
      BY <1>8, LenProperties, EmptySeq DEF OpenFile, TypeInv, TypeOK
    <2>2. Len(content') \in Nat /\ Len(log') - base' = 0 /\ position' = 0
      BY <1>8, <2>1, LenProperties DEF OpenFile, writing
    <2>3. QED
      BY <2>2
  <1>9. CASE UNCHANGED vars
    BY <1>9 DEF vars, stream, reading, writing
  <1>10. QED
    BY <1>1, <1>2, <1>3, <1>4, <1>5, <1>6, <1>7, <1>8, <1>9 DEF Next, Worker

\* As long as nobody reads line by line, the lines written since the opening
\* are the beginning of the file, in order.
THEOREM ContentFollowsLog == Spec => []ContentIsLog
  <1>1. Init => LogInv
    <2> SUFFICES ASSUME Init PROVE LogInv
      OBVIOUS
    <2>1. TypeOK /\ Len(content) \in Nat
      BY InitTypes, LenProperties DEF TypeOK
    <2>2. Len(log) - base = 0 /\ position = 0
      BY DEF Init
    <2>3. QED
      BY <2>1, <2>2 DEF LogInv, TypeInv, HandIsLine, PositionIsCount,
         ContentIsLog, Init
  <1>2. LogInv => ContentIsLog
    BY DEF LogInv
  <1>3. QED
    BY <1>1, <1>2, LogStep, PTL DEF Spec

-----------------------------------------------------------------------------
(***************************************************************************)
(* Readers among writers.  During the first opening no write lands before  *)
(* the line that readLine returns next.                                    *)
(***************************************************************************)
ReadBehindWrites ==
    opens = 1 /\ m_currentReadPos # NoPosition =>
        /\ m_currentReadPos <= Len(content)
        /\ isOpen /\ good => m_currentReadPos <= position

ReadInv == TypeInv /\ ReadBehindWrites /\ ReadLinesSeeFile

LEMMA PutKeepsRead ==
  ASSUME ReadInv, NEW l \in Lines, Put(l), UNCHANGED <<opens, reading>>
  PROVE  (ReadBehindWrites /\ ReadLinesSeeFile)'
  <1> USE DEF ReadInv, TypeInv, TypeOK, ReadBehindWrites, ReadLinesSeeFile,
      reading
  <1>1. CASE /\ isOpen /\ good /\ opens = 1 /\ m_currentReadPos # NoPosition
             /\ content' = Overwritten(l) /\ position' = position + 1
             /\ UNCHANGED <<isOpen, good>>
    <2> DEFINE r == m_currentReadPos
    <2>1. /\ r \in Nat /\ Len(content) \in Nat
          /\ r <= position /\ position \in 0 .. Len(content)
      BY <1>1, LenProperties
    <2>2. l \in Cells
      BY DEF Cells
    <2>3. /\ content' \in Seq(Cells) /\ Len(content') >= Len(content)
          /\ Len(content') \in Nat
          /\ \A i \in 1 .. r : content'[i] = content[i]
      <3>1. \A i \in 1 .. r : i \in 1 .. Len(content) /\ i # position + 1
        BY <2>1
      <3>2. content \in Seq(Cells)
        OBVIOUS
      <3>3. /\ content' \in Seq(Cells)
            /\ Len(content') = IF position = Len(content)
                               THEN Len(content) + 1 ELSE Len(content)
            /\ \A i \in 1 .. Len(content) :
                  i # position + 1 => content'[i] = content[i]
        BY ONLY <1>1, <2>1, <2>2, <3>2, OverwrittenCells
      <3>4. QED
        BY ONLY <2>1, <3>1, <3>3
    <2>4. \A i \in 1 .. r : content[i] \in Cells /\ content'[i] \in Cells
      <3>1. \A i \in 1 .. r : i \in 1 .. Len(content)
        BY <2>1
      <3>2. QED
        BY <2>3, <3>1, ElementOfSeq
    <2>5. /\ SubSeq(content, 1, r) \in Seq(Cells)
          /\ Len(SubSeq(content, 1, r)) = r
          /\ \A i \in 1 .. r : SubSeq(content, 1, r)[i] = content[i]
      BY <2>1, <2>4, SubSeqProperties
    <2>6. /\ SubSeq(content', 1, r) \in Seq(Cells)
          /\ Len(SubSeq(content', 1, r)) = r
          /\ \A i \in 1 .. r : SubSeq(content', 1, r)[i] = content'[i]
      BY <2>1, <2>4, SubSeqProperties
    <2>7. SubSeq(content', 1, r) = SubSeq(content, 1, r)
      BY <2>3, <2>5, <2>6, SeqEqual
    <2>8. QED
      BY <1>1, <2>1, <2>3, <2>7
  <1>2. CASE opens # 1 \/ m_currentReadPos = NoPosition
    BY <1>2
  <1>3. CASE good' = (good /\ ~isOpen) /\ UNCHANGED <<isOpen, content>>
    BY <1>3
  <1>4. QED
    BY <1>1, <1>2, <1>3 DEF Put

\* readLine continues where it stopped.
LEMMA ReadLineKeepsRead ==
  ASSUME ReadInv, ReadLine
  PROVE  (ReadBehindWrites /\ ReadLinesSeeFile)'
  <1> USE DEF ReadInv, TypeInv, TypeOK, ReadBehindWrites, ReadLinesSeeFile,
      ReadOnly, ReadFrom
  <1>1. CASE ReadFails
    BY <1>1 DEF ReadLine, ReadFails, reading
  <1>2. CASE ReadAtEnd
    <2>1. SubSeq(content', 1, 0) = <<>> /\ Len(content') \in Nat
      BY <1>2, SubSeqEmpty, LenProperties DEF ReadLine
    <2>2. QED
      BY <1>2, <2>1 DEF ReadLine, ReadAtEnd
  <1>3. CASE ReadWholeLine
    <2>1. PICK end \in LineEnds :
              /\ position' = end /\ m_currentReadPos' = end
              /\ returned' = returned \o SubSeq(content, ReadFrom + 1, end)
      BY <1>3 DEF ReadWholeLine
    <2>2. /\ m_currentReadPos \in 0 .. Len(content) /\ Len(content) \in Nat
          /\ end \in m_currentReadPos + 1 .. Len(content)
      BY <1>3, <2>1, LenProperties DEF ReadWholeLine, LineEnds
    <2>3. SubSeq(content, 1, m_currentReadPos)
              \o SubSeq(content, m_currentReadPos + 1, end)
          = SubSeq(content, 1, end)
      <3>1. /\ 1 \in 1 .. Len(content) + 1
            /\ m_currentReadPos \in 1 - 1 .. Len(content)
            /\ end \in m_currentReadPos .. Len(content)
        BY <2>2
      <3>2. QED
        BY <3>1, ConcatAdjacentSubSeq
    <2>4. UNCHANGED <<content, opens>>
      BY DEF ReadLine
    <2>5. ReadBehindWrites'
      BY <2>1, <2>2, <2>4
    <2>6. opens = 1 => returned = SubSeq(content, 1, m_currentReadPos)
      BY <1>3 DEF ReadWholeLine
    <2>7. QED
      BY <2>1, <2>3, <2>4, <2>5, <2>6
  <1>4. CASE ReadLastLine
    BY <1>4 DEF ReadLine, ReadLastLine
  <1>5. QED
    BY <1>1, <1>2, <1>3, <1>4 DEF ReadLine

LEMMA ReadStep == ReadInv /\ [Next]_vars => ReadInv'
  <1> SUFFICES ASSUME ReadInv, [Next]_vars
               PROVE  (ReadBehindWrites /\ ReadLinesSeeFile)'
    BY TypeStep DEF ReadInv
  <1> USE DEF ReadInv, ReadBehindWrites, ReadLinesSeeFile
  <1>1. ASSUME NEW l \in Lines, WriteSync(l)
        PROVE  (ReadBehindWrites /\ ReadLinesSeeFile)'
    BY <1>1, PutKeepsRead DEF WriteSync
  <1>2. CASE Write
    BY <1>2, PutKeepsRead DEF Write, Runs, WorkerOnly, TypeInv, HandIsLine
  <1>3. ASSUME NEW l \in Lines, WriteAsync(l)
        PROVE  (ReadBehindWrites /\ ReadLinesSeeFile)'
    BY <1>3 DEF WriteAsync, stream, reading
  <1>4. CASE Wait \/ Leave \/ Take \/ WakeUp
    BY <1>4 DEF Wait, Leave, Take, WakeUp, WorkerOnly, stream, reading
  <1>5. CASE ReadLine
    BY <1>5, ReadLineKeepsRead
  <1>6. CASE ReadAll
    BY <1>6 DEF ReadAll, ReadOnly, reading
  <1>7. CASE Close \/ Join \/ Terminate
    BY <1>7 DEF Close, Join, Terminate, stream, reading
  <1>8. CASE OpenFile
    BY <1>8 DEF OpenFile, TypeInv, TypeOK
  <1>9. CASE UNCHANGED vars
    BY <1>9 DEF vars, stream, reading
  <1>10. QED
    BY <1>1, <1>2, <1>3, <1>4, <1>5, <1>6, <1>7, <1>8, <1>9 DEF Next, Worker

\* Reading line by line among writers misses no line, repeats none, and none
\* is overwritten once it was returned.
THEOREM ReadersSeeFile == Spec => []ReadLinesSeeFile
  <1>1. Init => ReadInv
    <2> SUFFICES ASSUME Init PROVE ReadInv
      OBVIOUS
    <2>1. TypeOK /\ Len(content) \in Nat
      BY InitTypes, LenProperties DEF TypeOK
    <2>2. SubSeq(content, 1, 0) = <<>>
      BY SubSeqEmpty
    <2>3. QED
      BY <2>1, <2>2 DEF ReadInv, TypeInv, HandIsLine, ReadBehindWrites,
         ReadLinesSeeFile, Init
  <1>2. ReadInv => ReadLinesSeeFile
    BY DEF ReadInv
  <1>3. QED
    BY <1>1, <1>2, ReadStep, PTL DEF Spec
=============================================================================
