-------------------------- MODULE StateTimerProofs --------------------------
(***************************************************************************)
(* Theorems about StateTimer, for all delays, defaults and horizons.       *)
(***************************************************************************)
EXTENDS StateTimer, TLAPS

(***************************************************************************)
(* The inductive invariant.  A timer under construction has never been     *)
(* pinged, so its thread circles through the OFFLINE case and reads no     *)
(* delay.  A pending flag apart, m_start is never older than it should be: *)
(* it was sampled after the last ping that can be told apart.              *)
(***************************************************************************)
QuietWhileConstructing ==
    owner \in Constructing =>
        /\ ~m_wasPing
        /\ m_currentState = "OFFLINE"
        /\ pc \notin {"start", "clear", "publish"}

DelaysStored ==
    /\ owner \notin {"setOutdated", "moveOffline", "moveOutdated"} =>
           m_outdatedDelay = outdatedOpt
    /\ owner \notin {"setOutdated", "setOffline", "moveOffline"} =>
           m_offlineDelay = offlineOpt

PingUntilCleared == pc \in {"start", "clear"} => m_wasPing

StartAfterPing ==
    /\ ~m_wasPing \/ pc = "clear" => sinceStart <= sinceHeard
    /\ pc = "switch" => elapsed <= sinceStart

ViewFollowsSilence ==
    ~m_wasPing =>
        /\ m_currentState = "OUTDATED" => sinceHeard >= outdatedOpt
        /\ m_currentState = "OFFLINE" => sinceHeard >= offlineOpt

IInv ==
    /\ TypeOK
    /\ QuietWhileConstructing
    /\ DelaysStored
    /\ PingUntilCleared
    /\ StartAfterPing
    /\ ViewFollowsSilence

-----------------------------------------------------------------------------
\* The inductive invariant holds when the timer is constructed: no ping was
\* ever heard, which is a silence longer than every delay.
LEMMA InitIInv == Init => IInv
  <1> SUFFICES ASSUME Init PROVE IInv
    OBVIOUS
  <1> USE DelaysAssumption DEF Init, InitialState
  <1>1. TypeOK
    <2>1. m_wasPing \in BOOLEAN /\ m_isStopped \in BOOLEAN
      OBVIOUS
    <2>2. QED
      BY <2>1 DEF TypeOK, Statuses, Ages, Labels, Phases, Constructing
  <1>2. QuietWhileConstructing /\ DelaysStored /\ PingUntilCleared
    BY DEF QuietWhileConstructing, DelaysStored, PingUntilCleared
  <1>3. StartAfterPing /\ ViewFollowsSilence
    BY DEF StartAfterPing, ViewFollowsSilence
  <1>4. QED
    BY <1>1, <1>2, <1>3 DEF IInv

\* The owner's steps preserve the invariant.
LEMMA OwnerIInv == IInv /\ Owner => IInv'
  <1> SUFFICES ASSUME IInv, Owner PROVE IInv'
    OBVIOUS
  <1> USE DelaysAssumption DEF IInv, TypeOK, Statuses, Ages, Labels, Phases,
      Constructing, QuietWhileConstructing, DelaysStored, PingUntilCleared,
      StartAfterPing, ViewFollowsSilence, options, delays, shown, history
  <1>1. CASE SetDelays
    BY <1>1 DEF SetDelays, StoreOutdated, StoreOffline, OwnerGoes
  <1>2. CASE MoveDelays
    BY <1>2 DEF MoveDelays, StoreOutdated, StoreOffline, OwnerGoes
  <1>3. CASE Ping
    BY <1>3 DEF Ping
  <1>4. CASE Stop
    BY <1>4 DEF Stop, OwnerGoes
  <1>5. CASE Join
    BY <1>5 DEF Join, OwnerGoes
  <1>6. QED
    BY <1>1, <1>2, <1>3, <1>4, <1>5 DEF Owner

\* The steps of the timer thread preserve the invariant.
LEMMA TimerIInv == IInv /\ Timer => IInv'
  <1> SUFFICES ASSUME IInv, Timer PROVE IInv'
    OBVIOUS
  <1> USE DelaysAssumption DEF IInv, TypeOK, Statuses, Ages, Labels, Phases,
      Constructing, QuietWhileConstructing, DelaysStored, PingUntilCleared,
      StartAfterPing, ViewFollowsSilence, options, delays, shown, history,
      Goes
  <1>1. CASE While
    BY <1>1 DEF While, StopSeen
  <1>2. CASE IfWasPing
    BY <1>2 DEF IfWasPing
  <1>3. CASE SampleStart
    BY <1>3 DEF SampleStart
  <1>4. CASE ClearPing
    BY <1>4 DEF ClearPing
  <1>5. CASE Publish
    BY <1>5 DEF Publish
  <1>6. CASE SampleNow
    BY <1>6 DEF SampleNow
  <1>7. CASE Switch
    BY <1>7 DEF Switch, Overdue, Aged
  <1>8. QED
    BY <1>1, <1>2, <1>3, <1>4, <1>5, <1>6, <1>7 DEF Timer

\* Time passing preserves the invariant: m_start and the last ping that was
\* heard grow old together, up to the horizon, which no delay exceeds.
LEMMA TickIInv == IInv /\ Tick => IInv'
  <1> SUFFICES ASSUME IInv, Tick PROVE IInv'
    OBVIOUS
  <1> USE DEF IInv, Tick, options, delays, shown
  <1>1. TypeOK'
    BY DelaysAssumption DEF TypeOK, Ages, Older
  <1>2. QuietWhileConstructing' /\ DelaysStored' /\ PingUntilCleared'
    BY DEF QuietWhileConstructing, DelaysStored, PingUntilCleared
  <1>3. StartAfterPing'
    BY DelaysAssumption DEF StartAfterPing, TypeOK, Ages, Older
  <1>4. ViewFollowsSilence'
    BY DelaysAssumption DEF ViewFollowsSilence, TypeOK, Ages, Older
  <1>5. QED
    BY <1>1, <1>2, <1>3, <1>4

\* Every step of the two threads and of the clock preserves it.
LEMMA NextIInv == IInv /\ [Next]_vars => IInv'
  <1> SUFFICES ASSUME IInv, [Next]_vars PROVE IInv'
    OBVIOUS
  <1>1. CASE Owner
    BY <1>1, OwnerIInv
  <1>2. CASE Timer
    BY <1>2, TimerIInv
  <1>3. CASE Tick
    BY <1>3, TickIInv
  <1>4. CASE UNCHANGED vars
    BY <1>4 DEF IInv, TypeOK, QuietWhileConstructing, DelaysStored,
                PingUntilCleared, StartAfterPing, ViewFollowsSilence, vars,
                options, delays, shown, history
  <1>5. QED
    BY <1>1, <1>2, <1>3, <1>4 DEF Next

\* In every reachable state of a timer, whatever the delays, the inductive
\* invariant holds.
THEOREM Invariance == Spec => []IInv
  <1>1. Init => IInv
    BY InitIInv
  <1>2. IInv /\ [Next]_vars => IInv'
    BY NextIInv
  <1>3. QED
    BY <1>1, <1>2, PTL DEF Spec

\* The variables of the timer and its owner keep their types.
THEOREM TypeCorrect == Spec => []TypeOK
  <1>1. IInv => TypeOK
    BY DEF IInv
  <1>2. QED
    BY <1>1, Invariance, PTL

\* The thread, which starts before the delays of the device are stored and
\* reads them without a mutex, never compares an age with a delay that was
\* not stored.
THEOREM NoDelayReadEarly == Spec => []DelaysStoredBeforeUse
  <1>1. IInv => DelaysStoredBeforeUse
    BY DEF IInv, TypeOK, QuietWhileConstructing, DelaysStored,
           DelaysStoredBeforeUse, Statuses, Phases, Constructing
  <1>2. QED
    BY <1>1, Invariance, PTL

\* A device is shown OUTDATED or OFFLINE only after a silence of its delays,
\* for every choice of the delays.
THEOREM StatusNeverEarly == Spec => []StatusFollowsSilence
  <1>1. IInv => StatusFollowsSilence
    BY DEF IInv, ViewFollowsSilence, StatusFollowsSilence
  <1>2. QED
    BY <1>1, Invariance, PTL

-----------------------------------------------------------------------------
(***************************************************************************)
(* The timer implements the safety part of DeviceStatus.  The mapping      *)
(* counts a ping as pending until the thread publishes ONLINE, so what     *)
(* remains to be known is how far the shown status and the thread's view   *)
(* of it can be apart: by the one step that Publish is about to take.      *)
(***************************************************************************)
ViewAhead ==
    /\ pc # "publish" => m_state = m_currentState
    /\ pc = "publish" /\ m_currentState = "OUTDATED" => m_state = "ONLINE"
    /\ pc = "publish" /\ m_currentState = "OFFLINE" => m_state = "OUTDATED"

\* A destructor that has begun has set the flag, and no ping comes after it.
StoppedByOwner == m_isStopped <=> owner \in {"join", "destroyed"}

RInv == IInv /\ ViewAhead /\ StoppedByOwner

LEMMA InitRInv == Init => RInv
  BY InitIInv DEF Init, InitialState, RInv, ViewAhead, StoppedByOwner

LEMMA NextRInv == RInv /\ [Next]_vars => RInv'
  <1> SUFFICES ASSUME RInv, [Next]_vars PROVE (ViewAhead /\ StoppedByOwner)'
    BY NextIInv DEF RInv
  <1> USE DEF RInv, IInv, TypeOK, Statuses, Labels, ViewAhead, StoppedByOwner,
      options, delays, shown, history
  <1>1. CASE Owner
    BY <1>1 DEF Owner, SetDelays, MoveDelays, StoreOutdated, StoreOffline,
       Ping, Stop, Join, OwnerGoes
  <1>2. CASE Timer
    <2> USE DEF Goes
    <2>1. CASE While \/ IfWasPing \/ SampleStart \/ SampleNow
      BY <2>1 DEF While, StopSeen, IfWasPing, SampleStart, SampleNow
    <2>2. CASE ClearPing
      BY <2>2 DEF ClearPing
    <2>3. CASE Publish
      BY <2>3 DEF Publish
    <2>4. CASE Switch
      BY <2>4 DEF Switch, Overdue, Aged
    <2>5. QED
      BY <1>2, <2>1, <2>2, <2>3, <2>4 DEF Timer
  <1>3. CASE Tick
    BY <1>3 DEF Tick
  <1>4. CASE UNCHANGED vars
    BY <1>4 DEF vars
  <1>5. QED
    BY <1>1, <1>2, <1>3, <1>4 DEF Next

\* In every reachable state the thread's view and the owner agree as above.
LEMMA RInvariant == Spec => []RInv
  <1>1. Init => RInv
    BY InitRInv
  <1>2. RInv /\ [Next]_vars => RInv'
    BY NextRInv
  <1>3. QED
    BY <1>1, <1>2, PTL DEF Spec

\* Every step of the timer, its owner or the clock is a step of DeviceStatus
\* or leaves its variables alone.
LEMMA StepRefinement == RInv /\ [Next]_vars => [DS!Next]_(DS!vars)
  <1> SUFFICES ASSUME RInv, [Next]_vars
               PROVE DS!Next \/ UNCHANGED <<m_state, PendingPing, m_isStopped>>
    BY DEF DS!vars
  <1> USE DEF PendingPing, options, delays, shown, history
  <1>1. CASE Ping
    <2>1. DS!Ping
      BY <1>1 DEF Ping, DS!Ping, RInv, StoppedByOwner
    <2>2. QED
      BY <2>1 DEF DS!Next
  <1>2. CASE Stop
    <2>1. DS!Retire
      BY <1>2 DEF Stop, DS!Retire
    <2>2. QED
      BY <2>1 DEF DS!Next
  <1>3. CASE SetDelays \/ MoveDelays \/ Join
    BY <1>3 DEF SetDelays, MoveDelays, StoreOutdated, StoreOffline, Join
  <1>4. CASE Publish
    <2> USE DEF Goes, RInv, IInv, TypeOK, Statuses, ViewAhead
    <2>1. CASE m_currentState = "ONLINE"
      <3>1. DS!ShowOnline
        BY <1>4, <2>1 DEF Publish, DS!ShowOnline
      <3>2. QED
        BY <3>1 DEF DS!Next
    <2>2. CASE m_currentState # "ONLINE"
      <3>1. DS!Age
        BY <1>4, <2>2 DEF Publish, DS!Age
      <3>2. QED
        BY <3>1 DEF DS!Next
    <2>3. QED
      BY <2>1, <2>2
  <1>5. CASE ClearPing
    BY <1>5 DEF ClearPing, Goes, RInv, IInv, PingUntilCleared
  <1>6. CASE Switch
    BY <1>6 DEF Switch, Overdue, Aged, Goes, RInv, IInv, TypeOK, Statuses
  <1>7. CASE While \/ IfWasPing \/ SampleStart \/ SampleNow
    BY <1>7 DEF While, IfWasPing, SampleStart, SampleNow, Goes
  <1>8. CASE Tick \/ UNCHANGED vars
    BY <1>8 DEF Tick, vars
  <1>9. QED
    BY <1>1, <1>2, <1>3, <1>4, <1>5, <1>6, <1>7, <1>8
    DEF Next, Owner, Timer

\* The timer implements DeviceStatus up to fairness, for all delays: the status
\* visits ONLINE, OUTDATED and OFFLINE in that order only, and turns ONLINE
\* only because of a ping that was not shown yet.
THEOREM ImplementsSafety == Spec => DS!Safety
  <1>1. Init => DS!Init
    BY DEF Init, InitialState, DS!Init, PendingPing
  <1>2. Spec => []RInv
    BY RInvariant
  <1>3. RInv /\ [Next]_vars => [DS!Next]_(DS!vars)
    BY StepRefinement
  <1>4. QED
    BY <1>1, <1>2, <1>3, PTL DEF Spec, DS!Safety

-----------------------------------------------------------------------------
(***************************************************************************)
(* Stopping.  A stopped timer belongs to a destructor that waits for it,   *)
(* which has let the mutex go and lets no ping in; that the thread may     *)
(* have one ping left to serve is in the distance.                         *)
(***************************************************************************)
\* What the thread shows is the status it has just worked out: an ONLINE one
\* comes from a ping and the way back to the head of the loop is longer.
LEMMA TimerNearsEnd ==
  ASSUME RInv, Timer, m_isStopped, pc' # pc
  PROVE  Distance' < Distance
  <1> USE DEF RInv, IInv, TypeOK, Statuses, Labels, Goes, Distance, shown
  <1>1. CASE While
    <2>1. pc = "while" /\ pc' = "done"
      BY <1>1 DEF While, StopSeen
    <2>2. QED
      BY <2>1
  <1>2. CASE IfWasPing
    <2>1. pc = "if" /\ pc' \in {"start", "now"}
      BY <1>2 DEF IfWasPing
    <2>2. QED
      BY <2>1
  <1>3. CASE SampleStart \/ SampleNow
    <2>1. \/ pc = "start" /\ pc' = "clear"
          \/ pc = "now" /\ pc' = "switch"
      BY <1>3 DEF SampleStart, SampleNow
    <2>2. QED
      BY <2>1
  <1>4. CASE ClearPing
    BY <1>4 DEF ClearPing
  <1>5. CASE Publish
    BY <1>5 DEF Publish
  <1>6. CASE Switch
    BY <1>6 DEF Switch, Overdue, Aged
  <1>7. QED
    BY <1>1, <1>2, <1>3, <1>4, <1>5, <1>6 DEF Timer

\* Wherever stop() meets the loop, at most eight steps of the thread remain,
\* and none of them waits for the mutex, whatever the delays.
THEOREM StoppingNearsEnd == Spec => StopIsBounded
  <1> DEFINE A == m_isStopped =>
                    /\ pc' # pc => Distance' < Distance
                    /\ ~MutexHeldByOwner
  <1>1. RInv /\ [Next]_vars => [A]_vars
    <2> SUFFICES ASSUME RInv, Next, m_isStopped PROVE A
      OBVIOUS
    <2>1. ~MutexHeldByOwner
      BY DEF RInv, StoppedByOwner, MutexHeldByOwner
    <2>2. CASE Timer
      BY <2>1, <2>2, TimerNearsEnd
    <2>3. CASE Owner \/ Tick
      <3>1. pc' = pc
        BY <2>3 DEF Owner, SetDelays, MoveDelays, StoreOutdated, StoreOffline,
           Ping, Stop, Join, Tick
      <3>2. QED
        BY <2>1, <3>1
    <2>4. QED
      BY <2>2, <2>3 DEF Next
  <1>2. QED
    BY <1>1, RInvariant, PTL DEF Spec, StopIsBounded

=============================================================================
