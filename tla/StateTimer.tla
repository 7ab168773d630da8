----------------------------- MODULE StateTimer -----------------------------
(***************************************************************************)
(* The status timer of one device (Device::StateTimer): a thread that      *)
(* polls the ping flag and the clock in a busy loop, next to the owner of  *)
(* the device, which constructs the timer, pings it and destroys it.       *)
(*                                                                         *)
(* Every step touches at most one variable the two threads share.  Time is *)
(* kept as ages: sinceStart is now - m_start.  Ages stop at Horizon, which *)
(* no delay exceeds, so that a longer silence is no different from it.     *)
(***************************************************************************)
EXTENDS Naturals

CONSTANTS
    Delays,             \* the delays, in ticks, an administrator may choose
    DefaultOutdated,    \* the member initialiser of m_outdatedDelay
    DefaultOffline,     \* the member initialiser of m_offlineDelay
    Horizon             \* bound: ages are not counted beyond it

ASSUME DelaysAssumption ==
    /\ Horizon \in Nat
    /\ Delays \subseteq 0 .. Horizon
    /\ DefaultOutdated \in 0 .. Horizon
    /\ DefaultOffline \in 0 .. Horizon

VARIABLES
    (***********************************************************************)
    (* The options of the server, fixed before the first device exists.    *)
    (***********************************************************************)
    outdatedOpt,
    offlineOpt,
    (***********************************************************************)
    (* The members of Device and of StateTimer.                            *)
    (***********************************************************************)
    m_wasPing,
    m_isStopped,
    m_outdatedDelay,
    m_offlineDelay,
    m_currentState,     \* the timer's own view of the status
    m_state,            \* the status getState() answers
    sinceStart,         \* now - m_start
    (***********************************************************************)
    (* Control: where the timer thread and the owner are.                  *)
    (***********************************************************************)
    pc,
    elapsed,            \* the timer thread's local of that name
    owner,
    (***********************************************************************)
    (* History: the age of the last ping, and of the last ping that did    *)
    (* not arrive between the sampling of m_start and the reset of the     *)
    (* flag.                                                               *)
    (***********************************************************************)
    sincePing,
    sinceHeard

options == <<outdatedOpt, offlineOpt>>
delays  == <<m_outdatedDelay, m_offlineDelay>>
shown   == <<m_currentState, m_state>>
history == <<sincePing, sinceHeard>>
vars == <<options, m_wasPing, m_isStopped, delays, shown, sinceStart, pc,
          elapsed, owner, history>>

-----------------------------------------------------------------------------
Statuses == {"ONLINE", "OUTDATED", "OFFLINE"}
Ages == 0 .. Horizon

\* The timer thread, by the line it executes next.
Labels == {"while", "if", "start", "clear", "publish", "now", "switch", "done"}

\* The owner, by what it does next: the two ways to construct a timer, then
\* the life of the device and its destructor.
Constructing == {"setOutdated", "setOffline", "moveOffline", "moveOutdated"}
Phases == Constructing \cup {"live", "join", "destroyed"}

TypeOK ==
    /\ outdatedOpt \in Delays /\ offlineOpt \in Delays
    /\ m_wasPing \in BOOLEAN /\ m_isStopped \in BOOLEAN
    /\ m_outdatedDelay \in Ages /\ m_offlineDelay \in Ages
    /\ m_currentState \in Statuses /\ m_state \in Statuses
    /\ sinceStart \in Ages /\ elapsed \in Ages
    /\ pc \in Labels
    /\ owner \in Phases
    /\ sincePing \in Ages /\ sinceHeard \in Ages

\* Mutant: the timer takes a new device to be online.
InitiallyOnline == "ONLINE"

InitialState == "OFFLINE"

\* The StateTimer constructor starts the thread with the default delays; the
\* delays of the device are stored afterwards, by setDelays (Device's
\* constructor) or by the second constructor (Device's move constructor).
Init ==
    /\ outdatedOpt \in Delays /\ offlineOpt \in Delays
    /\ m_wasPing = FALSE /\ m_isStopped = FALSE
    /\ m_outdatedDelay = DefaultOutdated /\ m_offlineDelay = DefaultOffline
    /\ m_currentState = InitialState /\ m_state = "OFFLINE"
    /\ sinceStart = 0 /\ elapsed = 0
    /\ pc = "while"
    /\ owner \in {"setOutdated", "moveOffline"}
    /\ sincePing = Horizon /\ sinceHeard = Horizon

-----------------------------------------------------------------------------
(***************************************************************************)
(* The owner.                                                              *)
(***************************************************************************)
OwnerGoes(from, to) == owner = from /\ owner' = to

StoreOutdated(from, to) ==
    /\ OwnerGoes(from, to)
    /\ m_outdatedDelay' = outdatedOpt
    /\ UNCHANGED <<options, m_wasPing, m_isStopped, m_offlineDelay, shown,
                   sinceStart, pc, elapsed, history>>

StoreOffline(from, to) ==
    /\ OwnerGoes(from, to)
    /\ m_offlineDelay' = offlineOpt
    /\ UNCHANGED <<options, m_wasPing, m_isStopped, m_outdatedDelay, shown,
                   sinceStart, pc, elapsed, history>>

\* setDelays holds m_changingMutex from its first store to its second.
SetDelays == StoreOutdated("setOutdated", "setOffline")
             \/ StoreOffline("setOffline", "live")
MutexHeldByOwner == owner = "setOffline"

\* The constructor with delays stores them in the other order and no mutex.
MoveDelays == StoreOffline("moveOffline", "moveOutdated")
              \/ StoreOutdated("moveOutdated", "live")

\* A request can name the device only once it is constructed.
Ping ==
    /\ owner = "live"
    /\ m_wasPing' = TRUE
    /\ sincePing' = 0
    /\ sinceHeard' = IF pc = "clear" THEN sinceHeard ELSE 0
    /\ UNCHANGED <<options, m_isStopped, delays, shown, sinceStart, pc,
                   elapsed, owner>>

\* Mutant: the destructor joins and does not stop.
JoinOnly ==
    /\ OwnerGoes("live", "join")
    /\ UNCHANGED <<options, m_wasPing, m_isStopped, delays, shown, sinceStart,
                   pc, elapsed, history>>

\* The destructor: stop(), then join().
Stop ==
    /\ OwnerGoes("live", "join")
    /\ m_isStopped' = TRUE
    /\ UNCHANGED <<options, m_wasPing, delays, shown, sinceStart, pc, elapsed,
                   history>>

Join ==
    /\ OwnerGoes("join", "destroyed")
    /\ pc = "done"
    /\ UNCHANGED <<options, m_wasPing, m_isStopped, delays, shown, sinceStart,
                   pc, elapsed, history>>

Owner == SetDelays \/ MoveDelays \/ Ping \/ Stop \/ Join

-----------------------------------------------------------------------------
(***************************************************************************)
(* The timer thread: threadLoop.                                           *)
(***************************************************************************)
Goes(from, to) == pc = from /\ pc' = to

\* Mutant: a ping that waits is served first.
StopSeenIdle == m_isStopped /\ ~m_wasPing

StopSeen == m_isStopped

While ==
    /\ Goes("while", IF StopSeen THEN "done" ELSE "if")
    /\ UNCHANGED <<options, m_wasPing, m_isStopped, delays, shown, sinceStart,
                   elapsed, owner, history>>

IfWasPing ==
    /\ Goes("if", IF m_wasPing THEN "start" ELSE "now")
    /\ UNCHANGED <<options, m_wasPing, m_isStopped, delays, shown, sinceStart,
                   elapsed, owner, history>>

\* Mutant: the ping is noticed and the age not restarted.
KeepStart ==
    /\ Goes("start", "clear")
    /\ UNCHANGED <<options, m_wasPing, m_isStopped, delays, shown, sinceStart,
                   elapsed, owner, history>>

SampleStart ==
    /\ Goes("start", "clear")
    /\ sinceStart' = 0
    /\ UNCHANGED <<options, m_wasPing, m_isStopped, delays, shown, elapsed,
                   owner, history>>

\* The store to m_currentState, which only this thread uses, is the first
\* thing changeState does.
ClearPing ==
    /\ Goes("clear", "publish")
    /\ m_wasPing' = FALSE
    /\ m_currentState' = "ONLINE"
    /\ UNCHANGED <<options, m_isStopped, delays, m_state, sinceStart, elapsed,
                   owner, history>>

\* The rest of changeState: take m_changingMutex and call Device::changeState.
\* The loop goes on below the if after ONLINE, at its head after the switch.
Publish ==
    /\ Goes("publish", IF m_currentState = "ONLINE" THEN "now" ELSE "while")
    /\ ~MutexHeldByOwner
    /\ m_state' = m_currentState
    /\ UNCHANGED <<options, m_wasPing, m_isStopped, delays, m_currentState,
                   sinceStart, elapsed, owner, history>>

SampleNow ==
    /\ Goes("now", "switch")
    /\ elapsed' = sinceStart
    /\ UNCHANGED <<options, m_wasPing, m_isStopped, delays, shown, sinceStart,
                   owner, history>>

\* Mutant: no case for OUTDATED.
OverdueOnline == m_currentState = "ONLINE" /\ elapsed >= m_outdatedDelay

Overdue ==
    \/ m_currentState = "ONLINE" /\ elapsed >= m_outdatedDelay
    \/ m_currentState = "OUTDATED" /\ elapsed >= m_offlineDelay

\* Mutant: a device that is late is offline.
OfflineAtOnce(state) == "OFFLINE"

\* Mutant: the state after OUTDATED is the next one of the enumeration.
AgedPastTheEnd(state) == IF state = "ONLINE" THEN "OUTDATED" ELSE "MAX_STATES"

Aged(state) == IF state = "ONLINE" THEN "OUTDATED" ELSE "OFFLINE"

Switch ==
    /\ Goes("switch", IF Overdue THEN "publish" ELSE "while")
    /\ m_currentState' = IF Overdue THEN Aged(m_currentState)
                         ELSE m_currentState
    /\ UNCHANGED <<options, m_wasPing, m_isStopped, delays, m_state,
                   sinceStart, elapsed, owner, history>>

Timer == \/ While \/ IfWasPing \/ SampleStart \/ ClearPing \/ Publish
         \/ SampleNow \/ Switch

-----------------------------------------------------------------------------
Older(age) == IF age < Horizon THEN age + 1 ELSE age

Tick ==
    /\ sinceStart' = Older(sinceStart)
    /\ sincePing' = Older(sincePing)
    /\ sinceHeard' = Older(sinceHeard)
    /\ UNCHANGED <<options, m_wasPing, m_isStopped, delays, shown, pc, elapsed,
                   owner>>

Next == Owner \/ Timer \/ Tick

\* The system runs every thread that can run, and time passes.  Nobody has to
\* ping a device or to delete it.
Fairness ==
    /\ WF_vars(Timer)
    /\ WF_vars(Tick)
    /\ WF_vars(SetDelays \/ MoveDelays)
    /\ WF_vars(Join)

Spec == Init /\ [][Next]_vars /\ Fairness

-----------------------------------------------------------------------------
(***************************************************************************)
(* Properties.                                                             *)
(***************************************************************************)

\* The thread runs before the delays of the device are stored, and reads them
\* without the mutex that setDelays takes.  Yet it never reads a delay the
\* owner has not stored: whenever it is about to compare an age with one, the
\* construction is over and both delays are those of the options.
DelaysStoredBeforeUse ==
    pc = "switch" /\ m_currentState # "OFFLINE" =>
        /\ owner \notin Constructing
        /\ m_outdatedDelay = outdatedOpt /\ m_offlineDelay = offlineOpt

\* The status shown to clients never runs ahead of the silence: while no ping
\* waits for the thread, OUTDATED means that the last ping the thread could
\* tell apart is at least the outdated delay old, and OFFLINE the offline
\* delay.
StatusFollowsSilence ==
    ~m_wasPing /\ m_state = m_currentState =>
        /\ m_state = "OUTDATED" => sinceHeard >= outdatedOpt
        /\ m_state = "OFFLINE" => sinceHeard >= offlineOpt

\* The same for the last ping the server answered, whenever it arrived.  The
\* usage text of the options defines the delay as the time required for the
\* device information to be considered out of date.
OutdatedMeansSilence ==
    ~m_wasPing /\ m_state = m_currentState /\ m_state = "OUTDATED" =>
        sincePing >= outdatedOpt

\* The steps the thread is away from its end, once it is asked to stop.
Distance ==
    CASE pc = "if"     -> 8
      [] pc = "start"  -> 7
      [] pc = "clear"  -> 6
      [] pc = "now"    -> 4
      [] pc = "switch" -> 3
      [] pc = "while"  -> 1
      [] pc = "done"   -> 0
      [] pc = "publish" -> IF m_currentState = "ONLINE" THEN 5 ELSE 2

\* A destructor waits for at most one more pass of the loop, wherever stop()
\* meets it and whether or not a ping still waits: every step of the thread
\* brings it nearer to its end, and it never waits for the mutex of its owner.
StopIsBounded ==
    [][m_isStopped =>
          /\ pc' # pc => Distance' < Distance
          /\ ~MutexHeldByOwner]_vars

\* The timer implements DeviceStatus: the status visits ONLINE, OUTDATED and
\* OFFLINE in that order only, never turns ONLINE without a ping, shows every
\* ping sooner or later, and ages when pings stop.
PendingPing == m_wasPing \/ (pc = "publish" /\ m_currentState = "ONLINE")

DS == INSTANCE DeviceStatus WITH
          status <- m_state, pinged <- PendingPing, retired <- m_isStopped

ImplementsDeviceStatus == DS!Spec

\* A device that is pinged no more ends up OFFLINE and stays so, whatever the
\* delays and wherever the last ping hit the loop, unless it is destroyed.
SilenceEndsOffline ==
    <>[](~m_wasPing) => <>[](m_state = "OFFLINE" \/ m_isStopped)

\* Deleting a device terminates: the destructor's join is never left waiting
\* for a loop that does not see the stop flag or for a mutex.
DestructorReturns == owner = "join" ~> owner = "destroyed"

=============================================================================
