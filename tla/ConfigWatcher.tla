----------------------------- MODULE ConfigWatcher ----------------------------
(***************************************************************************)
(* Hot-reloading of the configuration file.  A loop receives file events   *)
(* and debounces them with a timer; the timer that fires runs reload in a  *)
(* goroutine of its own, which reads the file, validates it, replaces the  *)
(* current configuration under the mutex and then, without it, calls the   *)
(* callbacks.  Nothing keeps two reloads apart, and nothing stops the      *)
(* timer or waits for a reload when the watcher stops.                     *)
(*                                                                         *)
(* Contents of the file are numbered in the order in which they are        *)
(* written; a content is valid or not.  There is one subscriber.  Errors   *)
(* of fsnotify, which are only logged, are left out, and so is the loss of *)
(* the watch when the file is replaced by another of its name.             *)
(***************************************************************************)
EXTENDS Naturals, FiniteSets

CONSTANTS
    MaxEdits,   \* bound of the model: writes to the file
    Invalid     \* the contents that do not parse or do not validate

Contents == 0..MaxEdits
Edits    == 1..MaxEdits

ASSUME EditsAssumption == MaxEdits \in Nat /\ Invalid \subseteq Edits

VARIABLES
    file,       \* the content of the file
    events,     \* file events that the loop has not received
    loop,       \* the goroutine of the loop
    stop,       \* the call of Stop: none, waiting for the loop, or returned
    armed,      \* debounceTimer is running
    reload,     \* the calls of reload, the n-th for the n-th firing of the timer
    fired,      \* firings of the timer
    current,    \* the configuration in memory, as the content it was read from
    told,       \* the configuration of the last call of the callback
    covered     \* history: the newest content that was in the file when it was read

vars == <<file, events, loop, stop, armed, reload, fired, current, told, covered>>

None == [at |-> "none"]
Reloads ==
    {None}
    \cup [at : {"reading", "rejected", "done"}]
    \cup [at : {"loaded", "calling"}, config : Contents \ Invalid]

TypeOK ==
    /\ file \in Contents
    /\ events \in 0..MaxEdits
    /\ loop \in {"running", "returned"}
    /\ stop \in {"none", "waiting", "returned"}
    /\ armed \in BOOLEAN
    /\ reload \in [Edits -> Reloads]
    /\ fired \in 0..MaxEdits
    /\ current \in Contents \ Invalid
    /\ told \in Contents \ Invalid
    /\ covered \in Contents

\* main has loaded the configuration, created the watcher and called its Start.
Init ==
    /\ file = 0
    /\ events = 0
    /\ loop = "running"
    /\ stop = "none"
    /\ armed = FALSE
    /\ reload = [n \in Edits |-> None]
    /\ fired = 0
    /\ current = 0
    /\ told = 0
    /\ covered = 0

-----------------------------------------------------------------------------

\* Somebody saves the file.
Edit ==
    /\ file < MaxEdits
    /\ file' = file + 1
    /\ events' = events + 1
    /\ UNCHANGED <<loop, stop, armed, reload, fired, current, told, covered>>

\* A variant that takes no notice of events while a reload is going on.
Receive_SkipsWhileBusy ==
    /\ loop = "running"
    /\ events > 0
    /\ events' = events - 1
    /\ armed' = (armed \/ \A n \in Edits : reload[n].at \in {"none", "rejected", "done"})
    /\ UNCHANGED <<file, loop, stop, reload, fired, current, told, covered>>

\* The loop receives an event, stops the timer if there is one, and starts it anew.
Receive ==
    /\ loop = "running"
    /\ events > 0
    /\ events' = events - 1
    /\ armed' = TRUE
    /\ UNCHANGED <<file, loop, stop, reload, fired, current, told, covered>>

\* The timer fires: go cw.reload().
Fire ==
    /\ armed
    /\ armed' = FALSE
    /\ fired' = fired + 1
    /\ reload' = [reload EXCEPT ![fired + 1] = [at |-> "reading"]]
    /\ UNCHANGED <<file, events, loop, stop, current, told, covered>>

\* Load reads and validates the file; a file that is not valid changes nothing.
Load(n) ==
    /\ reload[n].at = "reading"
    /\ covered' = IF file > covered THEN file ELSE covered
    /\ reload' = [reload EXCEPT ![n] =
                    IF file \in Invalid THEN [at |-> "rejected"]
                    ELSE [at |-> "loaded", config |-> file]]
    /\ UNCHANGED <<file, events, loop, stop, armed, fired, current, told>>

\* A variant that calls the callbacks, but keeps the configuration it had.
Publish_KeepsCurrent(n) ==
    /\ reload[n].at = "loaded"
    /\ reload' = [reload EXCEPT ![n].at = "calling"]
    /\ UNCHANGED <<file, events, loop, stop, armed, fired, current, told, covered>>

\* The critical section of reload.
Publish(n) ==
    /\ reload[n].at = "loaded"
    /\ current' = reload[n].config
    /\ reload' = [reload EXCEPT ![n].at = "calling"]
    /\ UNCHANGED <<file, events, loop, stop, armed, fired, told, covered>>

\* The callback, without the mutex.
Call(n) ==
    /\ reload[n].at = "calling"
    /\ told' = reload[n].config
    /\ reload' = [reload EXCEPT ![n] = [at |-> "done"]]
    /\ UNCHANGED <<file, events, loop, stop, armed, fired, current, covered>>

\* The context is cancelled, and the loop returns and closes doneCh.
Cancelled ==
    /\ loop = "running"
    /\ loop' = "returned"
    /\ UNCHANGED <<file, events, stop, armed, reload, fired, current, told, covered>>

\* Stop closes stopCh ...
Stop ==
    /\ stop = "none"
    /\ stop' = "waiting"
    /\ UNCHANGED <<file, events, loop, armed, reload, fired, current, told, covered>>

\* ... the loop returns ...
Stopped ==
    /\ loop = "running"
    /\ stop = "waiting"
    /\ loop' = "returned"
    /\ UNCHANGED <<file, events, stop, armed, reload, fired, current, told, covered>>

\* A variant that awaits an acknowledgement only the stopCh case would give.
StopReturns_AwaitsLoop ==
    /\ stop = "waiting"
    /\ loop = "running"
    /\ stop' = "returned"
    /\ loop' = "returned"
    /\ UNCHANGED <<file, events, armed, reload, fired, current, told, covered>>

\* ... and Stop, once doneCh is closed, closes the fsnotify watcher.
StopReturns ==
    /\ stop = "waiting"
    /\ loop = "returned"
    /\ stop' = "returned"
    /\ UNCHANGED <<file, events, loop, armed, reload, fired, current, told, covered>>

ReloadStep(n) == Load(n) \/ Publish(n) \/ Call(n)

Next ==
    \/ Edit \/ Receive \/ Fire
    \/ \E n \in Edits : Load(n) \/ Publish(n) \/ Call(n)
    \/ Cancelled \/ Stop \/ Stopped \/ StopReturns

\* The goroutines run and the timer fires; nobody has to edit the file or to stop
\* the watcher.
Fairness ==
    /\ WF_vars(Receive) /\ WF_vars(Fire) /\ WF_vars(Stopped) /\ WF_vars(StopReturns)
    /\ \A n \in Edits : WF_vars(ReloadStep(n))

Spec == Init /\ [][Next]_vars /\ Fairness

-----------------------------------------------------------------------------
(* Properties.                                                             *)

\* The reloads that have read the file and not called the callback yet.
InFlight == {n \in Edits : reload[n].at \in {"loaded", "calling"}}

Alive == loop = "running"

\* Debouncing loses no edit: after the last of a burst, whenever it falls between the
\* timer and the steps of earlier reloads, some reload reads the file as it is then
\* or as it is later.
EveryEditIsRead ==
    \A v \in Edits : file = v ~> (covered >= v \/ ~Alive)

\* As long as no reload overlaps another, the configuration in memory and the one
\* the subscriber was told settle on the content of the file, if that is valid.
SettlesUnlessOverlapping ==
    [](Alive /\ Cardinality(InFlight) <= 1)
        => <>[](file \notin Invalid => current = file /\ told = file)

\* Stop returns, whether the loop has been ended by the context or is to be ended
\* by Stop.
StopIsClean == stop = "waiting" ~> stop = "returned"

\* "When a file changes, it reloads and validates the configuration, updating the
\* in-memory state": in the end the state is that of a valid file.  A reload that was
\* overtaken by the next one writes its older configuration last.
Settles == []Alive => <>[](file \notin Invalid => current = file)

=============================================================================
