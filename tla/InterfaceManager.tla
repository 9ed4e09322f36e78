-------------------------- MODULE InterfaceManager --------------------------
(***************************************************************************)
(* NETVInterfaceManager (NetworkViewer/core/src/NETVInterfaceManager.cpp)  *)
(* with its scheduler: modules discovered by their alive answers, declared *)
(* inactive by the watchdog when they fall silent, removed by the user;    *)
(* their variables loaded, activated and requested in turn.                *)
(*                                                                         *)
(* Every handler runs in the GUI thread, so that each is one step.  Time   *)
(* is counted in the periods of the watchdog, one second, and QTime wraps  *)
(* around at midnight.                                                     *)
(***************************************************************************)
EXTENDS Integers, SequencesExt, NetworkScheduler

CONSTANTS
    Requestable,    \* schedulable variables with an offset in the table
    Day,            \* seconds of a day
    Timeout,        \* seconds of silence the watchdog tolerates
    MaxVariables,   \* bound on the variables of a configuration
    NoVariable

ASSUME ManagerAssumption ==
    /\ Requestable \subseteq Schedulable
    /\ Day \in Nat \ {0} /\ Timeout \in Nat /\ MaxVariables \in Nat
    /\ NoVariable \notin Variables

VARIABLES
    clock,      \* QTime::currentTime(), in seconds
    known,      \* device ids of m_modules
    active,     \* modules with m_active
    heard,      \* m_lastUpdateTime of each module
    conf,       \* m_variables of each module's configuration
    activated,  \* m_activated of each variable
    sched,      \* the scheduler
    asked,      \* the variable whose request the last step pushed
    silence     \* seconds since each module answered, at most Timeout + 1

vars == <<clock, known, active, heard, conf, activated, sched, asked, silence>>

times == <<clock, heard, silence>>

Times == 0..Day-1

Init ==
    /\ clock \in Times
    /\ known = {} /\ active = {}
    /\ heard = [m \in Modules |-> 0]
    /\ conf = [m \in Modules |-> <<>>]
    /\ activated = [v \in Variables |-> TRUE]
    /\ sched = Idle
    /\ asked = NoVariable
    /\ silence = [m \in Modules |-> 0]

VariablesOf(gone) == UNION {Range(conf[m]) : m \in gone}

\* What loading a file can give module m: new variables, activated, maybe at
\* the addresses of those it deletes.
Loadable(m) ==
    LET free == Variables \ VariablesOf(Modules \ {m})
    IN {s \in BoundedSeq(free, MaxVariables) : IsInjective(s)}

-----------------------------------------------------------------------------
(* Messages and timers.                                                     *)
\* A mutant: setUpdateTime is not called.
ForgetTimeMutant(m) == silence' = [silence EXCEPT ![m] = 0] /\ UNCHANGED <<clock, heard>>

\* setUpdateTime, and the constructor of a module
Hear(m) ==
    /\ heard' = [heard EXCEPT ![m] = clock]
    /\ silence' = [silence EXCEPT ![m] = 0]
    /\ UNCHANGED clock

\* processCANMessage, alive answer of a module in m_modules.
Refresh(m) ==
    /\ m \in known
    /\ Hear(m)
    /\ active' = active \cup {m}
    /\ sched' = IF m \in active THEN sched ELSE AddModule(sched, m, conf[m])
    /\ asked' = NoVariable
    /\ UNCHANGED <<known, conf, activated>>

\* The same of another one: addModule, with the variables of the one matching
\* configuration file, if any.
Discover(m) ==
    /\ m \notin known
    /\ Hear(m)
    /\ known' = known \cup {m}
    /\ active' = active \cup {m}
    /\ \E s \in Loadable(m) :
          /\ conf' = [conf EXCEPT ![m] = s]
          /\ sched' = AddModule(sched, m, s)
    /\ asked' = NoVariable
    /\ UNCHANGED activated

\* watchdogTimeout.  QTime::secsTo is the difference of two times of one day.
SwappedMutant(from, to) == from - to
SecsTo(from, to) == to - from

Elapsed == [m \in Modules |-> IF silence[m] > Timeout THEN silence[m] ELSE silence[m] + 1]

\* A mutant: the module deactivated stays with the scheduler.
KeptMutant(gone) == sched' = [sched EXCEPT !.list = Without(@, VariablesOf(gone))]

Unscheduled(gone) == sched' = RemoveModules(sched, gone, VariablesOf(gone))

WatchdogTimeout ==
    /\ clock' = (clock + 1) % Day
    /\ silence' = Elapsed
    /\ LET silent == {m \in known : SecsTo(heard[m], clock') > Timeout}
       IN active' = active \ silent /\ Unscheduled(silent)
    /\ asked' = NoVariable
    /\ UNCHANGED <<known, heard, conf, activated>>

\* A mutant: the variable goes back to the front.
FrontMutant(s, a) == IF a[Head(s.list)] THEN s ELSE Rotated(s, a)

\* schedulerUpdate; requestVariable asks active modules only.
Turned(s, a) == Rotated(s, a)

SchedulerUpdate ==
    /\ sched.list # <<>>
    /\ sched' = Turned(sched, activated)
    /\ LET v == Head(sched.list)
       IN asked' = IF activated[v] /\ v \in Requestable /\ v \in VariablesOf(active)
                   THEN v ELSE NoVariable
    /\ UNCHANGED <<times, known, active, conf, activated>>

-----------------------------------------------------------------------------
(* The user.                                                                *)
\* removeModule; also called for every module by the destructor.
RemoveModule(m) ==
    /\ m \in known
    /\ known' = known \ {m}
    /\ active' = active \ {m}
    /\ sched' = Removed(RemoveModules(sched, {m}, Range(conf[m])), m, Range(conf[m]))
    /\ activated' = [v \in Variables |-> activated[v] \/ v \in Range(conf[m])]
    /\ conf' = [conf EXCEPT ![m] = <<>>]
    /\ heard' = [heard EXCEPT ![m] = 0]
    /\ silence' = [silence EXCEPT ![m] = 0]
    /\ asked' = NoVariable
    /\ UNCHANGED clock

\* loadConfiguration; a file that cannot be parsed leaves no variable.
LoadConfiguration(m) ==
    /\ m \in known
    /\ \E s \in Loadable(m) :
          /\ conf' = [conf EXCEPT ![m] = s]
          /\ sched' = Added(Removed(sched, m, Range(conf[m])), m, s)
    /\ activated' = [v \in Variables |-> activated[v] \/ v \in Range(conf[m])]
    /\ asked' = NoVariable
    /\ UNCHANGED <<times, known, active>>

\* newVariableClicked, createScriptVariable
AddVariable(m) ==
    /\ m \in known /\ Len(conf[m]) < MaxVariables
    /\ \E v \in Variables \ VariablesOf(Modules) :
          /\ conf' = [conf EXCEPT ![m] = Append(@, v)]
          /\ sched' = Added(sched, m, <<v>>)
    /\ asked' = NoVariable
    /\ UNCHANGED <<times, known, active, activated>>

\* setActivated, from the table of the module's window or its buttons.
SetActivated(v) ==
    /\ v \in VariablesOf(known)
    /\ activated' = [activated EXCEPT ![v] = ~@]
    /\ sched' = Activated(sched, v, ~activated[v])
    /\ asked' = NoVariable
    /\ UNCHANGED <<times, known, active, conf>>

Next ==
    \/ WatchdogTimeout
    \/ SchedulerUpdate
    \/ \E m \in Modules :
          Refresh(m) \/ Discover(m) \/ RemoveModule(m) \/ LoadConfiguration(m) \/ AddVariable(m)
    \/ \E v \in Variables : SetActivated(v)

Spec == Init /\ [][Next]_vars

\* The timers of the GUI thread go on.
FairSpec == Spec /\ WF_vars(WatchdogTimeout) /\ WF_vars(SchedulerUpdate)

-----------------------------------------------------------------------------
(* Type correctness: the clock stays within a day, the scheduler only knows *)
(* variables of modules.                                                    *)
TypeOK ==
    /\ clock \in Times
    /\ known \subseteq Modules /\ active \subseteq known
    /\ heard \in [Modules -> Times]
    /\ \A m \in Modules : conf[m] \in Seq(Variables) /\ Len(conf[m]) <= MaxVariables
    /\ activated \in [Variables -> BOOLEAN]
    /\ sched \in Schedulers
    /\ asked \in Requestable \cup {NoVariable}
    /\ silence \in [Modules -> 0..Timeout+1]

(* A variable in the round robin is scheduled once and belongs to a module  *)
(* the manager knows: requestVariable asserts that getModule finds it, and  *)
(* a deleted variable would be a dangling pointer.                          *)
ScheduledIsOwned ==
    IsInjective(sched.list) /\ Range(sched.list) \subseteq VariablesOf(known)

(* Every activated variable of an active module is in the round robin,      *)
(* whatever was loaded, switched on and off, or reactivated before.         *)
ActiveIsScheduled ==
    \A v \in VariablesOf(active) \cap Schedulable :
        activated[v] => v \in Range(sched.list)

(* The watchdog only declares inactive a module that has been silent for    *)
(* more than Timeout seconds, at midnight too.                              *)
OnlySilentDeactivated ==
    [][\A m \in active \ active' : m \in known' => silence'[m] > Timeout]_vars

(* A module whose last answer came more than Timeout seconds before         *)
(* midnight is inactive once it has been silent for longer.                 *)
DetectedWithinDay ==
    \A m \in known :
        silence[m] > Timeout /\ heard[m] + Timeout + 1 < Day => m \notin active

(* The round robin starves nobody: a variable that stays activated in an    *)
(* active module is requested again and again, unless configurations are    *)
(* reloaded for ever (which puts their variables at the end of the list).   *)
NoneStarves ==
    <>[][\A m \in Modules : ~LoadConfiguration(m)]_vars =>
        \A v \in Requestable :
            <>[](v \in VariablesOf(active) /\ activated[v]) => []<>(asked = v)

(* "TRUE if the module is active on the bus" (NetworkModule.h:144): a       *)
(* module that is active for ever goes on answering.                        *)
ActiveAnswers ==
    \A m \in Modules : <>[](m \in active) => []<><<Refresh(m)>>_vars

=============================================================================
