-------------------------- MODULE NetworkScheduler --------------------------
(***************************************************************************)
(* NetworkScheduler (NetworkViewer/core/src/NetworkScheduler.cpp): the     *)
(* round robin of the variables that the viewer reads over the bus.        *)
(*                                                                         *)
(* A scheduler is a record: the modules it serves, to whose configurations *)
(* it listens (variableAdded, variableRemoved); the list of the variables  *)
(* scheduled; the variables to whose signals it is connected               *)
(* (variableActivated, aboutToDestroy).  A repeated connection only calls  *)
(* the same idempotent slot again.                                         *)
(***************************************************************************)
EXTENDS Naturals, FiniteSets, Sequences, Functions

CONSTANTS
    Modules,        \* device ids
    Variables,      \* variable objects that may exist
    Schedulable     \* those in the memory of a module, not of a script

ASSUME SchedulableAssumption == Schedulable \subseteq Variables

Idle == [modules |-> {}, list |-> <<>>, connected |-> {}]

Schedulers == [modules: SUBSET Modules, list: Seq(Schedulable), connected: SUBSET Schedulable]

\* What a list keeps of its order: the k-th element kept is the one up to
\* which there are k.
Without(list, gone) ==
    LET kept    == {n \in DOMAIN list : list[n] \notin gone}
        Upto(n) == Cardinality({k \in kept : k <= n})
    IN  [k \in 1..Cardinality(kept) |-> list[CHOOSE n \in kept : Upto(n) = k]]

\* A mutant: memType is not tested.
AddAnyMutant(s, variables) ==
    LET new == Without(variables, Range(s.list))
    IN  [s EXCEPT !.list = @ \o new, !.connected = @ \cup Range(new)]

\* addScheduledVariable, for each of some variables, which all differ.
AddScheduled(s, variables) ==
    LET new == Without(variables, Range(s.list) \cup (Variables \ Schedulable))
    IN  [s EXCEPT !.list = @ \o new, !.connected = @ \cup Range(new)]

\* removeScheduledVariable as a slot: the connections stay.
RemoveScheduled(s, v) == [s EXCEPT !.list = Without(@, {v})]

\* addModule, with the configuration of the module
AddModule(s, m, configuration) ==
    IF m \in s.modules THEN s
    ELSE AddScheduled([s EXCEPT !.modules = @ \cup {m}], configuration)

\* removeModule, for some modules and their variables: only the variables in
\* the list are disconnected.
RemoveModules(s, gone, variables) ==
    [modules   |-> s.modules \ gone,
     list      |-> Without(s.list, variables),
     connected |-> s.connected \ (variables \cap Range(s.list))]

\* The configuration of m adds variables: addVariable emits variableAdded.
Added(s, m, configuration) ==
    IF m \in s.modules THEN AddScheduled(s, configuration) ELSE s

\* A mutant: the destruction of a variable is not listened to.
DeafRemovedMutant(s, m, variables) ==
    [s EXCEPT !.list = IF m \in s.modules THEN Without(@, variables) ELSE @,
              !.connected = @ \ variables]

\* It deletes variables: removeVariable emits variableRemoved, the destructor
\* aboutToDestroy.
Removed(s, m, variables) ==
    [s EXCEPT !.list = Without(@, {v \in variables : m \in s.modules \/ v \in s.connected}),
              !.connected = @ \ variables]

\* variableActivated
Activated(s, v, on) ==
    IF v \notin s.connected THEN s
    ELSE IF on THEN AddScheduled(s, <<v>>) ELSE RemoveScheduled(s, v)

\* schedulerUpdate takes the head of the list; an activated variable goes back
\* to its end.
Rotated(s, activated) ==
    LET v == Head(s.list)
    IN [s EXCEPT !.list = IF activated[v] THEN Append(Tail(@), v) ELSE Tail(@)]

=============================================================================
