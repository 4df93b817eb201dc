---------------------------- MODULE RunTimeStats ----------------------------
(* The registry of execution times of SystemTaskManager.cpp: a static array of
   entries and a count, which RunTimeStats_End reads and writes without a lock
   at the end of the loop of every task.  The steps are the accesses to that
   shared data; between two of them the scheduler may run another task.

   An entry keeps its task name and, in place of the four numbers, the tasks
   whose durations have been added to them since they were zeroed. *)
EXTENDS Integers, FiniteSets

CONSTANTS
  Tasks,            \* the tasks that call RunTimeStats_End
  Prio,             \* their FreeRTOS priorities
  MAX_REGISTRIES,   \* length of the array
  NULL,             \* the name of an entry nobody has named (static storage)
  Builds            \* the compiler's choices, see Count

CountUses == {"search", "check", "name", "zero", "load"}

ASSUME StatsAssumption ==
  /\ IsFiniteSet(Tasks) /\ NULL \notin Tasks
  /\ Prio \in [Tasks -> Nat]
  /\ MAX_REGISTRIES \in Nat \ {0}
  /\ Builds \subseteq SUBSET CountUses

VARIABLES
  registries,              \* runtimeStatsRegistries, and the cell that follows it
  currentRegisteredStats,  \* the count
  build,                   \* the compiler's choice
  pc,                      \* where each task is in RunTimeStats_End
  i,                       \* its loop index, in the end the entry it found
  n                        \* the count it has in a register

vars == <<registries, currentRegisteredStats, build, pc, i, n>>

Slots == 0 .. MAX_REGISTRIES   \* the last one is the memory after the array
Unused == [taskName |-> NULL, from |-> {}]

Init ==
  /\ registries = [s \in Slots |-> Unused]
  /\ currentRegisteredStats = 0
  /\ build \in Builds
  /\ pc = [t \in Tasks |-> "outside"]
  /\ i = [t \in Tasks |-> 0]
  /\ n = [t \in Tasks |-> 0]

(* A fixed-priority scheduler: a task runs while no task of a higher priority
   can; tasks of equal priority share the processor by time slices.  Nothing
   in RunTimeStats_End blocks, so a task inside it is always ready. *)
Runs(t) == \A u \in Tasks : Prio[u] > Prio[t] => pc[u] = "outside"

(* The count is not volatile.  A build is the set of the uses at which it loads
   the count again: without optimisation all of them (Debug), with it none
   (Release), since nothing in between may change a static variable whose
   address is not taken.  A count that will be loaded again is not kept. *)
Count(t) == IF pc[t] \in build THEN currentRegisteredStats ELSE n[t]
Kept(label, count) == IF label \in build THEN 0 ELSE count

Goto(t, label, k, count) ==
  /\ pc' = [pc EXCEPT ![t] = label]
  /\ i' = [i EXCEPT ![t] = k]
  /\ n' = [n EXCEPT ![t] = count]
  /\ build' = build

Leave(t) == Goto(t, "outside", 0, 0)

Call(t) ==
  /\ pc[t] = "outside"
  /\ Goto(t, "search", 0, Kept("search", currentRegisteredStats))
  /\ UNCHANGED <<registries, currentRegisteredStats>>

\* Mutant: the search goes over the whole array and on.
MoreThanAll(t) == i[t] <= MAX_REGISTRIES

More(t) == i[t] < Count(t)

(* One iteration: an entry without a name equals no name. *)
Search(t) ==
  /\ pc[t] = "search"
  /\ More(t)
  /\ IF registries[i[t]].taskName = t
     THEN Goto(t, "update", i[t], 0)
     ELSE Goto(t, "search", i[t] + 1, Kept("search", Count(t)))
  /\ UNCHANGED <<registries, currentRegisteredStats>>

NotFound(t) ==
  /\ pc[t] = "search"
  /\ ~More(t)
  /\ Goto(t, "check", 0, Kept("check", Count(t)))
  /\ UNCHANGED <<registries, currentRegisteredStats>>

Check(t) ==
  /\ pc[t] = "check"
  /\ IF Count(t) < MAX_REGISTRIES
     THEN Goto(t, "name", 0, Kept("name", Count(t)))
     ELSE Leave(t)
  /\ UNCHANGED <<registries, currentRegisteredStats>>

SetName(t) ==
  /\ pc[t] = "name"
  /\ registries' = [registries EXCEPT ![Count(t)].taskName = t]
  /\ Goto(t, "zero", 0, Kept("zero", Count(t)))
  /\ UNCHANGED currentRegisteredStats

Zero(t) ==
  /\ pc[t] = "zero"
  /\ registries' = [registries EXCEPT ![Count(t)].from = {}]
  /\ Goto(t, "load", 0, Kept("load", Count(t)))
  /\ UNCHANGED currentRegisteredStats

(* currentTime = &registries[currentRegisteredStats++]: load, then store. *)
Load(t) ==
  /\ pc[t] = "load"
  /\ Goto(t, "store", 0, Count(t))
  /\ UNCHANGED <<registries, currentRegisteredStats>>

\* Mutants: the entry is not counted, or counted again where it is used.
SameCount(k) == k
CountedTwice(k) == k + 2

NextCount(k) == k + 1

Store(t) ==
  /\ pc[t] = "store"
  /\ currentRegisteredStats' = NextCount(n[t])
  /\ Goto(t, "update", n[t], 0)
  /\ UNCHANGED registries

Update(t) ==
  /\ pc[t] = "update"
  /\ registries' = [registries EXCEPT ![i[t]].from = @ \cup {t}]
  /\ Leave(t)
  /\ UNCHANGED currentRegisteredStats

End(t) ==
  Search(t) \/ NotFound(t) \/ Check(t) \/ SetName(t) \/ Zero(t) \/ Load(t)
            \/ Store(t) \/ Update(t)

Next == \E t \in Tasks : Runs(t) /\ (Call(t) \/ End(t))

Spec == Init /\ [][Next]_vars

(* Every task comes back to RunTimeStats_End.  A task of a higher priority
   interrupts, but the tasks sleep or wait between two calls: one of a lower
   priority is ready to run again and again, hence strong fairness. *)
FairSpec == Spec /\ \A t \in Tasks : SF_vars(Runs(t) /\ (Call(t) \/ End(t)))

-----------------------------------------------------------------------------
TypeOK ==
  /\ registries \in [Slots -> [taskName : Tasks \cup {NULL}, from : SUBSET Tasks]]
  /\ currentRegisteredStats \in Slots
  /\ build \in Builds
  /\ pc \in [Tasks -> {"outside", "store", "update"} \cup CountUses]
  /\ i \in [Tasks -> Slots]
  /\ n \in [Tasks -> Slots]

(* No task writes behind the end of runtimeStatsRegistries.  The bound check
   is one read of the count and the index of the writes another: what keeps
   the writes inside is the number of entries the racing tasks can ever take,
   not that check. *)
NoOverrun == registries[MAX_REGISTRIES].taskName = NULL

(* Every task ends up with an entry of its own that it keeps: registering at
   the same time as another task may cost it its entry, and the next call
   then makes a new one. *)
HasEntry(t) ==
  \E s \in 0 .. currentRegisteredStats - 1 : registries[s].taskName = t
EventuallyRegistered == \A t \in Tasks : <>[]HasEntry(t)
=============================================================================
