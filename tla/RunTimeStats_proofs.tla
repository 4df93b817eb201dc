------------------------- MODULE RunTimeStats_proofs -------------------------
(* The registry of execution times stays inside its array, whatever the tasks,
   their priorities and the length of the array, in every build that does not
   load the count again between the bound check and the increment: Release, and
   any build that optimises these accesses.  With such a build the entry a task
   writes is the one it checked, so the check is enough by itself.

   Debug loads the count again for every write, and the check then protects
   nothing (see NoOverrun): what TLC shows of it depends on how many tasks race,
   and has no proof here. *)
EXTENDS RunTimeStats, TLAPS

\* The count that was checked is the one that is used.
CheckedIsUsed == build \cap {"name", "zero", "load"} = {}

\* From the check on, a task holds the index of an entry of the array.
HoldsAnEntry ==
  \A t \in Tasks : pc[t] \in {"name", "zero", "load", "store"} => n[t] < MAX_REGISTRIES

StatsInv == CheckedIsUsed => TypeOK /\ HoldsAnEntry /\ NoOverrun

LEMMA StatsInit == Init => StatsInv
BY StatsAssumption
   DEF Init, StatsInv, TypeOK, HoldsAnEntry, NoOverrun, Slots, Unused, CountUses

(* Whatever it was loaded at, a count is one of the array's lengths, and past
   the check it is less than the array's. *)
LEMMA CountBounds ==
  ASSUME TypeOK, NEW t \in Tasks
  PROVE  Count(t) \in 0 .. MAX_REGISTRIES
BY DEF TypeOK, Count, Slots

LEMMA CountHeld ==
  ASSUME CheckedIsUsed, HoldsAnEntry, NEW t \in Tasks, pc[t] \in {"name", "zero", "load"}
  PROVE  Count(t) = n[t] /\ Count(t) < MAX_REGISTRIES
BY DEF CheckedIsUsed, HoldsAnEntry, Count

LEMMA KeptBounds ==
  ASSUME NEW label, NEW k \in 0 .. MAX_REGISTRIES
  PROVE  Kept(label, k) \in 0 .. MAX_REGISTRIES /\ Kept(label, k) <= k
BY StatsAssumption DEF Kept

(* A step of t to label keeps the invariants of the three local variables. *)
LEMMA GotoKeeps ==
  ASSUME TypeOK, HoldsAnEntry, NEW t \in Tasks,
         NEW label \in {"outside", "store", "update"} \cup CountUses,
         NEW k \in Slots, NEW count \in Slots, Goto(t, label, k, count),
         label \in {"name", "zero", "load", "store"} => count < MAX_REGISTRIES
  PROVE  /\ build' \in Builds
         /\ pc' \in [Tasks -> {"outside", "store", "update"} \cup CountUses]
         /\ i' \in [Tasks -> Slots]
         /\ n' \in [Tasks -> Slots]
         /\ HoldsAnEntry'
         /\ build' = build
BY DEF TypeOK, HoldsAnEntry, Goto

LEMMA StatsStep ==
  ASSUME StatsInv, [Next]_vars
  PROVE  StatsInv'
<1>1. SUFFICES ASSUME CheckedIsUsed' PROVE (TypeOK /\ HoldsAnEntry /\ NoOverrun)'
  BY DEF StatsInv
<1>2. build' = build
  BY DEF Next, vars, Call, End, Search, NotFound, Check, SetName, Zero, Load, Store,
         Update, Goto, Leave
<1>3. CheckedIsUsed /\ TypeOK /\ HoldsAnEntry /\ NoOverrun
  BY <1>1, <1>2 DEF StatsInv, CheckedIsUsed
<1>4. MAX_REGISTRIES \in Nat \ {0}
  BY StatsAssumption
<1>5. CASE UNCHANGED vars
  BY <1>3, <1>5 DEF vars, TypeOK, HoldsAnEntry, NoOverrun
<1>6. ASSUME NEW t \in Tasks, Call(t) \/ End(t)
      PROVE  (TypeOK /\ HoldsAnEntry /\ NoOverrun)'
  <2>0. /\ Count(t) \in 0 .. MAX_REGISTRIES
        /\ i[t] \in Slots /\ n[t] \in Slots /\ currentRegisteredStats \in Slots
        /\ Slots = 0 .. MAX_REGISTRIES
    BY <1>3, <1>6, CountBounds DEF TypeOK, Slots
  <2>1. CASE Call(t)
    <3>1. Kept("search", currentRegisteredStats) \in Slots
      BY <2>0, KeptBounds
    <3>2. 0 \in Slots /\ "search" \in CountUses
      BY <1>4, <2>0 DEF CountUses
    <3>3. QED  BY <1>3, <2>1, <3>1, <3>2, GotoKeeps DEF Call, TypeOK, NoOverrun
  <2>2. CASE Search(t)
    <3>1. i[t] + 1 \in Slots
      BY <2>0, <2>2, <1>4 DEF Search, More
    <3>2. Kept("search", Count(t)) \in Slots
      BY <2>0, KeptBounds
    <3>3. 0 \in Slots /\ "search" \in CountUses
      BY <1>4, <2>0 DEF CountUses
    <3>4. CASE registries[i[t]].taskName = t
      BY <1>3, <2>0, <2>2, <3>3, <3>4, GotoKeeps DEF Search, TypeOK, NoOverrun
    <3>5. CASE registries[i[t]].taskName # t
      BY <1>3, <2>0, <2>2, <3>1, <3>2, <3>3, <3>5, GotoKeeps DEF Search, TypeOK, NoOverrun
    <3>6. QED  BY <3>4, <3>5
  <2>3. CASE NotFound(t)
    <3>1. Kept("check", Count(t)) \in Slots
      BY <2>0, KeptBounds
    <3>2. 0 \in Slots /\ "check" \in CountUses
      BY <1>4, <2>0 DEF CountUses
    <3>3. QED  BY <1>3, <2>3, <3>1, <3>2, GotoKeeps DEF NotFound, TypeOK, NoOverrun
  <2>4. CASE Check(t)
    <3>1. 0 \in Slots /\ "name" \in CountUses
      BY <1>4, <2>0 DEF CountUses
    <3>2. CASE Count(t) < MAX_REGISTRIES
      <4>1. Kept("name", Count(t)) \in Slots /\ Kept("name", Count(t)) <= Count(t)
        BY <2>0, KeptBounds
      <4>2. Kept("name", Count(t)) < MAX_REGISTRIES
        BY <1>4, <2>0, <3>2, <4>1
      <4>3. QED  BY <1>3, <2>4, <3>1, <3>2, <4>1, <4>2, GotoKeeps DEF Check, TypeOK, NoOverrun
    <3>3. CASE ~(Count(t) < MAX_REGISTRIES)
      BY <1>3, <2>4, <3>1, <3>3, GotoKeeps DEF Check, Leave, TypeOK, NoOverrun
    <3>4. QED  BY <3>2, <3>3
  <2>5. CASE SetName(t)
    <3>1. Count(t) = n[t] /\ Count(t) < MAX_REGISTRIES
      BY <1>3, <2>5, CountHeld DEF SetName
    <3>2. Kept("zero", Count(t)) \in Slots /\ Kept("zero", Count(t)) < MAX_REGISTRIES
      BY <1>4, <2>0, <3>1, KeptBounds
    <3>3. 0 \in Slots /\ "zero" \in CountUses
      BY <1>4, <2>0 DEF CountUses
    <3>4. registries' \in [Slots -> [taskName : Tasks \cup {NULL}, from : SUBSET Tasks]]
      BY <1>3, <2>0, <2>5 DEF SetName, TypeOK
    <3>5. NoOverrun'
      BY <1>3, <1>4, <2>0, <2>5, <3>1 DEF SetName, TypeOK, NoOverrun
    <3>6. QED  BY <1>3, <2>5, <3>2, <3>3, <3>4, <3>5, GotoKeeps DEF SetName, TypeOK
  <2>6. CASE Zero(t)
    <3>1. Count(t) = n[t] /\ Count(t) < MAX_REGISTRIES
      BY <1>3, <2>6, CountHeld DEF Zero
    <3>2. Kept("load", Count(t)) \in Slots /\ Kept("load", Count(t)) < MAX_REGISTRIES
      BY <1>4, <2>0, <3>1, KeptBounds
    <3>3. 0 \in Slots /\ "load" \in CountUses
      BY <1>4, <2>0 DEF CountUses
    <3>4. registries' \in [Slots -> [taskName : Tasks \cup {NULL}, from : SUBSET Tasks]]
      BY <1>3, <2>0, <2>6 DEF Zero, TypeOK
    <3>5. NoOverrun'
      BY <1>3, <1>4, <2>0, <2>6, <3>1 DEF Zero, TypeOK, NoOverrun
    <3>6. QED  BY <1>3, <2>6, <3>2, <3>3, <3>4, <3>5, GotoKeeps DEF Zero, TypeOK
  <2>7. CASE Load(t)
    <3>1. Count(t) = n[t] /\ Count(t) < MAX_REGISTRIES
      BY <1>3, <2>7, CountHeld DEF Load
    <3>2. 0 \in Slots
      BY <1>4, <2>0
    <3>3. QED  BY <1>3, <2>0, <2>7, <3>1, <3>2, GotoKeeps DEF Load, TypeOK, NoOverrun
  <2>8. CASE Store(t)
    <3>1. n[t] < MAX_REGISTRIES
      BY <1>3, <2>8 DEF Store, HoldsAnEntry
    <3>2. n[t] + 1 \in Slots /\ 0 \in Slots
      BY <1>4, <2>0, <3>1
    <3>3. QED  BY <1>3, <2>0, <2>8, <3>2, GotoKeeps DEF Store, NextCount, TypeOK, NoOverrun
  <2>9. CASE Update(t)
    <3>1. 0 \in Slots
      BY <1>4, <2>0
    <3>2. registries' \in [Slots -> [taskName : Tasks \cup {NULL}, from : SUBSET Tasks]]
      BY <1>3, <2>0, <2>9 DEF Update, TypeOK
    <3>3. NoOverrun'
      BY <1>3, <1>4, <2>0, <2>9 DEF Update, TypeOK, NoOverrun
    <3>4. QED  BY <1>3, <2>9, <3>1, <3>2, <3>3, GotoKeeps DEF Update, Leave, TypeOK
  <2>10. QED
    BY <1>6, <2>1, <2>2, <2>3, <2>4, <2>5, <2>6, <2>7, <2>8, <2>9 DEF End
<1>7. QED  BY <1>5, <1>6 DEF Next

LEMMA StatsAlways == Spec => []StatsInv
<1>1. Init => StatsInv
  BY StatsInit
<1>2. StatsInv /\ [Next]_vars => StatsInv'
  BY StatsStep
<1>3. QED  BY <1>1, <1>2, PTL DEF Spec

(* In a build that uses the count it checked, no task writes behind the end of
   runtimeStatsRegistries. *)
THEOREM CheckedCountStaysInside == Spec => [](CheckedIsUsed => NoOverrun)
<1>1. StatsInv => (CheckedIsUsed => NoOverrun)
  BY DEF StatsInv
<1>2. QED  BY <1>1, StatsAlways, PTL

(* Nor does the count in such a build exceed the array's length, or a task hold
   an index beyond it. *)
THEOREM CheckedCountTypes == Spec => [](CheckedIsUsed => TypeOK)
<1>1. StatsInv => (CheckedIsUsed => TypeOK)
  BY DEF StatsInv
<1>2. QED  BY <1>1, StatsAlways, PTL
=============================================================================
