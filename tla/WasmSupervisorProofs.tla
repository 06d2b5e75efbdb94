------------------------ MODULE WasmSupervisorProofs ------------------------
(***************************************************************************)
(* Safety of the WASM plugin supervisor for any number of callers, crashes *)
(* and reload tasks.  MaxCrashes only guards Trap and Timeout; no proof    *)
(* below uses it, so the results hold without the bound.                   *)
(***************************************************************************)
EXTENDS WasmSupervisor, SequenceTheorems, FiniteSetTheorems, TLAPS

USE DEF Actors, None

(* Handlers whose timestamp is pushed and whose crash is not in the stats yet. *)
Counting == {a \in Actors : pc[a] = "count"}
Pushed == crashCount + Cardinality(Counting)

Budget ==
  /\ IsFiniteSet(Counting)
  /\ window <= Pushed
  /\ failed => Pushed > MaxReloads

-----------------------------------------------------------------------------
(* Every variable of the supervisor keeps its type in every step of the
   calls, the crash handlers and the reload tasks. *)
THEOREM TypeCorrect == Spec => []TypeOK
<1>1. Init => TypeOK
  <2> SUFFICES ASSUME Init PROVE TypeOK
    OBVIOUS
  <2>1. pc \in [Actors -> PCs] /\ using \in [Actors -> Nat]
    BY DEF Init, PCs
  <2>2. task \in Seq(TaskStates)
    BY EmptySeq DEF Init
  <2> QED
    BY <2>1, <2>2 DEF Init, TypeOK
<1>2. TypeOK /\ [Next]_vars => TypeOK'
  <2> SUFFICES ASSUME TypeOK, [Next]_vars PROVE TypeOK'
    OBVIOUS
  <2> USE DEF TypeOK, PCs, TaskStates, Goto, LeaveCrash, crashVars, callVars
  <2>1. ASSUME NEW c \in Callers, BeginVerb(c) PROVE TypeOK'
    BY <2>1 DEF BeginVerb
  <2>2. ASSUME NEW a \in Actors, CallStep(a) PROVE TypeOK'
    <3>1. CASE FindReloading(a)  BY <3>1 DEF FindReloading
    <3>2. CASE Run(a)            BY <3>2 DEF Run
    <3>3. CASE Return(a)         BY <3>3 DEF Return
    <3>4. CASE Trap(a)           BY <3>4 DEF Trap
    <3>5. CASE Timeout(a)        BY <3>5 DEF Timeout
    <3>6. CASE RecordTimeout(a)  BY <3>6 DEF RecordTimeout
    <3> QED BY <2>2, <3>1, <3>2, <3>3, <3>4, <3>5, <3>6 DEF CallStep
  <2>3. ASSUME NEW a \in Actors, CrashStep(a) PROVE TypeOK'
    <3>1. CASE EnterCrash(a)     BY <3>1 DEF EnterCrash
    <3>2. CASE PushCrash(a)
      <4>1. window' \in Nat
        BY <3>2 DEF PushCrash
      <4>2. /\ pc' \in [Actors -> PCs]
            /\ UNCHANGED <<phase, using, lock, inst, crashCount, permanent, failed,
                           reloadCount, alive, cooling, task, statsLock, broken>>
        BY <3>2 DEF PushCrash
      <4> QED BY <4>1, <4>2
    <3>3. CASE CountCrash(a)
      <4>1. crashCount' \in Nat /\ pc' \in [Actors -> PCs]
        BY <3>3 DEF CountCrash
      <4>2. /\ alive' = FALSE
            /\ UNCHANGED <<phase, using, lock, inst, window, permanent, failed,
                           reloadCount, cooling, task, statsLock, broken>>
        BY <3>3 DEF CountCrash
      <4> QED BY <4>1, <4>2
    <3>4. CASE DropInstance(a)   BY <3>4 DEF DropInstance
    <3>5. CASE GiveUp(a)         BY <3>5 DEF GiveUp
    <3>6. CASE RecordFailure(a)  BY <3>6 DEF RecordFailure
    <3>7. CASE ScheduleReload(a) BY <3>7 DEF ScheduleReload
    <3> QED BY <2>3, <3>1, <3>2, <3>3, <3>4, <3>5, <3>6, <3>7 DEF CrashStep
  <2>4. ASSUME NEW t \in DOMAIN task, ReloadStep(t) PROVE TypeOK'
    <3>0. t \in Nat  BY <2>4
    <3>1. CASE LoadAnswers(t)     BY <3>1 DEF LoadAnswers
    <3>2. CASE AnnounceReload(t)  BY <3>0, <3>2 DEF AnnounceReload
    <3>3. CASE InstallInstance(t) BY <3>0, <3>3 DEF InstallInstance
    <3> QED BY <2>4, <3>1, <3>2, <3>3 DEF ReloadStep
  <2>5. CASE CooldownElapses
    BY <2>5 DEF CooldownElapses
  <2>6. CASE UNCHANGED vars
    BY <2>6 DEF vars
  <2> QED
    BY <2>1, <2>2, <2>3, <2>4, <2>5, <2>6 DEF Next
<1> QED
  BY <1>1, <1>2, PTL DEF Spec

-----------------------------------------------------------------------------
(* Where the instances a call crashed on come from: each was loaded first or
   installed by a reload of its own number, so a reload never brings one back. *)
Loaded == {1} \cup {t + 1 : t \in {u \in DOMAIN task : task[u] = "installed"}}

OnItsWayOut ==
  /\ inst # None => inst \in Loaded
  /\ broken \subseteq Loaded
  /\ \A a \in Actors : pc[a] = "running" => using[a] \in Loaded
  /\ BrokenInstanceIsLeaving

(* A step that keeps the slot, the broken instances and the reloads, and takes
   no actor out of the crash handlers before the slot is empty. *)
LEMMA NobodyTurnsBack ==
  ASSUME TypeOK, OnItsWayOut, NEW a \in Actors, NEW l \in PCs, Goto(a, l),
         UNCHANGED <<inst, task, broken>>, failed => failed',
         l = "running" => using'[a] \in Loaded,
         \A b \in Actors : b # a => using'[b] = using[b],
         \/ pc[a] \notin {"crash", "account", "count", "drop"}
         \/ l \in {"crash", "account", "count", "drop"}
         \/ failed'
  PROVE  OnItsWayOut'
<1>1. Loaded' = Loaded
  BY DEF Loaded
<1>2. BrokenInstanceIsLeaving'
  BY DEF BrokenInstanceIsLeaving, OnItsWayOut, Goto, TypeOK
<1>3. \A b \in Actors : pc'[b] = "running" => using'[b] \in Loaded
  BY DEF OnItsWayOut, Goto, TypeOK
<1> QED BY <1>1, <1>2, <1>3 DEF OnItsWayOut

(* However calls, handlers and reloads overlap, an instance some call crashed
   on stays in the slot only while a handler that will empty it is on its way,
   and a reload never brings it back. *)
THEOREM BrokenInstancesLeave == Spec => []BrokenInstanceIsLeaving
<1>1. Init => OnItsWayOut
  BY DEF Init, OnItsWayOut, Loaded, BrokenInstanceIsLeaving
<1>2. TypeOK /\ OnItsWayOut /\ [Next]_vars => OnItsWayOut'
  <2> SUFFICES ASSUME TypeOK, OnItsWayOut, [Next]_vars PROVE OnItsWayOut'
    OBVIOUS
  <2>1. ASSUME NEW c \in Callers, BeginVerb(c) PROVE OnItsWayOut'
    <3>1. /\ c \in Actors /\ pc[c] = "idle" /\ Goto(c, "queued")
          /\ UNCHANGED <<inst, task, broken, failed, using>>
      BY <2>1 DEF BeginVerb, crashVars
    <3> QED BY <3>1, NobodyTurnsBack DEF PCs
  <2>2. ASSUME NEW a \in Actors, FindReloading(a) \/ Return(a) \/ RecordTimeout(a)
        PROVE  OnItsWayOut'
    <3>1. /\ pc[a] \in {"queued", "running", "timedout"} /\ Goto(a, "idle")
          /\ UNCHANGED <<inst, task, broken, failed, using>>
      BY <2>2 DEF FindReloading, Return, RecordTimeout, crashVars
    <3> QED BY <3>1, NobodyTurnsBack DEF PCs
  <2>3. ASSUME NEW a \in Actors, Run(a) PROVE OnItsWayOut'
    <3>1. /\ pc[a] = "queued" /\ Goto(a, "running") /\ inst \in Loaded
          /\ using' = [using EXCEPT ![a] = inst]
          /\ UNCHANGED <<inst, task, broken, failed>>
      BY <2>3 DEF Run, crashVars, OnItsWayOut
    <3> QED BY <3>1, NobodyTurnsBack DEF PCs, TypeOK
  <2>4. ASSUME NEW a \in Actors, Trap(a) \/ Timeout(a) PROVE OnItsWayOut'
    <3>1. /\ pc[a] = "running"
          /\ \/ Goto(a, "crash") /\ broken' = broken \cup {using[a]}
             \/ Goto(a, "timedout") /\ broken' = broken
          /\ UNCHANGED <<inst, task, failed, using>>
      BY <2>4 DEF Trap, Timeout, crashVars
    <3>2. CASE Goto(a, "timedout") /\ broken' = broken
      BY <3>1, <3>2, NobodyTurnsBack DEF PCs
    <3>3. CASE Goto(a, "crash") /\ broken' = broken \cup {using[a]}
      <4>1. Loaded' = Loaded /\ broken' \subseteq Loaded
        BY <3>1, <3>3 DEF Loaded, OnItsWayOut
      <4>2. pc'[a] = "crash" /\ \A b \in Actors : pc'[b] = "running" => pc[b] = "running"
        BY <3>3 DEF Goto, TypeOK
      <4> QED BY <3>1, <4>1, <4>2 DEF OnItsWayOut, BrokenInstanceIsLeaving
    <3> QED BY <3>1, <3>2, <3>3
  <2>5. ASSUME NEW a \in Actors, EnterCrash(a) \/ PushCrash(a) \/ CountCrash(a)
        PROVE  OnItsWayOut'
    <3>1. /\ \/ Goto(a, "account") \/ Goto(a, "count") \/ Goto(a, "drop")
             \/ Goto(a, "idle") /\ failed
          /\ UNCHANGED <<inst, task, broken, failed, using>>
      BY <2>5 DEF EnterCrash, PushCrash, CountCrash, LeaveCrash, crashVars
    <3> QED BY <3>1, NobodyTurnsBack DEF PCs
  <2>6. ASSUME NEW a \in Actors, DropInstance(a) PROVE OnItsWayOut'
    <3>1. /\ Goto(a, "decide") /\ inst' = None
          /\ UNCHANGED <<task, broken, failed, using>>
      BY <2>6 DEF DropInstance, crashVars
    <3>2. Loaded' = Loaded /\ inst' \notin Loaded
      BY <3>1 DEF Loaded, TypeOK
    <3>3. \A b \in Actors : pc'[b] = "running" => pc[b] = "running"
      BY <3>1 DEF Goto, TypeOK
    <3> QED BY <3>1, <3>2, <3>3 DEF OnItsWayOut, BrokenInstanceIsLeaving
  <2>7. ASSUME NEW a \in Actors, GiveUp(a) \/ RecordFailure(a) PROVE OnItsWayOut'
    <3>1. /\ pc[a] \in {"decide", "record"} /\ (Goto(a, "record") \/ Goto(a, "idle"))
          /\ failed => failed'
          /\ UNCHANGED <<inst, task, broken, using>>
      BY <2>7 DEF GiveUp, RecordFailure, LeaveCrash
    <3> QED BY <3>1, NobodyTurnsBack DEF PCs
  <2>8. ASSUME NEW a \in Actors, ScheduleReload(a) PROVE OnItsWayOut'
    <3>1. /\ pc[a] = "decide" /\ Goto(a, "idle") /\ task' = Append(task, "sleep")
          /\ UNCHANGED <<inst, broken, failed, using>>
      BY <2>8 DEF ScheduleReload, LeaveCrash, crashVars
    <3>2. /\ DOMAIN task' = DOMAIN task \cup {Len(task) + 1}
          /\ task'[Len(task) + 1] = "sleep"
          /\ \A i \in DOMAIN task : task'[i] = task[i]
      BY <3>1, AppendProperties DEF TypeOK, TaskStates
    <3>3. Loaded' = Loaded
      BY <3>2 DEF Loaded
    <3>4. /\ \A b \in Actors : pc'[b] = "running" => pc[b] = "running"
          /\ \A b \in Actors : pc[b] \in {"crash", "account", "count", "drop"} => pc'[b] = pc[b]
      BY <3>1 DEF Goto, TypeOK
    <3> QED BY <3>1, <3>3, <3>4 DEF OnItsWayOut, BrokenInstanceIsLeaving
  <2>9. ASSUME NEW t \in DOMAIN task, LoadAnswers(t) \/ AnnounceReload(t) PROVE OnItsWayOut'
    <3>1. /\ task[t] # "installed" /\ UNCHANGED <<inst, broken, failed, using, pc>>
          /\ \E s \in {"loaded", "loadfailed", "install"} : task' = [task EXCEPT ![t] = s]
      BY <2>9 DEF LoadAnswers, AnnounceReload, callVars, crashVars
    <3>2. Loaded' = Loaded
      BY <3>1 DEF Loaded, TypeOK
    <3> QED BY <3>1, <3>2 DEF OnItsWayOut, BrokenInstanceIsLeaving
  <2>10. ASSUME NEW t \in DOMAIN task, InstallInstance(t) PROVE OnItsWayOut'
    <3>1. /\ task[t] = "install" /\ task' = [task EXCEPT ![t] = "installed"]
          /\ inst' = t + 1 /\ UNCHANGED <<broken, failed, using, pc>>
      BY <2>10 DEF InstallInstance, callVars, crashVars
    <3>2. DOMAIN task' = DOMAIN task /\ t \in Nat /\ t # 0
          /\ \A u \in DOMAIN task : u \in Nat
      BY <3>1, <2>10, LenProperties DEF TypeOK
    <3>3. Loaded' = Loaded \cup {t + 1}
      BY <3>1, <3>2, <2>10 DEF Loaded, TypeOK
    <3>4. t + 1 \notin Loaded
      BY <3>1, <3>2, <2>10 DEF Loaded
    <3> QED BY <3>1, <3>3, <3>4 DEF OnItsWayOut, BrokenInstanceIsLeaving
  <2>11. CASE CooldownElapses \/ UNCHANGED vars
    BY <2>11 DEF CooldownElapses, vars, crashVars, OnItsWayOut, BrokenInstanceIsLeaving, Loaded
  <2> QED
    BY <2>1, <2>2, <2>3, <2>4, <2>5, <2>6, <2>7, <2>8, <2>9, <2>10, <2>11
    DEF Next, CallStep, CrashStep, ReloadStep
<1>3. OnItsWayOut => BrokenInstanceIsLeaving
  BY DEF OnItsWayOut
<1> QED
  BY <1>1, <1>2, <1>3, TypeCorrect, PTL DEF Spec

-----------------------------------------------------------------------------
\* A step of an actor that does not count leaves the budget as it is.
LEMMA NotCounting ==
  ASSUME TypeOK, Budget, NEW a \in Actors, NEW l \in PCs, Goto(a, l),
         pc[a] # "count", l # "count", UNCHANGED <<window, crashCount, failed>>
  PROVE  Budget'
<1>1. Counting' = Counting
  BY DEF Counting, Goto, TypeOK
<1> QED BY <1>1 DEF Budget, Pushed

(* The crash handlers of one plugin may overlap in any way, decide while others
   wait to count, and the window may forget any number of crashes: the plugin
   is never given up before it has crashed more than max_reloads times. *)
THEOREM GivenUpIsJustified == Spec => []GivenUpAfterBudget
<1>1. Init => Budget
  <2> SUFFICES ASSUME Init PROVE Budget
    OBVIOUS
  <2>1. Counting = {} /\ window = 0 /\ crashCount = 0 /\ failed = FALSE
    BY DEF Init, Counting
  <2> QED BY <2>1, FS_EmptySet DEF Budget, Pushed
<1>2. TypeOK /\ Budget /\ [Next]_vars => Budget'
  <2> SUFFICES ASSUME TypeOK, Budget, [Next]_vars PROVE Budget'
    OBVIOUS
  <2>0. /\ crashCount \in Nat /\ window \in Nat /\ MaxReloads \in Nat
        /\ IsFiniteSet(Counting) /\ Cardinality(Counting) \in Nat
        /\ window <= Pushed /\ Pushed \in Nat
    BY BoundsAssumption, FS_CardinalityType DEF TypeOK, Budget, Pushed
  <2>1. ASSUME NEW a \in Actors, PushCrash(a) PROVE Budget'
    <3>1. /\ pc[a] = "account" /\ Goto(a, "count") /\ UNCHANGED <<crashCount, failed>>
          /\ window' \in Nat /\ window' <= window + 1
      BY <2>0, <2>1 DEF PushCrash
    <3>2. a \notin Counting /\ Counting' = Counting \cup {a}
      BY <3>1 DEF Counting, Goto, TypeOK
    <3>3. IsFiniteSet(Counting') /\ Cardinality(Counting') = Cardinality(Counting) + 1
      BY <2>0, <3>2, FS_AddElement
    <3>4. Pushed' = Pushed + 1
      BY <2>0, <3>1, <3>3 DEF Pushed
    <3> QED BY <2>0, <3>1, <3>3, <3>4 DEF Budget
  <2>2. ASSUME NEW a \in Actors, CountCrash(a) PROVE Budget'
    <3>1. /\ pc[a] = "count" /\ Goto(a, "drop") /\ crashCount' = crashCount + 1
          /\ UNCHANGED <<window, failed>>
      BY <2>2 DEF CountCrash
    <3>2. a \in Counting /\ Counting' = Counting \ {a}
      BY <3>1 DEF Counting, Goto, TypeOK
    <3>3. IsFiniteSet(Counting') /\ Cardinality(Counting') = Cardinality(Counting) - 1
      BY <2>0, <3>2, FS_RemoveElement
    <3>4. Pushed' = Pushed
      BY <2>0, <3>1, <3>3 DEF Pushed
    <3> QED BY <3>1, <3>3, <3>4 DEF Budget
  <2>3. ASSUME NEW a \in Actors, GiveUp(a) PROVE Budget'
    <3>1. /\ pc[a] = "decide" /\ Goto(a, "record") /\ window > MaxReloads
          /\ UNCHANGED <<window, crashCount>>
      BY <2>3 DEF GiveUp
    <3>2. Counting' = Counting
      BY <3>1 DEF Counting, Goto, TypeOK
    <3>3. Pushed' = Pushed
      BY <3>1, <3>2 DEF Pushed
    <3> QED BY <2>0, <3>1, <3>2, <3>3 DEF Budget
  <2>4. ASSUME NEW a \in Actors,
               \/ CallStep(a) \/ EnterCrash(a) \/ DropInstance(a)
               \/ RecordFailure(a) \/ ScheduleReload(a)
        PROVE  Budget'
    <3>1. /\ pc[a] # "count" /\ UNCHANGED <<window, crashCount, failed>>
          /\ \E l \in PCs \ {"count"} : Goto(a, l)
      BY <2>4 DEF CallStep, FindReloading, Run, Return, Trap, Timeout, RecordTimeout, EnterCrash,
                  DropInstance, RecordFailure, ScheduleReload, LeaveCrash, crashVars, PCs
    <3> QED BY <3>1, NotCounting
  <2>5. ASSUME NEW c \in Callers, BeginVerb(c) PROVE Budget'
    BY <2>5, NotCounting DEF BeginVerb, crashVars, PCs
  <2>6. ASSUME NEW t \in DOMAIN task, ReloadStep(t) PROVE Budget'
    BY <2>6 DEF ReloadStep, LoadAnswers, AnnounceReload, InstallInstance, callVars, crashVars,
                Budget, Pushed, Counting
  <2>7. CASE CooldownElapses \/ UNCHANGED vars
    BY <2>7 DEF CooldownElapses, vars, crashVars, Budget, Pushed, Counting
  <2> QED
    BY <2>1, <2>2, <2>3, <2>4, <2>5, <2>6, <2>7 DEF Next, CrashStep
<1>3. Budget => GivenUpAfterBudget
  BY DEF Budget, Pushed, Counting, GivenUpAfterBudget
<1> QED
  BY <1>1, <1>2, <1>3, TypeCorrect, PTL DEF Spec

-----------------------------------------------------------------------------
(* Callers that are told to try again shortly are told so for a reason: some
   handler or reload is at work, a load failed, or the plugin is given up. *)
THEOREM EmptySlotIsExplained == Spec => []EmptySlotHasReason
<1>1. Init => EmptySlotHasReason
  BY EmptySeq DEF Init, EmptySlotHasReason
<1>2. TypeOK /\ EmptySlotHasReason /\ [Next]_vars
        => EmptySlotHasReason'
  <2> SUFFICES ASSUME TypeOK, EmptySlotHasReason, [Next]_vars
               PROVE  EmptySlotHasReason'
    OBVIOUS
  <2> USE DEF TypeOK, EmptySlotHasReason, LoadFailed, ReloadPending, Goto,
              LeaveCrash, crashVars, callVars, PCs
  <2>1. ASSUME NEW c \in Callers, BeginVerb(c) PROVE EmptySlotHasReason'
    BY <2>1 DEF BeginVerb
  <2>2. ASSUME NEW a \in Actors, CallStep(a) PROVE EmptySlotHasReason'
    <3>1. CASE FindReloading(a)  BY <3>1 DEF FindReloading
    <3>2. CASE Run(a)            BY <3>2 DEF Run
    <3>3. CASE Return(a)         BY <3>3 DEF Return
    <3>4. CASE Trap(a)           BY <3>4 DEF Trap
    <3>5. CASE Timeout(a)        BY <3>5 DEF Timeout
    <3>6. CASE RecordTimeout(a)  BY <3>6 DEF RecordTimeout
    <3> QED BY <2>2, <3>1, <3>2, <3>3, <3>4, <3>5, <3>6 DEF CallStep
  <2>3. ASSUME NEW a \in Actors, CrashStep(a) PROVE EmptySlotHasReason'
    <3>1. CASE EnterCrash(a)     BY <3>1 DEF EnterCrash
    <3>2. CASE PushCrash(a) \/ CountCrash(a)
      BY <3>2 DEF PushCrash, CountCrash
    <3>3. CASE DropInstance(a)   BY <3>3 DEF DropInstance
    <3>4. CASE GiveUp(a) \/ RecordFailure(a)
      BY <3>4 DEF GiveUp, RecordFailure
    <3>5. CASE ScheduleReload(a)
      <4>1. task' \in Seq(TaskStates)
        BY <3>5 DEF ScheduleReload, TaskStates
      <4>2. /\ Len(task') = Len(task) + 1
            /\ task'[Len(task) + 1] = "sleep"
            /\ \A i \in 1..Len(task) : task'[i] = task[i]
        BY <3>5, AppendProperties DEF ScheduleReload, TaskStates
      <4>3. DOMAIN task = 1..Len(task) /\ DOMAIN task' = 1..Len(task')
        BY <4>1, LenProperties
      <4>4. Len(task) \in Nat
        BY LenProperties
      <4> QED BY <3>5, <4>2, <4>3, <4>4 DEF ScheduleReload
    <3> QED BY <2>3, <3>1, <3>2, <3>3, <3>4, <3>5 DEF CrashStep
  <2>4. ASSUME NEW t \in DOMAIN task, ReloadStep(t) PROVE EmptySlotHasReason'
    <3>1. CASE LoadAnswers(t)     BY <3>1 DEF LoadAnswers
    <3>2. CASE AnnounceReload(t)  BY <3>2 DEF AnnounceReload
    <3>3. CASE InstallInstance(t) BY <3>3 DEF InstallInstance
    <3> QED BY <2>4, <3>1, <3>2, <3>3 DEF ReloadStep
  <2>5. CASE CooldownElapses
    BY <2>5 DEF CooldownElapses
  <2>6. CASE UNCHANGED vars
    BY <2>6 DEF vars
  <2> QED
    BY <2>1, <2>2, <2>3, <2>4, <2>5, <2>6 DEF Next
<1> QED
  BY <1>1, <1>2, TypeCorrect, PTL DEF Spec

-----------------------------------------------------------------------------
(* Handlers that have accounted a crash and not yet decided about its reload. *)
Deciding == {a \in Actors : pc[a] \in {"drop", "decide"}}
Paid == IsFiniteSet(Deciding) /\ Len(task) + Cardinality(Deciding) <= crashCount

\* How a step of one actor changes who is deciding.
LEMMA DecidingMoves ==
  ASSUME TypeOK, NEW a \in Actors, NEW l \in PCs, Goto(a, l)
  PROVE  Deciding' = IF l \in {"drop", "decide"} THEN Deciding \cup {a} ELSE Deciding \ {a}
BY DEF Deciding, Goto, TypeOK

\* An actor that was not deciding and still is not changes nothing.
LEMMA NotDeciding ==
  ASSUME TypeOK, Paid, NEW a \in Actors, NEW l \in PCs, Goto(a, l), a \notin Deciding,
         l \notin {"drop", "decide"}, UNCHANGED <<task, crashCount>>
  PROVE  Paid'
<1>1. Deciding' = Deciding
  BY DecidingMoves
<1> QED BY <1>1 DEF Paid

(* However handlers overlap, each reload has a crash of its own: a handler
   schedules at most one, after it has accounted its crash. *)
THEOREM ReloadsHaveCrashes == Spec => []ReloadsPaidByCrashes
<1>1. Init => Paid
  <2> SUFFICES ASSUME Init PROVE Paid
    OBVIOUS
  <2>1. Deciding = {} /\ Len(task) = 0 /\ crashCount = 0
    BY DEF Init, Deciding
  <2> QED BY <2>1, FS_EmptySet DEF Paid
<1>2. TypeOK /\ Paid /\ [Next]_vars => Paid'
  <2> SUFFICES ASSUME TypeOK, Paid, [Next]_vars PROVE Paid'
    OBVIOUS
  <2>0. /\ crashCount \in Nat /\ Len(task) \in Nat /\ task \in Seq(TaskStates)
        /\ IsFiniteSet(Deciding) /\ Cardinality(Deciding) \in Nat
        /\ Len(task) + Cardinality(Deciding) <= crashCount
    BY FS_CardinalityType, LenProperties DEF TypeOK, Paid
  <2>1. ASSUME NEW c \in Callers, BeginVerb(c) PROVE Paid'
    BY <2>1, NotDeciding DEF BeginVerb, Deciding, PCs, crashVars
  <2>2. ASSUME NEW a \in Actors, CallStep(a) PROVE Paid'
    <3>1. PICK l \in {"idle", "running", "crash", "timedout"} : Goto(a, l)
      BY <2>2 DEF CallStep, FindReloading, Run, Return, Trap, Timeout, RecordTimeout
    <3>2. pc[a] \in {"queued", "running", "timedout"} /\ UNCHANGED <<task, crashCount>>
      BY <2>2 DEF CallStep, FindReloading, Run, Return, Trap, Timeout, RecordTimeout, crashVars
    <3>3. a \notin Deciding /\ l \in PCs /\ l \notin {"drop", "decide"}
      BY <3>1, <3>2 DEF Deciding, PCs
    <3> QED BY <3>1, <3>2, <3>3, NotDeciding
  <2>3. ASSUME NEW a \in Actors, EnterCrash(a) \/ PushCrash(a) \/ RecordFailure(a) PROVE Paid'
    <3>1. /\ Goto(a, "idle") \/ Goto(a, "account") \/ Goto(a, "count")
          /\ pc[a] \in {"crash", "account", "record"} /\ UNCHANGED <<task, crashCount>>
      BY <2>3 DEF EnterCrash, PushCrash, RecordFailure, LeaveCrash, crashVars
    <3> QED BY <3>1, NotDeciding DEF Deciding, PCs
  <2>4. ASSUME NEW a \in Actors, CountCrash(a) PROVE Paid'
    <3>1. pc[a] = "count" /\ Goto(a, "drop") /\ crashCount' = crashCount + 1 /\ task' = task
      BY <2>4 DEF CountCrash
    <3>2. a \notin Deciding /\ Deciding' = Deciding \cup {a}
      BY <3>1, DecidingMoves DEF Deciding, PCs
    <3>3. IsFiniteSet(Deciding') /\ Cardinality(Deciding') = Cardinality(Deciding) + 1
      BY <2>0, <3>2, FS_AddElement
    <3> QED BY <2>0, <3>1, <3>3 DEF Paid
  <2>5. ASSUME NEW a \in Actors, DropInstance(a) PROVE Paid'
    <3>1. pc[a] = "drop" /\ Goto(a, "decide") /\ UNCHANGED <<task, crashCount>>
      BY <2>5 DEF DropInstance, crashVars
    <3>2. Deciding' = Deciding
      BY <3>1, DecidingMoves DEF Deciding, PCs
    <3> QED BY <3>1, <3>2 DEF Paid
  <2>6. ASSUME NEW a \in Actors, GiveUp(a) \/ ScheduleReload(a) PROVE Paid'
    <3>1. /\ pc[a] = "decide" /\ (Goto(a, "idle") \/ Goto(a, "record")) /\ crashCount' = crashCount
          /\ task' = task \/ task' = Append(task, "sleep")
      BY <2>6 DEF GiveUp, ScheduleReload, LeaveCrash, crashVars
    <3>2. a \in Deciding /\ Deciding' = Deciding \ {a}
      BY <3>1, DecidingMoves DEF Deciding, PCs
    <3>3. IsFiniteSet(Deciding') /\ Cardinality(Deciding') = Cardinality(Deciding) - 1
      BY <2>0, <3>2, FS_RemoveElement
    <3>4. Len(task') <= Len(task) + 1 /\ Len(task') \in Nat
      BY <2>0, <3>1, AppendProperties DEF TaskStates
    <3> QED BY <2>0, <3>1, <3>3, <3>4 DEF Paid
  <2>7. ASSUME NEW t \in DOMAIN task, ReloadStep(t) PROVE Paid'
    <3>1. /\ UNCHANGED <<pc, crashCount>>
          /\ \E s \in TaskStates : task' = [task EXCEPT ![t] = s]
      BY <2>7 DEF ReloadStep, LoadAnswers, AnnounceReload, InstallInstance, callVars, crashVars, TaskStates
    <3>2. Len(task') = Len(task)
      BY <2>0, <3>1, ExceptSeq
    <3> QED BY <3>1, <3>2 DEF Paid, Deciding
  <2>8. CASE CooldownElapses \/ UNCHANGED vars
    BY <2>8 DEF CooldownElapses, vars, callVars, crashVars, Paid, Deciding
  <2> QED
    BY <2>1, <2>2, <2>3, <2>4, <2>5, <2>6, <2>7, <2>8 DEF Next, CrashStep
<1>3. Paid => ReloadsPaidByCrashes
  BY DEF Paid, Deciding, ReloadsPaidByCrashes
<1> QED
  BY <1>1, <1>2, <1>3, TypeCorrect, PTL DEF Spec
=============================================================================
