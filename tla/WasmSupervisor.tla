--------------------------- MODULE WasmSupervisor ---------------------------
(***************************************************************************)
(* One supervised WASM plugin: runtime/src/abi/supervisor.rs, with the     *)
(* loader that creates it (Engine::load_plugin, runtime/src/engine/mod.rs). *)
(*                                                                         *)
(* Callers run verbs on the one shared instance under the instance mutex.  *)
(* A trap makes the caller itself run on_crash, which is a chain of short  *)
(* critical sections with awaits between them; a reload is a task of its   *)
(* own that sleeps, loads, and installs.  Each action below is one stretch *)
(* of code between two awaits, so every interleaving of callers, crash     *)
(* handlers and reload tasks that the runtime can produce is a behaviour.  *)
(*                                                                         *)
(* Instances are numbered: 1 is the one loaded by WasmSupervisor::load,    *)
(* t + 1 the one loaded by reload task t, and 0 stands for None.           *)
(***************************************************************************)
EXTENDS Integers, Sequences, FiniteSets

CONSTANTS
  Callers,      \* tasks that call verbs
  Loader,       \* the task that loads the plugin and calls init once
  NoOne,        \* "the mutex is free"
  MaxReloads,   \* WasmSupervisorConfig::max_reloads
  MaxCrashes,   \* bound: crashes a behaviour may contain
  LoadMayFail   \* whether WasmHost::load may fail in a reload task

ASSUME ActorsAssumption == Loader \notin Callers /\ NoOne \notin Callers \cup {Loader}
ASSUME BoundsAssumption == MaxReloads \in Nat /\ MaxCrashes \in Nat
ASSUME LoadAssumption == LoadMayFail \in BOOLEAN

Actors == Callers \cup {Loader}
None == 0

VARIABLES
  phase,      \* "init" until init answers, then "live" (registered) or "discarded"
  pc,         \* where each actor stands in init / call_verb / on_crash
  using,      \* the instance each running actor holds
  lock,       \* holder of the instance mutex across a call, or NoOne
  inst,       \* WasmSupervisor::instance
  window,     \* Len(crash_times) after the last retain/push
  crashCount, reloadCount, alive, permanent,   \* WasmSupervisorStats
  failed,     \* the atomic flag
  cooling,    \* last_timeout_at lies within the cooldown
  task,       \* reload tasks, in the order they were spawned
  statsLock,  \* a reload task that holds the stats mutex while it waits, or NoOne
  broken      \* history, read by properties only: instances a call crashed on

crashVars == <<window, crashCount, failed, permanent>>
callVars  == <<phase, pc, using, lock, cooling, broken>>
vars == <<phase, pc, using, lock, inst, window, crashCount,
          reloadCount, alive, permanent, failed, cooling, task, statsLock, broken>>

PCs == {"idle", "queued", "running", "timedout",
        "crash", "account", "count", "drop", "decide", "record"}
TaskStates == {"sleep", "loaded", "install", "installed", "loadfailed"}

TypeOK ==
  /\ phase \in {"init", "live", "discarded"}
  /\ pc \in [Actors -> PCs]
  /\ using \in [Actors -> Nat]
  /\ lock \in Actors \cup {NoOne}
  /\ inst \in Nat
  /\ window \in Nat /\ crashCount \in Nat /\ reloadCount \in Nat
  /\ alive \in BOOLEAN /\ permanent \in BOOLEAN /\ failed \in BOOLEAN
  /\ cooling \in BOOLEAN
  /\ task \in Seq(TaskStates)
  /\ statsLock \in Nat \cup {NoOne}
  /\ broken \in SUBSET Nat

Init ==
  /\ phase = "init"
  /\ pc = [a \in Actors |-> IF a = Loader THEN "queued" ELSE "idle"]
  /\ using = [a \in Actors |-> None]
  /\ lock = NoOne
  /\ inst = 1
  /\ window = 0 /\ crashCount = 0 /\ reloadCount = 0
  /\ alive = TRUE /\ permanent = FALSE /\ failed = FALSE
  /\ cooling = FALSE
  /\ task = <<>>
  /\ statsLock = NoOne
  /\ broken = {}

-----------------------------------------------------------------------------
(* Calls *)

Goto(a, l) == pc' = [pc EXCEPT ![a] = l]

(* call_verb up to the instance mutex: refused when failed or cooling (which
   changes nothing), otherwise the caller waits for its token and the lock. *)
BeginVerb(c) ==
  /\ phase = "live" /\ pc[c] = "idle"
  /\ ~failed /\ ~cooling
  /\ Goto(c, "queued")
  /\ UNCHANGED <<phase, using, lock, inst, crashVars,
                 reloadCount, alive, cooling, task, statsLock, broken>>

(* The mutex is granted and the slot is None: "reloading, try again shortly". *)
FindReloading(a) ==
  /\ pc[a] = "queued" /\ lock = NoOne /\ inst = None
  /\ Goto(a, "idle")
  /\ phase' = IF a = Loader THEN "discarded" ELSE phase
  /\ UNCHANGED <<using, lock, inst, crashVars,
                 reloadCount, alive, cooling, task, statsLock, broken>>

(* The mutex is granted with an instance, and is held for the whole call. *)
Run(a) ==
  /\ pc[a] = "queued" /\ lock = NoOne /\ inst # None
  /\ Goto(a, "running")
  /\ lock' = a
  /\ using' = [using EXCEPT ![a] = inst]
  /\ UNCHANGED <<phase, inst, crashVars,
                 reloadCount, alive, cooling, task, statsLock, broken>>

(* Success, or an application error the plugin reported: not a crash.  For
   init, success registers the supervisor and a plugin error discards it. *)
Return(a) ==
  /\ pc[a] = "running"
  /\ Goto(a, "idle")
  /\ lock' = NoOne
  /\ IF a = Loader THEN phase' \in {"live", "discarded"} ELSE UNCHANGED phase
  /\ UNCHANGED <<using, inst, crashVars,
                 reloadCount, alive, cooling, task, statsLock, broken>>

CrashesUnderWay ==
  crashCount + Cardinality({a \in Actors : pc[a] \in {"crash", "account", "count"}})

(* A plumbing failure: the guard is dropped first, then on_crash is entered. *)
Trap(a) ==
  /\ pc[a] = "running"
  /\ CrashesUnderWay < MaxCrashes
  /\ Goto(a, "crash")
  /\ lock' = NoOne
  /\ broken' = broken \cup {using[a]}
  /\ UNCHANGED <<phase, using, inst, crashVars,
                 reloadCount, alive, cooling, task, statsLock>>

(* The call's deadline passes.  For a verb this is soft (only the cooldown is
   set, after the guard is gone); for init it is a crash. *)
Timeout(a) ==
  /\ pc[a] = "running"
  /\ a = Loader => CrashesUnderWay < MaxCrashes
  /\ Goto(a, IF a = Loader THEN "crash" ELSE "timedout")
  /\ lock' = NoOne
  /\ broken' = IF a = Loader THEN broken \cup {using[a]} ELSE broken
  /\ UNCHANGED <<phase, using, inst, crashVars,
                 reloadCount, alive, cooling, task, statsLock>>

RecordTimeout(a) ==
  /\ pc[a] = "timedout"
  /\ Goto(a, "idle")
  /\ cooling' = TRUE
  /\ UNCHANGED <<phase, using, lock, inst, crashVars,
                 reloadCount, alive, task, statsLock, broken>>

CooldownElapses ==
  /\ cooling
  /\ cooling' = FALSE
  /\ UNCHANGED <<phase, pc, using, lock, inst, crashVars,
                 reloadCount, alive, task, statsLock, broken>>

-----------------------------------------------------------------------------
(* on_crash, run by the actor whose call crashed *)

(* An actor that leaves on_crash returns its error; init's error makes the
   loader drop the supervisor without registering it. *)
LeaveCrash(a) ==
  /\ Goto(a, "idle")
  /\ phase' = IF a = Loader THEN "discarded" ELSE phase

(* Mutant: on_crash drops the instance without recording the crash. *)
EnterCrashUnaccounted(a) ==
  /\ pc[a] = "crash"
  /\ IF failed THEN LeaveCrash(a) ELSE Goto(a, "drop") /\ UNCHANGED phase
  /\ UNCHANGED <<using, lock, inst, crashVars,
                 reloadCount, alive, cooling, task, statsLock, broken>>

EnterCrash(a) ==
  /\ pc[a] = "crash"
  /\ IF failed THEN LeaveCrash(a) ELSE Goto(a, "account") /\ UNCHANGED phase
  /\ UNCHANGED <<using, lock, inst, crashVars,
                 reloadCount, alive, cooling, task, statsLock, broken>>

(* crash_times is pruned and pushed under its own mutex; timestamps leave the
   window oldest first, so any number of them may be gone. *)
PushCrash(a) ==
  /\ pc[a] = "account"
  /\ Goto(a, "count")
  /\ \E kept \in 0..window : window' = kept + 1
  /\ UNCHANGED <<phase, using, lock, inst, crashCount, permanent, failed,
                 reloadCount, alive, cooling, task, statsLock, broken>>

(* The stats are updated once their mutex is free; other handlers may push,
   or decide, in between. *)
CountCrash(a) ==
  /\ pc[a] = "count" /\ statsLock = NoOne
  /\ Goto(a, "drop")
  /\ crashCount' = crashCount + 1
  /\ alive' = FALSE
  /\ UNCHANGED <<phase, using, lock, inst, window, permanent, failed,
                 reloadCount, cooling, task, statsLock, broken>>

(* Mutant: the slot is emptied only if nobody is calling (a try_lock). *)
DropInstanceIfIdle(a) ==
  /\ pc[a] = "drop"
  /\ Goto(a, "decide")
  /\ inst' = IF lock = NoOne THEN None ELSE inst
  /\ UNCHANGED <<phase, using, lock, crashVars,
                 reloadCount, alive, cooling, task, statsLock, broken>>

DropInstance(a) ==
  /\ pc[a] = "drop" /\ lock = NoOne
  /\ Goto(a, "decide")
  /\ inst' = None
  /\ UNCHANGED <<phase, using, lock, crashVars,
                 reloadCount, alive, cooling, task, statsLock, broken>>

(* Mutant: the threshold is reached one crash early. *)
GiveUpEarly(a) ==
  /\ pc[a] = "decide" /\ window >= MaxReloads
  /\ Goto(a, "record")
  /\ failed' = TRUE
  /\ UNCHANGED <<phase, using, lock, inst, window, crashCount, permanent,
                 reloadCount, alive, cooling, task, statsLock, broken>>

(* Past the threshold the plugin is given up; otherwise a reload is spawned. *)
GiveUp(a) ==
  /\ pc[a] = "decide" /\ window > MaxReloads
  /\ Goto(a, "record")
  /\ failed' = TRUE
  /\ UNCHANGED <<phase, using, lock, inst, window, crashCount, permanent,
                 reloadCount, alive, cooling, task, statsLock, broken>>

(* The stats learn of the give-up once their mutex is free. *)
RecordFailure(a) ==
  /\ pc[a] = "record" /\ statsLock = NoOne
  /\ LeaveCrash(a)
  /\ permanent' = TRUE
  /\ UNCHANGED <<using, lock, inst, window, crashCount, failed,
                 reloadCount, alive, cooling, task, statsLock, broken>>

(* Mutant: on_crash returns without spawning the reload. *)
ScheduleReloadForgotten(a) ==
  /\ pc[a] = "decide" /\ window <= MaxReloads
  /\ LeaveCrash(a)
  /\ UNCHANGED <<using, lock, inst, crashVars,
                 reloadCount, alive, cooling, task, statsLock, broken>>

ScheduleReload(a) ==
  /\ pc[a] = "decide" /\ window <= MaxReloads
  /\ LeaveCrash(a)
  /\ task' = Append(task, "sleep")
  /\ UNCHANGED <<using, lock, inst, crashVars,
                 reloadCount, alive, cooling, statsLock, broken>>

-----------------------------------------------------------------------------
(* Reload tasks *)

(* The backoff has passed and WasmHost::load answers. *)
LoadAnswers(t) ==
  /\ task[t] = "sleep"
  /\ \/ task' = [task EXCEPT ![t] = "loaded"]
     \/ LoadMayFail /\ task' = [task EXCEPT ![t] = "loadfailed"]
  /\ UNCHANGED <<callVars, inst, crashVars, reloadCount, alive, statsLock>>

(* The stats guard is taken first and kept until the instance is in place. *)
AnnounceReload(t) ==
  /\ task[t] = "loaded" /\ statsLock = NoOne
  /\ task' = [task EXCEPT ![t] = "install"]
  /\ statsLock' = t
  /\ reloadCount' = reloadCount + 1
  /\ alive' = TRUE
  /\ UNCHANGED <<callVars, inst, crashVars>>

(* Mutant: the stats guard outlives the reload. *)
InstallInstanceLeaking(t) ==
  /\ task[t] = "install" /\ lock = NoOne
  /\ task' = [task EXCEPT ![t] = "installed"]
  /\ inst' = t + 1
  /\ UNCHANGED <<callVars, crashVars, reloadCount, alive, statsLock>>

InstallInstance(t) ==
  /\ task[t] = "install" /\ lock = NoOne
  /\ task' = [task EXCEPT ![t] = "installed"]
  /\ inst' = t + 1
  /\ statsLock' = NoOne
  /\ UNCHANGED <<callVars, crashVars, reloadCount, alive>>

-----------------------------------------------------------------------------

CallStep(a) ==
  \/ FindReloading(a) \/ Run(a) \/ Return(a) \/ Trap(a) \/ Timeout(a)
  \/ RecordTimeout(a)

CrashStep(a) ==
  \/ EnterCrash(a) \/ PushCrash(a) \/ CountCrash(a) \/ DropInstance(a)
  \/ GiveUp(a) \/ RecordFailure(a) \/ ScheduleReload(a)

ReloadStep(t) == LoadAnswers(t) \/ AnnounceReload(t) \/ InstallInstance(t)

Next ==
  \/ \E c \in Callers : BeginVerb(c)
  \/ \E a \in Actors : CallStep(a) \/ CrashStep(a)
  \/ \E t \in DOMAIN task : ReloadStep(t)
  \/ CooldownElapses

Spec == Init /\ [][Next]_vars

(* What the runtime guarantees: a call ends within its timeout, tasks that
   are ready are polled, and both tokio mutexes hand out their lock first
   come, first served, so a waiter gets it even if others keep taking it. *)
Fairness ==
  /\ \A a \in Actors :
       /\ SF_vars(FindReloading(a) \/ Run(a))
       /\ WF_vars(Return(a) \/ Timeout(a) \/ RecordTimeout(a))
       /\ SF_vars(CrashStep(a))
  /\ \A t \in 1..MaxCrashes : SF_vars(t \in DOMAIN task /\ ReloadStep(t))

FairSpec == Spec /\ Fairness
-----------------------------------------------------------------------------
(* Properties *)

ReloadPending == \E t \in DOMAIN task : task[t] \in {"sleep", "loaded", "install"}

(* The supervisor drops a bad instance "so callers see reloading rather than a
   broken instance".  Callers queued on the mutex may still run on it, and spend
   the crash budget; but an instance a call crashed on is in the slot only as
   long as a handler that will empty it is on its way (or the plugin is given
   up, when handlers return at once). *)
BrokenInstanceIsLeaving ==
  inst \in broken =>
    failed \/ \E a \in Actors : pc[a] \in {"crash", "account", "count", "drop"}

LoadFailed == \E t \in DOMAIN task : task[t] = "loadfailed"

(* An empty slot means a crash handler is about to decide, a reload is under
   way, a reload's load failed, or the plugin was given up: no interleaving of
   handlers and reloads leaves the slot empty without a reason of its own. *)
EmptySlotHasReason ==
  inst = None => failed \/ ReloadPending \/ LoadFailed
                        \/ \E a \in Actors : pc[a] = "decide"

(* The plugin is given up only after more crashes than max_reloads, whatever
   the window forgot and however the crash handlers overlapped.  A crash counts
   from its timestamp on: its handler may still wait for the stats mutex. *)
GivenUpAfterBudget ==
  failed => crashCount + Cardinality({a \in Actors : pc[a] = "count"}) > MaxReloads

(* Each reload is paid for by a crash of its own: handlers that overlap never
   spawn two reloads for one crash. *)
ReloadsPaidByCrashes ==
  Len(task) + Cardinality({a \in Actors : pc[a] \in {"drop", "decide"}}) <= crashCount

(* Every call returns: nobody waits for ever on the instance or stats mutex,
   whatever crashes and reloads happen meanwhile. *)
CallsReturn == \A a \in Actors : pc[a] # "idle" ~> pc[a] = "idle"

(* An empty slot is refilled, or the plugin is given up, unless a load fails. *)
ServiceRestored == inst = None ~> inst # None \/ failed \/ LoadFailed
=============================================================================
