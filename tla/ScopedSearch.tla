---------------------------- MODULE ScopedSearch ----------------------------
(***************************************************************************)
(* One scope of a streaming search (runtime/src/engine/search_scoped.rs,   *)
(* run_one_scope and run_scope_timing): every source of the scope (its     *)
(* plugins and, for movies and series, the runtime's own TVDB client) runs *)
(* in a task whose outcome is bridged into the channel rx; the scope's     *)
(* select! loop reads rx, and races it against a partial deadline that     *)
(* starts with the first answer and a hard floor that starts at dispatch.  *)
(*                                                                         *)
(* Time is counted down in ticks.  A tick may pass at any point, also      *)
(* while an arm of the select! is ready: the loop may be scheduled late.   *)
(***************************************************************************)
EXTENDS Integers, Sequences, FiniteSets

CONSTANTS
    Plugins,            \* sources that can be registered for the scope
    PartialDeadline,    \* ticks, 500 ms in the default configuration
    HardFloor           \* ticks, 2000 ms in the default configuration

ASSUME PluginsFinite == IsFiniteSet(Plugins)
ASSUME DeadlinesAreTicks == PartialDeadline \in Nat \ {0} /\ HardFloor \in Nat

VARIABLES
    handles,            \* sources dispatched for this search
    outcome,            \* what each source's task has produced so far
    rx,                 \* sources whose outcome waits in the channel
    pending,            \* outcomes the loop still expects
    collected,          \* sources whose entries are in the `collected` vector
    anyError,           \* some source failed
    partialTimer,       \* ticks left of the partial deadline, or NoTimer
    floorTimer,         \* ticks left of the hard floor
    emittedPartial,     \* the scope has shown a partial
    pc,                 \* where the scope's task is
    out                 \* messages emitted for the scope, oldest first

vars == <<handles, outcome, rx, pending, collected, anyError, partialTimer,
          floorTimer, emittedPartial, pc, out>>

NoTimer == -1

Outcomes == {"data", "empty", "err"}

Errors == {"none", "AllFailed", "NoPluginsConfigured"}

Message == [partial : BOOLEAN, entries : SUBSET Plugins, error : Errors]

TypeOK ==
    /\ handles \in SUBSET Plugins
    /\ outcome \in [Plugins -> Outcomes \cup {"running"}]
    /\ rx \in SUBSET Plugins
    /\ pending \in Nat
    /\ collected \in SUBSET Plugins
    /\ anyError \in BOOLEAN
    /\ partialTimer \in 0..PartialDeadline \cup {NoTimer}
    /\ floorTimer \in 0..HardFloor
    /\ emittedPartial \in BOOLEAN
    /\ pc \in {"dispatch", "select", "done"}
    /\ out \in Seq(Message)

Init ==
    /\ handles \in SUBSET Plugins
    /\ outcome = [p \in Plugins |-> "running"]
    /\ rx = {}
    /\ pending = 0
    /\ collected = {}
    /\ anyError = FALSE
    /\ partialTimer = NoTimer
    /\ floorTimer = HardFloor
    /\ emittedPartial = FALSE
    /\ pc = "dispatch"
    /\ out = <<>>

Emit(partial, entries, error) ==
    out' = Append(out, [partial |-> partial, entries |-> entries,
                        error |-> error])

(***************************************************************************)
(* Dispatch.                                                               *)
(***************************************************************************)

\* No source at all: a final message at once, with its own error.
DispatchNothing ==
    /\ pc = "dispatch"
    /\ handles = {}
    /\ Emit(FALSE, {}, "NoPluginsConfigured")
    /\ pc' = "done"
    /\ UNCHANGED <<handles, outcome, rx, pending, collected, anyError,
                   partialTimer, floorTimer, emittedPartial>>

\* One task and one bridge per source; the hard floor starts here.
Dispatch ==
    /\ pc = "dispatch"
    /\ handles # {}
    /\ pending' = Cardinality(handles)
    /\ pc' = "select"
    /\ UNCHANGED <<handles, outcome, rx, collected, anyError, partialTimer,
                   floorTimer, emittedPartial, out>>

\* A source's task ends (a panic is an error) and its bridge forwards the
\* outcome: rx has room for one outcome of each.
Answer(p) ==
    /\ pc = "select"
    /\ p \in handles
    /\ outcome[p] = "running"
    /\ \E o \in Outcomes : outcome' = [outcome EXCEPT ![p] = o]
    /\ rx' = rx \cup {p}
    /\ UNCHANGED <<handles, pending, collected, anyError, partialTimer,
                   floorTimer, emittedPartial, pc, out>>

(***************************************************************************)
(* The select! loop.  It is biased: an outcome in rx goes before the       *)
(* timers, and the partial deadline before the hard floor.  Every bridge    *)
(* drops its sender with its outcome: when all are gone and rx is empty,   *)
(* recv() answers None, which ends the loop whatever the countdown says.   *)
(***************************************************************************)

SomeoneIsRunning == \E p \in handles : outcome[p] = "running"

\* Neither an outcome nor the end of the channel: the timers' arms are looked at.
NothingToReceive == rx = {} /\ SomeoneIsRunning

ChannelClosed == rx = {} /\ ~SomeoneIsRunning

\* A loop that leaves one outcome unread.
LoopEndsEarly == pending <= 1

\* The head of the `while`, or the `None => break` arm.
LoopEnds == pending = 0 \/ ChannelClosed

CountDown(timer) == IF timer > 0 THEN timer - 1 ELSE timer

Tick ==
    /\ pc = "select"
    /\ floorTimer > 0 \/ partialTimer > 0
    /\ floorTimer' = CountDown(floorTimer)
    /\ partialTimer' = CountDown(partialTimer)
    /\ UNCHANGED <<handles, outcome, rx, pending, collected, anyError,
                   emittedPartial, pc, out>>

\* The first answer, success or failure, starts the partial deadline.
StartPartialTimer ==
    partialTimer' = IF partialTimer = NoTimer THEN PartialDeadline
                                              ELSE partialTimer

Receive(p) ==
    /\ pc = "select"
    /\ ~LoopEnds
    /\ p \in rx
    /\ rx' = rx \ {p}
    /\ collected' = IF outcome[p] = "data" THEN collected \cup {p}
                                           ELSE collected
    /\ anyError' = (anyError \/ outcome[p] = "err")
    /\ pending' = pending - 1
    /\ StartPartialTimer
    /\ UNCHANGED <<handles, outcome, floorTimer, emittedPartial, pc, out>>

PartialDeadlineReady == partialTimer = 0 /\ ~emittedPartial

PartialDeadlineFires ==
    /\ pc = "select"
    /\ ~LoopEnds
    /\ NothingToReceive
    /\ PartialDeadlineReady
    /\ Emit(TRUE, collected, "none")
    /\ emittedPartial' = TRUE
    /\ UNCHANGED <<handles, outcome, rx, pending, collected, anyError,
                   partialTimer, floorTimer, pc>>

\* A floor that goes before a partial deadline that is up as well.
FloorGoesFirst ==
    /\ pc = "select"
    /\ ~LoopEnds
    /\ NothingToReceive
    /\ floorTimer = 0
    /\ ~emittedPartial
    /\ Emit(TRUE, {}, "none")
    /\ emittedPartial' = TRUE
    /\ UNCHANGED <<handles, outcome, rx, pending, collected, anyError,
                   partialTimer, floorTimer, pc>>

\* A floor that never fires.
NoHardFloor == FALSE /\ UNCHANGED vars

\* The floor's message is empty, also when entries have been collected whose
\* partial deadline is not up yet.
HardFloorFires ==
    /\ pc = "select"
    /\ ~LoopEnds
    /\ NothingToReceive
    /\ ~PartialDeadlineReady
    /\ floorTimer = 0
    /\ ~emittedPartial
    /\ Emit(TRUE, {}, "none")
    /\ emittedPartial' = TRUE
    /\ UNCHANGED <<handles, outcome, rx, pending, collected, anyError,
                   partialTimer, floorTimer, pc>>

FinalError == IF collected = {} /\ anyError THEN "AllFailed" ELSE "none"

\* A scope that found nothing and has shown an empty partial says no more.
FinaliseUnlessShown ==
    /\ pc = "select"
    /\ LoopEnds
    /\ IF collected = {} /\ emittedPartial
       THEN UNCHANGED out
       ELSE Emit(FALSE, collected, FinalError)
    /\ pc' = "done"
    /\ UNCHANGED <<handles, outcome, rx, pending, collected, anyError,
                   partialTimer, floorTimer, emittedPartial>>

Finalise ==
    /\ pc = "select"
    /\ LoopEnds
    /\ Emit(FALSE, collected, FinalError)
    /\ pc' = "done"
    /\ UNCHANGED <<handles, outcome, rx, pending, collected, anyError,
                   partialTimer, floorTimer, emittedPartial>>

ScopeTask ==
    \/ DispatchNothing
    \/ Dispatch
    \/ \E p \in Plugins : Receive(p)
    \/ PartialDeadlineFires
    \/ HardFloorFires
    \/ Finalise

Next ==
    \/ ScopeTask
    \/ Tick
    \/ \E p \in Plugins : Answer(p)

Spec == Init /\ [][Next]_vars

\* The scope's task is scheduled and time passes.  Nothing is assumed of the
\* sources: one that never answers must not keep the column blank.
LiveSpec == Spec /\ WF_vars(ScopeTask) /\ WF_vars(Tick)

(***************************************************************************)
(* Properties.                                                             *)
(***************************************************************************)

\* Outcomes the loop has not taken from rx yet.
Unread == {p \in handles : outcome[p] = "running" \/ p \in rx}

\* The loop's countdown is the number of outcomes it has yet to read, so it
\* ends exactly when the last one is read (run_scope_timing, `pending`).
PendingCountsUnread == pc = "select" => pending = Cardinality(Unread)

\* A final message is sent only after every source of the scope has answered
\* and carries the entries of each of them.  AllFailed is reported when some
\* source failed and none gave an entry, which is more often than the header
\* says ("if every plugin failed"): a source may have found nothing.
FinalIsComplete ==
    \A i \in DOMAIN out : ~out[i].partial =>
        /\ \A p \in handles : outcome[p] # "running"
        /\ out[i].entries = {p \in handles : outcome[p] = "data"}
        /\ out[i].error = "AllFailed" <=>
              /\ \E p \in handles : outcome[p] = "err"
              /\ \A p \in handles : outcome[p] # "data"
        /\ out[i].error = "NoPluginsConfigured" <=> handles = {}

\* The loop keeps the promise of ScopeStream: at most one partial, then one
\* final; what has been known for the partial deadline is in the partial, all
\* of it; nothing is missing from the final, and an error comes only with an
\* empty one.
Promise == INSTANCE ScopeStream
              WITH Sources <- Plugins, Errors <- {"AllFailed", "NoPluginsConfigured"},
                   known <- collected, due <- (partialTimer = 0), stream <- out

ImplementsScopeStream == Promise!Spec

\* However long the sources take, the reader is shown something
\* (search_scoped.rs, header: "so the UI shows *something*").
SomethingIsShown == pc = "select" ~> out # <<>>

\* Once every source has answered the reader is sent the final message,
\* whichever timers have fired by then: its column waits for one.
AnswersLeadToFinal ==
    (pc = "select" /\ ~SomeoneIsRunning) ~> \E i \in DOMAIN out : ~out[i].partial
=============================================================================
