------------------------- MODULE ScopedSearchProofs -------------------------
(***************************************************************************)
(* What ScopedSearch guarantees for any number of sources and any          *)
(* deadlines.  The argument turns on the loop's countdown: `pending` is    *)
(* the number of outcomes not read yet, so when it reaches zero every      *)
(* source has answered and rx is empty, and what was collected is what was *)
(* answered.                                                               *)
(***************************************************************************)
EXTENDS ScopedSearch, FiniteSetTheorems, SequenceTheorems, TLAPS

(***************************************************************************)
(* The inductive invariant.                                                *)
(***************************************************************************)

\* The outcomes the loop has read.
Read == {p \in handles : outcome[p] # "running" /\ p \notin rx}

\* rx holds outcomes of dispatched sources only, and nothing is answered
\* before dispatch.
Answers ==
    /\ rx \subseteq handles
    /\ \A p \in rx : outcome[p] # "running"
    /\ pc = "dispatch" => rx = {} /\ \A p \in Plugins : outcome[p] = "running"
    /\ pc = "select" => handles # {}
    /\ pc = "done" => rx = {} /\ \A p \in handles : outcome[p] # "running"

\* What the loop keeps is exactly what it has read.
Kept ==
    /\ collected = {p \in Read : outcome[p] = "data"}
    /\ anyError <=> \E p \in Read : outcome[p] = "err"

\* What has been sent: nothing, a partial, and only at the end a final.
Sent ==
    /\ pc = "dispatch" => out = <<>> /\ ~emittedPartial
    /\ pc = "select" =>
          /\ \A i \in DOMAIN out : out[i].partial
          /\ ~emittedPartial => out = <<>>
    /\ \A i \in DOMAIN out : out[i].partial => out[i].error = "none"

IInv ==
    /\ TypeOK
    /\ Answers
    /\ Kept
    /\ PendingCountsUnread
    /\ Sent
    /\ FinalIsComplete

LEMMA MessageAppended ==
    ASSUME NEW S, NEW s \in Seq(S), NEW e \in S
    PROVE  /\ Append(s, e) \in Seq(S)
           /\ DOMAIN Append(s, e) = DOMAIN s \cup {Len(s) + 1}
           /\ Len(s) + 1 \notin DOMAIN s
           /\ \A i \in DOMAIN s : Append(s, e)[i] = s[i]
           /\ Append(s, e)[Len(s) + 1] = e
<1>1. /\ DOMAIN s = 1..Len(s)
      /\ Len(s) \in Nat
  BY LenProperties
<1>2. /\ Append(s, e) \in Seq(S)
      /\ Len(Append(s, e)) = Len(s) + 1
      /\ \A i \in 1..Len(s) : Append(s, e)[i] = s[i]
      /\ Append(s, e)[Len(s) + 1] = e
  BY AppendProperties
<1>3. DOMAIN Append(s, e) = 1..Len(s) + 1
  BY <1>2, LenProperties
<1>. QED
  BY <1>1, <1>2, <1>3

(***************************************************************************)
(* Initially.                                                              *)
(***************************************************************************)

LEMMA InitIInv == Init => IInv
<1>. SUFFICES ASSUME Init PROVE IInv
  OBVIOUS
<1>0. out \in Seq(Message) /\ DOMAIN out = {}
  BY EmptySeq, LenProperties DEF Init
<1>1. TypeOK
  <2>1. floorTimer \in 0..HardFloor
    BY DeadlinesAreTicks DEF Init
  <2>2. partialTimer \in 0..PartialDeadline \cup {NoTimer}
    BY DEF Init
  <2>3. outcome \in [Plugins -> Outcomes \cup {"running"}]
    BY DEF Init
  <2>4. handles \in SUBSET Plugins /\ rx = {} /\ collected = {} /\ pending = 0
    BY DEF Init
  <2>5. anyError = FALSE /\ emittedPartial = FALSE /\ pc = "dispatch"
    BY DEF Init
  <2>. QED
    BY <1>0, <2>1, <2>2, <2>3, <2>4, <2>5 DEF TypeOK
<1>2. Answers
  BY DEF Init, Answers
<1>3. Read = {}
  BY DEF Init, Read
<1>4. Kept
  BY <1>3 DEF Init, Kept
<1>5. PendingCountsUnread
  BY DEF Init, PendingCountsUnread
<1>6. Sent
  BY <1>0 DEF Init, Sent
<1>7. FinalIsComplete
  BY <1>0 DEF FinalIsComplete
<1>. QED
  BY <1>1, <1>2, <1>4, <1>5, <1>6, <1>7 DEF IInv

(***************************************************************************)
(* Each action keeps the invariant.                                        *)
(***************************************************************************)

LEMMA DispatchNothingKeeps == IInv /\ DispatchNothing => IInv'
<1>. SUFFICES ASSUME IInv, DispatchNothing PROVE IInv'
  OBVIOUS
<1>. DEFINE m == [partial |-> FALSE, entries |-> {},
                  error |-> "NoPluginsConfigured"]
<1>0. /\ m \in Message /\ out \in Seq(Message) /\ out = <<>>
      /\ m.partial = FALSE /\ m.entries = {}
      /\ m.error = "NoPluginsConfigured"
  BY DEF Message, Errors, IInv, TypeOK, Sent, DispatchNothing
<1>a. /\ out' = Append(out, m)
      /\ UNCHANGED <<handles, outcome, rx, pending, collected, anyError,
                     partialTimer, floorTimer, emittedPartial>>
      /\ handles = {} /\ pc = "dispatch" /\ pc' = "done"
  BY DEF DispatchNothing, Emit
<1>. HIDE DEF m
<1>b. /\ out' \in Seq(Message)
      /\ \A i \in DOMAIN out' : out'[i] = m
  <2>1. DOMAIN out = {}
    BY <1>0, EmptySeq, LenProperties
  <2>2. /\ Append(out, m) \in Seq(Message)
        /\ DOMAIN Append(out, m) = DOMAIN out \cup {Len(out) + 1}
        /\ Append(out, m)[Len(out) + 1] = m
    BY <1>0, MessageAppended
  <2>. QED
    BY <1>a, <2>1, <2>2
<1>1. TypeOK'
  BY <1>a, <1>b DEF IInv, TypeOK
<1>2. Answers'
  BY <1>a DEF IInv, Answers
<1>3. Kept'
  BY <1>a DEF IInv, Kept, Read
<1>4. PendingCountsUnread'
  BY <1>a DEF PendingCountsUnread
<1>6. Sent'
  BY <1>0, <1>a, <1>b DEF Sent
<1>7. FinalIsComplete'
  BY <1>0, <1>a, <1>b DEF FinalIsComplete
<1>. QED
  BY <1>1, <1>2, <1>3, <1>4, <1>6, <1>7 DEF IInv

LEMMA DispatchKeeps == IInv /\ Dispatch => IInv'
<1>. SUFFICES ASSUME IInv, Dispatch PROVE IInv'
  OBVIOUS
<1>. USE DEF Dispatch
<1>0. IsFiniteSet(handles)
  BY PluginsFinite, FS_Subset DEF IInv, TypeOK
<1>1. TypeOK'
  BY <1>0, FS_CardinalityType DEF IInv, TypeOK
<1>2. Answers'
  BY DEF IInv, TypeOK, Answers
<1>3. Kept'
  BY DEF IInv, Kept, Read
<1>4. Unread' = handles'
  BY DEF IInv, TypeOK, Answers, Unread
<1>5. PendingCountsUnread'
  BY <1>4 DEF PendingCountsUnread
<1>6. Sent' /\ FinalIsComplete'
  <2>1. DOMAIN out' = {}
    BY EmptySeq, LenProperties DEF IInv, Sent
  <2>. QED
    BY <2>1 DEF IInv, Sent, FinalIsComplete
<1>. QED
  BY <1>1, <1>2, <1>3, <1>5, <1>6 DEF IInv

LEMMA AnswerKeeps ==
    ASSUME NEW p \in Plugins, IInv, Answer(p) PROVE IInv'
<1>0. PICK o \in Outcomes : outcome' = [outcome EXCEPT ![p] = o]
  BY DEF Answer
<1>a. /\ rx' = rx \cup {p}
      /\ pc = "select" /\ p \in handles /\ outcome[p] = "running"
      /\ p \notin rx
      /\ UNCHANGED <<handles, pending, collected, anyError, partialTimer,
                     floorTimer, emittedPartial, pc, out>>
  BY DEF Answer, IInv, Answers
<1>b. /\ outcome'[p] = o /\ o # "running"
      /\ \A q \in Plugins \ {p} : outcome'[q] = outcome[q]
      /\ outcome' \in [Plugins -> Outcomes \cup {"running"}]
      /\ handles \subseteq Plugins
  BY <1>0 DEF IInv, TypeOK, Outcomes
<1>1. TypeOK'
  BY <1>a, <1>b DEF IInv, TypeOK
<1>2. Answers'
  BY <1>a, <1>b DEF IInv, Answers
<1>3. Read' = Read /\ Unread' = Unread
  BY <1>a, <1>b DEF Read, Unread
<1>4. \A q \in Read : outcome'[q] = outcome[q]
  BY <1>a, <1>b DEF Read
<1>5. Kept'
  <2>1. {q \in Read : outcome'[q] = "data"} = {q \in Read : outcome[q] = "data"}
    BY <1>4
  <2>. QED
    BY <1>a, <1>3, <1>4, <2>1 DEF IInv, Kept
<1>6. PendingCountsUnread'
  BY <1>a, <1>3 DEF IInv, PendingCountsUnread
<1>7. Sent'
  BY <1>a DEF IInv, Sent
<1>8. FinalIsComplete'
  BY <1>a DEF IInv, Sent, FinalIsComplete
<1>. QED
  BY <1>1, <1>2, <1>5, <1>6, <1>7, <1>8 DEF IInv

LEMMA TickKeeps == IInv /\ Tick => IInv'
<1>. SUFFICES ASSUME IInv, Tick PROVE IInv'
  OBVIOUS
<1>a. UNCHANGED <<handles, outcome, rx, pending, collected, anyError,
                  emittedPartial, pc, out>>
  BY DEF Tick
<1>1. TypeOK'
  BY DeadlinesAreTicks DEF IInv, TypeOK, Tick, CountDown, NoTimer
<1>2. Answers' /\ Kept' /\ PendingCountsUnread' /\ Sent' /\ FinalIsComplete'
  BY <1>a DEF IInv, Answers, Kept, Read, PendingCountsUnread, Unread, Sent,
              FinalIsComplete
<1>. QED
  BY <1>1, <1>2 DEF IInv

LEMMA ReceiveKeeps ==
    ASSUME NEW p \in Plugins, IInv, Receive(p) PROVE IInv'
<1>a. /\ pc = "select" /\ pending > 0 /\ p \in rx
      /\ rx' = rx \ {p}
      /\ pending' = pending - 1
      /\ UNCHANGED <<handles, outcome, floorTimer, emittedPartial, pc, out>>
  BY DEF Receive, LoopEnds, IInv, TypeOK
<1>b. p \in handles /\ outcome[p] # "running" /\ handles \subseteq Plugins
  BY <1>a DEF IInv, TypeOK, Answers
<1>1. TypeOK'
  <2>1. collected' \in SUBSET Plugins /\ anyError' \in BOOLEAN
    BY DEF Receive, IInv, TypeOK
  <2>2. partialTimer' \in 0..PartialDeadline \cup {NoTimer}
    BY DeadlinesAreTicks DEF Receive, StartPartialTimer, IInv, TypeOK
  <2>3. pending' \in Nat
    BY <1>a DEF IInv, TypeOK
  <2>. QED
    BY <1>a, <2>1, <2>2, <2>3 DEF IInv, TypeOK
<1>2. Answers'
  BY <1>a DEF IInv, Answers
<1>3. Read' = Read \cup {p} /\ p \notin Read
  BY <1>a, <1>b DEF Read
<1>4. Kept'
  <2>1. collected' = {q \in Read' : outcome'[q] = "data"}
    BY <1>a, <1>3 DEF Receive, IInv, Kept
  <2>2. anyError' <=> \E q \in Read' : outcome'[q] = "err"
    <3>1. anyError' <=> (anyError \/ outcome[p] = "err")
      BY DEF Receive
    <3>. QED
      BY <1>a, <1>3, <3>1 DEF IInv, Kept
  <2>. QED
    BY <2>1, <2>2 DEF Kept
<1>5. Unread' = Unread \ {p} /\ p \in Unread
  BY <1>a, <1>b DEF Unread
<1>6. IsFiniteSet(Unread)
  <2>1. Unread \subseteq Plugins
    BY <1>b DEF Unread
  <2>. QED
    BY <2>1, PluginsFinite, FS_Subset
<1>7. PendingCountsUnread'
  <2>1. Cardinality(Unread \ {p}) = Cardinality(Unread) - 1
    BY <1>5, <1>6, FS_RemoveElement
  <2>2. pending = Cardinality(Unread)
    BY <1>a DEF IInv, PendingCountsUnread
  <2>. QED
    BY <1>a, <1>5, <2>1, <2>2 DEF PendingCountsUnread
<1>8. Sent'
  BY <1>a DEF IInv, Sent
<1>9. FinalIsComplete'
  BY <1>a DEF IInv, Sent, FinalIsComplete
<1>. QED
  BY <1>1, <1>2, <1>4, <1>7, <1>8, <1>9 DEF IInv

\* Either timer sends a partial and touches nothing else the invariant reads.
LEMMA PartialKeeps ==
    ASSUME NEW shown \in SUBSET Plugins, IInv, pc = "select",
           Emit(TRUE, shown, "none"), emittedPartial' = TRUE,
           UNCHANGED <<handles, outcome, rx, pending, collected, anyError,
                       partialTimer, floorTimer, pc>>
    PROVE  IInv'
<1>. DEFINE m == [partial |-> TRUE, entries |-> shown, error |-> "none"]
<1>0. /\ m \in Message /\ out \in Seq(Message) /\ out' = Append(out, m)
      /\ m.partial = TRUE /\ m.error = "none"
  BY DEF Message, Errors, IInv, TypeOK, Emit
<1>. HIDE DEF m
<1>a. /\ out' \in Seq(Message)
      /\ DOMAIN out' = DOMAIN out \cup {Len(out) + 1}
      /\ \A i \in DOMAIN out : out'[i] = out[i]
      /\ out'[Len(out) + 1] = m
  BY <1>0, MessageAppended
<1>1. TypeOK'
  BY <1>a DEF IInv, TypeOK
<1>2. Answers' /\ Kept' /\ PendingCountsUnread'
  BY DEF IInv, Answers, Kept, Read, PendingCountsUnread, Unread
<1>3. Sent'
  BY <1>0, <1>a DEF IInv, Sent
<1>4. FinalIsComplete'
  BY <1>0, <1>a DEF IInv, Sent, FinalIsComplete
<1>. QED
  BY <1>1, <1>2, <1>3, <1>4 DEF IInv

\* When the loop ends, by its count or by the end of the channel, every outcome
\* has been read.
LEMMA NothingUnread ==
    ASSUME IInv, pc = "select", LoopEnds
    PROVE  /\ rx = {} /\ Read = handles
           /\ \A p \in handles : outcome[p] # "running"
<1>1. Unread \subseteq Plugins
  BY DEF IInv, TypeOK, Unread
<1>2. IsFiniteSet(Unread)
  BY <1>1, PluginsFinite, FS_Subset
<1>3. Unread = {}
  <2>1. CASE pending = 0
    BY <1>2, <2>1, FS_EmptySet DEF IInv, PendingCountsUnread
  <2>2. CASE ChannelClosed
    BY <2>2 DEF ChannelClosed, SomeoneIsRunning, Unread
  <2>. QED
    BY <2>1, <2>2 DEF LoopEnds
<1>. QED
  BY <1>3 DEF IInv, Answers, Read, Unread

LEMMA FinaliseKeeps == IInv /\ Finalise => IInv'
<1>. SUFFICES ASSUME IInv, Finalise PROVE IInv'
  OBVIOUS
<1>. DEFINE m == [partial |-> FALSE, entries |-> collected,
                  error |-> FinalError]
<1>0. /\ m \in Message /\ out \in Seq(Message) /\ out' = Append(out, m)
      /\ m.partial = FALSE /\ m.entries = collected /\ m.error = FinalError
  BY DEF Message, Errors, IInv, TypeOK, Finalise, Emit, FinalError
<1>. HIDE DEF m
<1>a. /\ pc = "select" /\ LoopEnds /\ pc' = "done"
      /\ UNCHANGED <<handles, outcome, rx, pending, collected, anyError,
                     partialTimer, floorTimer, emittedPartial>>
  BY DEF Finalise
<1>b. /\ out' \in Seq(Message)
      /\ DOMAIN out' = DOMAIN out \cup {Len(out) + 1}
      /\ \A i \in DOMAIN out : out'[i] = out[i]
      /\ out'[Len(out) + 1] = m
  BY <1>0, MessageAppended
<1>c. /\ rx = {} /\ Read = handles /\ handles # {}
      /\ \A p \in handles : outcome[p] # "running"
  BY <1>a, NothingUnread DEF IInv, Answers
<1>1. TypeOK'
  BY <1>a, <1>b DEF IInv, TypeOK
<1>2. Answers'
  BY <1>a, <1>c DEF Answers
<1>3. Kept'
  BY <1>a DEF IInv, Kept, Read
<1>4. PendingCountsUnread'
  BY <1>a DEF PendingCountsUnread
<1>5. Sent'
  BY <1>0, <1>a, <1>b DEF IInv, Sent
<1>6. FinalIsComplete'
  <2>1. collected = {p \in handles : outcome[p] = "data"}
    BY <1>c DEF IInv, Kept
  <2>2. anyError <=> \E p \in handles : outcome[p] = "err"
    BY <1>c DEF IInv, Kept
  <2>3. m.error = "AllFailed" <=>
            /\ \E p \in handles : outcome[p] = "err"
            /\ \A p \in handles : outcome[p] # "data"
    BY <1>0, <2>1, <2>2 DEF FinalError
  <2>4. m.error # "NoPluginsConfigured"
    BY <1>0 DEF FinalError
  <2>5. \A i \in DOMAIN out : out[i].partial
    BY <1>a DEF IInv, Sent
  <2>. QED
    BY <1>0, <1>a, <1>b, <1>c, <2>1, <2>3, <2>4, <2>5 DEF FinalIsComplete
<1>. QED
  BY <1>1, <1>2, <1>3, <1>4, <1>5, <1>6 DEF IInv

LEMMA NextKeeps == IInv /\ [Next]_vars => IInv'
<1>. SUFFICES ASSUME IInv, [Next]_vars PROVE IInv'
  OBVIOUS
<1>1. CASE DispatchNothing
  BY <1>1, DispatchNothingKeeps
<1>2. CASE Dispatch
  BY <1>2, DispatchKeeps
<1>3. CASE \E p \in Plugins : Receive(p)
  BY <1>3, ReceiveKeeps
<1>4. CASE PartialDeadlineFires
  <2>1. collected \in SUBSET Plugins
    BY DEF IInv, TypeOK
  <2>. QED
    BY <1>4, <2>1, PartialKeeps DEF PartialDeadlineFires
<1>5. CASE HardFloorFires
  <2>1. {} \in SUBSET Plugins
    OBVIOUS
  <2>. QED
    BY <1>5, <2>1, PartialKeeps DEF HardFloorFires
<1>6. CASE Finalise
  BY <1>6, FinaliseKeeps
<1>7. CASE Tick
  BY <1>7, TickKeeps
<1>8. CASE \E p \in Plugins : Answer(p)
  BY <1>8, AnswerKeeps
<1>9. CASE UNCHANGED vars
  BY <1>9 DEF vars, IInv, TypeOK, Answers, Kept, Read, PendingCountsUnread,
              Unread, Sent, FinalIsComplete
<1>. QED
  BY <1>1, <1>2, <1>3, <1>4, <1>5, <1>6, <1>7, <1>8, <1>9 DEF Next, ScopeTask

THEOREM Invariant == Spec => []IInv
  BY InitIInv, NextKeeps, PTL DEF Spec

(***************************************************************************)
(* The theorems.                                                           *)
(***************************************************************************)

\* The variables keep their types for any set of sources and any deadlines.
THEOREM TypeCorrect == Spec => []TypeOK
<1>1. IInv => TypeOK
  BY DEF IInv
<1>. QED
  BY <1>1, Invariant, PTL

\* The countdown of run_scope_timing is exact at every step.
THEOREM CountdownIsExact == Spec => []PendingCountsUnread
<1>1. IInv => PendingCountsUnread
  BY DEF IInv
<1>. QED
  BY <1>1, Invariant, PTL

\* No final message is sent before the last source has answered, and it leaves
\* no source's entries out.
THEOREM FinalIsAlwaysComplete == Spec => []FinalIsComplete
<1>1. IInv => FinalIsComplete
  BY DEF IInv
<1>. QED
  BY <1>1, Invariant, PTL

\* Every step of the loop is a step of ScopeStream, or none: at most one partial,
\* which shows everything once the deadline is up, then one final.
THEOREM KeepsThePromise == Spec => ImplementsScopeStream
<1>. DEFINE due == partialTimer = 0
<1>1. Init => Promise!Init
  BY DEF Init, NoTimer, Promise!Init
<1>2. IInv /\ [Next]_vars => [Promise!Next]_<<collected, due, out>>
  <2>. SUFFICES ASSUME IInv, [Next]_vars
                PROVE  [Promise!Next]_<<collected, due, out>>
    OBVIOUS
  <2>. USE DEF Promise!Next
  <2>0. pc = "select" => ~Promise!Finalised
    BY DEF IInv, Sent, Promise!Finalised
  <2>1. CASE DispatchNothing
    <3>1. out = <<>> /\ collected = {} /\ collected' = collected
      <4>1. handles = {}
        BY <2>1 DEF DispatchNothing
      <4>2. Read = {}
        BY <4>1 DEF Read
      <4>. QED
        BY <2>1, <4>2 DEF DispatchNothing, IInv, Sent, Kept
    <3>2. ~Promise!Finalised
      BY <3>1, EmptySeq, LenProperties DEF Promise!Finalised
    <3>. QED
      BY <2>1, <3>1, <3>2 DEF DispatchNothing, Emit, Promise!SendFinal
  <2>2. CASE Dispatch
    BY <2>2 DEF Dispatch
  <2>3. CASE \E p \in Plugins : Receive(p)
    <3>1. PICK p \in Plugins : Receive(p)
      BY <2>3
    <3>2. pc = "select" /\ out' = out
      BY <3>1 DEF Receive
    <3>3. due' = due
      BY <3>1, DeadlinesAreTicks DEF Receive, StartPartialTimer, NoTimer
    <3>4. CASE outcome[p] = "data"
      BY <2>0, <3>1, <3>2, <3>3, <3>4 DEF Receive, Promise!Learn
    <3>5. CASE outcome[p] # "data"
      BY <3>1, <3>2, <3>3, <3>5 DEF Receive
    <3>. QED
      BY <3>4, <3>5
  <2>4. CASE PartialDeadlineFires
    BY <2>4 DEF PartialDeadlineFires, PartialDeadlineReady, Emit, IInv, Sent,
                Promise!SendKnown, Promise!SendPartial
  <2>5. CASE HardFloorFires
    BY <2>5 DEF HardFloorFires, PartialDeadlineReady, Emit, IInv, Sent,
                Promise!SendPlaceholder, Promise!SendPartial
  <2>6. CASE Finalise
    BY <2>0, <2>6 DEF Finalise, Emit, FinalError, Promise!SendFinal
  <2>7. CASE Tick
    <3>1. due => due'
      BY <2>7 DEF Tick, CountDown
    <3>2. pc = "select" /\ UNCHANGED <<collected, out>>
      BY <2>7 DEF Tick
    <3>. QED
      BY <2>0, <3>1, <3>2 DEF Promise!BecomeDue
  <2>8. CASE \E p \in Plugins : Answer(p)
    BY <2>8 DEF Answer
  <2>9. CASE UNCHANGED vars
    BY <2>9 DEF vars
  <2>. QED
    BY <2>1, <2>2, <2>3, <2>4, <2>5, <2>6, <2>7, <2>8, <2>9 DEF Next, ScopeTask
<1>. QED
  BY <1>1, <1>2, Invariant, PTL
     DEF Spec, ImplementsScopeStream, Promise!Spec
=============================================================================
