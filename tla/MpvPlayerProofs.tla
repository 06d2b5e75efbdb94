--------------------------- MODULE MpvPlayerProofs ---------------------------
(***************************************************************************)
(* What MpvPlayer guarantees for any number of plays, switches and stops.  *)
(* The argument: a process is put into the slot once, after it was         *)
(* launched once, and every step that takes it out of the slot kills it.   *)
(***************************************************************************)
EXTENDS MpvPlayer, TLAPS

Reached(p) == mp[p] # "none" /\ pc[p] # "store"

\* A task that has not launched has no process; one about to launch has not
\* launched before.
Fresh ==
  \A t \in Tasks :
    /\ mine[t] = 0 /\ pc[t] \notin {"store", "claim"} => mp[t] = "none"
    /\ pc[t] = "launch" => mine[t] = 0
    /\ pc[t] = "store" => mp[t] # "none"

\* The slot, and what a stop() found there, are processes that reached the slot.
SlotReached == proc # NoOne => Reached(proc)
FoundReached == \A t \in Tasks : found[t] # NoOne => Reached(found[t])

IInv ==
  /\ TypeOK
  /\ Fresh
  /\ SlotReached
  /\ FoundReached
  /\ NoStrayWindow
  /\ StopKillsWhatItFound

\* The initial state satisfies the invariant.
LEMMA InitInvariant == Init => IInv
<1> SUFFICES ASSUME Init PROVE IInv
  OBVIOUS
<1>1. TypeOK
  BY DEF Init, TypeOK, Steps, LoopSteps, Maybe
<1>2. Fresh /\ SlotReached /\ FoundReached
  BY DEF Init, Fresh, SlotReached, FoundReached
<1>3. NoStrayWindow /\ StopKillsWhatItFound
  BY DEF Init, NoStrayWindow, StopKillsWhatItFound, Live, AfterKill
<1> QED BY <1>1, <1>2, <1>3 DEF IInv

\* Type correctness is preserved by every step.
LEMMA TypeStep ==
  ASSUME TypeOK, [Next]_vars
  PROVE  TypeOK'
<1> USE DEF TypeOK, Steps, LoopSteps, Maybe
<1>1. ASSUME NEW t \in Tasks, TaskStep(t) \/ Request(t) PROVE TypeOK'
  <2>1. CASE \E from \in {"idle", "look", "hold"} : Look(t, from)
    BY <2>1 DEF Look, Goto, loopVars
  <2>2. CASE AskToQuit(t) \/ Announce(t)
    BY <2>2 DEF AskToQuit, Announce, Goto, Send, loopVars
  <2>3. CASE Bump(t)
    BY <2>3 DEF Bump, Goto, loopVars
  <2>4. CASE Kill(t)
    BY <2>4 DEF Kill, Goto, Killed, loopVars
  <2>5. CASE DropWriter(t)
    BY <2>5 DEF DropWriter, Goto, loopVars
  <2>6. CASE Launch(t) \/ LaunchFails(t)
    BY <2>6 DEF Launch, LaunchFails, Goto, loopVars
  <2>7. CASE Store(t)
    BY <2>7 DEF Store, Goto, Killed, loopVars
  <2>8. CASE Claim(t)
    BY <2>8 DEF Claim, Goto
  <2>9. CASE FetchEnds(t)
    BY <2>9 DEF FetchEnds, Goto, loopVars
  <2>10. CASE AskRunning(t)
    BY <2>10 DEF AskRunning, Goto, loopVars
  <2>11. CASE LoadFile(t)
    BY <2>11 DEF LoadFile, Goto, Send, loopVars
  <2> QED BY <1>1, <2>1, <2>2, <2>3, <2>4, <2>5, <2>6, <2>7, <2>8, <2>9, <2>10, <2>11
             DEF TaskStep, Request
<1>2. ASSUME NEW t \in Tasks, LoopStep(t) PROVE TypeOK'
  <2>1. CASE Connect(t)
    BY <2>1 DEF Connect, Step, Accepting, taskVars
  <2>2. CASE Miss(t) \/ GiveUp(t) \/ Install(t)
    BY <2>2 DEF Miss, GiveUp, Install, Step, taskVars
  <2>3. CASE ReadEnds(t) \/ ClearWriter(t)
    BY <2>3 DEF ReadEnds, ClearWriter, Step, taskVars
  <2>4. CASE TakeProc(t)
    BY <2>4 DEF TakeProc, Step, Killed, taskVars
  <2> QED BY <1>2, <2>1, <2>2, <2>3, <2>4 DEF LoopStep
<1>3. ASSUME NEW t \in Tasks, MpvListens(t) \/ MpvExits(t) PROVE TypeOK'
  BY <1>3 DEF MpvListens, MpvExits, taskVars, loopVars
<1>4. CASE UNCHANGED vars
  BY <1>4 DEF vars
<1> QED BY <1>1, <1>2, <1>3, <1>4 DEF Next, Finished

----------------------------------------------------------------------------
(* How a step may change the processes.  Most steps leave mp and proc alone; *)
(* what they do to pc and mine is what the invariant depends on.             *)

\* A step that touches no process and no slot, and takes one task from one place
\* to another that is not about a launch, preserves the invariant.
LEMMA QuietStep ==
  ASSUME IInv, TypeOK', NEW t \in Tasks, NEW from, NEW to,
         Goto(t, from, to), from \notin {"launch", "store", "claim"},
         to \notin {"launch", "store", "claim", "drop"},
         UNCHANGED <<mp, proc, mine>>,
         \A u \in Tasks : found'[u] = found[u] \/ found'[u] = proc,
         \A u \in Tasks : pc[u] \in AfterKill => found'[u] = found[u]
  PROVE  IInv'
<1> USE DEF IInv, TypeOK, Goto
<1>1. Fresh'
  BY DEF Fresh
<1>2. \A p \in Tasks : Reached(p) => Reached(p)'
  BY DEF Reached
<1>3. SlotReached' /\ FoundReached'
  BY <1>2 DEF SlotReached, FoundReached, Maybe
<1>4. NoStrayWindow'
  BY DEF NoStrayWindow, Live
<1>5. StopKillsWhatItFound'
  BY DEF StopKillsWhatItFound, AfterKill, Maybe
<1> QED BY <1>1, <1>3, <1>4, <1>5

\* Killing what is in the slot, or filling the slot after killing it.
LEMMA NobodyElseLives ==
  ASSUME IInv, NEW p \in Tasks, p \in Live, pc[p] # "store"
  PROVE  p = proc
BY DEF IInv, NoStrayWindow

LEMMA KilledDead ==
  ASSUME TypeOK, NEW s, NEW p \in Tasks
  PROVE  /\ Killed(s)[p] \in {"dead", mp[p]}
         /\ Killed(s)[p] = "none" <=> mp[p] = "none"
         /\ mp[p] = "dead" => Killed(s)[p] = "dead"
         /\ p = s /\ mp[p] # "none" => Killed(s)[p] = "dead"
BY DEF TypeOK, Killed, Live

----------------------------------------------------------------------------
LEMMA TaskInvariant ==
  ASSUME IInv, TypeOK', NEW t \in Tasks, TaskStep(t) \/ Request(t)
  PROVE  IInv'
<1> USE DEF IInv, TypeOK
<1>1. CASE \E from \in {"idle", "look", "hold"} : Look(t, from)
  <2> PICK from \in {"idle", "look", "hold"} : Look(t, from)
    BY <1>1
  <2> DEFINE to == IF proc = NoOne THEN "bump" ELSE "quit"
  <2>1. Goto(t, from, to) /\ UNCHANGED <<mp, proc, mine>>
    BY DEF Look, loopVars
  <2>2. pc[t] \notin AfterKill
    BY <2>1 DEF Goto, AfterKill
  <2>3. \A u \in Tasks : found'[u] = IF u = t THEN proc ELSE found[u]
    BY DEF Look
  <2> QED BY <2>1, <2>2, <2>3, QuietStep
<1>2. CASE AskToQuit(t) \/ Bump(t)
  <2>1. PICK from \in {"quit", "bump"}, to \in {"bump", "kill"} : Goto(t, from, to)
    BY <1>2 DEF AskToQuit, Bump
  <2>2. UNCHANGED <<mp, proc, mine, found>>
    BY <1>2 DEF AskToQuit, Bump, loopVars
  <2> QED BY <2>1, <2>2, QuietStep
<1>3. CASE Announce(t) \/ FetchEnds(t) \/ LoadFile(t)
  <2>1. PICK from \in {"announce", "fetch", "report", "load"},
             to \in {"fetch", "load", "report", "hold", "done"} :
          Goto(t, from, to)
    BY <1>3 DEF Announce, FetchEnds, LoadFile
  <2>2. UNCHANGED <<mp, proc, mine, found>>
    BY <1>3 DEF Announce, FetchEnds, LoadFile, loopVars
  <2> QED BY <2>1, <2>2, QuietStep
<1>4. CASE Kill(t)
  <2>1. /\ pc[t] = "kill" /\ pc' = [pc EXCEPT ![t] = "drop"]
        /\ mp' = Killed(proc) /\ proc' = NoOne
        /\ UNCHANGED <<mine, found>>
    BY <1>4 DEF Kill, Goto, loopVars
  <2>2. \A p \in Tasks : Reached(p) => Reached(p)'
    BY <2>1, KilledDead DEF Reached
  <2>3. \A p \in Tasks : p \in Live' => p \in Live /\ p # proc /\ pc'[p] = pc[p]
    BY <2>1, KilledDead, NobodyElseLives DEF Live, NoStrayWindow
  <2>4. Fresh'
    BY <2>1, KilledDead DEF Fresh
  <2>5. SlotReached' /\ FoundReached'
    BY <2>1, <2>2 DEF SlotReached, FoundReached, Maybe
  <2>6. NoStrayWindow'
    BY <2>1, <2>3 DEF NoStrayWindow, Live
  <2>7. \A u \in Tasks : found[u] # NoOne => mp'[found[u]] = "dead"
    BY <2>1, <2>3, KilledDead DEF FoundReached, Reached, Maybe, NoStrayWindow, Live
  <2>8. StopKillsWhatItFound'
    BY <2>1, <2>7 DEF StopKillsWhatItFound
  <2> QED BY <2>4, <2>5, <2>6, <2>8
<1>5. CASE DropWriter(t)
  <2>1. PICK to \in {"done", "launch"} :
          /\ pc[t] = "drop" /\ pc' = [pc EXCEPT ![t] = to]
          /\ to = "launch" => mine[t] = 0
          /\ UNCHANGED <<mp, proc, mine, found>>
    BY <1>5 DEF DropWriter, Goto, loopVars
  <2>2. Fresh' /\ SlotReached' /\ FoundReached'
    BY <2>1 DEF Fresh, SlotReached, FoundReached, Reached, Maybe
  <2>3. NoStrayWindow' /\ StopKillsWhatItFound'
    BY <2>1 DEF NoStrayWindow, StopKillsWhatItFound, AfterKill, Live
  <2> QED BY <2>2, <2>3
<1>6. CASE Launch(t)
  <2>1. /\ pc[t] = "launch" /\ pc' = [pc EXCEPT ![t] = "store"]
        /\ mp' = [mp EXCEPT ![t] = "starting"] /\ UNCHANGED <<proc, mine, found>>
    BY <1>6 DEF Launch, Goto, loopVars
  <2>2. mp[t] = "none"
    BY <2>1 DEF Fresh
  <2>3. \A p \in Tasks : Reached(p) => Reached(p)' /\ mp'[p] = mp[p] /\ p # t
    BY <2>1, <2>2 DEF Reached
  <2>4. Fresh' /\ SlotReached' /\ FoundReached'
    BY <2>1, <2>3 DEF Fresh, SlotReached, FoundReached, Maybe
  <2>5. NoStrayWindow'
    BY <2>1 DEF NoStrayWindow, Live
  <2>6. StopKillsWhatItFound'
    BY <2>1, <2>3 DEF StopKillsWhatItFound, AfterKill, FoundReached, Maybe
  <2> QED BY <2>4, <2>5, <2>6
<1>7. CASE LaunchFails(t)
  <2>1. /\ pc[t] = "launch" /\ pc' = [pc EXCEPT ![t] = "done"]
        /\ UNCHANGED <<mp, proc, mine, found>>
    BY <1>7 DEF LaunchFails, Goto, loopVars
  <2>2. Fresh' /\ SlotReached' /\ FoundReached'
    BY <2>1 DEF Fresh, SlotReached, FoundReached, Reached, Maybe
  <2>3. NoStrayWindow' /\ StopKillsWhatItFound'
    BY <2>1 DEF NoStrayWindow, StopKillsWhatItFound, AfterKill, Live
  <2> QED BY <2>2, <2>3
<1>8. CASE Store(t)
  <2>1. /\ pc[t] = "store" /\ pc' = [pc EXCEPT ![t] = "claim"]
        /\ mp' = Killed(proc) /\ proc' = t
        /\ UNCHANGED <<mine, found>>
    BY <1>8 DEF Store, Goto, loopVars
  <2>2. \A p \in Tasks : Reached(p) => Reached(p)'
    BY <2>1, KilledDead DEF Reached
  <2>3. mp'[t] # "none"
    BY <2>1, KilledDead DEF Fresh
  <2>4. Fresh' /\ FoundReached'
    BY <2>1, <2>2, KilledDead DEF Fresh, FoundReached, Maybe
  <2>5. SlotReached'
    BY <2>1, <2>3 DEF SlotReached, Reached
  <2>6. NoStrayWindow'
    BY <2>1, KilledDead, NobodyElseLives DEF NoStrayWindow, Live
  <2>7. StopKillsWhatItFound'
    BY <2>1, KilledDead DEF StopKillsWhatItFound, AfterKill, Maybe
  <2> QED BY <2>4, <2>5, <2>6, <2>7
<1>9. CASE Claim(t)
  <2>1. PICK to \in {"announce", "done"} :
          /\ pc[t] = "claim" /\ pc' = [pc EXCEPT ![t] = to]
          /\ mine' = [mine EXCEPT ![t] = epoch + 1]
          /\ UNCHANGED <<mp, proc, found>>
    BY <1>9 DEF Claim, Goto
  <2> epoch + 1 # 0
    OBVIOUS
  <2>2. Fresh' /\ SlotReached' /\ FoundReached'
    BY <2>1 DEF Fresh, SlotReached, FoundReached, Reached, Maybe
  <2>3. NoStrayWindow' /\ StopKillsWhatItFound'
    BY <2>1 DEF NoStrayWindow, StopKillsWhatItFound, AfterKill, Live
  <2> QED BY <2>2, <2>3
<1>10. CASE AskRunning(t)
  <2>1. PICK to \in {"load", "look"} :
          /\ pc[t] = "idle" /\ pc' = [pc EXCEPT ![t] = to]
          /\ proc' \in {proc, NoOne} /\ (proc \in Live => proc' = proc)
          /\ UNCHANGED <<mp, mine, found>>
    BY <1>10 DEF AskRunning, Goto, loopVars
  <2>2. Fresh' /\ SlotReached' /\ FoundReached'
    BY <2>1 DEF Fresh, SlotReached, FoundReached, Reached, Maybe
  <2>3. NoStrayWindow' /\ StopKillsWhatItFound'
    BY <2>1 DEF NoStrayWindow, StopKillsWhatItFound, AfterKill, Live
  <2> QED BY <2>2, <2>3
<1> QED BY <1>1, <1>2, <1>3, <1>4, <1>5, <1>6, <1>7, <1>8, <1>9, <1>10
           DEF TaskStep, Request

----------------------------------------------------------------------------
\* Steps of IPC loops and of mpv move no task.
LEMMA OtherInvariant ==
  ASSUME IInv, TypeOK', NEW t \in Tasks, LoopStep(t) \/ MpvListens(t) \/ MpvExits(t)
  PROVE  IInv'
<1> USE DEF IInv, TypeOK
<1>1. UNCHANGED <<pc, found, mine>>
  BY DEF LoopStep, Connect, Miss, GiveUp, Install, ReadEnds, ClearWriter, TakeProc, MpvListens,
         MpvExits, taskVars, loopVars
<1>2. /\ \A p \in Tasks :
           /\ mp'[p] = "none" <=> mp[p] = "none"
           /\ mp[p] = "dead" => mp'[p] = "dead"
      /\ proc' \in {proc, NoOne}
      /\ proc \in Live' => proc' = proc
  <2>1. CASE Connect(t) \/ Miss(t) \/ Install(t) \/ ReadEnds(t) \/ ClearWriter(t)
    BY <2>1 DEF Connect, Miss, Install, ReadEnds, ClearWriter, taskVars
  <2>2. CASE GiveUp(t)
    BY <2>2 DEF GiveUp, Live
  <2>3. CASE TakeProc(t)
    BY <2>3, KilledDead DEF TakeProc, Live, Maybe, SlotReached, Reached
  <2>4. CASE MpvListens(t) \/ MpvExits(t)
    BY <2>4 DEF MpvListens, MpvExits, Live
  <2> QED BY <2>1, <2>2, <2>3, <2>4 DEF LoopStep
<1>3. \A p \in Tasks : p \in Live' => p \in Live
  BY <1>2 DEF Live
<1>4. Fresh' /\ SlotReached' /\ FoundReached'
  BY <1>1, <1>2 DEF Fresh, SlotReached, FoundReached, Reached, Maybe
<1>5. NoStrayWindow'
  BY <1>1, <1>2, <1>3 DEF NoStrayWindow, Live
<1>6. StopKillsWhatItFound'
  BY <1>1, <1>2 DEF StopKillsWhatItFound, Maybe
<1> QED BY <1>4, <1>5, <1>6

\* The invariant holds in every state of every execution.
THEOREM Invariant == Spec => []IInv
<1>1. IInv /\ [Next]_vars => IInv'
  <2> SUFFICES ASSUME IInv, [Next]_vars PROVE IInv'
    OBVIOUS
  <2>1. TypeOK'
    BY TypeStep DEF IInv
  <2>2. CASE UNCHANGED vars
    BY <2>2 DEF vars, IInv, TypeOK, Fresh, SlotReached, FoundReached, Reached, NoStrayWindow,
                StopKillsWhatItFound, Live
  <2> QED BY <2>1, <2>2, TaskInvariant, OtherInvariant DEF Next, Finished
<1> QED BY <1>1, InitInvariant, PTL DEF Spec

\* Every variable keeps its type (MpvInner, mpv.rs:157-175).
THEOREM TypeCorrect == Spec => []TypeOK
BY Invariant, PTL DEF IInv

\* No mpv is left running outside the slot (mpv.rs:301-307).
THEOREM NoWindowStrays == Spec => []NoStrayWindow
BY Invariant, PTL DEF IInv

\* stop() leaves nothing alive that it found when it began (mpv.rs:468-488).
THEOREM StopIsThorough == Spec => []StopKillsWhatItFound
BY Invariant, PTL DEF IInv

----------------------------------------------------------------------------
(* The screen: only Store opens a window; every other step may only close.   *)

Shown == Live \cap Opened

LEMMA StoreOpens ==
  ASSUME IInv, IInv', NEW t \in Tasks, Store(t)
  PROVE  t \notin Opened /\ Opened' = Opened \cup {t} /\ Shown' \in {{t}, {}}
<1> USE DEF IInv, TypeOK
<1>1. /\ pc[t] = "store" /\ pc' = [pc EXCEPT ![t] = "claim"]
      /\ mp' = Killed(proc) /\ proc' = t
  BY DEF Store, Goto
<1>2. t \notin Opened /\ Opened' = Opened \cup {t}
  BY <1>1, KilledDead DEF Opened, Fresh
<1>3. Shown' \subseteq {t}
  BY <1>1 DEF Shown, NoStrayWindow, Opened, Live
<1> QED BY <1>2, <1>3

LEMMA OthersOnlyClose ==
  ASSUME IInv, IInv', [Next]_vars, ~\E t \in Tasks : Store(t)
  PROVE  Opened' = Opened /\ Shown' \in {Shown, {}}
<1> USE DEF IInv, TypeOK
<1>1. Shown \subseteq {proc}
  BY DEF Shown, NoStrayWindow, Opened, Live
<1>2. ASSUME NEW t \in Tasks, TaskStep(t) \/ Request(t)
      PROVE  Opened' = Opened /\ Shown' \subseteq Shown
  <2>1. CASE Launch(t)
    <3>1. /\ pc[t] = "launch" /\ pc' = [pc EXCEPT ![t] = "store"]
          /\ mp' = [mp EXCEPT ![t] = "starting"]
      BY <2>1 DEF Launch, Goto
    <3>2. mp[t] = "none"
      BY <3>1 DEF Fresh
    <3> QED BY <3>1, <3>2 DEF Opened, Shown, Live
  <2>2. CASE Kill(t)
    <3>1. pc[t] = "kill" /\ pc' = [pc EXCEPT ![t] = "drop"] /\ mp' = Killed(proc)
      BY <2>2 DEF Kill, Goto
    <3> QED BY <3>1, KilledDead DEF Opened, Shown, Live
  <2>3. ASSUME ~Launch(t), ~Kill(t) PROVE UNCHANGED mp /\ \A p \in Tasks : pc'[p] = "store" <=> pc[p] = "store"
    BY <1>2, <2>3 DEF TaskStep, Request, Look, AskToQuit, Bump, DropWriter, LaunchFails, Claim,
                      Announce, FetchEnds, AskRunning, LoadFile, Goto
  <2>4. CASE ~Launch(t) /\ ~Kill(t)
    BY <2>3, <2>4 DEF Opened, Shown, Live
  <2> QED BY <2>1, <2>2, <2>4
<1>3. ASSUME NEW t \in Tasks, LoopStep(t) \/ MpvListens(t) \/ MpvExits(t)
      PROVE  Opened' = Opened /\ Shown' \subseteq Shown
  <2>1. UNCHANGED pc
    BY <1>3 DEF LoopStep, Connect, Miss, GiveUp, Install, ReadEnds, ClearWriter, TakeProc, MpvListens,
                MpvExits, taskVars
  <2>2. CASE TakeProc(t)
    BY <2>1, <2>2, KilledDead DEF TakeProc, Opened, Shown, Live
  <2>3. CASE Connect(t) \/ Miss(t) \/ GiveUp(t) \/ Install(t) \/ ReadEnds(t) \/ ClearWriter(t)
    BY <2>1, <2>3 DEF Connect, Miss, GiveUp, Install, ReadEnds, ClearWriter, Opened, Shown, Live
  <2>4. CASE MpvListens(t) \/ MpvExits(t)
    BY <2>1, <2>4 DEF MpvListens, MpvExits, Opened, Shown, Live
  <2> QED BY <1>3, <2>2, <2>3, <2>4 DEF LoopStep
<1>4. CASE UNCHANGED vars
  BY <1>4 DEF vars, Opened, Shown, Live
<1>5. Opened' = Opened /\ Shown' \subseteq Shown
  BY <1>2, <1>3, <1>4 DEF Next, Finished
<1> QED BY <1>1, <1>5

\* The mpv manager implements OneWindow: a window opens once, alone, and by a step
\* that takes the previous one's place (play, mpv.rs:208, 333).
THEOREM OneWindowImplemented == Spec => OneWindowAtATime
<1>1. Init => Screen!Init
  BY DEF Init, Screen!Init, Opened, Live
<1>2. IInv /\ IInv' /\ [Next]_vars => [Screen!Next]_Screen!vars
  <2> SUFFICES ASSUME IInv, IInv', [Next]_vars PROVE [Screen!Next]_Screen!vars
    OBVIOUS
  <2>1. CASE \E t \in Tasks : Store(t)
    <3>1. PICK t \in Tasks : Store(t)
      BY <2>1
    <3>2. Screen!Open(t)
      BY <3>1, StoreOpens DEF Screen!Open, Shown
    <3> QED BY <3>2 DEF Screen!Next
  <2>2. CASE ~\E t \in Tasks : Store(t)
    <3>1. Opened' = Opened /\ Shown' \in {Shown, {}}
      BY <2>2, OthersOnlyClose
    <3> QED BY <3>1 DEF Screen!Next, Screen!Close, Screen!vars, Shown
  <2> QED BY <2>1, <2>2
<1> QED BY <1>1, <1>2, Invariant, PTL DEF Spec, Screen!Spec, OneWindowAtATime
=============================================================================
