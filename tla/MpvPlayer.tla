------------------------------ MODULE MpvPlayer ------------------------------
(***************************************************************************)
(* The mpv process manager, runtime/src/player/mpv.rs, driven by the       *)
(* requests of runtime/src/player/bridge.rs.                               *)
(*                                                                         *)
(* Each play, torrent play, stop and stream switch is a task of its own    *)
(* (main.rs spawns them), and each mpv launched gets one run_ipc_loop      *)
(* task.  They share three things: the slot of the child process (proc),   *)
(* the cached write half of the IPC connection (sock_tx) and the socket    *)
(* path, which is the same for every mpv of one runtime.  ipc_epoch is to  *)
(* tell an old loop from the current one.  Every access to a shared field  *)
(* is an action of its own, because only that access is locked.            *)
(*                                                                         *)
(* The mpv a task launches, and its IPC loop, bear the task's name.        *)
(***************************************************************************)
EXTENDS Naturals, FiniteSets

CONSTANTS
  Plays,      \* tasks that play a direct URL (launch_mpv)
  Torrents,   \* tasks that play a torrent (play_via_torrent)
  Switches,   \* SwitchStream requests with a direct URL (run_player_cmd)
  Stops,      \* player_stop requests
  NoOne       \* None

Tasks == Plays \cup Torrents \cup Switches \cup Stops

ASSUME TasksAssumption ==
  /\ NoOne \notin Tasks
  /\ Plays \cap (Torrents \cup Switches \cup Stops) = {}
  /\ Torrents \cap (Switches \cup Stops) = {}
  /\ Switches \cap Stops = {}

VARIABLES
  pc,        \* where each task stands
  proc,      \* MpvInner::proc: the supervised child
  epoch,     \* MpvInner::ipc_epoch
  writer,    \* MpvInner::sock_tx: the loop whose write half is cached
  mp,        \* each mpv process
  sock,      \* the mpv that bound the socket file now at the shared path
  playing,   \* the task whose URL each mpv was last told to play
  loop,      \* where each run_ipc_loop stands
  mine,      \* my_epoch of each loop; 0 until the task has launched
  conn,      \* the mpv each loop is connected to
  found      \* history: the child each stop() found when it began

taskVars == <<pc, playing, found>>
loopVars == <<loop, mine, conn>>
vars == <<pc, proc, epoch, writer, mp, sock, playing, loop, mine, conn, found>>

Steps == {"idle", "look", "quit", "bump", "kill", "drop", "launch", "store", "claim",
          "announce", "fetch", "report", "hold", "load", "done"}
AfterKill == {"drop", "launch", "store"}
LoopSteps == {"none", "connecting", "peek", "install", "reading", "clear", "take", "gone"}
Maybe(S) == S \cup {NoOne}

TypeOK ==
  /\ pc \in [Tasks -> Steps]
  /\ proc \in Maybe(Tasks)
  /\ epoch \in Nat
  /\ writer \in Maybe(Tasks)
  /\ mp \in [Tasks -> {"none", "starting", "listening", "dead"}]
  /\ sock \in Maybe(Tasks)
  /\ playing \in [Tasks -> Maybe(Tasks)]
  /\ loop \in [Tasks -> LoopSteps]
  /\ mine \in [Tasks -> Nat]
  /\ conn \in [Tasks -> Maybe(Tasks)]
  /\ found \in [Tasks -> Maybe(Tasks)]

Init ==
  /\ pc = [t \in Tasks |-> "idle"]
  /\ proc = NoOne
  /\ epoch = 0
  /\ writer = NoOne
  /\ mp = [t \in Tasks |-> "none"]
  /\ sock = NoOne
  /\ playing = [t \in Tasks |-> NoOne]
  /\ loop = [t \in Tasks |-> "none"]
  /\ mine = [t \in Tasks |-> 0]
  /\ conn = [t \in Tasks |-> NoOne]
  /\ found = [t \in Tasks |-> NoOne]

Live == {p \in Tasks : mp[p] \in {"starting", "listening"}}
Accepting(p) == p # NoOne /\ mp[p] = "listening"
Goto(t, from, to) == pc[t] = from /\ pc' = [pc EXCEPT ![t] = to]

\* SIGKILL to p's process if p is one and it is still alive: Child::kill, and
\* the drop of a Child spawned with kill_on_drop.
Killed(p) == [q \in Tasks |-> IF q = p /\ q \in Live THEN "dead" ELSE mp[q]]

----------------------------------------------------------------------------
(* send_command: the cached writer, or else a fresh connection.             *)

WriterWorks == writer # NoOne /\ Accepting(conn[writer])

\* The mpv that a command reaches, if any.  A cached writer is used at once.  One
\* that is missing, broken or stuck beyond the write's deadline is dropped, and the
\* sender connects to the socket path, which may fail too.
Send(to) ==
  \/ WriterWorks /\ to = conn[writer] /\ UNCHANGED writer
  \/ writer' = NoOne /\ to \in Maybe({p \in {sock} : Accepting(p)})

----------------------------------------------------------------------------
(* stop()                                                                    *)

Look(t, from) ==
  /\ Goto(t, from, IF proc = NoOne THEN "bump" ELSE "quit")
  /\ found' = [found EXCEPT ![t] = proc]
  /\ UNCHANGED <<proc, epoch, writer, mp, sock, playing, loopVars>>

\* Without the deadline of send_command's wait for the writer: it polls on.
AskToQuitNoDeadline(t) ==
  /\ Goto(t, "quit", IF WriterWorks THEN "bump" ELSE "quit")
  /\ UNCHANGED <<proc, epoch, writer, mp, sock, playing, found, loopVars>>

\* The quit command only asks; mpv may exit at any time (MpvExits).
AskToQuit(t) ==
  /\ Goto(t, "quit", "bump")
  /\ \E to \in Maybe(Tasks) : Send(to)
  /\ UNCHANGED <<proc, epoch, mp, sock, playing, found, loopVars>>

Bump(t) ==
  /\ Goto(t, "bump", "kill")
  /\ epoch' = epoch + 1
  /\ UNCHANGED <<proc, writer, mp, sock, playing, found, loopVars>>

\* take() and kill() happen under one lock of proc.
Kill(t) ==
  /\ Goto(t, "kill", "drop")
  /\ mp' = Killed(proc)
  /\ proc' = NoOne
  /\ UNCHANGED <<epoch, writer, sock, playing, found, loopVars>>

\* The end of stop(): for a stop request, and for the stop that follows a failed
\* fetch, the task ends here; for a play it goes on to launch.
DropWriter(t) ==
  /\ Goto(t, "drop", IF t \in Stops \/ mine[t] # 0 THEN "done" ELSE "launch")
  /\ writer' = NoOne
  /\ UNCHANGED <<proc, epoch, mp, sock, playing, found, loopVars>>

----------------------------------------------------------------------------
(* play() and play_idle(), after their stop()                               *)

\* The stale socket file is removed and mpv is spawned, or cannot be.  Nothing
\* that runs between the two depends on whether the child exists yet.
Launch(t) ==
  /\ Goto(t, "launch", "store")
  /\ sock' = NoOne
  /\ mp' = [mp EXCEPT ![t] = "starting"]
  /\ playing' = [playing EXCEPT ![t] = IF t \in Torrents THEN NoOne ELSE t]
  /\ UNCHANGED <<proc, epoch, writer, found, loopVars>>

LaunchFails(t) ==
  /\ Goto(t, "launch", "done")
  /\ sock' = NoOne
  /\ UNCHANGED <<proc, epoch, writer, mp, playing, found, loopVars>>

\* A Child dropped without kill_on_drop.
StoreWithoutKillOnDrop(t) ==
  /\ Goto(t, "store", "claim")
  /\ proc' = t
  /\ UNCHANGED <<epoch, writer, mp, sock, playing, found, loopVars>>

\* Storing the new child drops the one a concurrent play left in the slot.
Store(t) ==
  /\ Goto(t, "store", "claim")
  /\ mp' = Killed(proc)
  /\ proc' = t
  /\ UNCHANGED <<epoch, writer, sock, playing, found, loopVars>>

Claim(t) ==
  /\ Goto(t, "claim", IF t \in Torrents THEN "announce" ELSE "done")
  /\ epoch' = epoch + 1
  /\ mine' = [mine EXCEPT ![t] = epoch + 1]
  /\ loop' = [loop EXCEPT ![t] = "connecting"]
  /\ UNCHANGED <<proc, writer, mp, sock, playing, found, conn>>

----------------------------------------------------------------------------
(* play_via_torrent() around play_idle(), and SwitchStream                   *)

\* The overlay's status messages, before the fetch and after it failed.
Announce(t) ==
  /\ \/ Goto(t, "announce", "fetch")
     \/ Goto(t, "report", "hold")
  /\ \E to \in Maybe(Tasks) : Send(to)
  /\ UNCHANGED <<proc, epoch, mp, sock, playing, found, loopVars>>

FetchEnds(t) ==
  /\ \E next \in {"load", "report"} : Goto(t, "fetch", next)
  /\ UNCHANGED <<proc, epoch, writer, mp, sock, playing, found, loopVars>>

\* is_running(), which also forgets a child that has exited.
AskRunning(t) ==
  /\ Goto(t, "idle", IF proc \in Live THEN "load" ELSE "look")
  /\ proc' = IF proc \in Live THEN proc ELSE NoOne
  /\ UNCHANGED <<epoch, writer, mp, sock, playing, found, loopVars>>

\* loadfile ... replace, to whichever mpv the command reaches.
LoadFile(t) ==
  /\ Goto(t, "load", "done")
  /\ \E to \in Maybe(Tasks) :
       /\ Send(to)
       /\ playing' = IF to = NoOne THEN playing ELSE [playing EXCEPT ![to] = t]
  /\ UNCHANGED <<proc, epoch, mp, sock, found, loopVars>>

----------------------------------------------------------------------------
(* run_ipc_loop                                                              *)

Step(t, from, to) == loop[t] = from /\ loop' = [loop EXCEPT ![t] = to]

\* wait_for_socket connects to whatever listens at the path.
Connect(t) ==
  /\ Step(t, "connecting", "install")
  /\ Accepting(sock)
  /\ conn' = [conn EXCEPT ![t] = sock]
  /\ UNCHANGED <<taskVars, proc, epoch, writer, mp, sock, mine>>

\* An attempt fails.  Only the last of the 50, or the one after which the child in
\* the slot is found dead, is a step: the others change nothing.
Miss(t) ==
  /\ Step(t, "connecting", "peek")
  /\ ~Accepting(sock)
  /\ UNCHANGED <<taskVars, proc, epoch, writer, mp, sock, mine, conn>>

\* After a failed attempt it looks at the child in the slot, whoever launched it.
GiveUp(t) ==
  /\ Step(t, "peek", "gone")
  /\ proc' = IF proc # NoOne /\ mp[proc] = "dead" THEN NoOne ELSE proc
  /\ UNCHANGED <<taskVars, epoch, writer, mp, sock, mine, conn>>

Install(t) ==
  /\ Step(t, "install", "reading")
  /\ writer' = t
  /\ UNCHANGED <<taskVars, proc, epoch, mp, sock, mine, conn>>

\* The connection ends when its mpv dies and also when its write half is dropped:
\* mpv closes a client whose sending side is shut.
HungUp(t) == writer # t \/ ~Accepting(conn[t])

\* End of the read loop and the epoch check; the two clean-up steps follow it
\* without looking again.
ReadEnds(t) ==
  /\ HungUp(t)
  /\ Step(t, "reading", IF epoch = mine[t] THEN "clear" ELSE "gone")
  /\ conn' = [conn EXCEPT ![t] = NoOne]
  /\ UNCHANGED <<taskVars, proc, epoch, writer, mp, sock, mine>>

ClearWriter(t) ==
  /\ Step(t, "clear", "take")
  /\ writer' = NoOne
  /\ UNCHANGED <<taskVars, proc, epoch, mp, sock, mine, conn>>

TakeProc(t) ==
  /\ Step(t, "take", "gone")
  /\ mp' = Killed(proc)
  /\ proc' = NoOne
  /\ UNCHANGED <<taskVars, epoch, writer, sock, mine, conn>>

----------------------------------------------------------------------------
(* mpv itself: it replaces the socket file by its own, and may exit whenever *)
(* the user closes it, a quit command arrives or it fails.                   *)

MpvListens(p) ==
  /\ mp[p] = "starting"
  /\ mp' = [mp EXCEPT ![p] = "listening"]
  /\ sock' = p
  /\ UNCHANGED <<taskVars, loopVars, proc, epoch, writer>>

MpvExits(p) ==
  /\ p \in Live
  /\ mp' = [mp EXCEPT ![p] = "dead"]
  /\ UNCHANGED <<taskVars, loopVars, proc, epoch, writer, sock>>

----------------------------------------------------------------------------
Request(t) == IF t \in Switches THEN AskRunning(t) ELSE Look(t, "idle")

TaskStep(t) ==
  \/ \E from \in {"look", "hold"} : Look(t, from)
  \/ AskToQuit(t)
  \/ Bump(t)
  \/ Kill(t)
  \/ DropWriter(t)
  \/ Launch(t)
  \/ LaunchFails(t)
  \/ Store(t)
  \/ Claim(t)
  \/ Announce(t)
  \/ FetchEnds(t)
  \/ LoadFile(t)

LoopStep(t) ==
  \/ Connect(t)
  \/ Miss(t)
  \/ GiveUp(t)
  \/ Install(t)
  \/ ReadEnds(t)
  \/ ClearWriter(t)
  \/ TakeProc(t)

Finished == (\A t \in Tasks : pc[t] = "done") /\ UNCHANGED vars

Next ==
  \/ \E t \in Tasks : Request(t) \/ TaskStep(t) \/ LoopStep(t) \/ MpvListens(t) \/ MpvExits(t)
  \/ Finished

Spec == Init /\ [][Next]_vars

\* Every await of a task or of a loop has a deadline (the command's, the fetch's,
\* the 50 connection attempts) or a lock held for a bounded time.
FairSpec == Spec /\ \A t \in Tasks : WF_vars(TaskStep(t)) /\ WF_vars(LoopStep(t))

----------------------------------------------------------------------------
(* Properties                                                                *)

\* A running mpv is the supervised one, or was spawned an instant ago and is on
\* its way into the slot (play and play_idle, mpv.rs:302-307): however plays,
\* stops and IPC loops overlap, no window is left that nobody can close.
NoStrayWindow == \A p \in Live : proc = p \/ pc[p] = "store"

\* When stop() has taken the child (mpv.rs:484), the mpv it found at its start is
\* dead, whoever replaced or removed it in the meantime.
StopKillsWhatItFound ==
  \A t \in Tasks : pc[t] \in AfterKill /\ found[t] # NoOne => mp[found[t]] = "dead"

\* The windows whose process has reached the slot, and those of them still up.
Opened == {p \in Tasks : mp[p] # "none" /\ pc[p] # "store"}
Screen == INSTANCE OneWindow WITH
  Windows <- Tasks, shown <- Live \cap Opened, opened <- Opened

\* The screen shows one player window at a time, and a later play takes the place
\* of the earlier one in one step (play() "kills any currently running instance
\* first", mpv.rs:208), whichever order concurrent plays are stored in.
OneWindowAtATime == Screen!Spec

\* When no more requests come, everything settles, even if mpv never opens its
\* socket or dies at a bad moment: every request has ended (send_command's
\* deadlines, mpv.rs:531-561), and every IPC loop has ended or is reading from a
\* live mpv (mpv.rs:766, 942-963), never left on a dead connection.
Settles ==
  <>[](\A t \in Tasks :
         /\ pc[t] \in {"idle", "done"}
         /\ \/ loop[t] \in {"none", "gone"}
            \/ loop[t] = "reading" /\ ~HungUp(t))

\* What the comment at mpv.rs:918-920 says: only the exit of its mpv tears the
\* current IPC loop down (its end kills the mpv in the slot).
OnlyExitTearsDown ==
  [][\A t \in Tasks :
       loop[t] = "reading" /\ loop'[t] = "clear" => ~Accepting(conn[t])]_vars
=============================================================================
