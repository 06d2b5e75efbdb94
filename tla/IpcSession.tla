------------------------------ MODULE IpcSession ------------------------------
(***************************************************************************)
(* One session between the terminal client and its runtime process: the    *)
(* request table of the Go client (tui/internal/ipc/internal.go), the two  *)
(* pipes, and the runtime's request loop (run_ipc_loop in main.rs) with    *)
(* the bounded channel its background tasks answer through.                *)
(*                                                                         *)
(* Each call is one goroutine of the client.  The client's mutex c.mu      *)
(* guards the table and is held across the write to the runtime's stdin.   *)
(* The runtime's loop does one thing at a time: an inline handler keeps it *)
(* from reading requests and from draining the event channel, of which it  *)
(* is the only consumer.                                                   *)
(*                                                                         *)
(* A call is written on the wire as its id; "event" stands for a line that *)
(* carries no id (a grid update, a toast, a player or stream event).       *)
(***************************************************************************)
EXTENDS Naturals, Sequences

CONSTANTS
  Calls,      \* requests of the client, one goroutine each
  Scenarios,  \* which kinds of request they may be
  InCap,      \* lines the stdin pipe holds
  OutCap,     \* lines the stdout pipe holds
  EvCap,      \* capacity of the event channel (128 in main.rs)
  MaxWork,    \* bound: events a find_streams sends, files a tag job writes
  MaxNews,    \* bound: events of background tasks (mpv, MPD, torrents)
  MaxGrids,   \* bound: grid updates, toasts and stale notices
  MayCrash,   \* whether the runtime may die by itself
  MayOverrun  \* whether a line may exceed the reader's 1 MiB

Kinds == {"inline", "streams", "apply", "cancel", "spawned", "oneway"}
Unnamed == {"event", "huge", "shutdown", "free"}   \* never the id of a call

ASSUME SessionAssumption ==
  /\ Scenarios \subseteq [Calls -> Kinds]
  /\ Calls \cap Unnamed = {}
  /\ InCap \in Nat \ {0} /\ OutCap \in Nat \ {0} /\ EvCap \in Nat \ {0}
  /\ MaxWork \in Nat \ {0} /\ MaxNews \in Nat /\ MaxGrids \in Nat
  /\ MayCrash \in BOOLEAN /\ MayOverrun \in BOOLEAN

VARIABLES
  kind,     \* how run_ipc_loop serves each request; chosen once
  call,     \* where each goroutine stands
  chan,     \* the response channel of each call
  pending,  \* Client.pending
  mu,       \* who holds c.mu: a call, "shutdown" (Stop) or "free"
  quit,     \* where Client.Stop stands
  reader,   \* where readLoop stands
  hand,     \* the response readLoop is about to route
  stdin,    \* lines on their way to the runtime
  stdout,   \* lines on their way to the client
  loop,     \* where run_ipc_loop stands
  cur,      \* the request it serves or the line it writes
  left,     \* what its handler has still to do
  tasks,    \* requests being served by spawned tasks
  events,   \* the event channel
  job,      \* the tag job of the registry and its cancellation flag
  news, grids,
  alive     \* the runtime process

clientVars == <<call, chan, pending, mu, quit>>
readerVars == <<reader, hand>>
loopVars == <<loop, cur, left, job>>
vars == <<kind, call, chan, pending, mu, quit, reader, hand, stdin, stdout,
          loop, cur, left, tasks, events, job, news, grids, alive>>

CallSteps == {"idle", "registered", "locked", "failed", "waiting", "done",
              "timedout", "panicked"}
Lines == Calls \cup {"event", "huge"}

TypeOK ==
  /\ kind \in Scenarios
  /\ call \in [Calls -> CallSteps]
  /\ chan \in [Calls -> {"open", "answer", "error"}]
  /\ pending \subseteq Calls
  /\ mu \in Calls \cup {"shutdown", "free"}
  /\ quit \in {"no", "wanted", "locked", "sent", "done"}
  /\ reader \in {"scan", "route", "drain", "over"}
  /\ hand \in Lines
  /\ stdin \in Seq(Calls \cup {"shutdown"}) /\ Len(stdin) <= InCap
  /\ stdout \in Seq(Lines) /\ Len(stdout) <= OutCap
  /\ loop \in {"select", "handle", "write", "gone"}
  /\ cur \in Lines
  /\ left \in 0 .. MaxWork
  /\ tasks \subseteq Calls
  /\ events \in Seq(Lines) /\ Len(events) <= EvCap
  /\ job \in {"none", "running", "cancelled"}
  /\ news \in 0 .. MaxNews /\ grids \in 0 .. MaxGrids
  /\ alive \in BOOLEAN

Init ==
  /\ kind \in Scenarios
  /\ call = [c \in Calls |-> "idle"] /\ chan = [c \in Calls |-> "open"]
  /\ pending = {} /\ mu = "free" /\ quit = "no"
  /\ reader = "scan" /\ hand = "event"
  /\ stdin = <<>> /\ stdout = <<>>
  /\ loop = "select" /\ cur = "event" /\ left = 0 /\ job = "none"
  /\ tasks = {} /\ events = <<>>
  /\ news = 0 /\ grids = 0 /\ alive = TRUE

\* A send on a closed channel panics and ends the client.
Up == \A c \in Calls : call[c] # "panicked"
Goto(c, s) == call' = [call EXCEPT ![c] = s]
Asks(c) == kind[c] # "oneway"           \* sendWithID rather than sendRaw

-----------------------------------------------------------------------------
(* The client's goroutines.                                                *)

\* sendWithID: the channel enters the table before the request is written.
Register(c) ==
  /\ Up /\ call[c] = "idle"
  /\ Asks(c) => mu = "free"
  /\ pending' = IF Asks(c) THEN pending \cup {c} ELSE pending
  /\ Goto(c, "registered")
  /\ UNCHANGED <<kind, chan, mu, quit, readerVars, stdin, stdout, loopVars, tasks, events, news, grids, alive>>

\* sendRaw: c.mu is taken, and kept across the write.
TakeLock(c) ==
  /\ Up /\ call[c] = "registered" /\ mu = "free"
  /\ mu' = c
  /\ Goto(c, "locked")
  /\ UNCHANGED <<kind, chan, pending, quit, readerVars, stdin, stdout, loopVars, tasks, events, news, grids, alive>>

Write(c) ==
  /\ Up /\ call[c] = "locked" /\ mu = c
  /\ alive /\ Len(stdin) < InCap
  /\ stdin' = Append(stdin, c)
  /\ mu' = "free"
  /\ Goto(c, IF Asks(c) THEN "waiting" ELSE "done")
  /\ UNCHANGED <<kind, chan, pending, quit, readerVars, stdout, loopVars, tasks, events, news, grids, alive>>

\* Mutant: the lock is not released when the write fails.
WriteFailsKeepingLock(c) ==
  /\ Up /\ call[c] = "locked" /\ mu = c
  /\ ~alive
  /\ Goto(c, IF Asks(c) THEN "failed" ELSE "done")
  /\ UNCHANGED <<kind, chan, pending, mu, quit, readerVars, stdin, stdout, loopVars, tasks, events, news, grids, alive>>

WriteFails(c) ==
  /\ Up /\ call[c] = "locked" /\ mu = c
  /\ ~alive
  /\ mu' = "free"
  /\ Goto(c, IF Asks(c) THEN "failed" ELSE "done")
  /\ UNCHANGED <<kind, chan, pending, quit, readerVars, stdin, stdout, loopVars, tasks, events, news, grids, alive>>

\* The caller takes its request back and answers it itself; if drainPending
\* has answered and closed the channel already, this send panics.
AnswerFailure(c) ==
  /\ Up /\ call[c] = "failed" /\ mu = "free"
  /\ pending' = pending \ {c}
  /\ \/ /\ chan[c] = "open"
        /\ chan' = [chan EXCEPT ![c] = "error"]
        /\ Goto(c, "waiting")
     \/ /\ chan[c] # "open"
        /\ Goto(c, "panicked")
        /\ UNCHANGED chan
  /\ UNCHANGED <<kind, mu, quit, readerVars, stdin, stdout, loopVars, tasks, events, news, grids, alive>>

Receive(c) ==
  /\ Up /\ call[c] = "waiting" /\ chan[c] # "open"
  /\ Goto(c, "done")
  /\ UNCHANGED <<kind, chan, pending, mu, quit, readerVars, stdin, stdout, loopVars, tasks, events, news, grids, alive>>

\* receiveWithTimeout gives up after a minute; the entry stays in the table.
Timeout(c) ==
  /\ Up /\ call[c] = "waiting" /\ chan[c] = "open"
  /\ Goto(c, "timedout")
  /\ UNCHANGED <<kind, chan, pending, mu, quit, readerVars, stdin, stdout, loopVars, tasks, events, news, grids, alive>>

\* What is left behind when the runtime process ends.
RuntimeDies ==
  /\ alive' = FALSE
  /\ loop' = "gone" /\ cur' = "event" /\ left' = 0 /\ job' = "none"
  /\ tasks' = {} /\ events' = <<>> /\ stdin' = <<>>

\* Stop: the shutdown request needs c.mu too; then the process is killed.
WantQuit ==
  /\ Up /\ quit = "no"
  /\ quit' = "wanted"
  /\ UNCHANGED <<kind, call, chan, pending, mu, readerVars, stdin, stdout, loopVars, tasks, events, news, grids, alive>>

QuitLock ==
  /\ Up /\ quit = "wanted" /\ mu = "free"
  /\ quit' = "locked" /\ mu' = "shutdown"
  /\ UNCHANGED <<kind, call, chan, pending, readerVars, stdin, stdout, loopVars, tasks, events, news, grids, alive>>

QuitWrite ==
  /\ Up /\ quit = "locked"
  /\ alive => Len(stdin) < InCap
  /\ stdin' = IF alive THEN Append(stdin, "shutdown") ELSE stdin
  /\ quit' = "sent" /\ mu' = "free"
  /\ UNCHANGED <<kind, call, chan, pending, readerVars, stdout, loopVars, tasks, events, news, grids, alive>>

QuitKill ==
  /\ Up /\ quit = "sent"
  /\ quit' = "done"
  /\ RuntimeDies
  /\ UNCHANGED <<kind, call, chan, pending, mu, readerVars, stdout, news, grids>>

-----------------------------------------------------------------------------
(* The client's read loop.                                                 *)

Scan ==
  /\ Up /\ reader = "scan" /\ stdout # <<>>
  /\ stdout' = Tail(stdout)
  /\ hand' = Head(stdout)
  /\ reader' = CASE Head(stdout) \in Calls -> "route"
                 [] Head(stdout) = "huge"  -> "drain"     \* bufio.ErrTooLong
                 [] OTHER                  -> "scan"
  /\ UNCHANGED <<kind, clientVars, stdin, loopVars, tasks, events, news, grids, alive>>

\* Mutant: an answered call stays in the table.
RouteKeepingEntry ==
  /\ Up /\ reader = "route" /\ mu = "free"
  /\ pending' = pending
  /\ chan' = IF hand \in pending THEN [chan EXCEPT ![hand] = "answer"] ELSE chan
  /\ reader' = "scan" /\ hand' = "event"
  /\ UNCHANGED <<kind, call, mu, quit, stdin, stdout, loopVars, tasks, events, news, grids, alive>>

\* A response whose call is not in the table is logged and dropped.
Route ==
  /\ Up /\ reader = "route" /\ mu = "free"
  /\ pending' = pending \ {hand}
  /\ chan' = IF hand \in pending THEN [chan EXCEPT ![hand] = "answer"] ELSE chan
  /\ reader' = "scan" /\ hand' = "event"
  /\ UNCHANGED <<kind, call, mu, quit, stdin, stdout, loopVars, tasks, events, news, grids, alive>>

EndOfFile ==
  /\ Up /\ reader = "scan" /\ stdout = <<>> /\ ~alive
  /\ reader' = "drain"
  /\ UNCHANGED <<kind, clientVars, hand, stdin, stdout, loopVars, tasks, events, news, grids, alive>>

\* Mutant: the table is left as it is when the read loop ends.
DrainNothing ==
  /\ Up /\ reader = "drain" /\ mu = "free"
  /\ reader' = "over"
  /\ UNCHANGED <<kind, clientVars, hand, stdin, stdout, loopVars, tasks, events, news, grids, alive>>

\* drainPending: every call in the table is answered with an error.
Drain ==
  /\ Up /\ reader = "drain" /\ mu = "free"
  /\ chan' = [c \in Calls |-> IF c \in pending THEN "error" ELSE chan[c]]
  /\ pending' = {}
  /\ reader' = "over"
  /\ UNCHANGED <<kind, call, mu, quit, hand, stdin, stdout, loopVars, tasks, events, news, grids, alive>>

-----------------------------------------------------------------------------
(* The runtime: run_ipc_loop is at its select!, in an inline handler, or   *)
(* writing a line.                                                         *)

Room == Len(events) < EvCap
Serving(k) == loop = "handle" /\ cur \in Calls /\ kind[cur] = k

\* Long-running requests are spawned, commands without an answer too; every
\* other request is awaited here.
ReadLine ==
  /\ loop = "select" /\ stdin # <<>>
  /\ stdin' = Tail(stdin)
  /\ LET c == Head(stdin) IN
     \/ /\ c = "shutdown"                         \* answered Ok, without an id
        /\ loop' = "write" /\ cur' = "event"
        /\ UNCHANGED <<left, tasks, job>>
     \/ /\ c \in Calls /\ kind[c] = "oneway"
        /\ UNCHANGED <<loopVars, tasks>>
     \/ /\ c \in Calls /\ kind[c] = "spawned"
        /\ tasks' = tasks \cup {c}
        /\ UNCHANGED loopVars
     \/ /\ c \in Calls /\ kind[c] \in {"inline", "cancel"}
        /\ loop' = "handle" /\ cur' = c /\ left' = 0
        /\ UNCHANGED <<tasks, job>>
     \/ /\ c \in Calls /\ kind[c] \in {"streams", "apply"}
        /\ loop' = "handle" /\ cur' = c
        /\ left' \in 1 .. MaxWork
        /\ job' = IF kind[c] = "apply" THEN "running" ELSE job
        /\ UNCHANGED tasks
  /\ UNCHANGED <<kind, clientVars, readerVars, stdout, events, news, grids, alive>>

\* run_find_streams_streaming sends each provider's streams, and the final
\* marker, into the event channel.
SendPartial ==
  /\ Serving("streams") /\ left > 0
  /\ Room
  /\ events' = Append(events, "event")
  /\ left' = left - 1
  /\ UNCHANGED <<kind, clientVars, readerVars, stdin, stdout, loop, cur, job, tasks, news, grids, alive>>

\* tag_write_job::apply: a file is written, or skipped once cancelled.
WriteTags ==
  /\ Serving("apply") /\ left > 0
  /\ left' = left - 1
  /\ UNCHANGED <<kind, clientVars, readerVars, stdin, stdout, loop, cur, job, tasks, events, news, grids, alive>>

\* The handler returns and its response is about to be written.
HandlerReturns ==
  /\ loop = "handle" /\ left = 0
  /\ loop' = "write"
  /\ job' = CASE kind[cur] = "apply"                       -> "none"
              [] kind[cur] = "cancel" /\ job = "running"   -> "cancelled"
              [] OTHER                                     -> job
  /\ UNCHANGED <<kind, clientVars, readerVars, stdin, stdout, cur, left, tasks, events, news, grids, alive>>

Forward ==
  /\ loop = "select" /\ events # <<>>
  /\ loop' = "write" /\ cur' = Head(events) /\ events' = Tail(events)
  /\ UNCHANGED <<kind, clientVars, readerVars, stdin, stdout, left, job, tasks, news, grids, alive>>

Announce ==
  /\ loop = "select" /\ grids < MaxGrids
  /\ grids' = grids + 1
  /\ loop' = "write"
  /\ cur' \in {"event"} \cup (IF MayOverrun THEN {"huge"} ELSE {})
  /\ UNCHANGED <<kind, clientVars, readerVars, stdin, stdout, left, job, tasks, events, news, alive>>

WriteOut ==
  /\ loop = "write" /\ Len(stdout) < OutCap
  /\ stdout' = Append(stdout, cur)
  /\ loop' = "select" /\ cur' = "event"
  /\ UNCHANGED <<kind, clientVars, readerVars, stdin, left, job, tasks, events, news, grids, alive>>

\* Mutant: the id is not put into the answer.
TaskAnswersUnnamed(c) ==
  /\ c \in tasks /\ Room
  /\ tasks' = tasks \ {c}
  /\ events' = Append(events, "event")
  /\ UNCHANGED <<kind, clientVars, readerVars, stdin, stdout, loopVars, news, grids, alive>>

\* A spawned task answers through the event channel.
TaskAnswers(c) ==
  /\ c \in tasks /\ Room
  /\ tasks' = tasks \ {c}
  /\ events' = Append(events, c)
  /\ UNCHANGED <<kind, clientVars, readerVars, stdin, stdout, loopVars, news, grids, alive>>

\* mpv, MPD and the torrent engine report through the same channel.
News ==
  /\ alive /\ news < MaxNews /\ Room
  /\ news' = news + 1
  /\ events' = Append(events, "event")
  /\ UNCHANGED <<kind, clientVars, readerVars, stdin, stdout, loopVars, tasks, grids, alive>>

Crash ==
  /\ MayCrash /\ alive
  /\ RuntimeDies
  /\ UNCHANGED <<kind, clientVars, readerVars, stdout, news, grids>>

-----------------------------------------------------------------------------
CallStep(c) ==
  Register(c) \/ TakeLock(c) \/ Write(c) \/ WriteFails(c) \/ AnswerFailure(c)
              \/ Receive(c) \/ Timeout(c)
QuitStep == WantQuit \/ QuitLock \/ QuitWrite \/ QuitKill
ReaderStep == Scan \/ Route \/ EndOfFile \/ Drain
LoopStep == ReadLine \/ SendPartial \/ WriteTags \/ HandlerReturns \/ Forward
                     \/ Announce \/ WriteOut
Next ==
  \/ \E c \in Calls : CallStep(c) \/ TaskAnswers(c)
  \/ QuitStep \/ ReaderStep \/ LoopStep \/ News \/ Crash

Spec == Init /\ [][Next]_vars

\* Whatever goroutine, task or loop can go on does, as long as any can: each
\* call takes finitely many steps, so nothing is starved.  Nothing makes the
\* user send or quit, a clock run out, a background task report, or the
\* runtime die.
Progress ==
  \/ \E c \in Calls : \/ TakeLock(c) \/ Write(c) \/ WriteFails(c) \/ AnswerFailure(c)
                      \/ Receive(c) \/ TaskAnswers(c)
  \/ QuitLock \/ QuitWrite \/ QuitKill \/ ReaderStep
  \/ ReadLine \/ SendPartial \/ WriteTags \/ HandlerReturns \/ Forward \/ WriteOut

FairSpec == Spec /\ WF_vars(Progress)

-----------------------------------------------------------------------------
(* Properties.                                                             *)

InSeq(c, q) == \E n \in DOMAIN q : q[n] = c

\* Where a request can be on its way out and back.
Places == {"caller", "stdin", "loop", "tasks", "events", "stdout", "hand"}
Where(c) ==
  {p \in Places :
     \/ p = "caller" /\ call[c] \in {"registered", "locked"}
     \/ p = "stdin"  /\ InSeq(c, stdin)
     \/ p = "loop"   /\ loop \in {"handle", "write"} /\ cur = c
     \/ p = "tasks"  /\ c \in tasks
     \/ p = "events" /\ InSeq(c, events)
     \/ p = "stdout" /\ InSeq(c, stdout)
     \/ p = "hand"   /\ reader = "route" /\ hand = c}

\* While the runtime lives and its answers are read, a request in the client's
\* table is in exactly one place between the caller and its answer: none is
\* lost between the pipes, the loop and the spawned tasks, and none is
\* answered twice (internal.go:53-132, main.rs:592-841).
NothingLost ==
  alive /\ reader \in {"scan", "route"} =>
    \A c \in pending : \E p \in Places : Where(c) = {p}

\* A response channel has room for one answer and is closed after it: the router
\* and the drain, which send while they may hold c.mu, find every call of the table
\* unanswered.  One second answer remains, and it ends the client: a write that
\* failed because the runtime is gone, after the drain had answered its call
\* (internal.go:54-70, 126-138, 170-178).
NobodyElseAnswersTwice ==
  \A c \in Calls :
    /\ c \in pending => chan[c] = "open"
    /\ call[c] = "panicked" => ~alive /\ reader = "over" /\ chan[c] = "error"

\* The loop waits for room in the event channel that it alone empties.
LoopStuck == Serving("streams") /\ left > 0 /\ ~Room

\* Whoever holds c.mu waits for room in stdin, and the loop that would make it waits
\* for itself or for the read loop, which waits for c.mu or has ended.
Jammed ==
  /\ mu # "free" /\ alive /\ Len(stdin) = InCap
  /\ LoopStuck \/ (loop = "write" /\ Len(stdout) = OutCap /\ reader # "scan")

\* A caller gets its answer, an error once the runtime is gone, or its timeout, and
\* one that waits to write gets to write, however small the pipes and the channel
\* (requests.go:12-17).  Nothing else than these keeps it waiting: an oversized line
\* has ended the read loop, a stream search has stuck the loop, or everyone waits on
\* everyone around the write under c.mu (internal.go:79-81).
CallersAreAnswered ==
  \A c \in Calls : call[c] \in {"registered", "locked", "failed", "waiting"} ~>
    call[c] \in {"done", "timedout"} \/ hand = "huge" \/ LoopStuck \/ Jammed \/ ~Up

\* Stop gets the lock, writes, and the runtime is killed (ipc.go:178-190), also when
\* the read loop has ended and when the loop is stuck, as long as the pipe has room:
\* only the jam around the write under c.mu keeps it from ending.
StopEnds == (quit = "wanted") ~> (quit = "done" \/ Jammed \/ ~Up)

\* The loop comes back from every handler (main.rs:642 "the IPC loop stays
\* responsive while network I/O is in flight").
LoopStaysResponsive == (loop = "handle") ~> (loop # "handle")

\* What tag_write_job.rs says, that a job "supports cancel" and leaves the files it
\* has not started when it is cancelled: the cancellation of a job with files to
\* write, when it is the next request to be read, does not wait for that job.
CancelReachesTheJob ==
  ~ /\ job = "running" /\ Serving("apply") /\ left > 0
    /\ stdin # <<>> /\ Head(stdin) \in Calls /\ kind[Head(stdin)] = "cancel"
=============================================================================
