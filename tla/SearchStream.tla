---------------------------- MODULE SearchStream ----------------------------
(***************************************************************************)
(* A streaming search end to end: the music screen's PluginDataSource asks *)
(* the IPC client for a search, the runtime acknowledges it and streams    *)
(* one partial and one final message per scope, the client's read loop     *)
(* routes them to the query's bounded channel, and a chain of Bubbletea    *)
(* commands reads that channel one message at a time.  Every scope of the  *)
(* runtime follows ScopeStream, which ScopedSearch implements.             *)
(*                                                                         *)
(* The pipe and the runtime's event channel are one queue, `wire`; what a  *)
(* column shows is the browse view or one message of one query.            *)
(***************************************************************************)
EXTENDS Integers, Sequences, FiniteSets

CONSTANTS
    Scopes,         \* the scopes the screen searches
    BufferSize,     \* room of a query's channel, 8 in the client
    WireSize,       \* room between the runtime and the read loop
    MaxQueries,     \* bound: searches dispatched
    MaxSwitches,    \* bound: tab switches
    LastBeforeExit  \* bound: searches dispatched when the runtime process may end

ASSUME SizesAreNat ==
    /\ IsFiniteSet(Scopes) /\ Scopes # {}
    /\ BufferSize \in Nat /\ WireSize \in Nat \ {0}
    /\ MaxQueries \in Nat /\ MaxSwitches \in Nat /\ LastBeforeExit \in Nat

\* A partial and a final per scope: the client's 8 for the music screen's three.
ASSUME RoomForAll == BufferSize >= 2 * Cardinality(Scopes)

VARIABLES
    \* the runtime
    up,             \* the process runs
    stage,          \* how far each scope of each query has come
    wire,           \* messages on their way to the read loop
    \* the IPC client
    lastQuery,      \* the last query id handed out
    requested,      \* queries written to the pipe and not yet handled
    unacked,        \* queries whose acknowledgement is awaited
    failed,         \* queries whose acknowledgement was an error
    drained,        \* the read loop has ended
    subs,           \* queries in scopeSubs
    remaining,      \* finals a subscription still expects
    ch,             \* messages in the query's channel
    closed,         \* queries whose channel is closed
    \* the screen
    starting,       \* query between its dispatch and its activation
    active,         \* query whose results are applied
    items,          \* what each column shows
    snapshot,       \* the columns before the first search, if there was one
    partial,        \* the status line's `Partial`
    reader,         \* the read chain of each query
    onMusic,        \* the music tab is the active tab
    switches        \* tab switches so far

runtimeVars == <<up, stage, wire>>
clientVars == <<lastQuery, requested, unacked, failed, drained, subs,
                remaining, ch, closed>>
screenVars == <<starting, active, items, snapshot, partial, reader>>
tabVars == <<onMusic, switches>>
vars == <<runtimeVars, clientVars, screenVars, tabVars>>

Queries == 1..MaxQueries
NoQuery == 0
Message == [query : Queries, scope : Scopes, partial : BOOLEAN]

\* A column before any search: it shows no query's entries.
Browse(s) == [query |-> NoQuery, scope |-> s, partial |-> FALSE]
BrowseView == [s \in Scopes |-> Browse(s)]
View == [Scopes -> Message \cup {Browse(s) : s \in Scopes}]

TypeOK ==
    /\ up \in BOOLEAN /\ drained \in BOOLEAN
    /\ stage \in [Queries -> [Scopes -> {"idle", "running", "partial", "final"}]]
    /\ wire \in Seq(Message)
    /\ lastQuery \in 0..MaxQueries
    /\ requested \in SUBSET Queries /\ unacked \in SUBSET Queries
    /\ failed \in SUBSET Queries /\ subs \in SUBSET Queries
    /\ remaining \in [Queries -> Int]
    /\ ch \in [Queries -> Seq(Message)]
    /\ closed \in SUBSET Queries
    /\ starting \in Queries \cup {NoQuery}
    /\ active \in Queries \cup {NoQuery}
    /\ items \in View
    /\ snapshot \subseteq View /\ Cardinality(snapshot) <= 1
    /\ partial \in BOOLEAN
    /\ reader \in [Queries -> {"none", "reading", "posted", "lost", "stopped"}]
    /\ onMusic \in BOOLEAN /\ switches \in 0..MaxSwitches

Init ==
    /\ up = TRUE /\ drained = FALSE
    /\ stage = [q \in Queries |-> [s \in Scopes |-> "idle"]]
    /\ wire = <<>>
    /\ lastQuery = 0
    /\ requested = {} /\ unacked = {} /\ failed = {} /\ subs = {}
    /\ remaining = [q \in Queries |-> 0]
    /\ ch = [q \in Queries |-> <<>>]
    /\ closed = {}
    /\ starting = NoQuery /\ active = NoQuery
    /\ items = BrowseView /\ snapshot = {}
    /\ partial = FALSE
    /\ reader = [q \in Queries |-> "none"]
    /\ onMusic = TRUE /\ switches = 0

(***************************************************************************)
(* The screen: PluginDataSource and the root model's tab.                  *)
(***************************************************************************)

KeepFirstView == snapshot' = IF snapshot = {} THEN {items} ELSE snapshot

\* Search, first half: keep the view to come back to, subscribe, and write
\* the request.  Once the runtime is gone the write fails, which reaches the
\* subscription as a failed acknowledgement, never the caller.
StartSearch ==
    LET q == lastQuery + 1 IN
    /\ onMusic
    /\ starting = NoQuery
    /\ lastQuery < MaxQueries
    /\ lastQuery' = q
    /\ KeepFirstView
    /\ subs' = subs \cup {q}
    /\ remaining' = [remaining EXCEPT ![q] = Cardinality(Scopes)]
    /\ IF up THEN /\ requested' = requested \cup {q}
                  /\ unacked' = unacked \cup {q}
                  /\ UNCHANGED failed
             ELSE /\ failed' = failed \cup {q}
                  /\ UNCHANGED <<requested, unacked>>
    /\ starting' = q
    /\ UNCHANGED <<runtimeVars, drained, ch, closed, active, items, partial,
                   reader, tabVars>>

\* Search, second half: make the query the active one and start its reader.
ActivateSearch ==
    /\ starting # NoQuery
    /\ active' = starting
    /\ partial' = TRUE
    /\ reader' = [reader EXCEPT ![starting] = "reading"]
    /\ starting' = NoQuery
    /\ UNCHANGED <<runtimeVars, clientVars, items, snapshot, tabVars>>

\* RestoreSnapshot, when the user leaves the search on the music tab.
RestoreView ==
    /\ onMusic
    /\ starting = NoQuery
    /\ \E view \in snapshot : items' = view
    /\ snapshot' = {}
    /\ partial' = FALSE
    /\ active' = NoQuery
    /\ UNCHANGED <<runtimeVars, clientVars, starting, reader, tabVars>>

\* switchTab, to another tab or back.
SwitchTab ==
    /\ starting = NoQuery
    /\ switches < MaxSwitches
    /\ switches' = switches + 1
    /\ onMusic' = ~onMusic
    /\ UNCHANGED <<runtimeVars, clientVars, screenVars>>

\* A reader that applies whatever it reads.
ApplyAnything(q) ==
    /\ reader[q] = "reading"
    /\ ch[q] # <<>>
    /\ LET m == Head(ch[q]) IN
          /\ items' = [items EXCEPT ![m.scope] = m]
          /\ partial' = m.partial
    /\ ch' = [ch EXCEPT ![q] = Tail(@)]
    /\ reader' = [reader EXCEPT ![q] = "posted"]
    /\ UNCHANGED <<runtimeVars, lastQuery, requested, unacked, failed, drained,
                   subs, remaining, closed, starting, active, snapshot, tabVars>>

\* nextScopeCmd takes one message from the channel, applies it if its query
\* is still the active one, and posts the command that reads the next.
ReadNext(q) ==
    /\ reader[q] = "reading"
    /\ ch[q] # <<>>
    /\ LET m == Head(ch[q]) IN
          IF m.query = active
          THEN /\ items' = [items EXCEPT ![m.scope] = m]
               /\ partial' = m.partial
          ELSE UNCHANGED <<items, partial>>
    /\ ch' = [ch EXCEPT ![q] = Tail(@)]
    /\ reader' = [reader EXCEPT ![q] = "posted"]
    /\ UNCHANGED <<runtimeVars, lastQuery, requested, unacked, failed, drained,
                   subs, remaining, closed, starting, active, snapshot, tabVars>>

\* nextScopeCmd sees the channel closed and empty: the chain ends.
ReadClosed(q) ==
    /\ reader[q] = "reading"
    /\ ch[q] = <<>>
    /\ q \in closed
    /\ partial' = (IF active = q THEN FALSE ELSE partial)
    /\ reader' = [reader EXCEPT ![q] = "stopped"]
    /\ UNCHANGED <<runtimeVars, clientVars, starting, active, items, snapshot,
                   tabVars>>

\* The root Update forwards the posted message to the music screen, which
\* runs the follow-up read, only while the music tab is active.
UpdateFollowup(q) ==
    /\ reader[q] = "posted"
    /\ starting = NoQuery
    /\ reader' = [reader EXCEPT ![q] = IF onMusic THEN "reading" ELSE "lost"]
    /\ UNCHANGED <<runtimeVars, clientVars, starting, active, items, snapshot,
                   partial, tabVars>>

(***************************************************************************)
(* The runtime: Request::Search and the scopes of search_scoped.           *)
(***************************************************************************)

\* The request is handled by spawning a task per scope.
HandleSearch(q) ==
    /\ up
    /\ q \in requested
    /\ requested' = requested \ {q}
    /\ stage' = [stage EXCEPT ![q] = [s \in Scopes |-> "running"]]
    /\ UNCHANGED <<up, wire, lastQuery, unacked, failed, drained, subs,
                   remaining, ch, closed, screenVars, tabVars>>

Send(q, s, isPartial) ==
    /\ up
    /\ Len(wire) < WireSize
    /\ wire' = Append(wire, [query |-> q, scope |-> s, partial |-> isPartial])

\* A partial deadline that fires again and again.
EmitPartialAgain(q, s) ==
    /\ stage[q][s] \in {"running", "partial"}
    /\ Send(q, s, TRUE)
    /\ stage' = [stage EXCEPT ![q][s] = "partial"]
    /\ UNCHANGED <<up, clientVars, screenVars, tabVars>>

EmitPartial(q, s) ==
    /\ stage[q][s] = "running"
    /\ Send(q, s, TRUE)
    /\ stage' = [stage EXCEPT ![q][s] = "partial"]
    /\ UNCHANGED <<up, clientVars, screenVars, tabVars>>

\* A scope that finalises twice.
EmitTwice(q, s) ==
    /\ stage[q][s] \in {"running", "partial"}
    /\ Send(q, s, FALSE)
    /\ stage' = [stage EXCEPT ![q][s] = IF @ = "running" THEN "partial"
                                                         ELSE "final"]
    /\ UNCHANGED <<up, clientVars, screenVars, tabVars>>

EmitFinal(q, s) ==
    /\ stage[q][s] \in {"running", "partial"}
    /\ Send(q, s, FALSE)
    /\ stage' = [stage EXCEPT ![q][s] = "final"]
    /\ UNCHANGED <<up, clientVars, screenVars, tabVars>>

\* The runtime process ends: what it had not written yet is lost.
RuntimeExits ==
    /\ up
    /\ lastQuery <= LastBeforeExit
    /\ up' = FALSE
    /\ \E n \in 0..Len(wire) : wire' = SubSeq(wire, 1, n)
    /\ UNCHANGED <<stage, clientVars, screenVars, tabVars>>

(***************************************************************************)
(* The IPC client: Search's acknowledgement, the read loop, and            *)
(* dispatchScopeResults.                                                   *)
(***************************************************************************)

\* The Ok that answers the request; it only ends the wait for it.
AckArrives(q) ==
    /\ ~drained
    /\ q \in unacked
    /\ q \notin requested
    /\ unacked' = unacked \ {q}
    /\ UNCHANGED <<runtimeVars, lastQuery, requested, failed, drained, subs,
                   remaining, ch, closed, screenVars, tabVars>>

\* The pipe is at its end: drainPending fails every awaited request.
DrainPending ==
    /\ ~up /\ ~drained
    /\ wire = <<>>
    /\ drained' = TRUE
    /\ failed' = failed \cup unacked
    /\ unacked' = {}
    /\ UNCHANGED <<runtimeVars, lastQuery, requested, subs, remaining, ch,
                   closed, screenVars, tabVars>>

\* Search's goroutine drops the subscription of a failed request.
ForgetFailed(q) ==
    /\ q \in failed
    /\ failed' = failed \ {q}
    /\ subs' = subs \ {q}
    /\ UNCHANGED <<runtimeVars, lastQuery, requested, unacked, drained,
                   remaining, ch, closed, screenVars, tabVars>>

\* A full channel drops the message.
Deliver(m) ==
    ch' = IF Len(ch[m.query]) < BufferSize
          THEN [ch EXCEPT ![m.query] = Append(@, m)]
          ELSE ch

\* A dispatch that counts partial messages too.
CountAnything(m) ==
    /\ remaining' = [remaining EXCEPT ![m.query] = @ - 1]
    /\ IF remaining'[m.query] <= 0
       THEN /\ subs' = subs \ {m.query}
            /\ closed' = closed \cup {m.query}
       ELSE UNCHANGED <<subs, closed>>

\* A dispatch that waits for one final more than there are scopes.
CountPastZero(m) ==
    IF m.partial
    THEN UNCHANGED <<remaining, subs, closed>>
    ELSE /\ remaining' = [remaining EXCEPT ![m.query] = IF @ = 0 THEN @ ELSE @ - 1]
         /\ IF remaining[m.query] = 0
            THEN /\ subs' = subs \ {m.query}
                 /\ closed' = closed \cup {m.query}
            ELSE UNCHANGED <<subs, closed>>

\* A final counts down; the last one removes the entry and closes the channel.
CountFinal(m) ==
    IF m.partial
    THEN UNCHANGED <<remaining, subs, closed>>
    ELSE /\ remaining' = [remaining EXCEPT ![m.query] = @ - 1]
         /\ IF remaining'[m.query] <= 0
            THEN /\ subs' = subs \ {m.query}
                 /\ closed' = closed \cup {m.query}
            ELSE UNCHANGED <<subs, closed>>

DispatchScopeResults ==
    /\ ~drained
    /\ wire # <<>>
    /\ wire' = Tail(wire)
    /\ LET m == Head(wire) IN
          IF m.query \in subs
          THEN Deliver(m) /\ CountFinal(m)
          ELSE UNCHANGED <<ch, remaining, subs, closed>>
    /\ UNCHANGED <<up, stage, lastQuery, requested, unacked, failed, drained,
                   screenVars, tabVars>>

Screen ==
    \/ StartSearch
    \/ RestoreView
    \/ SwitchTab

Query(q) ==
    \/ ReadNext(q) \/ ReadClosed(q) \/ UpdateFollowup(q)
    \/ HandleSearch(q) \/ AckArrives(q) \/ ForgetFailed(q)

Next ==
    \/ Screen
    \/ ActivateSearch
    \/ \E q \in Queries : Query(q)
    \/ \E q \in Queries, s \in Scopes : EmitPartial(q, s) \/ EmitFinal(q, s)
    \/ RuntimeExits
    \/ DrainPending
    \/ DispatchScopeResults

Spec == Init /\ [][Next]_vars

\* The runtime's tasks run and every scope finalises (ScopedSearch), the read
\* loop reads, Bubbletea runs the commands it is given.  The user and the
\* runtime's exit are left free.
LiveSpec ==
    /\ Spec
    /\ WF_vars(ActivateSearch)
    /\ WF_vars(DispatchScopeResults)
    /\ WF_vars(DrainPending)
    /\ \A q \in Queries :
          /\ WF_vars(ReadNext(q)) /\ WF_vars(ReadClosed(q))
          /\ WF_vars(UpdateFollowup(q))
          /\ WF_vars(HandleSearch(q)) /\ WF_vars(AckArrives(q))
          /\ WF_vars(ForgetFailed(q))
          /\ \A s \in Scopes : WF_vars(EmitFinal(q, s))

(***************************************************************************)
(* Properties.                                                             *)
(***************************************************************************)

\* No message for a live subscription finds the channel full: the read loop's
\* `default:` branch is never taken when the buffer holds a partial and a
\* final per scope (client_scope.go, SubscribeScopeResults).
NothingIsDropped ==
    wire # <<>> /\ Head(wire).query \in subs
        => Len(ch[Head(wire).query]) < BufferSize

\* A subscription that can still be found has an open channel: the read loop
\* never sends on, or closes, a closed channel, which would panic.
OpenWhileSubscribed == subs \cap closed = {}

\* The channel is closed only after every scope of the query has finalised
\* and its final message has been delivered.
ClosedMeansFinal ==
    \A q \in closed : \A s \in Scopes :
        /\ stage[q][s] = "final"
        /\ \A i \in DOMAIN wire : wire[i].query # q

\* When the reader of the active query sees the channel closed, every column
\* shows that query's final results.
ColumnsEndFinal ==
    \A q \in Queries : reader[q] = "stopped" /\ active = q =>
        \A s \in Scopes : items[s] = [query |-> q, scope |-> s, partial |-> FALSE]

\* Outside a search the screen shows the view it had before the first one,
\* whatever late results the readers of abandoned queries still receive.
BrowseOutsideSearch ==
    active = NoQuery => items = BrowseView

\* A column never goes back from a query's final results to its partial ones,
\* nor to an older query's.
ColumnsOnlyAdvance ==
    [][\A s \in Scopes :
          items'[s].query # NoQuery =>
              \/ items'[s].query > items[s].query
              \/ /\ items'[s].query = items[s].query
                 /\ ~items[s].partial => ~items'[s].partial]_vars

\* Every dispatched search comes to the end of its stream: its reader sees the
\* channel closed (requests.go, Search: "The channel is closed when every scope
\* has emitted partial=false").  Two cases are excused, because the code gives
\* no such end: a message that reaches the root model on another tab is not
\* followed up (update.go), and a runtime that ended sends no final.
SearchesEnd ==
    \A q \in Queries :
        reader[q] = "reading" ~> reader[q] \in {"stopped", "lost"} \/ ~up
=============================================================================
