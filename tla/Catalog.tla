------------------------------- MODULE Catalog -------------------------------
(***************************************************************************)
(* The grids of the tabs, from the refresh tasks of the runtime to the     *)
(* client's screen: the in-memory grids and their files (catalog.rs), the  *)
(* progressive enrichment that follows each refresh (video_enrich.rs,      *)
(* music_enrich.rs), the broadcast channel all tabs share, its two         *)
(* subscribers (the media cache and, while a client is connected, the      *)
(* batcher of ipc_batcher.rs), and the replay a new client gets (main.rs). *)
(*                                                                         *)
(* A grid is abstracted to its version: the refresh it came from and how   *)
(* much of the enrichment it has seen, the bulk pass (run or not needed)   *)
(* counting as one and each entry as one.  Refresh 0 is the grid read from *)
(* disk at startup.                                                        *)
(***************************************************************************)
EXTENDS Naturals, Sequences, FiniteSets, Functions

CONSTANTS
  Tabs,         \* movies, series and music
  Passes,       \* Passes[t]: what may follow a refresh of t, by its plugins
  Total,        \* entries of a grid
  Batch,        \* entries between two progress snapshots (8 in the code)
  Capacity,     \* messages the broadcast channel keeps (64 in the code)
  Concurrency,  \* entries enriched at a time (8)
  MaxRefreshes, \* bound: refreshes of all tabs
  Wanted,       \* bound: the tabs a client asks a refresh of
  MaxClients    \* bound: clients of the daemon, one after the other

ASSUME CatalogAssumption ==
  /\ IsFiniteSet(Tabs) /\ Cardinality(Tabs) <= MaxRefreshes
  /\ Total \in Nat \ {0} /\ Batch \in Nat \ {0} /\ Capacity \in Nat \ {0}
  /\ Passes \in [Tabs -> (SUBSET {"bulk", "enrich", "over"}) \ {{}}]
  /\ Concurrency \in Nat \ {0} /\ MaxRefreshes \in Nat \ {0} /\ MaxClients \in Nat
  /\ Wanted \subseteq Tabs

Refreshes == 1 .. MaxRefreshes
Version == [refresh : 0 .. MaxRefreshes, done : 0 .. Total + 1]
None == [refresh |-> 0, done |-> 0]      \* no grid at all
Cached == [refresh |-> 0, done |-> Total + 1]
Sources == {"cache", "live"}
Update == [tab : Tabs, source : Sources, grid : Version]

VARIABLES
  startup,    \* where init_tab of each tab stands
  cached,     \* the grid it has read from the file
  ready,      \* plugins_ready_flag
  woken,      \* whether init_tab's waiter of plugins_ready was notified
  enlisted,   \* whether that waiter is registered
  loading,    \* where main.rs stands: scanning, flag set, or notified
  started,    \* the tab of each refresh_tab so far
  refresh,    \* where each stands
  done,       \* what its enrichment has completed
  writers,    \* publications in progress: the refresh, the snapshot and the next step
  grids,      \* the in-memory grids
  file,       \* their cache files
  mail,       \* what each subscriber has not received
  lagged,     \* whether a message was taken from the batcher since its last read
  buffer,     \* IpcBatcher.buffer, keyed by tab and source
  batch,      \* drained updates the loop has still to write
  client,     \* the connected client
  clients,    \* clients so far
  view,       \* m.grids of the client: the tabs that have a grid there
  saved,      \* the media cache
  latest,     \* history: the last grid of each tab that was emitted
  owed,       \* history: the tabs whose last grid the client has not been sent
  lapsed      \* history: the tabs whose last grid came before a subscriber's last lag

initVars == <<startup, cached, ready, woken, enlisted, loading>>
passVars == <<started, refresh, done>>
storeVars == <<grids, file>>
busVars == <<mail, lagged>>
batchVars == <<buffer, batch>>
sessionVars == <<client, clients, view>>
history == <<latest, owed, lapsed>>
vars == <<initVars, passVars, writers, storeVars, busVars, batchVars, sessionVars, saved, history>>

Subscribers == {"client", "media"}
RefreshSteps == {"none", "search", "publish", "bulk", "flush", "enrich", "over"}
Steps == {"insert", "emit"}

TypeOK ==
  /\ startup \in [Tabs -> {"read", "announce", "enlist", "check", "wait", "refresh", "over"}]
  /\ cached \in [Tabs -> Version]
  /\ ready \in BOOLEAN /\ woken \in [Tabs -> BOOLEAN] /\ enlisted \in [Tabs -> BOOLEAN]
  /\ loading \in {"scan", "notify", "done"}
  /\ started \in Seq(Tabs) /\ Len(started) <= MaxRefreshes
  /\ refresh \in [Refreshes -> RefreshSteps]
  /\ done \in [Refreshes -> 0 .. Total + 1]
  /\ writers \subseteq [run : Refreshes, grid : Version, step : Steps]
  /\ grids \in [Tabs -> Version] /\ file \in [Tabs -> Version]
  /\ mail \in [Subscribers -> Seq(Update)] /\ \A s \in Subscribers : Len(mail[s]) <= Capacity
  /\ lagged \in BOOLEAN
  /\ buffer \subseteq Update /\ batch \subseteq Update
  /\ client \in {"none", "subscribed", "on"} /\ clients \in 0 .. MaxClients
  /\ view \subseteq Tabs
  /\ saved \in [Tabs -> Version] /\ latest \in [Tabs -> Version]
  /\ owed \subseteq Tabs /\ lapsed \in [Subscribers -> SUBSET Tabs]

NoGrids == [t \in Tabs |-> None]

Init ==
  /\ startup = [t \in Tabs |-> "read"] /\ cached = NoGrids
  /\ ready = FALSE /\ woken = [t \in Tabs |-> FALSE] /\ enlisted = [t \in Tabs |-> FALSE]
  /\ loading = "scan"
  /\ started = <<>> /\ refresh = [r \in Refreshes |-> "none"] /\ done = [r \in Refreshes |-> 0]
  /\ writers = {}
  /\ grids = NoGrids /\ file \in [Tabs -> {None, Cached}]
  /\ mail = [s \in Subscribers |-> <<>>] /\ lagged = FALSE
  /\ buffer = {} /\ batch = {}
  /\ client = "none" /\ clients = 0 /\ view = {}
  /\ saved = NoGrids /\ latest = NoGrids /\ owed = {} /\ lapsed = [s \in Subscribers |-> {}]

-----------------------------------------------------------------------------
(* The broadcast channel: a send never waits; a subscriber that has not    *)
(* read for Capacity messages, of whatever tabs, loses the oldest and is   *)
(* told so.                                                                *)

Listening(s) == s = "media" \/ client # "none"
Full(s) == Len(mail[s]) = Capacity

Emit(u) ==
  /\ mail' = [s \in Subscribers |->
       IF ~Listening(s) THEN mail[s]
       ELSE Append(IF Full(s) THEN Tail(mail[s]) ELSE mail[s], u)]
  /\ lagged' = (lagged \/ (Listening("client") /\ Full("client")))
  /\ latest' = [latest EXCEPT ![u.tab] = u.grid]
  /\ owed' = IF client = "none" THEN owed ELSE owed \cup {u.tab}
  /\ lapsed' = [s \in Subscribers |->
       (IF Listening(s) /\ Full(s) THEN Tabs ELSE lapsed[s]) \ {u.tab}]

-----------------------------------------------------------------------------
(* init_tab and the startup of main.rs.                                    *)

\* A cached grid is put in memory; a missing or torn file is skipped.
ReadCache(t) ==
  /\ startup[t] = "read"
  /\ cached' = [cached EXCEPT ![t] = file[t]]
  /\ grids' = IF file[t] = None THEN grids ELSE [grids EXCEPT ![t] = file[t]]
  /\ startup' = [startup EXCEPT ![t] = IF file[t] = None THEN "enlist" ELSE "announce"]
  /\ UNCHANGED <<ready, woken, enlisted, loading, passVars, writers, file, busVars, batchVars, sessionVars, saved, history>>

\* It is announced as cached; a young one needs no refresh.
AnnounceCache(t) ==
  /\ startup[t] = "announce"
  /\ Emit([tab |-> t, source |-> "cache", grid |-> cached[t]])
  /\ \E next \in {"over", "enlist"} : startup' = [startup EXCEPT ![t] = next]
  /\ cached' = [cached EXCEPT ![t] = None]
  /\ UNCHANGED <<ready, woken, enlisted, loading, passVars, writers, storeVars, batchVars, sessionVars, saved>>

\* Mutant: the flag is loaded before the waiter is made.
EnlistAfterCheck(t) ==
  /\ \/ /\ startup[t] = "enlist"
        /\ startup' = [startup EXCEPT ![t] = IF ready THEN "refresh" ELSE "check"]
        /\ UNCHANGED enlisted
     \/ /\ startup[t] = "check"
        /\ startup' = [startup EXCEPT ![t] = "wait"]
        /\ enlisted' = [enlisted EXCEPT ![t] = TRUE]
  /\ UNCHANGED <<cached, ready, woken, loading, passVars, writers, storeVars, busVars, batchVars, sessionVars, saved, history>>

\* await_plugins_ready: Notified::enable, then the flag.
Enlist(t) ==
  /\ startup[t] = "enlist"
  /\ startup' = [startup EXCEPT ![t] = "check"]
  /\ enlisted' = [enlisted EXCEPT ![t] = TRUE]
  /\ UNCHANGED <<cached, ready, woken, loading, passVars, writers, storeVars, busVars, batchVars, sessionVars, saved, history>>

\* The waiter is gone when the function returns.
CheckReady(t) ==
  /\ startup[t] = "check"
  /\ startup' = [startup EXCEPT ![t] = IF ready THEN "refresh" ELSE "wait"]
  /\ enlisted' = [enlisted EXCEPT ![t] = ~ready]
  /\ woken' = [woken EXCEPT ![t] = @ /\ ~ready]
  /\ UNCHANGED <<cached, ready, loading, passVars, writers, storeVars, busVars, batchVars, sessionVars, saved, history>>

AwaitReady(t) ==
  /\ startup[t] = "wait" /\ woken[t]
  /\ startup' = [startup EXCEPT ![t] = "refresh"]
  /\ enlisted' = [enlisted EXCEPT ![t] = FALSE] /\ woken' = [woken EXCEPT ![t] = FALSE]
  /\ UNCHANGED <<cached, ready, loading, passVars, writers, storeVars, busVars, batchVars, sessionVars, saved, history>>

\* mark_plugins_ready, after the plugin scan: the flag, then the waiters.
SetReady ==
  /\ loading = "scan"
  /\ ready' = TRUE /\ loading' = "notify"
  /\ UNCHANGED <<cached, startup, woken, enlisted, passVars, writers, storeVars, busVars, batchVars, sessionVars, saved, history>>

NotifyWaiters ==
  /\ loading = "notify"
  /\ woken' = enlisted /\ loading' = "done"
  /\ UNCHANGED <<cached, startup, ready, enlisted, passVars, writers, storeVars, busVars, batchVars, sessionVars, saved, history>>

-----------------------------------------------------------------------------
(* refresh_tab and the enrichment it spawns.                               *)

AtSelect == client = "on" /\ batch = {}

Start(t) ==
  /\ started' = Append(started, t)
  /\ refresh' = [refresh EXCEPT ![Len(started) + 1] = "search"]

\* The bound leaves one refresh to every tab whose startup is not over.
Spare == MaxRefreshes - Len(started) > Cardinality({t \in Tabs : startup[t] # "over"})

\* The refresh of init_tab, and one for every CatalogRefresh of a client.
RefreshAtStart(t) ==
  /\ startup[t] = "refresh"
  /\ Start(t)
  /\ startup' = [startup EXCEPT ![t] = "over"]
  /\ UNCHANGED <<cached, ready, woken, enlisted, loading, done, writers, storeVars, busVars, batchVars, sessionVars, saved, history>>

RefreshOnDemand ==
  /\ AtSelect /\ Spare
  /\ \E t \in Wanted : Start(t)
  /\ UNCHANGED <<initVars, done, writers, storeVars, busVars, batchVars, sessionVars, saved, history>>

Grid(r, n) == [refresh |-> r, done |-> n]
Publish(r, g) == writers' = writers \cup {[run |-> r, grid |-> g, step |-> "insert"]}

\* Mutant: an empty result is published like any other.
SearchEndsUnchecked(r) ==
  /\ refresh[r] = "search"
  /\ refresh' = [refresh EXCEPT ![r] = "publish"]
  /\ \E found \in {None, Grid(r, 0)} : Publish(r, found)
  /\ UNCHANGED <<initVars, started, done, storeVars, busVars, batchVars, sessionVars, saved, history>>

\* The engine's search: an empty result ends the refresh with a stale notice.
SearchEnds(r) ==
  /\ refresh[r] = "search"
  /\ \E found \in {None, Grid(r, 0)} :
     IF found = None
     THEN refresh' = [refresh EXCEPT ![r] = "over"] /\ UNCHANGED writers
     ELSE refresh' = [refresh EXCEPT ![r] = "publish"] /\ Publish(r, found)
  /\ UNCHANGED <<initVars, started, done, storeVars, busVars, batchVars, sessionVars, saved, history>>

Flushes(n) == n % Batch = 0 \/ n = Total

\* An entry is enriched under the snapshot's lock; the task that completes a
\* batch publishes its copy after the lock is released.  A task keeps its
\* permit until then.
EnrichEntry(r) ==
  /\ refresh[r] = "enrich" /\ done[r] <= Total
  /\ Cardinality({w \in writers : w.run = r}) < Concurrency
  /\ done' = [done EXCEPT ![r] = @ + 1]
  /\ IF Flushes(done[r]) THEN Publish(r, Grid(r, done[r] + 1)) ELSE UNCHANGED writers
  /\ refresh' = [refresh EXCEPT ![r] = IF done[r] = Total THEN "over" ELSE @]
  /\ UNCHANGED <<initVars, started, storeVars, busVars, batchVars, sessionVars, saved, history>>

\* Plugins that enrich in bulk come first, and their results are flushed before
\* the entries are taken one by one.
BulkPass(r) ==
  /\ refresh[r] = "bulk"
  /\ refresh' = [refresh EXCEPT ![r] = "flush"]
  /\ done' = [done EXCEPT ![r] = 1]
  /\ Publish(r, Grid(r, 1))
  /\ UNCHANGED <<initVars, started, storeVars, busVars, batchVars, sessionVars, saved, history>>

\* What a refresh goes on with; without plugins that enrich it is over.
AfterEmit(r) ==
  CASE refresh[r] = "publish" ->
         \E next \in Passes[started[r]] :
           /\ refresh' = [refresh EXCEPT ![r] = next]
           /\ done' = [done EXCEPT ![r] = IF next = "enrich" THEN 1 ELSE 0]
    [] refresh[r] = "flush" -> refresh' = [refresh EXCEPT ![r] = "enrich"] /\ UNCHANGED done
    [] OTHER -> UNCHANGED <<refresh, done>>

\* Publishing: the grid in memory, then its file (nobody reads that before the
\* next start; a failed write is only logged) and the broadcast.
InsertGrid(w) ==
  /\ w.step = "insert"
  /\ grids' = [grids EXCEPT ![started[w.run]] = w.grid]
  /\ writers' = (writers \ {w}) \cup {[w EXCEPT !.step = "emit"]}
  /\ UNCHANGED <<initVars, passVars, file, busVars, batchVars, sessionVars, saved, history>>

EmitGrid(w) ==
  /\ w.step = "emit"
  /\ LET t == started[w.run] IN
     /\ file' = [file EXCEPT ![t] = w.grid]
     /\ Emit([tab |-> t, source |-> "live", grid |-> w.grid])
  /\ writers' = writers \ {w}
  /\ AfterEmit(w.run)
  /\ UNCHANGED <<initVars, started, grids, batchVars, sessionVars, saved>>

-----------------------------------------------------------------------------
(* The media cache and the session with a client.                          *)

Take(s) == mail' = [mail EXCEPT ![s] = Tail(@)]

\* Mutant: the task ends at its first lag.
SaveTabUntilLag ==
  /\ mail["media"] # <<>>
  /\ LET u == Head(mail["media"]) IN
     saved' = IF lapsed["media"] = {} THEN [saved EXCEPT ![u.tab] = u.grid] ELSE saved
  /\ Take("media")
  /\ UNCHANGED <<initVars, passVars, writers, storeVars, lagged, batchVars, sessionVars, history>>

\* The sync task of main.rs; that it lagged is logged and the next message read.
SaveTab ==
  /\ mail["media"] # <<>>
  /\ LET u == Head(mail["media"]) IN saved' = [saved EXCEPT ![u.tab] = u.grid]
  /\ Take("media")
  /\ UNCHANGED <<initVars, passVars, writers, storeVars, lagged, batchVars, sessionVars, history>>

\* run_ipc_loop subscribes, then reads the grids and writes them before it
\* looks at any update.  Clients are served once the plugins are loaded.
Subscribe ==
  /\ loading = "done"
  /\ client = "none" /\ clients < MaxClients
  /\ clients' = clients + 1
  /\ client' = "subscribed"
  /\ UNCHANGED <<initVars, passVars, writers, storeVars, busVars, batchVars, view, saved, history>>

\* Mutant: a new client waits for the next refresh.
ReadNoGrids ==
  /\ client = "subscribed"
  /\ client' = "on"
  /\ UNCHANGED <<initVars, passVars, writers, storeVars, busVars, batchVars, clients, view, saved, history>>

\* snapshot_all
ReadGrids ==
  /\ client = "subscribed"
  /\ client' = "on"
  /\ batch' = {[tab |-> t, source |-> "cache", grid |-> grids[t]] : t \in {t \in Tabs : grids[t] # None}}
  /\ UNCHANGED <<initVars, passVars, writers, storeVars, busVars, buffer, clients, view, saved, history>>

Disconnect ==
  /\ client # "none"
  /\ client' = "none" /\ view' = {} /\ owed' = {}
  /\ mail' = [mail EXCEPT !["client"] = <<>>] /\ lagged' = FALSE
  /\ lapsed' = [lapsed EXCEPT !["client"] = {}]
  /\ buffer' = {} /\ batch' = {}
  /\ UNCHANGED <<initVars, passVars, writers, storeVars, clients, saved, latest>>

\* buffer_insert: the entries of a tab and source are put one behind the other.
BufferInsert ==
  /\ AtSelect /\ ~lagged /\ mail["client"] # <<>>
  /\ buffer' = buffer \cup {Head(mail["client"])}
  /\ Take("client")
  /\ UNCHANGED <<initVars, passVars, writers, storeVars, lagged, batch, sessionVars, saved, history>>

\* Mutant: after a lag the channel is skipped to its end.
ClearOnLagAndSkip ==
  /\ AtSelect /\ lagged
  /\ lagged' = FALSE /\ mail' = [mail EXCEPT !["client"] = <<>>]
  /\ buffer' = {}
  /\ UNCHANGED <<initVars, passVars, writers, storeVars, batch, sessionVars, saved, history>>

\* After a lag the buffer of all tabs is cleared; what the channel kept is still
\* read.
ClearOnLag ==
  /\ AtSelect /\ lagged
  /\ lagged' = FALSE
  /\ buffer' = {}
  /\ UNCHANGED <<initVars, passVars, writers, storeVars, mail, batch, sessionVars, saved, history>>

\* The interval is over, at an insertion or by the timer.
Drain ==
  /\ AtSelect /\ buffer # {}
  /\ batch' = buffer /\ buffer' = {}
  /\ UNCHANGED <<initVars, passVars, writers, storeVars, busVars, sessionVars, saved, history>>

\* The loop writes the batch in the order of a hash map, one tab and source at a
\* time; the client replaces its grid of the tab.
WriteUpdate(t, s) ==
  LET written == {u \in batch : u.tab = t /\ u.source = s} IN
  /\ client = "on" /\ written # {}
  /\ view' = view \cup {t}
  /\ batch' = batch \ written
  /\ owed' = IF latest[t] \in {u.grid : u \in written} THEN owed \ {t} ELSE owed
  /\ UNCHANGED <<initVars, passVars, writers, storeVars, busVars, buffer, client, clients, saved, latest, lapsed>>

-----------------------------------------------------------------------------
StartupStep ==
  \/ \E t \in Tabs : \/ ReadCache(t) \/ AnnounceCache(t) \/ Enlist(t) \/ CheckReady(t)
                      \/ AwaitReady(t) \/ RefreshAtStart(t)
  \/ SetReady \/ NotifyWaiters
RefreshStep ==
  \/ \E r \in Refreshes : SearchEnds(r) \/ BulkPass(r) \/ EnrichEntry(r)
  \/ \E w \in writers : InsertGrid(w) \/ EmitGrid(w)
SessionStep ==
  \/ SaveTab \/ ReadGrids \/ BufferInsert \/ ClearOnLag \/ Drain
  \/ \E t \in Tabs, s \in Sources : WriteUpdate(t, s)
Next ==
  \/ StartupStep \/ RefreshStep \/ SessionStep
  \/ Subscribe \/ Disconnect \/ RefreshOnDemand

Spec == Init /\ [][Next]_vars

\* Tasks, subscribers and the loop go on; nothing makes a client come, leave
\* or ask for a refresh.
FairSpec == Spec /\ WF_vars(StartupStep \/ RefreshStep \/ SessionStep)

-----------------------------------------------------------------------------
(* Properties.                                                             *)

\* A tab that has a grid keeps one: a refresh that finds nothing, a plugin or
\* network failure, never blanks it (catalog.rs 461-474).
GridsKept == [][\A t \in Tabs : grids[t] # None => grids'[t] # None]_vars

\* A tab's newest grid is on its way to the connected client until it has been
\* sent.  One thing alone takes it away: the channel overran after it was
\* announced, with the messages of whatever tabs; the newest message of all is
\* never lost, whatever the batcher clears (ipc_batcher.rs 66-116).
NewestReachesTheClient ==
  client = "on" =>
    \A t \in owed \ lapsed["client"] :
      \E u \in Range(mail["client"]) \cup buffer \cup batch : u.tab = t /\ u.grid = latest[t]

\* The media cache catches up: with nothing left to read it holds the newest
\* grid of every tab, but of those that were announced before the channel
\* overran and not since (main.rs 220-238).
MediaCacheCatchesUp ==
  mail["media"] = <<>> => \A t \in Tabs \ lapsed["media"] : saved[t] = latest[t]

\* Tabs with a grid in memory of which the client has none, nor missed one.
Unserved == {t \in Tabs : grids[t] # None} \ (view \cup lapsed["client"])

\* A client is shown the grid of a tab, whether it came before, during or after
\* the startup announcement, unless the client's channel overran since
\* (main.rs 582-607).
ClientsSeeAGrid == (client = "on" /\ Unserved # {}) ~> (Unserved = {} \/ client = "none")

\* The signal that plugins are loaded is never missed: the tabs that need a
\* refresh at startup get it (catalog.rs 313-328).
StartupRefreshes == (\E t \in Tabs : startup[t] = "enlist") ~> (\A t \in Tabs : startup[t] = "over")
=============================================================================
