# stui: TLA+ models and proofs

A verification development for stui, a terminal media browser: a Rust daemon
(`runtime/`) that runs plugins, searches, fetches and plays; a Go terminal
interface (`tui/`) that talks to it over a pipe or a socket; a plugin SDK with
bundled WASM plugins (`sdk/`, `plugins/`); and a command line (`cli/`).

Modelled are the parts where several tasks meet: a supervised plugin that
crashes while others call it; a search whose answers race two timers and then a
user who moves on; a video player whose process is replaced while requests are
under way; plugins that come and go on disk while the runtime watches; the
request table, the pipes and the loop that serves them; the streams and the
metadata of a detail card that fill in while the user leaves it; and the grids
that background refreshes send to clients that come and go. Each has a module
and TLC runs and proofs.

Contents: 1 inventory, 2 how the modules fit together, 3 the modules and the
code, 4 the runs, 5 fairness, 6 what is proved, 7 what the code does against
its own words, 8 what is not modelled.

Paths below are relative to the repository. `PROJECT.json` has the exact lines
of every definition (`map`), the hazards with the properties that cover them,
and for each property a plausible bug that breaks it (`mutants`).

To run: `tlc -workers 2 -config MpvPlayer.cfg MCMpvPlayer`, and
`tlapm MpvPlayerProofs.tla`, likewise for the others.

## 1. Inventory

### 1.1 Modelled

**WASM plugin supervisor** (`runtime/src/abi/supervisor.rs`).
State: the instance behind a tokio mutex, the crash times of the last minute,
statistics behind another mutex, an atomic `failed`, the time of the last
timeout. Operations: load, init, the verb calls, `on_crash` with its give-up,
the reload task. The engine calls it from many tasks.
Hard: the crash handler is a chain of critical sections with awaits in between;
callers are queued on the instance while it is being taken away; a reload
sleeps, loads and installs on its own; loads fail. Correct when: a crashed
instance leaves the slot; an empty slot has a reason and is refilled; give-up
happens only over budget; overlapping handlers do not reload twice for one
crash; every call returns.

**Scoped search, one scope** (`runtime/src/engine/search_scoped.rs`).
State: a channel of outcomes, a countdown, the collected entries, two timers.
Operations: dispatch to the plugins of the scope, one `select!` loop, partial
and final emission. Hard: sources fail, answer nothing, or never answer; the
hard floor races the partial deadline; two things end the loop, the countdown
and the closing of the channel. Correct when: at most one partial, then one
final that lacks nothing; what is known at the deadline is in the partial; the
countdown is exact; something is shown even if a source hangs.

**Search stream, runtime to screen** (`tui/internal/ipc/client_scope.go`,
`requests.go`, `internal.go`, `tui/internal/ui/screens/catalogbrowser/plugin_source.go`,
`tui/internal/ui/update.go`).
State: subscriptions with a bounded channel and a count of finals; the active
query, the columns, the snapshot to return to; a chain of Bubbletea commands.
Operations: subscribe, acknowledge, dispatch, read one message and post the
next read, restore, switch tabs. Hard: messages of abandoned queries, a full
channel, a closed channel used again, a posted message nobody forwards, the
exit of the runtime. Correct when: nothing is dropped, no closed channel is
used, columns end on final results of the right query, the browse view comes
back untouched, every search is read to its end.

**mpv player** (`runtime/src/player/mpv.rs`, `runtime/src/player/bridge.rs`).
State: the child process slot, the cached write half of the IPC connection,
an epoch, one socket path for every mpv. Operations: play, play a torrent
(start idle, fetch metadata, load), stop, switch stream, send a command, one
IPC loop for each mpv. Requests are spawned by the IPC loop, so they overlap.
Hard: stop() of one play runs through the launch of another; an old loop meets
a new mpv; metadata arrives a minute late. Correct when: there is one window,
none is left that nobody can close, stop kills what it found, everything
settles.

**Plugin lifecycle** (`runtime/src/discovery.rs`, `load_plugin`,
`unload_plugin` and `set_plugin_enabled` in `runtime/src/engine/mod.rs`,
`runtime/src/registry/mod.rs`).
State: the plugin directory, the watcher's channel and its set of seen paths,
the registry. Operations: startup scan, hot
load, load by path, unload with deletion, toggle, install. Hard: events are
handled long after they happened, a directory is still being written when it
is read, three loaders share the engine. Correct when: each arrival is loaded once; what is deleted is
forgotten; nothing whole is left without a plugin unless a reason was given.

**IPC session** (`tui/internal/ipc/internal.go`, `requests.go`, `ipc.go`; the loop
in `runtime/src/main.rs`; `runtime/src/mediacache/tag_write_job.rs`).
State: the client's table of pending requests behind one mutex, which is also
held across a write; two pipes; a bounded event channel that background tasks
fill and only the loop drains; the one running tag job and its cancel flag.
Operations: register, write, route a response, drain the table at the end of
the read loop, time out, stop; in the runtime read a line, await a handler or
spawn it, forward an event, write a line. Hard: a handler awaited inline keeps
the loop from what the handler needs; a request is registered while the table
is drained; a write fails while a response is routed; the runtime dies anywhere.
Correct when: each request is in one place until it is answered once; every
caller gets an answer, an error or its timeout, and Stop ends, also with full
pipes; the loop comes back from each handler; a tag job can be cancelled.

**Streams of the detail card** (`runtime/src/pipeline/resolve.rs`,
`runtime/src/quality/score.rs`, `tui/internal/ui/handlers_catalog.go`, `keys_detail.go`).
State: the stream cache, the fan-out under way with what it has sent, the list
and the spinner of each row of the card. Operations: ask, replay from the cache
or fan out to the providers, filter, rank and deduplicate each answer, send the
marker, acknowledge; wake up, append a partial, sort at the marker. Hard: the
acknowledgement and the partials reach the screen through different goroutines;
providers overlap, fail or miss the deadline; the card is left and another
opened; the cache names its entries by identifiers that titles may share. Correct
when: each release is sent once, of no unrelated title, before the marker; the marker's error is honest; the spinner stops.

**Metadata of the detail card** (`runtime/src/engine/metadata/mod.rs`,
`runtime/src/cache/metadata.rs`, `metadata_key.rs`, `tui/internal/ui/screens/detail_state.go`).
State: the open card with a status for each verb, per request the plugins still
due and the facts heard, a cache of merged payloads. Operations: open and leave
a card, enrich, then credits, artwork, related and ratings side by side with the
ids that enrich found, cache hits and misses, the deadlines, the partials. Hard:
partials of a card that was left; entries whose ids collide; one hung plugin
among fast ones. Correct when: nothing asked for another title is shown; each verb
leaves "pending"; answers in time are shown.

**Catalog grids** (`runtime/src/catalog.rs`, `engine/video_enrich.rs`,
`engine/music_enrich.rs`, `ipc_batcher.rs`, the sync task and the replay in `main.rs`,
`handleGridUpdate` in `tui/internal/ui/handlers_catalog.go`).
State: the grid of each tab in memory and its file, one lossy broadcast channel
for all tabs, the batcher's buffer, the media cache, the client's grids. Operations: read the file at
startup, wait for the plugins, refresh, enrich in bulk and entry by entry,
publish, save, batch, replay to a new client. Hard: a subscriber lags, on whatever
tab's messages, and is told so once; a client comes between an announcement and a refresh; the signal
that plugins are ready comes before or after its waiter. Correct when: the
newest grid is not lost, a grid is never blanked, each client is shown one, the
media cache catches up, the startup refresh happens.

### 1.2 With state of their own, and not modelled

| part | state and operations | why it is left out |
|---|---|---|
| Configuration (`runtime/src/config`) | the configuration behind a lock, the rating-weight overlay, the event bus, the file | `set` releases its lock before overlay, event and file, but its one caller is the request loop, which awaits it: two sets never overlap |
| Engine lanes (`runtime/src/engine/mod.rs`, `plugin/rate_limit.rs`) | foreground and background permits, one limiter a plugin | delay only; a delayed call is one that answers late in every model that calls |
| Provider throttle and health (`providers/`) | token bucket, back-off, error counts | wall-clock arithmetic in floating point |
| Torrent engine, storage (`torrent_engine/`, `storage/`) | librqbit session, download sessions in one JSON file, symbolic links | the work is librqbit's; one task rewrites the file |
| MPD bridge (`mpd_bridge/`) | one command connection, an idle loop that reconnects | the state is the MPD server's, read again after each event |
| RPC plugins (`plugin_rpc/`) | child processes with a watchdog | no request path starts one (section 7 has what was met) |
| Media cache, watch history, skip store, secrets, event bus | each operation under one lock or one transaction | nothing happens between two steps |

### 1.3 Without state worth a model

Catalog aggregation and ranking, the quality policy (pure functions over
floating-point ratings and titles; the score that decides the order of streams
is in DetailStreams); the circuit breaker, the player manager and queue, the
plugin dispatcher and state store (constructed by nothing a request reaches);
manifests and sandbox (parsing); the WASM host (wasmtime, an outcome chosen per
call in the supervisor's model); skip detection, DSP and audio output (signal
processing); metadata clients (HTTP and parsing); SDK and bundled plugins (guest
code inside one call); CLI (one-shot commands, of which the link made by a dev
install is an action of PluginLifecycle); TUI screens, components and packages
(presentation, apart from what the models above have of them). `docs/`, the
READMEs, comments and tests are read as statements of what the program promises.

Of the 85 000 lines of the repository most are of these kinds: bundled plugins
and their SDK, wire types, parsing, HTTP clients, screens. The models cover the
coordination code, which is a small part of the lines.

### 1.4 How they interact

The TUI writes request lines; the IPC loop reads one line at a time, spawns
searches, plays, metadata fetches and catalog refreshes, and awaits most other
handlers inline, `find_streams` and tag jobs among them. A search fans out to
one task for each scope, each scope to one task for each plugin, each plugin
call takes a permit and then the supervisor's instance mutex. All messages for
the client go through one bounded channel that only the IPC loop reads, except
grid updates, which come by broadcast through the batcher. The player answers
through the same channel. The plugin watcher and the IPC loop share the engine's
registry.

## 2. How the modules fit together

```
 ScopeStream  <---- implemented by ---- ScopedSearch        OneWindow
     ^                                       |                  ^
     | each scope of the runtime             | calls            | implemented by
 SearchStream                          WasmSupervisor       MpvPlayer
                                             ^
                                             | a load either gives a plugin or is refused
                                       PluginLifecycle

 IpcSession: the request table, the pipes and the loop that the others talk through
     ^ awaited by the loop     ^ spawned by the loop     ^ broadcast, batched by the loop
 DetailStreams             DetailMetadata            Catalog
```

Composition is by contract, so that each model stays small enough to explore:

* SearchStream lets each scope send at most one partial and then one final.
  That is ScopeStream, and ScopedSearch is proved to implement it
  (`KeepsThePromise`). What ScopedSearch adds, timers and sources, cannot be
  seen by the client.
* ScopedSearch takes a plugin's answer as data, nothing, an error, or never.
  The supervisor returns in every case (`CallsReturn`), so "never" stands for a
  call longer than any timer of interest and for a task that is queued.
* PluginLifecycle takes loading as one step between manifest and registry. The
  supervisor created by it is WasmSupervisor, whose actors include the loader
  with its init.
* OneWindow is the abstract specification of the player's windows; MpvPlayer
  is proved to implement it (`OneWindowImplemented`).
* IpcSession gives the others their transport: an answer or an error for each
  request, events in the order they entered the channel. DetailStreams takes
  from it that a stream search is awaited by the loop, so that its events leave
  after its acknowledgement was written; DetailMetadata that its verbs are
  spawned, so that theirs interleave with anything; Catalog that the loop looks
  at updates between requests.

Each component `C` has `C.tla`, a model-checking module `MCC.tla` with its
`.cfg` files, and `CProofs.tla`; the two halves of the detail card share DetailCard
and have their proofs in DetailCardProofs. The modules hold, next to a definition
and marked as such or named for its error, the mutated form that the mutation test
puts in its place (`DrainNothing`, `ScheduleReloadForgotten`, ...); nothing else
uses them.

## 3. The modules and the code

An action is the code between two points where another task can run: two
awaits, or the release of one lock and the taking of the next. Whatever else
that code does is in the action. Logging, wording, entry contents and
configuration values that no property tells apart are left out.

### 3.1 WasmSupervisor

| model | code (`runtime/src/abi/supervisor.rs`) |
|---|---|
| `inst`, `lock` | `instance: Mutex<Option<WasmInstance>>`; instances are numbered, 0 is `None`; `lock` is the holder across a call |
| `window`, `crashCount`, `reloadCount`, `alive`, `permanent`, `statsLock` | `crash_times` (its length), `WasmSupervisorStats` and its mutex |
| `failed`, `cooling` | the atomic flag; `last_timeout_at` within the cooldown |
| `pc[a]` | a caller (or the loader, in `init`) in `call_verb` / `on_crash` |
| `task` | the reload tasks, in the order they were spawned |
| `BeginVerb`, `FindReloading`, `Run`, `Return`, `Trap`, `Timeout`, `RecordTimeout` | `call_verb`: refused if failed or cooling; the lock is granted with or without an instance; the outcomes of a call. A timed out verb sets the cooldown, a timed out init is a crash |
| `EnterCrash`, `PushCrash`, `CountCrash`, `DropInstance`, `GiveUp`, `RecordFailure`, `ScheduleReload` | `on_crash`, one action for each critical section: the timestamp and the statistics are under two mutexes, and so are the flag and what the statistics say of it |
| `LoadAnswers`, `AnnounceReload`, `InstallInstance` | the spawned reload: back-off and load, statistics, installation. It keeps the statistics mutex while it waits for the instance |

`broken` is history: instances a call crashed on. Crash times leave the
window oldest first at any rate (`\E kept`), which covers every clock. The token
bucket a verb waits on before the mutex has no state the properties see.

### 3.2 ScopeStream and ScopedSearch

| model | code (`runtime/src/engine/search_scoped.rs`) |
|---|---|
| `handles`, `outcome` | the tasks spawned by `run_one_scope`, the runtime's own TVDB source among them, and how each ends; a panicked task is an error |
| `rx`, `pending`, `collected`, `anyError` | the channel and the locals of `run_scope_timing` |
| `partialTimer`, `floorTimer` | `partial_sleep`, started by the first answer; `hard_floor_sleep`, started at dispatch |
| `DispatchNothing`, `Dispatch` | no source: a final with `NoPluginsConfigured`; else the loop |
| `Receive`, `PartialDeadlineFires`, `HardFloorFires` | the arms of the biased `select!`, in its order of preference |
| `LoopEnds`, `ChannelClosed` | `while pending > 0`, and the `None => break` arm: every bridge has dropped its sender |
| `Finalise` | after the loop: `AllFailed` only if there is nothing to show |

Time is counted in ticks that may pass while an arm is ready, since a loop can
be scheduled late. Entries are represented by the source they come from, so "the
final lacks nothing" can be said. ScopeStream says what a partial shows: everything
known, if the first answer has waited for the deadline (`due`), else nothing, which
is the hard floor's placeholder. The code sends the placeholder also when entries
were collected less than a deadline ago, which the header of the source does not
have (section 7); the abstract specification names it as a step of its own. `merge_dedupe` and the anime id enrichment
work inside entries.

### 3.3 SearchStream

| model | code |
|---|---|
| `StartSearch`, `ActivateSearch` | `PluginDataSource.Search`, split where the lock is released around `client.Search`: snapshot and subscription, then `activeQID`, `Partial` and the reader |
| `RestoreView` | `RestoreSnapshot` |
| `ReadNext`, `ReadClosed` | `nextScopeCmd`: a message is applied only if its query is active; a closed channel ends the chain |
| `UpdateFollowup`, `SwitchTab` | root `Update`: forwards the posted message and runs its `Followup` only while the music tab is active |
| `HandleSearch`, `EmitPartial`, `EmitFinal` | `Request::Search` spawns; each scope follows ScopeStream |
| `wire` | pipe and runtime event channel, one bounded queue |
| `AckArrives`, `DrainPending`, `ForgetFailed` | the Ok of the request; `drainPending` at end of file; the goroutine of `Search` that unsubscribes after an error |
| `DispatchScopeResults` | `dispatchScopeResults`: deliver or drop when full, count finals, close after the last |
| `RuntimeExits` | the process ends and any suffix of what was on its way is lost; `LastBeforeExit` bounds when, in searches dispatched |

A message is (query, scope, partial or final): what a column shows is a message
or the browse view.

### 3.4 OneWindow and MpvPlayer

| model | code |
|---|---|
| `proc`, `epoch`, `writer` | `MpvInner::proc`, `ipc_epoch`, `sock_tx` (named by the loop that installed it) |
| `sock` | which mpv's socket is at the shared path |
| `mp` | each process: not yet, starting, listening, dead |
| `pc[t]` | each request task; `loop[t]`, `mine[t]`, `conn[t]`: the IPC loop of the mpv that `t` launched |
| `Look`, `AskToQuit`, `Bump`, `Kill`, `DropWriter` | `stop()`, one action for each access to a shared field |
| `Send` | `send_command`: the cached writer, or after a failed or overdue write (`mpv.rs:541-544`) a fresh connection to the socket path |
| `Launch`, `LaunchFails`, `Store`, `Claim` | `play` and `play_idle`: remove the socket file, spawn, store the child (dropping the one there, which `kill_on_drop` kills), take the next epoch |
| `Announce`, `FetchEnds`, `LoadFile` | `play_via_torrent`: status texts, metadata, `loadfile_replace`; after a failure three seconds and `stop()` |
| `AskRunning` | `is_running()` in `run_player_cmd` |
| `Connect`, `Miss`, `GiveUp`, `Install`, `ReadEnds`, `ClearWriter`, `TakeProc` | `run_ipc_loop` and `wait_for_socket` |
| `MpvListens`, `MpvExits` | mpv itself, which may fail at any time |

`found` is history for `StopKillsWhatItFound`, which is proved rather than run.
Events to the TUI are left out.

### 3.5 PluginLifecycle

| model | code |
|---|---|
| `disk`, `writer` | each plugin directory: absent, being written, whole; who is writing |
| `toScan`, `ScanNext`, `StartWatcher` | `scan_and_load`, then `start_watcher` |
| `events`, `seen`, `settling`, `CollectSeen`, `TakeRemove`, `TakeCreate`, `Settled` | `watch_loop` and `handle_fs_event`: one channel, one task, half a second of sleep between looking and marking seen |
| `load[l]`, `ReadManifest`, `Refuse`, `Splice` | `load_plugin` for each of its three callers: manifest, then the registry under its lock. The dispatch map is rebuilt from the registry in the same hold of that lock, so it has no variable |
| `Unload`, `DeleteDir` | `unload_plugin`: the registry under the lock, the directory after it |
| `SetEnabled`, `LoadByPath` | the requests of those names |
| `BeginExtract`, `FinishWrite`, `AbortWrite` | `download_and_install`: `create_dir_all`, extraction, the end of it or a failure |
| `UserLinks`, `UserCopies`, `UserDeletes`, `UserMovesAway` | what users do in the directory; a move is a rename event |
| `excuse` | history: why a whole directory may lack a plugin (refused with a toast or warning; the uninstall could not delete it; or one of two gaps, below) |

Only direct children are watched, and an event is queued in the same step as
the change: inotify keeps the order, and delay is already in the queue. Two
gaps are in the code and recorded as excuses rather than hidden: a directory that
appears between the scan's reading and the watcher's first collection of `seen`
is never loaded (`skipped`), and one that was moved away is still `seen` when it
comes back (`moved`).

### 3.6 IpcSession

| model | code |
|---|---|
| `kind[c]` | how `run_ipc_loop` serves a request (`main.rs:641-759`): awaited (`inline`, `streams`, `apply`, `cancel`), spawned, or without an answer |
| `call`, `chan`, `pending`, `mu` | a goroutine in `sendWithID`/`sendRaw`, its response channel, `Client.pending`, `c.mu` |
| `Register`, `TakeLock`, `Write`, `WriteFails`, `AnswerFailure`, `Receive`, `Timeout` | the steps of a call; the mutex is released between the table and the write, and held during the write |
| `WantQuit` .. `QuitKill` | `Client.Stop`: the shutdown request, then the process is killed |
| `reader`, `hand`, `Scan`, `Route`, `EndOfFile`, `Drain` | `readLoop`, its `routeResponse` and `drainPending`; an oversized line ends it like an end of file |
| `loop`, `cur`, `left`, `ReadLine`, `HandlerReturns`, `Forward`, `Announce`, `WriteOut` | the arms of the `select!`, one at a time, and `send_wire` |
| `SendPartial` | an event sent by the awaited `run_find_streams_streaming` |
| `job`, `WriteTags` | the tag job in its registry and the files it has left |
| `tasks`, `TaskAnswers`, `events`, `News` | spawned handlers, the channel they answer through, reports of mpv and the like |
| `Crash` | the runtime dies; a pipe keeps what was written |

A second answer to a call that was answered already is a send on a closed
channel, which panics in Go: the model has that state (`panicked`), and
everything stops there. `NobodyElseAnswersTwice` says how it can come about, and
that it can come about in no other way: the drain had answered the call, and its
write failed because the runtime was gone.

### 3.7 DetailStreams

| model | code |
|---|---|
| `screen`, `shown`, `busy`, `wrong` | the open card and the three maps of its rows (`EpisodeStreams`, `...InFlight`, `...Error`) |
| `Visit`, `Ask` | `openDetail`; Enter on a row (`keys_detail.go:422`), which clears its list and asks, whatever it shows |
| `Serve`, `Replay`, `FanOut` | `run_find_streams_streaming`: entries older than five minutes are dropped, a cached run is replayed, else settings are read and providers called |
| `ProviderAnswers`, `Offered`, `Passes`, `Score`, `Unseen` | one provider's answer: rank, filters, first provider of a release keeps it, truncation. Streams of one score come in the plugin's order, so `Offered` is the set of the lists that may result |
| `ProviderFails`, `Finish` | an error; the end of the fan-out by the last answer or the deadline: cache, marker, acknowledgement |
| `Forward` | the loop passes an event on, when no handler is awaited |
| `Wake`, `Timeout` | the request's goroutine |
| `Handle`, `OnLoaded`, `OnPartial`, `OnComplete`, `Sortings` | the three handlers of the card, in the order the messages reach the UI |

| `CacheKey`, `CacheWith`, `Idents` | `streams_cache_key`: the first identifier the request carries, of the two places for an IMDb id, the TMDB number without its kind, the entry id, and title with year and kind. `Idents` says what each title's request carries; titles may share any of it, and a request without any is not cached |

A stream is a record of infohash, tier and seeders. The score counts the tier
and the seeders; what comes from the release name is the same for all. The
partials wait in the event channel until the request is served, because the loop
that forwards them awaits the fan-out. What this module shares with the other half
of the card, its titles and the open card, is in DetailCard.

### 3.8 Catalog

| model | code |
|---|---|
| `startup`, `ReadCache` .. `AwaitReady`, `SetReady`, `NotifyWaiters` | `init_tab` of each tab with `await_plugins_ready`; `mark_plugins_ready` |
| `started`, `refresh`, `done`, `SearchEnds`, `BulkPass`, `EnrichEntry` | `refresh_tab` and `enrich_grid_progressive`; an empty result ends the refresh. Each pass publishes a version of its own |
| `writers`, `InsertGrid`, `EmitGrid` | a snapshot on its way into the map, the file and the channel: each publisher has two steps, and publishers overlap |
| `mail`, `lagged`, `Emit` | the tokio broadcast channel that all tabs share; a subscriber that falls behind loses the oldest message, of whatever tab, and is told so |
| `saved`, `SaveTab` | the media cache and its sync task, one receiver for all tabs |
| `buffer`, `batch`, `BufferInsert`, `ClearOnLag`, `Drain`, `WriteUpdate` | `IpcBatcher`, whose buffer is cleared for all tabs after a lag, and the loop that writes what it drained |
| `client`, `Subscribe`, `ReadGrids`, `Disconnect` | a client's session: subscription, then the replay |
| `view` | the tabs of which the client has a grid after `handleGridUpdate` |

A grid is a version: the refresh it comes from and how much of its enrichment it
has seen. Tabs share the broadcast channel, its two receivers and the batcher, so
a burst of one tab makes the messages of another get lost, and nothing sends them
again before the next refresh. `latest`, `owed` and `lapsed` are history: the last
grid emitted of each tab, whether the client was sent it, and whether a subscriber's
channel has overrun since. The properties say that an overrun *after* the
announcement is the only thing that takes a tab's newest grid away; what the
clearing of the buffer throws away beside it is always older than the overrun.

### 3.9 DetailMetadata

| model | code |
|---|---|
| `screen`, `view`, `Open`, `Close` | the card and the status and content of each verb |
| `Source`, `EntryId`, `External`, `Accepts` | what a request carries: catalogue, stripped id, foreign ids; and which stripped ids the card takes for its own: the entry id, or what follows a dash in it (`detail_state.go:277`) |
| `Startable` | enrich at once; the other verbs after it; ratings only with an IMDb id |
| `Bridged`, `ExternalId`, `RatingsId`, `Routed` | `resolve_id_for_plugin` with the ids enrich found. Enrich may search by title: `Bridges` gives any ids, right or wrong, and titles may share them |
| `Key`, `Hit`, `Miss` | `MetadataCacheKey`, `MetadataCache::get`; an entry may have expired at any time |
| `Answer`, `Fail`, `Late`, `Payload`, `Settle` | `drain_with_deadline` and `run_verb`: what was heard when the last answer or the deadline comes; enrich joins its calls under one timeout |
| `Deliver`, `Concerns`, `Shown` | a partial applied by `ApplyMetadataPartial` if its id passes for that of the open card |

A payload is a set of facts: who said something, and for which title's request. So
"the card shows what was asked for another title" can be said although merging is
left out, and without the guard's own comparison. Partials of different verbs arrive
in any order, enrich first.

## 4. The runs

Each run asks a question of its own. Distinct states are those TLC reports.

### 4.1 Runs that pass

| run | instance | states | what it shows |
|---|---|---|---|
| `wasm_supervisor` | 2 callers, the loader, `MaxReloads` 1, at most 3 crashes, loads may fail | 9 507 | crashed instances leave, the budget is respected, each reload has its crash, calls return, service is restored |
| `scoped_search` | 3 sources, partial deadline 2 ticks, floor 3 | 6 897 | finals complete, ScopeStream implemented, something shown, answers lead to the final |
| `search_stream` | 2 scopes, channel of 4, wire of 1, 2 queries, 1 tab switch, the runtime may exit during the first search; no symmetry | 928 000 | three invariants, the order of what columns show, every search read to its end |
| `mpv_player` | a torrent play, a stream switch (which may play afresh), a stop | 1.58 million | no stray window, windows replace each other, all settles |
| `plugin_lifecycle` | 2 directories: one comes up to twice, one once; 1 request besides unloads | 2.18 million | one load for each arrival, seen is on disk, nothing lost silently, everything handled |
| `ipc_session` | 2 calls: a stream search with a spawned request, a tag job with its cancellation, an inline request with one that has no answer; 1 report, 1 update; runtime may die, a line may be too long; both pipes and the event channel hold one line | 150 000 | nothing lost, nothing answered twice by the loop, callers answered and Stop ends but for the named circles of waits |
| `detail_streams` | 3 titles, two of which share an IMDb id; 2 providers that share a release, 2 settings, 2 requests; deadlock checked | 1.46 million | releases sent once and of no unrelated title, marker last and honest, spinner stops |
| `catalog_grid` | 2 tabs and 2 refreshes, one with a bulk pass and 2 entries; a channel of 2, 1 client | 949 000 | the newest grids reach the client and the media cache, grids are kept, clients see one, the startup refresh happens |
| `detail_metadata` | 3 titles, two of which TMDB numbers alike, two of which share an IMDb id; 3 verbs, 3 plugins, 2 cards opened | 310 000 | what was asked for another title is ignored, the card fills, answers in time are shown |

What the properties say, and the bug that each catches (a mutant of the code
the run kills):

* `BrokenInstanceIsLeaving`: the slot is emptied only if nobody is calling.
  `ServiceRestored`: the reload is forgotten. `GivenUpAfterBudget`: threshold off
  by one. `ReloadsPaidByCrashes`: a handler that does not account its crash.
  `CallsReturn`: a statistics guard that outlives its reload.
* `FinalIsComplete`: the loop ends with an outcome unread. `AnswersLeadToFinal`: no
  final after an empty partial was shown. `ImplementsScopeStream`: the floor goes
  before a partial deadline that is up as well. `SomethingIsShown`: no floor.
* `NothingIsDropped`: partials repeat. `ClosedMeansFinal`: partials are counted.
  `ColumnsEndFinal`: a scope finalises twice. `ColumnsOnlyAdvance`: the query id
  is not compared. `SearchesEnd`: the count of finals goes past zero.
* `NoStrayWindow`, `OneWindowAtATime`: no `kill_on_drop`. `Settles`: a command
  without its deadline.
* `OneLoadPerArrival`: no check of `seen`. `SeenIsOnDisk`: removals ignored.
  `NothingIsLostSilently`: a load error without a notice. `EverythingIsHandled`:
  waiting until a directory is whole.
* `NothingLost`: a spawned task answers without the id. `NobodyElseAnswersTwice`: the
  router leaves the call it has answered in the table, for the drain. `CallersAreAnswered`: no
  drain. `StopEnds`: the mutex is kept when a write fails.
* `EachStreamOnce`: duplicates are looked for in one provider's answer only.
  `StreamsAreOfTheTitle`: requests without an entry id share a cache slot, the bug
  `resolve.rs:28-32` says it once had. `MarkerLast`: a replay that sends the marker first.
  `ErrorOnlyWhenEmpty`: the marker reports the providers that are late.
  `SpinnerStops`: a new card keeps the spinners of the last.
* `NewestReachesTheClient`: what is left in the channel after a lag is skipped.
  `MediaCacheCatchesUp`: its task ends at its first lag. `GridsKept`: an empty search
  result is published. `ClientsSeeAGrid`: no replay. `StartupRefreshes`: the flag is
  read before the waiter is registered.
* `StaleIgnored`: any partial is for the open card. `CardFills`: enrich waits for all
  its plugins. `FastAnswersShown`: every verb under one timeout.

### 4.2 Runs that find a violation

Each checks one sentence of the repository against the code. The traces are
short and end in the sentence's negation.

| run | sentence | what happens |
|---|---|---|
| `mpv_old_loop` | `mpv.rs:918-920`, only an mpv exit tears the loop down | with two plays overlapping, the end of one `stop()` drops the writer the other play's loop has installed; mpv closes that client, the loop sees end of file with its epoch current, and kills its live mpv |
| `ipc_cancel_waits` | `tag_write_job.rs:1`, a tag job supports cancel, and 192-193, files not started when it is cancelled are left | the job is awaited in the loop, so its cancellation stays in the pipe until the last file is written |
| `ipc_streams_stuck` | `main.rs:642-643`, the loop stays responsive while network I/O is in flight | `find_streams` is awaited in the loop and sends its partials into the channel that only the loop drains; full, it waits for itself |

Pipes and event channel hold one line each in the runs of IpcSession: they stand
for an event channel of 128 and pipes of 64 KiB that other traffic has filled. So
the passing run says nothing about a loop that has room; it says which circles of
waits there are. Callers wait for ever only if the loop awaits a stream search with
the channel full (`LoopStuck`, the subject of `ipc_streams_stuck`), if an oversized
line has ended the read loop, or if a write that holds `c.mu` meets a full pipe
whose reader cannot go on (`Jammed`); and only the last keeps Stop from ending.
`ipc_streams_stuck` has room in the input pipe, so it shows the loop's own circle.

### 4.3 Why the bounds are enough

* Supervisor: one crash past `MaxReloads` is needed for give-up and one more
  for handlers that overlap with a reload under way: 1 and 3. Two callers give
  two handlers at once; with the loader, three.
* Scope: three sources allow one each of data, error and silence; the
  deadline must be able to fire before, at and after the floor, which starts
  first: 2 and 3 ticks, with answers at any tick.
* Search: the real channel holds 8, a partial and a final for each of 4 scopes
  (the music screen asks for 3); 4 for 2 scopes is the same ratio, and `NothingIsDropped` is tight at it. A wire
  shorter than one query's messages makes the runtime wait. Two queries give an
  abandoned and an active one; a third only repeats the first. Only the
  first subscription and the last matter to the snapshot. The runtime ends in the
  first search (`LastBeforeExit` 1), also while the next is being started: a later
  end makes the run too long. The safety properties are proved for an end at any
  time, and `SearchesEnd` promises nothing after it.
* Player: two launches give an old and a new mpv with both loops; a third task
  whose `stop()` runs anywhere between. A switch may also play afresh, so the
  run has up to two launches and four stops (the torrent's own, the one after a
  failed fetch, the switch's and the request's).
* Plugins: every watcher step may be late, so a directory that comes, goes
  and comes back produces every order of its events; the other directory keeps
  watcher, scan or IPC loop busy meanwhile. Unloads are bounded by loads.
* IPC: two calls put one in the table while the other is written, routed or
  drained; the three pairs of kinds are those whose handlers meet in the
  runtime. Pipes and channel of one line fill at once, so each wait for room occurs
  while every other party waits too.
* Streams: the first request fills the cache, the second finds it, has missed
  it, or is of the other title; the shared release has other metadata at each
  provider, so who is first matters; the settings let all or little through. Keys
  are independent of each other, so one is enough, and a movie has only one. Two of
  the titles share an identifier, the third is known by its name: a slot that is
  shared, and one that is not.
* Catalog: with a channel of two slots either tab's messages make a subscriber lag
  behind the other's. The movies' refresh is followed by a bulk pass and its entries,
  so it publishes three versions; the music's publishes one, at startup or on the
  client's demand. Both overlap in every way. A second client is the first one
  again: nothing of a session outlives it.
* Metadata: two cards give a partial that is late; a film and a series of one
  TMDB number and a title of another catalogue, which comes with the film's IMDb id,
  give the collisions; its card also takes an id that follows a dash. One plugin is
  asked with any id, one with an IMDb id that enrich has to find. `credits` stands
  for the verbs with a deadline of their own, which the code treats alike.

Every bound is a constant (`MaxCrashes`, `MaxQueries`, `MaxSwitches`, `LastBeforeExit`,
`MaxArrivals`, `MaxRequests`, `MaxWork`, `MaxNews`, `MaxGrids`, `MaxAsks`,
`MaxRefreshes`, `Wanted`, `MaxClients`, `MaxOpens`) and appears only in guards of what the
environment does. Deadlock is checked for the player and the streams of the card.
Elsewhere a system whose users ask for nothing more may stop, and a discarded
supervisor has no callers: `CHECK_DEADLOCK FALSE`, with liveness properties where
progress matters.

## 5. Fairness

* WasmSupervisor. Weak fairness for the end of a call, because every call is
  under `tokio::time::timeout`; strong fairness for the steps that take a mutex,
  because tokio's mutex is first come, first served, so a waiter is not
  overtaken for ever. Nothing on traps, new calls or the cooldown.
* ScopedSearch. The scope's task runs and time passes. Nothing is assumed of
  the sources: `SomethingIsShown` holds if none ever answers.
* SearchStream. The runtime's tasks finalise (what `AnswersLeadToFinal` gives
  once plugins answer), the read loop reads, Bubbletea runs the commands it is
  given. The user and the exit of the runtime are free.
* MpvPlayer. Every step of a request and of an IPC loop: each await has a
  deadline (a command's, the fetch's, 50 connection attempts) or is a lock held
  for a bounded time. Reading ends only if the connection did. Nothing
  on new requests nor on mpv, which may never open its socket and never exit.
* PluginLifecycle. Scan, watcher and handler go on: instantiation and init have
  deadlines, deletion is a walk over a directory. Users, installers and copies
  may stop at any point.
* IpcSession, DetailStreams, Catalog, DetailMetadata. Weak fairness of one
  action, the union of what goroutines, tasks, loops and deadlines do
  (`Progress`; in Catalog the union of the startup, refresh and session steps).
  This is weaker than fairness of each, and enough: what it covers is bounded, so
  it cannot go on for ever without each of them. It leaves out whatever may stop: the
  user, the clock of a request's own timeout, background reports, plugins'
  answers, clients that come or go, crashes.

## 6. What is proved

The theorems hold for every value of the constants under the named assumptions
(`ActorsAssumption`, `PluginsFinite`, `TasksAssumption`, `SessionAssumption`,
`CatalogAssumption`, `DataTypes` and the like: constants are sets of the right
kind and disjoint; `BoundOfAsks` and `SettingsTypes`: counts are natural numbers).
No bound is used in an argument for a property, so the results hold without the
bounds; `CatalogAssumption` has that the bound on refreshes leaves one to each tab,
which the type invariant needs. One assumption says more than a type: `RoomForAll`,
that a search channel holds a partial and a final for each scope (the client's 8 for
three scopes, `client_scope.go:39`). Only `NeverDropped` and `ColumnsAreFinal` rest
on it. Nothing is assumed of identifiers: titles may share any of them.

**WasmSupervisorProofs**: `TypeCorrect`; `BrokenInstancesLeave`;
`GivenUpIsJustified`; `EmptySlotIsExplained`; `ReloadsHaveCrashes`. For the first one
must know where instances come from (`OnItsWayOut`): each was loaded first or put in
place by a reload of its own number, so no reload brings a broken one back, and a
handler leaves the way to the slot only once it is empty. The second needs that the
window is never longer than the crashes pushed (`Budget`): those in the statistics
and those whose handlers wait to count theirs, a finite set, since the decision
reads the window long after the push and other handlers may have pushed or pruned
meanwhile. For `ReloadsPaidByCrashes` one counts the handlers that have counted their
crash and not decided: with the reloads already granted never more than the crashes
(`Paid`).

**ScopedSearchProofs**: `TypeCorrect`, `CountdownIsExact`,
`FinalIsAlwaysComplete`, `KeepsThePromise` (refinement of ScopeStream). The
invariant is `TypeOK /\ Answers /\ Kept /\ PendingCountsUnread /\ Sent /\
FinalIsComplete`: what the loop has collected is what it has read, and `pending`
is the cardinality of what it has not. When `pending` is 0 nothing is unread, and
neither is when the channel is closed, so whichever of the two ends the loop
`collected` is everything that was answered. Each source in `rx` is removed by
one read, whose cardinality step is a lemma on finite sets. The refinement
adds that a partial leaves `out` non-empty exactly when `emittedPartial` is set,
and that only `Finalise` and `DispatchNothing` send finals and end the task.

**SearchStreamProofs**: `TypeCorrect`, `BrowseViewReturns`, `SubscriptionsAreOpen`,
`ClosedIsFinal`, `NeverDropped`, `ColumnsAdvance`, `ColumnsAreFinal`. A subscription's count never falls below the number of scopes
that still owe it something, a message to send or one on its way
(`CountSuffices`), and a scope's final is the last of its messages on the wire
(`FinalsAreLast`); so when the count reaches zero nobody owes anything, and no
message can meet the closed channel. The view kept for the way back is the one
before the first search (`ScreenInv`). `StreamInv` follows a message from the wire
through its channel into its column: those of one scope keep their order, a partial
before a final, in each place and between places (`InOrder`), and the stage of the
scope remembers them (`AllPassed`). So the messages of a query that are in its
channel or next for it are all different, and there are two for each scope: the
pigeonhole principle (`Shorter`, `RoomLeft`) and `RoomForAll` leave room for the next. What is
ahead in a column is earlier, so a column only advances, as the active query is the
newest (`Newest`). At the end, a subscription expects at least as many finals as are
neither shown nor in the channel (`FinalsKept`), so when it is closed and read to
the end none is missing.

**MpvPlayerProofs**: `TypeCorrect`, `NoWindowStrays`, `StopIsThorough`,
`OneWindowImplemented` (refinement of OneWindow). A process enters the slot once,
after being launched once (`Fresh`), and every step that takes one out kills
it: `Kill`, `Store`, `TakeProc`; `AskRunning` and `GiveUp` only forget a dead
one. So a live mpv is in the slot or on its way into it. What a stop found had
reached the slot (`FoundReached`), so after `Kill` it can be neither in the slot
nor on its way, hence it is dead. At most one is in the slot, so at most one
window is shown.

**PluginLifecycleProofs**: `TypeCorrect`, `SeenSound`, `NothingLost`. The argument is the order of the watcher's channel. A directory
that is there came after every removal still queued for it, so its creation is
queued behind them (`RemovedThenCreated`); what is seen is there, was moved, or
has its removal queued (`SeenHasReason`); so by the time the creation is taken
the name is forgotten, and until then the directory is accounted for
(`Accounted`: listed, excused, in hand, or its creation is queued and will find
the name unknown). When the channel is empty and nobody is at work only the
first two remain, which is `NothingIsLostSilently`.

`LoadedOncePerArrival` (`OneLoadPerArrival`) is an argument of counting. The loads
done, those a loader is committed to and the creations still queued never exceed
the arrivals and requests, except for a creation that will find the name known
(`PaidAt`, `Ignored`). A rename queued for a name is followed by the creation that
replaces it or by nothing (`MovedThenCreated`), so loading at the rename takes the
place of loading at the creation.

**IpcSessionProofs**: `TypeCorrect`, `CancellationIsLate`, `NoRequestLost`,
`OneAnswerOfTheLoop`. A tag
job runs only while the loop is in the handler that started it (`JobIsAwaited`),
so the loop cannot be in the handler of its cancellation and no job is ever marked
cancelled (`NoJobCancelled`): the violation that `ipc_cancel_waits` finds is no matter
of timing. For `NothingLost` the
invariant `PlaceInv` says that each queue holds an id once, that the seven places
exclude each other, that a call nobody has made is nowhere, and that a pending
one is somewhere while the runtime lives and is read. Each step moves an id from
one place to the next; what appending and taking do to the ids of a queue are
lemmas of their own. `NobodyElseAnswersTwice` needs it again: the router cannot
hold a call whose write failed, for such a call is nowhere (`Unsent`), so before
that call answers itself only the drain can have answered it (`AnswerInv`).

**CatalogProofs**: `TypeCorrect`, `MediaCacheIsCurrent`, `GridsAreKept`,
`NewestIsSent`. A channel loses a message only in the send that overruns it, and that
send marks every other tab as lapsed; its own message is at the end. For the media
cache `MediaInv` says of each tab that has not lapsed that its last message in the
channel, wherever between those of other tabs it is, carries the newest grid, or
there is none and the cache has it. For the client `OnItsWay` adds that what only the
buffer holds is there only while no clearing is due: a lag that will clear the buffer
has already marked those tabs. A grid is never blanked because an empty search
result is not published (`Published`), and the cached one is put in place only if
there is one.

**DetailCardProofs**, of DetailMetadata: `TypeCorrect`, `IdInvHolds`, `StaleIsIgnored`.
What is on the card was in a partial before, that in a payload, which came from a
plugin or from the cache, where another request put it: `IdInv` says of each of
these places that what it holds was asked for with the same entry id, whatever
foreign ids enrich found and whomever they belong to (`FoundOwn`, `CacheOwn`,
`CardOwn`). So a card whose id no other title's ends in shows what was asked for its
own title. Ratings are kept apart: they go by an IMDb id, which entries may share.

Of DetailStreams: `StreamsTypeCorrect`, `SentOnce`, `SentOfTheTitle`,
`MarkerComesLast`, `MarkerIsHonest`. None of the properties is inductive. A run is
sent as it is found and kept to be sent again, so `FanInv` claims of the buffer and
of every cache entry what is claimed of the messages: releases once, of a title whose
requests use that slot, and a cached run is never empty; two titles that use one slot
carry an identifier in common (`SameSlotAlike`), though a cached run may come from a
title that is not the one asked for; a request that has not been served was
sent nothing. An answer is compared with the buffer, which is what was sent
(`OncePartialMore`). `FlowInv` takes the two channels as one, the way to the UI:
forwarding does not change it, the UI takes from its front, the goroutine of a
request puts its own answer into its middle. A step of these keeps the order of what
the loop told (`Kept`, an order-preserving map of positions), and one that tells more
concerns a request without a marker (`ToldMore`, `Unmarked`).

Only model-checked: every liveness property (liveness and `ENABLED` are beyond the
prover). Every safety invariant, action property and refinement that a passing run
checks is also a theorem. The other way round, the type invariants of all modules,
`OpenWhileSubscribed`, `BrowseOutsideSearch`,
`StopKillsWhatItFound`, `EmptySlotHasReason` and `PendingCountsUnread`
are proved and are not in a configuration: a proof for every
instance leaves a run nothing to add.

## 7. What the code does against its own words

Besides the three runs of 4.2. Some of these are states of the models, and were
found there; they have no run of their own because no sentence of the repository
promises otherwise in a form that can be checked, or because the point is plain
once said.

* Supervisor: a caller queued on the mutex gets it before the crash handler does
  and runs on the trapped instance, and its own trap is one more crash on the
  budget (497, against the header, 12-13). Between the push of a timestamp and the
  statistics another handler may give up, so `failed` may be set while the
  statistics still count no crash too many (484-500). A reload never calls init again
  (`abi/supervisor.rs:203`, 538). A reload scheduled before the give-up still
  installs after it (543, header 14-15). Of two reloads the second replaces a
  healthy instance. A failed load leaves the slot empty with no retry and not
  failed (545), while the field says "`None` while reloading" (134).
* Scoped search: the hard floor shows an empty partial although entries were
  collected less than a deadline ago (350, against the header, 9-11, and 346: "if no
  plugin has responded"). `AllFailed` is also reported when one source failed and
  another had nothing (367, against 13-14, "if every plugin failed"). ScopeStream and
  `FinalIsComplete` state what the code does and say so.
* Search client: a result handled while another tab is active is dropped with
  its follow-up read, so that search is never read again (`update.go:335`, against
  333-334 and `plugin_source.go:139-140`). After the runtime's exit, or an error
  acknowledgement, the reader of that stream waits for ever, as the channel is
  not closed (`requests.go:62` against `internal.go:162-163`, `requests.go:24-26`).
  One scope's final clears `Partial` for all (`plugin_source.go:196` against
  `datasource.go:54`).
* IPC: a failed write and the drain may both answer one request, a second send on
  a closed channel, which panics (`internal.go:66`). A line over 1 MiB ends the read
  loop; calls made afterwards wait for their timeout. Both pipes full at once block
  both sides: the client writes under the mutex that its read loop needs to route a
  response, and the runtime's loop waits for the client to read (`internal.go:81`);
  Stop then waits too (`Jammed`).
  The client drops a message when the 256 slots towards the UI are full, also one
  that ends a spinner (`ipc.go`). In daemon mode `event_rx` outlives a client and
  query ids start again with the next (`main.rs:508`).
* Streams of the card: the empty acknowledgement, when it arrives after the
  partials, erases the list they filled (`handlers_catalog.go:207`). Partials carry
  no title, so those of a card that was left are appended to the open one (232).
  Enter on a row asks a second time while the first is under way; the replay then
  doubles the list. A run cut short by the deadline is cached for five minutes like
  a whole one (`resolve.rs:583-597`). A replay ignores settings changed since, and who the run was for: seasons that share
  an IMDb id, a film and a series of one TMDB number (61, "still globally unique",
  35), and titles with the same name, year and kind are shown each other's streams
  for five minutes (those of the same season and episode numbers). The
  partials do not arrive before the fan-out ends, since the loop that would forward
  them awaits it, while 220-225 describes a column that fills as providers answer.
  `stream_to_wire` sets `hdr` when there is none (139). The music picker only
  handles the acknowledgement, which is empty (`stream_picker.go:299`).
* Grids: two updates of one tab in one interval are joined, so the client shows
  every entry twice (`ipc_batcher.rs:103`): `extend` is right for parts of a grid, and
  whole grids are sent. The cached and the live update of one tab are drained in
  the order of a hash map, so the older may be written last (58). An enrichment pass
  of an older refresh overwrites grid and file of a newer one (`catalog.rs:517-538`).
  A lag is on the messages of all tabs and clears the updates of all tabs (76), so
  the newest grid of one tab may be lost to a burst of another: the client keeps an
  older grid, or none, until the tab's next refresh. The media cache loses a tab's
  grid in the same way, against 212-213 of `main.rs` ("keeps media_cache in sync").
  With 64 messages it takes a subscriber that stands still for long.
* Metadata: the cache key lacks the kind, so a film and a series of one TMDB
  number share a payload for as long as it lives (`metadata_key.rs:33`, up to 30
  days), and stripped ids of different catalogues (anilist-199, kitsu-199), or of one
  that ends in the other after a dash, pass for each other at the card
  (`detail_state.go:277`): a partial of the card that was left is then not ignored
  (against 264-265 and `handlers_catalog.go:295-297`). `StaleIgnored` is therefore
  about cards whose id no other title's ends in. Ratings are cached by IMDb id, which
  AniList seasons of one show share (`catalog.rs:174-205`). Merging is "first-wins" by
  completion, not by the priority `merge.rs:18-19` names. When one enrich plugin
  hangs, the answers of the others are lost with it (452). A run that fails late
  caches its empty payload over what a faster one has just written (518). Payloads
  cut short by a deadline are cached like whole ones. Ratings stay pending for
  ever without an IMDb id. The IMDb id the card knows is not sent with its request.
* Player: `loadfile` of a torrent goes to whichever mpv is current when its
  metadata arrives (`bridge.rs:594`, "re-target the idle mpv"), so an old torrent may
  replace a newer play; one whose fetch failed stops whichever mpv is current three
  seconds later (573). A loop that gives up reports "ended" while a newer mpv plays
  (`mpv.rs:711`). An mpv that crashes without end-file leaves the TUI uninformed
  (942). The duplicate window of SwitchStream (`bridge.rs:38-47`, 417-434) never sees
  two at once, since commands are handled inline (`main.rs:759`, 1472). `mpd_active`
  does not stop the other player (`bridge.rs:139`).
* Plugins: an archive that takes longer than half a second is read half-written,
  refused, and marked seen; no later event names it (`discovery.rs:213`, against
  `registry/mod.rs:134-135`). `rebuild_dispatch_map` never looks at `enabled`, so a
  disabled plugin is still routed to (`engine/mod.rs:1140`, against 1406-1408).
  `pipeline/registry.rs:21-25` says the directory stays after an unload, the engine
  deletes it (`engine/mod.rs:1341-1360`). A second `stui plugin install --dev` (remove,
  then link) loads a second copy; unloading either deletes the directory of both. A
  directory deleted by hand never unloads its plugin, and an update is never
  reloaded (`registry/mod.rs:181`, `plugin_manager.go:528`). A plugin is announced as
  loaded although its supervisor failed (`engine/mod.rs:1295`, `discovery.rs:245-255`).
* RPC plugins: a failed respawn ends the watchdog (`plugin_rpc/supervisor.rs:375-378`);
  the back-off resets on each success (373); a shutdown during a spawn orphans
  the process (351-358); a call after end of file waits 30 s
  (`process.rs:125-126`); the shutdown never kills (`process.rs:236`).

## 8. What is not modelled

Inside modelled components:

* Supervisor: the wasm execution, the token bucket before the mutex, log and
  event emission.
* Scoped search: merging and enrichment of entries; the emit channel being closed.
* Search stream: the grid tabs (`grid_search.go`), which use the same client but
  apply results in their own step; cancelling a search's context, which no
  caller does; clients that follow each other in daemon mode.
* Player: events to the TUI, the negative cache and duplicate window of stream
  switching, the MPD route, flags and subtitles.
* Plugins: the supervisor's construction, user configuration merged at load,
  versions of a plugin, the dispatch map, registry browsing.
* IPC session: what each of the hundred handlers computes; the daemon's socket and
  its sequence of clients (Catalog has that sequence for grids); the 256 slots
  towards the UI.
* Streams: the benchmark path and the older resolve request, the IMDb lookup before
  the fan-out, health weights, the music picker.
* Grids: the search behind a refresh and what enrichment computes; a file
  torn by a crash, which the next start skips.
* Metadata: the field-by-field merge, source lists from the configuration, the
  requests plugins are sent.

The components of 1.2 and 1.3, each with its reason.

Hazards met outside the models: long inline requests hold up the loop
(`main.rs:1346`); answers of ListPlugins before and after an unload may be applied
out of order (`plugin_manager.go:390`); a configuration change stays in force though
saving it failed (`config/manager.rs:155`); grid files are written in place
(`catalog.rs:82`); a plugin is configured from a copy of the configuration that is old
by the time of the load (`engine/mod.rs:1171`); a plugin is unloaded between dispatch
snapshot and lookup (791), and a permit is held while a call waits for the limiter
(784); a failed download is recorded in memory only (`download_translator.rs:136`),
and the session lock is held during the organising (116); the throttle's back-off is
shifted before it is capped (`throttle.rs:105`).
