--------------------------- MODULE PluginLifecycle ---------------------------
(***************************************************************************)
(* How plugins come and go: the startup scan and the file-system watcher   *)
(* of runtime/src/discovery.rs, load_plugin, unload_plugin and             *)
(* set_plugin_enabled of runtime/src/engine/mod.rs, and the installer of   *)
(* runtime/src/registry/mod.rs.                                            *)
(*                                                                         *)
(* Three loaders share the engine: the scan (main, before anything is      *)
(* served), the watcher task, and the IPC loop, which runs its handlers    *)
(* inline and so one at a time.  Installers run as tasks of their own, and *)
(* the user may copy, link, delete and move directories at any time.  The  *)
(* file system tells the watcher about direct children of the plugin       *)
(* directory only, in order, from the moment it listens.                   *)
(*                                                                         *)
(* A plugin directory is known by its name.  The identifier of a loaded    *)
(* plugin (a fresh UUID) is the name with the number of the load.          *)
(***************************************************************************)
EXTENDS Naturals, Sequences, FiniteSets

CONSTANTS
  Names,        \* names of plugin directories
  NoName,       \* None
  MaxArrivals,  \* bound: how often a directory appears under each name
  MaxRequests   \* bound: toggles, loads by path and updates the user asks for

ASSUME NamesAssumption == NoName \notin Names
ASSUME BoundsAssumption == MaxArrivals \in [Names -> Nat] /\ MaxRequests \in Nat

VARIABLES
  disk,      \* what each directory holds
  writer,    \* who is writing into it
  toScan,    \* directories the startup scan has still to load
  watch,     \* the watcher: off, listening (seen not yet collected), running
  events,    \* the channel between the notify callback and the watcher
  seen,      \* HashSet of watch_loop
  settling,  \* the directory the watcher has given half a second to settle
  load,      \* the plugin each loader is building, between manifest and splice
  deleting,  \* the directory unload_plugin is deleting
  registry,  \* PluginRegistry: identifier -> enabled
  loads,     \* loads so far under each name; numbers the identifiers
  arrivals,  \* history: how often each directory was put in place
  asked,     \* history: loads by path
  requests,  \* number of requests, for the bound
  excuse     \* history: why a directory may lack a plugin although it is whole

diskVars == <<disk, writer, arrivals>>
watchVars == <<watch, events, seen, settling>>
engineVars == <<load, registry, loads>>
vars == <<disk, writer, toScan, watch, events, seen, settling, load, deleting,
          registry, loads, arrivals, asked, requests, excuse>>

Loaders == {"scan", "watcher", "ipc"}
Ids == Names \X (Nat \ {0})
Excuses == {"refused", "kept", "skipped", "moved"}
Event == [kind : {"Create", "Remove", "Name"}, name : Names]
Maybe == Names \cup {NoName}

TypeOK ==
  /\ disk \in [Names -> {"absent", "partial", "copied", "installed"}]
  /\ writer \in [Names -> {"nobody", "user", "install"}]
  /\ toScan \in SUBSET Names
  /\ watch \in {"off", "listening", "running"}
  /\ events \in Seq(Event)
  /\ seen \in SUBSET Names
  /\ settling \in Maybe
  /\ load \in [Loaders -> Maybe]
  /\ deleting \in Maybe
  /\ DOMAIN registry \in SUBSET Ids
  /\ registry \in [DOMAIN registry -> BOOLEAN]
  /\ loads \in [Names -> Nat]
  /\ arrivals \in [Names -> Nat]
  /\ asked \in [Names -> Nat]
  /\ requests \in Nat
  /\ excuse \in [Names -> SUBSET Excuses]

OnDisk(n) == disk[n] # "absent"
Whole(n) == disk[n] \in {"copied", "installed"}
Listed(n) == \E id \in DOMAIN registry : id[1] = n

\* The state at the start of the scan: collect_plugin_dirs has been read.
Init ==
  /\ disk \in [Names -> {"absent", "copied"}]
  /\ writer = [n \in Names |-> "nobody"]
  /\ toScan = {n \in Names : OnDisk(n)}
  /\ watch = "off"
  /\ events = <<>>
  /\ seen = {}
  /\ settling = NoName
  /\ load = [l \in Loaders |-> NoName]
  /\ deleting = NoName
  /\ registry = <<>>
  /\ loads = [n \in Names |-> 0]
  /\ arrivals = [n \in Names |-> IF OnDisk(n) THEN 1 ELSE 0]
  /\ asked = [n \in Names |-> 0]
  /\ requests = 0
  /\ excuse = [n \in Names |-> {}]

-----------------------------------------------------------------------------
\* The file system and those who write to it

\* notify calls back for a change to a child of the directory it watches.
Notify(kind, n) ==
  events' = IF watch = "off" THEN events ELSE Append(events, [kind |-> kind, name |-> n])

\* A directory appears; to the watcher a rename into place is like a creation.
\* What was said of an earlier directory no longer counts.
Appear(n, content) ==
  /\ disk[n] = "absent"
  /\ arrivals[n] < MaxArrivals[n]
  /\ disk' = [disk EXCEPT ![n] = content]
  /\ arrivals' = [arrivals EXCEPT ![n] = @ + 1]
  /\ excuse' = [excuse EXCEPT ![n] = @ \cap {"moved"}]
  /\ Notify("Create", n)

\* A directory, or a link to one, is deleted.
Vanish(n) ==
  /\ disk' = [disk EXCEPT ![n] = "absent"]
  /\ Notify("Remove", n)

\* The user links a plugin (stui plugin install --dev) or moves one in: it is
\* whole at once.
UserLinks(n) ==
  /\ writer[n] = "nobody"
  /\ Appear(n, "copied")
  /\ UNCHANGED <<writer, toScan, watch, seen, settling, engineVars, deleting, asked, requests>>

\* The user starts to copy a plugin in, file by file.
UserCopies(n) ==
  /\ writer[n] = "nobody"
  /\ Appear(n, "partial")
  /\ writer' = [writer EXCEPT ![n] = "user"]
  /\ UNCHANGED <<toScan, watch, seen, settling, engineVars, deleting, asked, requests>>

UserDeletes(n) ==
  /\ writer[n] = "nobody" /\ OnDisk(n)
  /\ Vanish(n)
  /\ UNCHANGED <<writer, arrivals, toScan, watch, seen, settling, engineVars, deleting,
                 asked, requests, excuse>>

\* A directory moved away is a rename to the watcher, not a removal: it stays
\* among those seen.
UserMovesAway(n) ==
  /\ writer[n] = "nobody" /\ OnDisk(n)
  /\ disk' = [disk EXCEPT ![n] = "absent"]
  /\ Notify("Name", n)
  /\ excuse' = [excuse EXCEPT ![n] = IF n \in seen \cup {settling} THEN @ \cup {"moved"} ELSE @]
  /\ UNCHANGED <<writer, arrivals, toScan, watch, seen, settling, engineVars, deleting,
                 asked, requests>>

\* download_and_install has the archive: create_dir_all, then extraction,
\* over what an installed plugin already holds when this is an update.
BeginExtract(n) ==
  /\ watch # "off"
  /\ writer[n] = "nobody"
  /\ \/ /\ Appear(n, "partial")
        /\ UNCHANGED requests
     \/ /\ OnDisk(n) /\ requests < MaxRequests
        /\ disk' = [disk EXCEPT ![n] = "partial"]
        /\ requests' = requests + 1
        /\ UNCHANGED <<arrivals, excuse, events>>
  /\ writer' = [writer EXCEPT ![n] = "install"]
  /\ UNCHANGED <<toScan, watch, seen, settling, engineVars, deleting, asked>>

\* The last file is written.  extract_tgz makes the directory again when an
\* uninstall has deleted it meanwhile, and reports success all the same.
FinishWrite(n) ==
  /\ writer[n] # "nobody"
  /\ \/ /\ disk[n] = "partial"
        /\ disk' = [disk EXCEPT ![n] = IF writer[n] = "install" THEN "installed" ELSE "copied"]
        /\ UNCHANGED <<arrivals, excuse, events>>
     \/ /\ writer[n] = "install"
        /\ Appear(n, "partial")
  /\ writer' = [writer EXCEPT ![n] = "nobody"]
  /\ UNCHANGED <<toScan, watch, seen, settling, engineVars, deleting, asked, requests>>

\* A write ends early: a full disk, a bad archive, an interrupted copy.
AbortWrite(n) ==
  /\ writer[n] # "nobody"
  /\ writer' = [writer EXCEPT ![n] = "nobody"]
  /\ UNCHANGED <<disk, arrivals, toScan, watchVars, engineVars, deleting, asked, requests, excuse>>

-----------------------------------------------------------------------------
\* Engine::load_plugin

\* Mutant of Refuse: the failure is dropped, no toast is sent.
RefuseSilently(n) ==
  /\ ~Whole(n)
  /\ UNCHANGED <<load, excuse>>

\* load_manifest fails, which only a directory that is not whole can cause.
Refuse(n) ==
  /\ ~Whole(n)
  /\ excuse' = [excuse EXCEPT ![n] = @ \cup {"refused"}]
  /\ UNCHANGED load

\* The manifest is read; the supervisor is then built without any lock.
ReadManifest(l, n) ==
  /\ OnDisk(n)
  /\ load' = [load EXCEPT ![l] = n]
  /\ UNCHANGED excuse

\* The finished plugin enters the registry under the write lock.
Splice(l) ==
  /\ load[l] # NoName
  /\ LET n == load[l]
         id == <<n, loads[n] + 1>>
     IN  /\ registry' = [i \in DOMAIN registry \cup {id} |-> IF i = id THEN TRUE ELSE registry[i]]
         /\ loads' = [loads EXCEPT ![n] = @ + 1]
  /\ load' = [load EXCEPT ![l] = NoName]
  /\ UNCHANGED <<diskVars, toScan, watchVars, deleting, asked, requests, excuse>>

-----------------------------------------------------------------------------
\* The startup scan

\* scan_and_load takes the directories one after another.
ScanNext(n) ==
  /\ n \in toScan /\ load["scan"] = NoName
  /\ toScan' = toScan \ {n}
  /\ Refuse(n) \/ ReadManifest("scan", n)
  /\ UNCHANGED <<diskVars, watchVars, deleting, registry, loads, asked, requests>>

\* start_watcher; requests are served from now on.
StartWatcher ==
  /\ watch = "off" /\ toScan = {} /\ load["scan"] = NoName
  /\ watch' = "listening"
  /\ UNCHANGED <<diskVars, toScan, events, seen, settling, engineVars, deleting, asked,
                 requests, excuse>>

-----------------------------------------------------------------------------
\* The watcher

\* seen starts as what is there now, loaded by the scan or not.
CollectSeen ==
  /\ watch = "listening"
  /\ watch' = "running"
  /\ seen' = {n \in Names : OnDisk(n)}
  /\ excuse' = [n \in Names |-> IF OnDisk(n) /\ ~Listed(n) THEN excuse[n] \cup {"skipped"}
                                                          ELSE excuse[n]]
  /\ UNCHANGED <<diskVars, toScan, events, settling, engineVars, deleting, asked, requests>>

WatcherFree == watch = "running" /\ settling = NoName /\ load["watcher"] = NoName

\* Mutant of Fresh: every event for a directory loads it.
FreshWheneverThere(n) == OnDisk(n)

\* Worth loading: a directory that has not been processed yet.
Fresh(n) == OnDisk(n) /\ n \notin seen

\* Mutant of TakeRemove: removals are ignored.
TakeRemoveIgnored ==
  /\ WatcherFree /\ events # <<>> /\ Head(events).kind = "Remove"
  /\ events' = Tail(events)
  /\ UNCHANGED <<diskVars, toScan, watch, seen, settling, engineVars, deleting, asked,
                 requests, excuse>>

\* handle_fs_event, a removal.
TakeRemove ==
  /\ WatcherFree /\ events # <<>> /\ Head(events).kind = "Remove"
  /\ events' = Tail(events)
  /\ LET n == Head(events).name
     IN  /\ seen' = seen \ {n}
         /\ excuse' = [excuse EXCEPT ![n] = @ \ {"moved"}]
  /\ UNCHANGED <<diskVars, toScan, watch, settling, engineVars, deleting, asked, requests>>

\* handle_fs_event, a creation or a rename.
TakeCreate ==
  /\ WatcherFree /\ events # <<>> /\ Head(events).kind # "Remove"
  /\ events' = Tail(events)
  /\ settling' = IF Fresh(Head(events).name) THEN Head(events).name ELSE NoName
  /\ UNCHANGED <<diskVars, toScan, watch, seen, engineVars, deleting, asked, requests, excuse>>

\* Mutant of Settled: the watcher waits until the plugin is complete.
SettledWhenWhole ==
  /\ settling # NoName /\ Whole(settling)
  /\ seen' = seen \cup {settling}
  /\ settling' = NoName
  /\ ReadManifest("watcher", settling)
  /\ UNCHANGED <<diskVars, toScan, watch, events, deleting, registry, loads, asked,
                 requests>>

\* Half a second later: the directory is marked seen and try_hot_load begins.
Settled ==
  /\ settling # NoName
  /\ seen' = seen \cup {settling}
  /\ settling' = NoName
  /\ Refuse(settling) \/ ReadManifest("watcher", settling)
  /\ UNCHANGED <<diskVars, toScan, watch, events, deleting, registry, loads, asked,
                 requests>>

-----------------------------------------------------------------------------
\* The IPC loop

Serving == watch # "off" /\ deleting = NoName /\ load["ipc"] = NoName

\* unload_plugin, under the write lock: forget the plugin.
Unload(id) ==
  /\ Serving /\ id \in DOMAIN registry
  /\ registry' = [i \in DOMAIN registry \ {id} |-> registry[i]]
  /\ deleting' = id[1]
  /\ UNCHANGED <<diskVars, toScan, watchVars, load, loads, asked, requests, excuse>>

\* unload_plugin, after the lock: the directory is deleted, if it is there and
\* can be; a failure may have taken some of its files.
DeleteDir ==
  /\ deleting # NoName
  /\ deleting' = NoName
  /\ \/ /\ ~OnDisk(deleting)
        /\ UNCHANGED <<disk, events, excuse>>
     \/ /\ OnDisk(deleting)
        /\ Vanish(deleting)
        /\ UNCHANGED excuse
     \/ /\ OnDisk(deleting)
        /\ \E content \in {disk[deleting], "partial"} :
              disk' = [disk EXCEPT ![deleting] = content]
        /\ excuse' = [excuse EXCEPT ![deleting] = @ \cup {"kept"}]
        /\ UNCHANGED events
  /\ UNCHANGED <<writer, arrivals, toScan, watch, seen, settling, engineVars, asked, requests>>

\* set_plugin_enabled.
SetEnabled(id, on) ==
  /\ Serving /\ id \in DOMAIN registry /\ requests < MaxRequests
  /\ registry' = [registry EXCEPT ![id] = on]
  /\ requests' = requests + 1
  /\ UNCHANGED <<diskVars, toScan, watchVars, load, deleting, loads, asked, excuse>>

\* A load_plugin request.
LoadByPath(n) ==
  /\ Serving /\ requests < MaxRequests
  /\ requests' = requests + 1
  /\ asked' = [asked EXCEPT ![n] = @ + 1]
  /\ Refuse(n) \/ ReadManifest("ipc", n)
  /\ UNCHANGED <<diskVars, toScan, watchVars, deleting, registry, loads>>

-----------------------------------------------------------------------------
User(n) == UserLinks(n) \/ UserCopies(n) \/ UserDeletes(n) \/ UserMovesAway(n)
Writer(n) == BeginExtract(n) \/ FinishWrite(n) \/ AbortWrite(n)
Scan == (\E n \in Names : ScanNext(n)) \/ Splice("scan") \/ StartWatcher
Watcher == CollectSeen \/ TakeRemove \/ TakeCreate \/ Settled \/ Splice("watcher")
Handler == DeleteDir \/ Splice("ipc")
Request ==
  \/ \E id \in DOMAIN registry : Unload(id) \/ \E on \in BOOLEAN : SetEnabled(id, on)
  \/ \E n \in Names : LoadByPath(n)

Next == Scan \/ Watcher \/ Handler \/ Request \/ \E n \in Names : User(n) \/ Writer(n)

Spec == Init /\ [][Next]_vars

\* The runtime's own tasks go on: a load ends because instantiation and init
\* have deadlines, a deletion because it is a walk over a directory.  Users and
\* writers may stop at any point.
FairSpec == Spec /\ WF_vars(Scan) /\ WF_vars(Watcher) /\ WF_vars(Handler)

-----------------------------------------------------------------------------
\* Nothing is under way in the watcher, its channel or the IPC loop.
Quiet == WatcherFree /\ events = <<>> /\ load["ipc"] = NoName /\ deleting = NoName

\* Explained: the directory has its plugin, or the runtime gave a reason
\* (refused: a toast or a warning; kept: the uninstall could not delete it), or
\* it fell into one of the two known gaps (skipped: it appeared while the scan
\* was loading; moved: a directory of this name was moved away while seen).
Explained(n) == Whole(n) => Listed(n) \/ excuse[n] # {}

\* A directory is not loaded more often than it was put in place (and asked for
\* by path): repeated events for it, and those still queued when it is deleted
\* and put back, do not multiply its plugin.
OneLoadPerArrival == \A n \in Names : loads[n] <= arrivals[n] + asked[n]

\* The watcher forgets a deleted directory, so that installing it again loads
\* it: once its channel is drained what it has seen is there, or was moved.
SeenIsOnDisk ==
  WatcherFree /\ events = <<>> =>
    \A n \in seen : OnDisk(n) \/ "moved" \in excuse[n]

\* A plugin is never lost without a reason: when nothing is under way every
\* whole directory is explained.
NothingIsLostSilently == Quiet => \A n \in Names : Explained(n)

\* Every directory that stays is handled in the end, also behind directories
\* that fail to load, and while others are still being written.
EverythingIsHandled == <>[](\A n \in Names : Explained(n))
=============================================================================
