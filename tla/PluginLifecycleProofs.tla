------------------------ MODULE PluginLifecycleProofs ------------------------
(***************************************************************************)
(* What PluginLifecycle guarantees for any plugins and any bounds.  The    *)
(* argument is about the order of the watcher's channel: a directory that  *)
(* is there came after every removal still queued for it, so its creation  *)
(* is queued behind them and will find the name forgotten.  That nothing   *)
(* is loaded twice for one arrival is a count, of the loads done, those    *)
(* under way and the creations that will still find the name unknown.      *)
(***************************************************************************)
EXTENDS PluginLifecycle, FiniteSetTheorems, TLAPS

\* The i-th event in the channel is of this kind and for this name.
Queued(i, kind, n) == i \in 1..Len(events) /\ events[i] = [kind |-> kind, name |-> n]

\* Before the watcher listens it has heard and seen nothing.
OffIsEmpty ==
  /\ watch = "off" => events = <<>>
  /\ watch # "running" => seen = {} /\ settling = NoName /\ load["watcher"] = NoName

\* The watcher is one task: it does not settle one directory and load another.
OneAtATime == settling = NoName \/ load["watcher"] = NoName

\* A removal still queued for a directory that is there is followed by the
\* creation of that directory.
RemovedThenCreatedAt(n) ==
  \A i \in Nat :
    Queued(i, "Remove", n) /\ OnDisk(n) => \E j \in Nat : i < j /\ Queued(j, "Create", n)
RemovedThenCreated == \A n \in Names : RemovedThenCreatedAt(n)

\* What the watcher has seen is there, was moved away, or its removal is queued.
SeenHasReasonAt(n) ==
  n \in seen \cup {settling} =>
    OnDisk(n) \/ "moved" \in excuse[n] \/ \E i \in Nat : Queued(i, "Remove", n)
SeenHasReason == \A n \in Names : SeenHasReasonAt(n)

\* The creation of the directory is queued, and will find the name unknown.
ToBeTaken(n) ==
  \E i \in Nat :
    /\ Queued(i, "Create", n)
    /\ n \notin seen \/ \E j \in Nat : j < i /\ Queued(j, "Remove", n)

\* Someone is at work on the directory.
InHand(n) == n = settling \/ n = load["watcher"] \/ n = load["ipc"] \/ n = deleting

\* Once the watcher runs, no directory is overlooked.
AccountedAt(n) == OnDisk(n) => Listed(n) \/ excuse[n] # {} \/ InHand(n) \/ ToBeTaken(n)
Accounted == watch = "running" => \A n \in Names : AccountedAt(n)

IInv ==
  /\ TypeOK
  /\ OffIsEmpty
  /\ OneAtATime
  /\ RemovedThenCreated
  /\ SeenHasReason
  /\ Accounted

-----------------------------------------------------------------------------
\* The channel

\* An event appended to the channel comes after the others, which stay.
LEMMA AppendKeeps ==
  ASSUME events \in Seq(Event),
         NEW kind \in {"Create", "Remove", "Name"}, NEW name \in Names,
         events' = Append(events, [kind |-> kind, name |-> name])
  PROVE  \E last \in Nat :
           /\ Queued(last, kind, name)'
           /\ \A i \in Nat : \A k, n : Queued(i, k, n) => i < last /\ Queued(i, k, n)'
           /\ \A i \in Nat : \A k, n : Queued(i, k, n)' =>
                Queued(i, k, n) \/ (i = last /\ k = kind /\ n = name)
<1>0. [kind |-> kind, name |-> name] \in Event
  BY DEF Event
<1>1. PICK last \in Nat : last = Len(events) + 1
  OBVIOUS
<1>2. /\ Len(events') = last
      /\ \A i \in 1..Len(events) : events'[i] = events[i]
      /\ events'[last] = [kind |-> kind, name |-> name]
      /\ Len(events) \in Nat
  BY <1>0, <1>1
<1>3. last \in 1..last
  BY <1>1, <1>2
<1>4. \A i \in 1..Len(events) : i \in 1..last /\ i < last
  BY <1>1, <1>2
<1>5. \A i \in 1..last : i \in 1..Len(events) \/ i = last
  BY <1>1, <1>2
<1>6. \A i \in Nat : \A k, n : Queued(i, k, n) => i < last /\ Queued(i, k, n)'
  BY <1>2, <1>4 DEF Queued
<1>7. \A i \in Nat : \A k, n :
        Queued(i, k, n)' => Queued(i, k, n) \/ (i = last /\ k = kind /\ n = name)
  <2> SUFFICES ASSUME NEW i \in Nat, NEW k, NEW n, Queued(i, k, n)'
               PROVE  Queued(i, k, n) \/ (i = last /\ k = kind /\ n = name)
    OBVIOUS
  <2>1. i \in 1..last /\ events'[i] = [kind |-> k, name |-> n]
    BY <1>2 DEF Queued
  <2>2. CASE i \in 1..Len(events)
    BY <1>2, <2>1, <2>2 DEF Queued
  <2>3. CASE i = last
    <3>1. [kind |-> k, name |-> n] = [kind |-> kind, name |-> name]
      BY <1>2, <2>1, <2>3
    <3>2. [kind |-> k, name |-> n].kind = [kind |-> kind, name |-> name].kind
      BY <3>1
    <3>3. [kind |-> k, name |-> n].name = [kind |-> kind, name |-> name].name
      BY <3>1
    <3> QED BY <2>3, <3>2, <3>3
  <2> QED BY <1>5, <2>1, <2>2, <2>3
<1>8. Queued(last, kind, name)'
  BY <1>2, <1>3 DEF Queued
<1> QED BY <1>6, <1>7, <1>8

\* Taking the first event moves the others one place forward.
LEMMA TailShifts ==
  ASSUME events \in Seq(Event), events # <<>>, events' = Tail(events)
  PROVE  /\ \A i \in Nat : \A k, n : Queued(i, k, n)' => i # 0 /\ Queued(i + 1, k, n)
         /\ \A i \in Nat : \A k, n : Queued(i, k, n) =>
              \/ i = 1 /\ Head(events) = [kind |-> k, name |-> n]
              \/ i > 1 /\ i - 1 \in Nat /\ Queued(i - 1, k, n)'
<1>1. /\ Len(events') = Len(events) - 1
      /\ \A i \in 1..Len(events') : events'[i] = events[i + 1]
      /\ Head(events) = events[1]
      /\ Len(events) \in Nat \ {0}
  OBVIOUS
<1> QED BY <1>1 DEF Queued

-----------------------------------------------------------------------------
\* The initial state satisfies the invariant.
LEMMA InitInvariant == Init => IInv
<1> SUFFICES ASSUME Init PROVE IInv
  OBVIOUS
<1>1. TypeOK
  <2>1. DOMAIN registry = {}
    BY DEF Init
  <2>2. events \in Seq(Event)
    BY DEF Init
  <2> QED BY <2>1, <2>2 DEF Init, TypeOK, Loaders, Maybe, OnDisk
<1>2. OffIsEmpty /\ OneAtATime
  BY DEF Init, OffIsEmpty, OneAtATime, Loaders
<1>3. RemovedThenCreated /\ SeenHasReason /\ Accounted
  BY NamesAssumption
  DEF Init, RemovedThenCreated, SeenHasReason, Accounted, RemovedThenCreatedAt,
         SeenHasReasonAt, Queued
<1> QED BY <1>1, <1>2, <1>3 DEF IInv

-----------------------------------------------------------------------------
\* Types

LEMMA NotifyType ==
  ASSUME TypeOK, NEW kind \in {"Create", "Remove", "Name"}, NEW n \in Names, Notify(kind, n)
  PROVE  events' \in Seq(Event)
<1>1. [kind |-> kind, name |-> n] \in Event
  BY DEF Event
<1>2. events \in Seq(Event)
  BY DEF TypeOK
<1> QED BY <1>1, <1>2 DEF Notify

LEMMA AppearType ==
  ASSUME TypeOK, NEW n \in Names, NEW content \in {"partial", "copied"}, Appear(n, content)
  PROVE  /\ disk' \in [Names -> {"absent", "partial", "copied", "installed"}]
         /\ arrivals' \in [Names -> Nat]
         /\ events' \in Seq(Event)
         /\ excuse' \in [Names -> SUBSET Excuses]
<1>1. events' \in Seq(Event)
  BY NotifyType DEF Appear
<1>2. /\ disk' \in [Names -> {"absent", "partial", "copied", "installed"}]
      /\ arrivals' \in [Names -> Nat]
  BY DEF TypeOK, Appear
<1>3. excuse' \in [Names -> SUBSET Excuses]
  BY DEF TypeOK, Appear
<1> QED BY <1>1, <1>2, <1>3

LEMMA RefuseType ==
  ASSUME TypeOK, NEW n \in Names, NEW l \in Loaders, Refuse(n) \/ ReadManifest(l, n)
  PROVE  load' \in [Loaders -> Maybe] /\ excuse' \in [Names -> SUBSET Excuses]
<1>1. CASE Refuse(n)
  BY <1>1 DEF TypeOK, Refuse, Excuses
<1>2. CASE ReadManifest(l, n)
  BY <1>2 DEF TypeOK, ReadManifest, Maybe
<1> QED BY <1>1, <1>2

\* A load adds one identifier to the registry.
LEMMA SpliceType ==
  ASSUME TypeOK, NEW l \in Loaders, Splice(l)
  PROVE  /\ DOMAIN registry' \in SUBSET Ids
         /\ registry' \in [DOMAIN registry' -> BOOLEAN]
         /\ loads' \in [Names -> Nat]
         /\ load' \in [Loaders -> Maybe]
<1>1. load[l] \in Names
  BY DEF TypeOK, Splice, Maybe
<1>2. loads[load[l]] + 1 \in Nat \ {0}
  BY <1>1 DEF TypeOK
<1>3. <<load[l], loads[load[l]] + 1>> \in Ids
  BY <1>1, <1>2 DEF Ids
<1>4. DOMAIN registry' = DOMAIN registry \cup {<<load[l], loads[load[l]] + 1>>}
  BY DEF Splice
<1>5. DOMAIN registry' \in SUBSET Ids
  BY <1>3, <1>4 DEF Splice, TypeOK
<1>6. registry' \in [DOMAIN registry' -> BOOLEAN]
  BY DEF Splice, TypeOK
<1>7. loads' \in [Names -> Nat]
  BY <1>1, <1>2 DEF Splice, TypeOK
<1>8. load' \in [Loaders -> Maybe]
  BY DEF Splice, TypeOK, Maybe
<1> QED BY <1>5, <1>6, <1>7, <1>8

\* Every action keeps the types.
LEMMA TypeStep == TypeOK /\ [Next]_vars => TypeOK'
<1> SUFFICES ASSUME TypeOK, [Next]_vars PROVE TypeOK'
  OBVIOUS
<1> USE DEF diskVars, watchVars, engineVars
<1>1. ASSUME NEW n \in Names, ScanNext(n) PROVE TypeOK'
  <2>1. load' \in [Loaders -> Maybe] /\ excuse' \in [Names -> SUBSET Excuses]
    BY <1>1, RefuseType, "scan" \in Loaders DEF ScanNext, Loaders
  <2> QED BY <1>1, <2>1 DEF TypeOK, ScanNext
<1>2. ASSUME NEW l \in Loaders, Splice(l) PROVE TypeOK'
  BY <1>2, SpliceType DEF TypeOK, Splice
<1>3. CASE StartWatcher
  BY <1>3 DEF TypeOK, StartWatcher
<1>4. CASE CollectSeen
  BY <1>4 DEF TypeOK, CollectSeen, Excuses
<1>5. CASE TakeRemove
  <2>1. Head(events) \in Event /\ events' \in Seq(Event)
    BY <1>5 DEF TypeOK, TakeRemove
  <2>2. excuse' \in [Names -> SUBSET Excuses]
    BY <1>5 DEF TypeOK, TakeRemove
  <2>3. seen' \in SUBSET Names
    BY <1>5 DEF TypeOK, TakeRemove
  <2> QED BY <1>5, <2>1, <2>2, <2>3 DEF TypeOK, TakeRemove
<1>6. CASE TakeCreate
  <2>1. Head(events) \in Event /\ events' \in Seq(Event)
    BY <1>6 DEF TypeOK, TakeCreate
  <2>2. Head(events).name \in Names
    BY <2>1 DEF Event
  <2>3. settling' \in Maybe
    BY <1>6, <2>2 DEF TakeCreate, Maybe
  <2> QED BY <1>6, <2>1, <2>3 DEF TypeOK, TakeCreate
<1>7. CASE Settled
  <2>1. settling \in Names /\ "watcher" \in Loaders
    BY <1>7 DEF TypeOK, Settled, Maybe, Loaders
  <2>2. load' \in [Loaders -> Maybe] /\ excuse' \in [Names -> SUBSET Excuses]
    BY <1>7, <2>1, RefuseType DEF Settled
  <2> QED BY <1>7, <2>1, <2>2 DEF TypeOK, Settled, Maybe
<1>8. CASE DeleteDir
  <2>1. deleting \in Names
    BY <1>8 DEF TypeOK, DeleteDir, Maybe
  <2>2. CASE UNCHANGED <<disk, events, excuse>>
    BY <1>8, <2>2 DEF TypeOK, DeleteDir, Maybe
  <2>3. CASE Vanish(deleting) /\ UNCHANGED excuse
    <3>1. events' \in Seq(Event)
      BY <2>1, <2>3, NotifyType DEF Vanish
    <3> QED BY <1>8, <2>3, <3>1 DEF TypeOK, DeleteDir, Vanish, Maybe
  <2>4. CASE /\ \E content \in {disk[deleting], "partial"} :
                  disk' = [disk EXCEPT ![deleting] = content]
             /\ excuse' = [excuse EXCEPT ![deleting] = @ \cup {"kept"}]
             /\ UNCHANGED events
    <3>1. disk' \in [Names -> {"absent", "partial", "copied", "installed"}]
      BY <2>1, <2>4 DEF TypeOK
    <3>2. excuse' \in [Names -> SUBSET Excuses]
      BY <2>1, <2>4 DEF TypeOK, Excuses
    <3> QED BY <1>8, <2>4, <3>1, <3>2 DEF TypeOK, DeleteDir, Maybe
  <2> QED BY <1>8, <2>2, <2>3, <2>4 DEF DeleteDir
<1>9. ASSUME NEW id \in DOMAIN registry, Unload(id) PROVE TypeOK'
  <2>1. id \in Ids /\ id[1] \in Maybe
    BY DEF TypeOK, Ids, Maybe
  <2>2. /\ DOMAIN registry' \in SUBSET Ids
        /\ registry' \in [DOMAIN registry' -> BOOLEAN]
    BY <1>9 DEF TypeOK, Unload
  <2> QED BY <1>9, <2>1, <2>2 DEF TypeOK, Unload
<1>10. ASSUME NEW id \in DOMAIN registry, NEW on \in BOOLEAN, SetEnabled(id, on) PROVE TypeOK'
  BY <1>10 DEF TypeOK, SetEnabled
<1>11. ASSUME NEW n \in Names, LoadByPath(n) PROVE TypeOK'
  <2>1. load' \in [Loaders -> Maybe] /\ excuse' \in [Names -> SUBSET Excuses]
    BY <1>11, RefuseType, "ipc" \in Loaders DEF LoadByPath, Loaders
  <2>2. asked' \in [Names -> Nat] /\ requests' \in Nat
    BY <1>11 DEF TypeOK, LoadByPath
  <2> QED BY <1>11, <2>1, <2>2 DEF TypeOK, LoadByPath
<1>12. ASSUME NEW n \in Names, UserLinks(n) PROVE TypeOK'
  <2>1. Appear(n, "copied")
    BY <1>12 DEF UserLinks
  <2> QED BY <1>12, <2>1, AppearType DEF TypeOK, UserLinks
<1>13. ASSUME NEW n \in Names, UserCopies(n) PROVE TypeOK'
  <2>1. Appear(n, "partial")
    BY <1>13 DEF UserCopies
  <2> QED BY <1>13, <2>1, AppearType DEF TypeOK, UserCopies
<1>14. ASSUME NEW n \in Names, UserDeletes(n) PROVE TypeOK'
  <2>1. events' \in Seq(Event)
    BY <1>14, NotifyType DEF UserDeletes, Vanish
  <2> QED BY <1>14, <2>1 DEF TypeOK, UserDeletes, Vanish
<1>15. ASSUME NEW n \in Names, UserMovesAway(n) PROVE TypeOK'
  <2>1. events' \in Seq(Event)
    BY <1>15, NotifyType DEF UserMovesAway
  <2>2. excuse' \in [Names -> SUBSET Excuses]
    BY <1>15 DEF TypeOK, UserMovesAway, Excuses
  <2> QED BY <1>15, <2>1, <2>2 DEF TypeOK, UserMovesAway
<1>16. ASSUME NEW n \in Names, BeginExtract(n) PROVE TypeOK'
  <2>1. CASE Appear(n, "partial") /\ UNCHANGED requests
    BY <1>16, <2>1, AppearType DEF TypeOK, BeginExtract
  <2>2. CASE disk' = [disk EXCEPT ![n] = "partial"] /\ requests' = requests + 1
             /\ UNCHANGED <<arrivals, excuse, events>>
    BY <1>16, <2>2 DEF TypeOK, BeginExtract
  <2> QED BY <1>16, <2>1, <2>2 DEF BeginExtract
<1>17. ASSUME NEW n \in Names, FinishWrite(n) PROVE TypeOK'
  <2>1. CASE Appear(n, "partial")
    BY <1>17, <2>1, AppearType DEF TypeOK, FinishWrite
  <2>2. CASE disk' = [disk EXCEPT ![n] = IF writer[n] = "install" THEN "installed" ELSE "copied"]
             /\ UNCHANGED <<arrivals, excuse, events>>
    BY <1>17, <2>2 DEF TypeOK, FinishWrite
  <2> QED BY <1>17, <2>1, <2>2 DEF FinishWrite
<1>18. ASSUME NEW n \in Names, AbortWrite(n) PROVE TypeOK'
  BY <1>18 DEF TypeOK, AbortWrite
<1>19. CASE UNCHANGED vars
  BY <1>19 DEF TypeOK, vars
<1> QED
  BY <1>1, <1>2, <1>3, <1>4, <1>5, <1>6, <1>7, <1>8, <1>9, <1>10, <1>11, <1>12, <1>13, <1>14,
     <1>15, <1>16, <1>17, <1>18, <1>19
  DEF Next, Scan, Watcher, Handler, Request, User, Writer, Loaders

-----------------------------------------------------------------------------
\* The watcher's own state

LEMMA WatcherStep ==
  TypeOK /\ OffIsEmpty /\ OneAtATime /\ [Next]_vars => OffIsEmpty' /\ OneAtATime'
<1> SUFFICES ASSUME TypeOK, OffIsEmpty, OneAtATime, [Next]_vars
             PROVE  OffIsEmpty' /\ OneAtATime'
  OBVIOUS
<1> USE DEF diskVars, watchVars, engineVars
\* Most actions leave the watcher alone; an event is heard only while it listens.
<1> DEFINE Apart == /\ UNCHANGED <<watch, seen, settling>>
                    /\ load'["watcher"] = load["watcher"]
                    /\ watch = "off" => events' = events
<1>1. ASSUME Apart PROVE OffIsEmpty' /\ OneAtATime'
  BY <1>1 DEF OffIsEmpty, OneAtATime
<1>2. /\ load \in [Loaders -> Maybe]
      /\ Loaders = {"scan", "watcher", "ipc"}
  BY DEF TypeOK, Loaders
<1>3. CASE Scan
  <2>1. ASSUME NEW n \in Names, ScanNext(n) PROVE Apart
    BY <1>2, <2>1 DEF ScanNext, Refuse, ReadManifest
  <2>2. ASSUME Splice("scan") PROVE Apart
    BY <1>2, <2>2 DEF Splice
  <2>3. CASE StartWatcher
    BY <2>3 DEF StartWatcher, OffIsEmpty, OneAtATime
  <2> QED BY <1>1, <1>3, <2>1, <2>2, <2>3 DEF Scan
<1>4. CASE Watcher
  <2>1. CASE CollectSeen
    BY <2>1 DEF CollectSeen, OffIsEmpty, OneAtATime
  <2>2. CASE TakeRemove
    BY <2>2 DEF TakeRemove, WatcherFree, OffIsEmpty, OneAtATime
  <2>3. CASE TakeCreate
    BY <2>3 DEF TakeCreate, WatcherFree, OffIsEmpty, OneAtATime
  <2>4. CASE Settled
    <3>1. watch = "running" /\ watch' = "running" /\ settling' = NoName
      BY <2>4 DEF Settled, OffIsEmpty
    <3> QED BY <3>1 DEF OffIsEmpty, OneAtATime
  <2>5. CASE Splice("watcher")
    <3>1. load["watcher"] # NoName /\ load'["watcher"] = NoName
      BY <1>2, <2>5 DEF Splice
    <3> QED BY <2>5, <3>1 DEF Splice, OffIsEmpty, OneAtATime
  <2> QED BY <1>4, <2>1, <2>2, <2>3, <2>4, <2>5 DEF Watcher
<1>5. ASSUME Handler PROVE Apart
  <2>1. CASE DeleteDir
    BY <2>1 DEF DeleteDir, Vanish, Notify
  <2>2. CASE Splice("ipc")
    BY <1>2, <2>2 DEF Splice
  <2> QED BY <1>5, <2>1, <2>2 DEF Handler
<1>6. ASSUME Request PROVE Apart
  <2>1. ASSUME NEW id \in DOMAIN registry, Unload(id) PROVE Apart
    BY <2>1 DEF Unload
  <2>2. ASSUME NEW id \in DOMAIN registry, NEW on \in BOOLEAN, SetEnabled(id, on) PROVE Apart
    BY <2>2 DEF SetEnabled
  <2>3. ASSUME NEW n \in Names, LoadByPath(n) PROVE Apart
    BY <1>2, <2>3 DEF LoadByPath, Refuse, ReadManifest
  <2> QED BY <1>6, <2>1, <2>2, <2>3 DEF Request
<1>7. ASSUME NEW n \in Names, User(n) PROVE Apart
  BY <1>7 DEF User, UserLinks, UserCopies, UserDeletes, UserMovesAway, Appear, Vanish, Notify
<1>8. ASSUME NEW n \in Names, Writer(n) PROVE Apart
  BY <1>8 DEF Writer, BeginExtract, FinishWrite, AbortWrite, Appear, Notify
<1>9. ASSUME UNCHANGED vars PROVE Apart
  BY <1>9 DEF vars
<1> QED BY <1>1, <1>3, <1>4, <1>5, <1>6, <1>7, <1>8, <1>9 DEF Next

-----------------------------------------------------------------------------
\* The channel argument

\* ChannelInv: what the argument is about.
ChannelInv == RemovedThenCreated /\ SeenHasReason /\ Accounted

\* While no event arrives or is taken and no directory comes or goes, only
\* Accounted needs a look.
LEMMA ChannelFrame ==
  ASSUME RemovedThenCreated, SeenHasReason, UNCHANGED <<events, seen, settling>>,
         \A n \in Names : OnDisk(n)' = OnDisk(n) /\ excuse[n] \subseteq excuse'[n]
  PROVE  /\ RemovedThenCreated' /\ SeenHasReason'
         /\ \A n \in Names : ToBeTaken(n) => ToBeTaken(n)'
<1>1. \A i \in Nat : \A k, n : Queued(i, k, n)' <=> Queued(i, k, n)
  BY DEF Queued
<1>2. RemovedThenCreated'
  BY <1>1 DEF RemovedThenCreated, RemovedThenCreatedAt
<1>3. SeenHasReason'
  BY <1>1 DEF SeenHasReason, SeenHasReasonAt
<1>4. \A n \in Names : ToBeTaken(n) => ToBeTaken(n)'
  BY <1>1 DEF ToBeTaken
<1> QED BY <1>2, <1>3, <1>4

\* An event for one name leaves what holds of the other names.
LEMMA ChannelOthers ==
  ASSUME TypeOK, OffIsEmpty, RemovedThenCreated, SeenHasReason,
         NEW kind \in {"Create", "Remove", "Name"}, NEW name \in Names, Notify(kind, name),
         UNCHANGED <<watch, seen, settling>>,
         NEW n \in Names, n # name, OnDisk(n)' = OnDisk(n), excuse[n] \subseteq excuse'[n]
  PROVE  RemovedThenCreatedAt(n)' /\ SeenHasReasonAt(n)' /\ (ToBeTaken(n) => ToBeTaken(n)')
<1>1. CASE watch = "off"
  <2>1. \A i \in Nat : \A k, m : Queued(i, k, m)' <=> Queued(i, k, m)
    BY <1>1 DEF Queued, Notify
  <2> QED BY <2>1 DEF RemovedThenCreated, RemovedThenCreatedAt, SeenHasReason, SeenHasReasonAt,
                      ToBeTaken
<1>2. CASE watch # "off"
  <2>1. \A i \in Nat : \A k : Queued(i, k, n)' <=> Queued(i, k, n)
    BY <1>2, AppendKeeps DEF Notify, TypeOK
  <2> QED BY <2>1 DEF RemovedThenCreated, RemovedThenCreatedAt, SeenHasReason, SeenHasReasonAt,
                      ToBeTaken
<1> QED BY <1>1, <1>2

\* A directory appears: its creation is now the last event, behind any removal
\* of it still queued.
LEMMA AppearStep ==
  ASSUME TypeOK, OffIsEmpty, ChannelInv, NEW name \in Names,
         NEW content \in {"partial", "copied"}, Appear(name, content),
         UNCHANGED <<watch, seen, settling, load, registry, deleting>>
  PROVE  ChannelInv'
<1>1. ASSUME NEW n \in Names, n # name
      PROVE  RemovedThenCreatedAt(n)' /\ SeenHasReasonAt(n)' /\ (ToBeTaken(n) => ToBeTaken(n)')
             /\ OnDisk(n)' = OnDisk(n) /\ excuse'[n] = excuse[n]
  <2>1. OnDisk(n)' = OnDisk(n) /\ excuse'[n] = excuse[n]
    BY <1>1 DEF Appear, OnDisk, TypeOK
  <2>2. Notify("Create", name)
    BY DEF Appear
  <2> QED BY <1>1, <2>1, <2>2, ChannelOthers DEF ChannelInv
<1>2. OnDisk(name)' /\ ~OnDisk(name) /\ ("moved" \in excuse[name] => "moved" \in excuse'[name])
  BY DEF Appear, OnDisk, TypeOK
<1>3. CASE watch = "off"
  <2>1. \A i \in Nat : \A k, n : ~Queued(i, k, n)'
    BY <1>3 DEF OffIsEmpty, Appear, Notify, Queued
  <2>2. RemovedThenCreatedAt(name)' /\ SeenHasReasonAt(name)'
    BY <1>2, <2>1 DEF RemovedThenCreatedAt, SeenHasReasonAt
  <2> QED BY <1>1, <1>3, <2>2 DEF ChannelInv, RemovedThenCreated, SeenHasReason, Accounted
<1>4. CASE watch # "off"
  <2>1. PICK last \in Nat :
          /\ Queued(last, "Create", name)'
          /\ \A i \in Nat : \A k, n : Queued(i, k, n) => i < last /\ Queued(i, k, n)'
          /\ \A i \in Nat : \A k, n : Queued(i, k, n)' =>
               Queued(i, k, n) \/ (i = last /\ k = "Create" /\ n = name)
    BY <1>4, AppendKeeps DEF Appear, Notify, TypeOK
  <2>2. \A i \in Nat : Queued(i, "Remove", name)' => i < last
    BY <2>1
  <2>3. RemovedThenCreatedAt(name)'
    BY <2>1, <2>2 DEF RemovedThenCreatedAt
  <2>4. SeenHasReasonAt(name)'
    BY <1>2 DEF SeenHasReasonAt
  <2>5. excuse'[name] # {} \/ ToBeTaken(name)'
    <3>1. CASE name \notin seen
      BY <2>1, <3>1 DEF ToBeTaken
    <3>2. CASE "moved" \in excuse[name]
      BY <1>2, <3>2
    <3>3. CASE \E i \in Nat : Queued(i, "Remove", name)
      BY <2>1, <3>3 DEF ToBeTaken
    <3> QED BY <1>2, <3>1, <3>2, <3>3 DEF ChannelInv, SeenHasReason, SeenHasReasonAt
  <2>6. RemovedThenCreated' /\ SeenHasReason'
    BY <1>1, <2>3, <2>4 DEF RemovedThenCreated, SeenHasReason
  <2>7. Accounted'
    BY <1>1, <2>5 DEF ChannelInv, Accounted, AccountedAt, Listed, InHand
  <2> QED BY <2>6, <2>7 DEF ChannelInv
<1> QED BY <1>3, <1>4

\* A directory goes, as a removal or, marked as such, as a rename.
LEMMA GoneStep ==
  ASSUME TypeOK, OffIsEmpty, ChannelInv, NEW name \in Names,
         NEW kind \in {"Remove", "Name"}, Notify(kind, name), ~OnDisk(name)',
         kind = "Name" /\ name \in seen \cup {settling} => "moved" \in excuse'[name],
         \A n \in Names : n # name => OnDisk(n)' = OnDisk(n),
         \A n \in Names : excuse[n] \subseteq excuse'[n],
         UNCHANGED <<watch, seen, settling, load, registry>>,
         \A n \in Names : n # name => (n = deleting => n = deleting')
  PROVE  ChannelInv'
<1>1. ASSUME NEW n \in Names, n # name
      PROVE  RemovedThenCreatedAt(n)' /\ SeenHasReasonAt(n)' /\ (ToBeTaken(n) => ToBeTaken(n)')
  BY <1>1, ChannelOthers DEF ChannelInv
<1>2. RemovedThenCreatedAt(name)'
  BY DEF RemovedThenCreatedAt
<1>3. SeenHasReasonAt(name)'
  <2>1. CASE kind = "Name"
    BY <2>1 DEF SeenHasReasonAt
  <2>2. CASE kind = "Remove" /\ watch # "off"
    <3>1. \E i \in Nat : Queued(i, "Remove", name)'
      BY <2>2, AppendKeeps DEF Notify, TypeOK
    <3> QED BY <3>1 DEF SeenHasReasonAt
  <2>3. CASE watch = "off"
    BY <2>3, NamesAssumption DEF OffIsEmpty, SeenHasReasonAt
  <2> QED BY <2>1, <2>2, <2>3
<1>4. Accounted'
  BY <1>1 DEF ChannelInv, Accounted, AccountedAt, Listed, InHand
<1> QED BY <1>1, <1>2, <1>3, <1>4 DEF ChannelInv, RemovedThenCreated, SeenHasReason

\* The channel, what was seen and the directories stay, and who had its plugin
\* or was in hand still is, or got a reason.
LEMMA FrameStep ==
  ASSUME ChannelInv, UNCHANGED <<events, seen, settling>>,
         watch' = "running" => watch = "running",
         \A n \in Names : OnDisk(n)' = OnDisk(n) /\ excuse[n] \subseteq excuse'[n],
         \A n \in Names : OnDisk(n) /\ (Listed(n) \/ InHand(n)) =>
                            Listed(n)' \/ InHand(n)' \/ excuse'[n] # {}
  PROVE  ChannelInv'
<1>1. /\ RemovedThenCreated' /\ SeenHasReason'
      /\ \A n \in Names : ToBeTaken(n) => ToBeTaken(n)'
  BY ChannelFrame DEF ChannelInv
<1>2. Accounted'
  BY <1>1 DEF ChannelInv, Accounted, AccountedAt
<1> QED BY <1>1, <1>2 DEF ChannelInv

\* The watcher takes a removal: the name is forgotten, so that a creation of it
\* queued behind will be taken.
LEMMA TakeRemoveStep == ASSUME TypeOK, ChannelInv, TakeRemove PROVE ChannelInv'
<1>1. PICK name \in Names : Head(events) = [kind |-> "Remove", name |-> name]
  <2>1. Head(events) \in Event /\ Head(events).kind = "Remove"
    BY DEF TypeOK, TakeRemove
  <2> QED BY <2>1 DEF Event
<1>2. /\ Head(events).name = name /\ Head(events).kind = "Remove"
      /\ seen' = seen \ {name}
      /\ \A n \in Names : n # name => excuse'[n] = excuse[n]
      /\ UNCHANGED <<disk, watch, settling, load, registry, deleting>>
      /\ settling = NoName
  <2>1. Head(events).name = name /\ Head(events).kind = "Remove"
    BY <1>1
  <2> QED BY <2>1 DEF TakeRemove, WatcherFree, diskVars, engineVars, TypeOK
<1>3. /\ \A i \in Nat : \A k, n : Queued(i, k, n)' => i # 0 /\ Queued(i + 1, k, n)
      /\ \A i \in Nat : \A k, n : Queued(i, k, n) =>
           \/ i = 1 /\ Head(events) = [kind |-> k, name |-> n]
           \/ i > 1 /\ i - 1 \in Nat /\ Queued(i - 1, k, n)'
  BY TailShifts DEF TakeRemove, TypeOK
<1>4. \A i \in Nat : \A n : Queued(i, "Create", n) => i > 1 /\ i - 1 \in Nat /\ Queued(i - 1, "Create", n)'
  <2> SUFFICES ASSUME NEW i \in Nat, NEW n, Queued(i, "Create", n),
                      Head(events) = [kind |-> "Create", name |-> n]
               PROVE  FALSE
    BY <1>3
  <2> QED BY <1>2
<1>5. \A i \in Nat : \A n : Queued(i, "Remove", n) =>
        n = name \/ (i > 1 /\ i - 1 \in Nat /\ Queued(i - 1, "Remove", n)')
  <2> SUFFICES ASSUME NEW i \in Nat, NEW n, Queued(i, "Remove", n),
                      Head(events) = [kind |-> "Remove", name |-> n]
               PROVE  n = name
    BY <1>3
  <2> QED BY <1>2
<1>6. ASSUME NEW n \in Names PROVE RemovedThenCreatedAt(n)'
  <2> SUFFICES ASSUME NEW i \in Nat, Queued(i, "Remove", n)', OnDisk(n)'
               PROVE  \E j \in Nat : i < j /\ Queued(j, "Create", n)'
    BY DEF RemovedThenCreatedAt
  <2>1. i + 1 \in Nat /\ Queued(i + 1, "Remove", n) /\ OnDisk(n)
    BY <1>2, <1>3 DEF OnDisk
  <2>2. PICK j \in Nat : i + 1 < j /\ Queued(j, "Create", n)
    BY <2>1 DEF ChannelInv, RemovedThenCreated, RemovedThenCreatedAt
  <2>3. j - 1 \in Nat /\ Queued(j - 1, "Create", n)'
    BY <1>4, <2>2
  <2> QED BY <2>2, <2>3
<1>7. ASSUME NEW n \in Names PROVE SeenHasReasonAt(n)'
  <2> SUFFICES ASSUME n \in seen', n # name PROVE SeenHasReasonAt(n)'
    BY <1>2, NamesAssumption DEF SeenHasReasonAt
  <2>1. \/ OnDisk(n) \/ "moved" \in excuse[n]
        \/ \E i \in Nat : Queued(i, "Remove", n)
    BY <1>2 DEF ChannelInv, SeenHasReason, SeenHasReasonAt
  <2>2. ASSUME NEW i \in Nat, Queued(i, "Remove", n)
        PROVE  \E j \in Nat : Queued(j, "Remove", n)'
    BY <1>5, <2>2
  <2> QED BY <1>2, <2>1, <2>2 DEF SeenHasReasonAt, OnDisk
<1>8. ASSUME NEW n \in Names, ToBeTaken(n) PROVE ToBeTaken(n)'
  <2>1. PICK i \in Nat : /\ Queued(i, "Create", n)
                         /\ n \notin seen \/ \E j \in Nat : j < i /\ Queued(j, "Remove", n)
    BY <1>8 DEF ToBeTaken
  <2>2. i - 1 \in Nat /\ Queued(i - 1, "Create", n)'
    BY <1>4, <2>1
  <2>3. CASE n \notin seen'
    BY <2>2, <2>3 DEF ToBeTaken
  <2>4. CASE n \in seen'
    <3>1. PICK j \in Nat : j < i /\ Queued(j, "Remove", n)
      BY <1>2, <2>1, <2>4
    <3>2. j - 1 \in Nat /\ Queued(j - 1, "Remove", n)' /\ j - 1 < i - 1
      BY <1>2, <1>5, <2>4, <3>1
    <3> QED BY <2>2, <3>2 DEF ToBeTaken
  <2> QED BY <2>3, <2>4
<1>9. OnDisk(name) => ToBeTaken(name)'
  <2> SUFFICES ASSUME OnDisk(name) PROVE ToBeTaken(name)'
    OBVIOUS
  <2>1. events \in Seq(Event) /\ events # <<>>
    BY DEF TakeRemove, TypeOK
  <2>2. 1 \in 1..Len(events) /\ Head(events) = events[1]
    BY <2>1
  <2>3. 1 \in Nat /\ Queued(1, "Remove", name)
    BY <2>2, <1>1 DEF Queued
  <2>4. PICK j \in Nat : 1 < j /\ Queued(j, "Create", name)
    BY <2>3 DEF ChannelInv, RemovedThenCreated, RemovedThenCreatedAt
  <2>5. j - 1 \in Nat /\ Queued(j - 1, "Create", name)'
    BY <1>4, <2>4
  <2> QED BY <1>2, <2>5 DEF ToBeTaken
<1>10. Accounted'
  <2> SUFFICES ASSUME watch' = "running", NEW n \in Names, OnDisk(n)' PROVE AccountedAt(n)'
    BY DEF Accounted, AccountedAt
  <2>1. CASE n = name
    BY <1>2, <1>9, <2>1 DEF OnDisk, AccountedAt
  <2>2. CASE n # name
    BY <1>2, <1>8, <2>2 DEF ChannelInv, Accounted, AccountedAt, OnDisk, Listed, InHand
  <2> QED BY <2>1, <2>2
<1> QED BY <1>6, <1>7, <1>10 DEF ChannelInv, RemovedThenCreated, SeenHasReason

\* The watcher takes a creation or a rename: a directory it is to load, it
\* settles.
LEMMA TakeCreateStep == ASSUME TypeOK, ChannelInv, TakeCreate PROVE ChannelInv'
<1>1. PICK kind \in {"Create", "Name"}, name \in Names :
        Head(events) = [kind |-> kind, name |-> name]
  <2>1. Head(events) \in Event /\ Head(events).kind # "Remove"
    BY DEF TypeOK, TakeCreate
  <2> QED BY <2>1 DEF Event
<1>2. /\ Head(events).name = name /\ Head(events).kind # "Remove"
      /\ settling' = IF Fresh(name) THEN name ELSE NoName
      /\ UNCHANGED <<disk, watch, seen, load, registry, deleting, excuse>>
      /\ settling = NoName
  <2>1. Head(events).name = name /\ Head(events).kind # "Remove"
    BY <1>1
  <2> QED BY <2>1 DEF TakeCreate, WatcherFree, diskVars, engineVars
<1>3. /\ \A i \in Nat : \A k, n : Queued(i, k, n)' => i # 0 /\ Queued(i + 1, k, n)
      /\ \A i \in Nat : \A k, n : Queued(i, k, n) =>
           \/ i = 1 /\ Head(events) = [kind |-> k, name |-> n]
           \/ i > 1 /\ i - 1 \in Nat /\ Queued(i - 1, k, n)'
  BY TailShifts DEF TakeCreate, TypeOK
<1>4. \A i \in Nat : \A n : Queued(i, "Remove", n) => i > 1 /\ i - 1 \in Nat /\ Queued(i - 1, "Remove", n)'
  <2> SUFFICES ASSUME NEW i \in Nat, NEW n, Queued(i, "Remove", n),
                      Head(events) = [kind |-> "Remove", name |-> n]
               PROVE  FALSE
    BY <1>3
  <2> QED BY <1>2
<1>5. ASSUME NEW n \in Names PROVE RemovedThenCreatedAt(n)'
  <2> SUFFICES ASSUME NEW i \in Nat, Queued(i, "Remove", n)', OnDisk(n)'
               PROVE  \E j \in Nat : i < j /\ Queued(j, "Create", n)'
    BY DEF RemovedThenCreatedAt
  <2>1. i + 1 \in Nat /\ Queued(i + 1, "Remove", n) /\ OnDisk(n)
    BY <1>2, <1>3 DEF OnDisk
  <2>2. PICK j \in Nat : i + 1 < j /\ Queued(j, "Create", n)
    BY <2>1 DEF ChannelInv, RemovedThenCreated, RemovedThenCreatedAt
  <2>3. j # 1
    BY <2>2
  <2>4. j - 1 \in Nat /\ Queued(j - 1, "Create", n)'
    BY <1>3, <2>2, <2>3
  <2> QED BY <2>2, <2>4
<1>6. ASSUME NEW n \in Names PROVE SeenHasReasonAt(n)'
  <2>1. CASE n \in seen
    <3>1. \/ OnDisk(n) \/ "moved" \in excuse[n]
          \/ \E i \in Nat : Queued(i, "Remove", n)
      BY <2>1 DEF ChannelInv, SeenHasReason, SeenHasReasonAt
    <3>2. ASSUME NEW i \in Nat, Queued(i, "Remove", n)
          PROVE  \E j \in Nat : Queued(j, "Remove", n)'
      BY <1>4, <3>2
    <3> QED BY <1>2, <3>1, <3>2 DEF SeenHasReasonAt, OnDisk
  <2>2. CASE n \notin seen
    BY <1>2, <2>2, NamesAssumption DEF SeenHasReasonAt, Fresh, OnDisk
  <2> QED BY <2>1, <2>2
<1>7. ASSUME NEW n \in Names, OnDisk(n), ToBeTaken(n) PROVE ToBeTaken(n)' \/ n = settling'
  <2>1. PICK i \in Nat : /\ Queued(i, "Create", n)
                         /\ n \notin seen \/ \E j \in Nat : j < i /\ Queued(j, "Remove", n)
    BY <1>7 DEF ToBeTaken
  <2>2. CASE i = 1
    <3>1. \A j \in Nat : j < i => ~Queued(j, "Remove", n)
      BY <1>4, <2>2
    <3>2. n \notin seen
      BY <2>1, <3>1
    <3>3. n = Head(events).name
      BY <1>3, <2>1, <2>2
    <3> QED BY <1>2, <1>7, <3>2, <3>3 DEF Fresh
  <2>3. CASE i # 1
    <3>1. i - 1 \in Nat /\ Queued(i - 1, "Create", n)'
      BY <1>3, <2>1, <2>3
    <3>2. CASE n \notin seen
      BY <1>2, <3>1, <3>2 DEF ToBeTaken
    <3>3. ASSUME NEW j \in Nat, j < i, Queued(j, "Remove", n) PROVE ToBeTaken(n)'
      <4>1. j - 1 \in Nat /\ Queued(j - 1, "Remove", n)' /\ j - 1 < i - 1
        BY <1>4, <3>3
      <4> QED BY <3>1, <4>1 DEF ToBeTaken
    <3> QED BY <2>1, <3>2, <3>3
  <2> QED BY <2>2, <2>3
<1>8. Accounted'
  <2> SUFFICES ASSUME watch' = "running", NEW n \in Names, OnDisk(n)' PROVE AccountedAt(n)'
    BY DEF Accounted, AccountedAt
  <2>1. OnDisk(n) /\ AccountedAt(n) /\ n # settling
    BY <1>2, NamesAssumption DEF ChannelInv, Accounted, OnDisk
  <2>2. CASE ToBeTaken(n)
    BY <1>7, <2>1, <2>2 DEF AccountedAt, InHand
  <2>3. CASE Listed(n) \/ excuse[n] # {} \/ InHand(n)
    BY <1>2, <2>1, <2>3 DEF AccountedAt, Listed, InHand
  <2> QED BY <2>1, <2>2, <2>3 DEF AccountedAt
<1> QED BY <1>5, <1>6, <1>8 DEF ChannelInv, RemovedThenCreated, SeenHasReason

\* The settled directory is seen, and in hand or refused.
LEMMA SettledStep == ASSUME TypeOK, OneAtATime, ChannelInv, Settled PROVE ChannelInv'
<1>1. /\ settling \in Names /\ settling' = NoName /\ seen' = seen \cup {settling}
      /\ load["watcher"] = NoName
      /\ UNCHANGED <<disk, watch, events, registry, deleting>>
  BY DEF Settled, TypeOK, OneAtATime, Maybe, diskVars
<1>2. /\ \A n \in Names : excuse[n] \subseteq excuse'[n]
      /\ load'["ipc"] = load["ipc"]
      /\ settling = load'["watcher"] \/ excuse'[settling] # {}
  <2>1. CASE Refuse(settling)
    BY <1>1, <2>1 DEF Refuse, TypeOK
  <2>2. CASE ReadManifest("watcher", settling)
    BY <1>1, <2>2 DEF ReadManifest, TypeOK, Loaders
  <2> QED BY <2>1, <2>2 DEF Settled
<1>3. \A i \in Nat : \A k, n : Queued(i, k, n)' <=> Queued(i, k, n)
  BY <1>1 DEF Queued
<1>4. RemovedThenCreated'
  BY <1>1, <1>3 DEF ChannelInv, RemovedThenCreated, RemovedThenCreatedAt, OnDisk
<1>5. ASSUME NEW n \in Names PROVE SeenHasReasonAt(n)'
  <2> SUFFICES ASSUME n \in seen' \cup {settling'} PROVE SeenHasReasonAt(n)'
    BY DEF SeenHasReasonAt
  <2>1. n \in seen \cup {settling}
    BY <1>1, NamesAssumption
  <2> QED BY <1>1, <1>2, <1>3, <2>1 DEF ChannelInv, SeenHasReason, SeenHasReasonAt, OnDisk
<1>6. ASSUME NEW n \in Names, n # settling, ToBeTaken(n) PROVE ToBeTaken(n)'
  BY <1>1, <1>3, <1>6 DEF ToBeTaken
<1>7. Accounted'
  <2> SUFFICES ASSUME watch' = "running", NEW n \in Names, OnDisk(n)' PROVE AccountedAt(n)'
    BY DEF Accounted, AccountedAt
  <2>1. CASE n = settling
    BY <1>2, <2>1 DEF AccountedAt, InHand
  <2>2. CASE n # settling
    <3>1. AccountedAt(n) /\ OnDisk(n)
      BY <1>1 DEF ChannelInv, Accounted, OnDisk
    <3>2. n # load["watcher"]
      BY <1>1, NamesAssumption
    <3> QED BY <1>1, <1>2, <1>6, <2>2, <3>1, <3>2 DEF AccountedAt, Listed, InHand
  <2> QED BY <2>1, <2>2
<1> QED BY <1>4, <1>5, <1>7 DEF ChannelInv, SeenHasReason

\* Every action keeps the channel's invariant.
LEMMA ChannelStep ==
  TypeOK /\ OffIsEmpty /\ OneAtATime /\ ChannelInv /\ [Next]_vars => ChannelInv'
<1> SUFFICES ASSUME TypeOK, OffIsEmpty, OneAtATime, ChannelInv, [Next]_vars
             PROVE  ChannelInv'
  OBVIOUS
<1> USE DEF diskVars, watchVars, engineVars
<1>0. /\ load \in [Loaders -> Maybe] /\ Loaders = {"scan", "watcher", "ipc"}
      /\ excuse \in [Names -> SUBSET Excuses]
  BY DEF TypeOK, Loaders
<1>1. ASSUME NEW n \in Names, ScanNext(n) PROVE ChannelInv'
  <2>1. /\ UNCHANGED <<disk, watch, events, seen, settling, registry, deleting>>
        /\ load'["watcher"] = load["watcher"] /\ load'["ipc"] = load["ipc"]
        /\ \A m \in Names : excuse[m] \subseteq excuse'[m]
    BY <1>0, <1>1 DEF ScanNext, Refuse, ReadManifest
  <2> QED BY <2>1, FrameStep DEF OnDisk, Listed, InHand
<1>2. ASSUME NEW l \in Loaders, Splice(l) PROVE ChannelInv'
  <2>1. /\ UNCHANGED <<disk, watch, events, seen, settling, deleting, excuse>>
        /\ load[l] # NoName
        /\ \A k \in Loaders : k # l => load'[k] = load[k]
    BY <1>0, <1>2 DEF Splice
  <2>2. DOMAIN registry' = DOMAIN registry \cup {<<load[l], loads[load[l]] + 1>>}
    BY <1>2 DEF Splice
  <2>3. \A n \in Names : n = load[l] => Listed(n)'
    <3>1. <<load[l], loads[load[l]] + 1>>[1] = load[l]
      OBVIOUS
    <3> QED BY <2>2, <3>1 DEF Listed
  <2>4. \A n \in Names : Listed(n) => Listed(n)'
    BY <2>2 DEF Listed
  <2>5. \A n \in Names : InHand(n) => Listed(n)' \/ InHand(n)'
    BY <1>0, <2>1, <2>3 DEF InHand
  <2> QED BY <2>1, <2>4, <2>5, FrameStep DEF OnDisk
<1>3. CASE StartWatcher
  BY <1>3, FrameStep DEF StartWatcher, OnDisk, Listed, InHand
<1>4. CASE CollectSeen
  <2>1. /\ UNCHANGED <<disk, events, settling, registry>>
        /\ seen' = {n \in Names : OnDisk(n)}
        /\ settling = NoName
    BY <1>4 DEF CollectSeen, OffIsEmpty
  <2>2. \A i \in Nat : \A k, n : Queued(i, k, n)' <=> Queued(i, k, n)
    BY <2>1 DEF Queued
  <2>3. RemovedThenCreated'
    BY <2>1, <2>2 DEF ChannelInv, RemovedThenCreated, RemovedThenCreatedAt, OnDisk
  <2>4. SeenHasReason'
    BY <2>1, NamesAssumption DEF SeenHasReason, SeenHasReasonAt, OnDisk
  <2>5. Accounted'
    <3> SUFFICES ASSUME NEW n \in Names, OnDisk(n)' PROVE Listed(n)' \/ excuse'[n] # {}
      BY DEF Accounted, AccountedAt
    <3>1. OnDisk(n) /\ (Listed(n) => Listed(n)')
      BY <2>1 DEF OnDisk, Listed
    <3> QED BY <1>4, <3>1 DEF CollectSeen
  <2> QED BY <2>3, <2>4, <2>5 DEF ChannelInv
<1>5. CASE TakeRemove
  BY <1>5, TakeRemoveStep
<1>6. CASE TakeCreate
  BY <1>6, TakeCreateStep
<1>7. CASE Settled
  BY <1>7, SettledStep
<1>8. CASE DeleteDir
  <2>1. /\ deleting \in Names /\ deleting' = NoName
        /\ UNCHANGED <<watch, seen, settling, load, registry>>
    BY <1>8 DEF DeleteDir, TypeOK, Maybe
  <2>2. CASE ~OnDisk(deleting) /\ UNCHANGED <<disk, events, excuse>>
    <3>1. \A n \in Names : OnDisk(n) => n # deleting
      BY <2>2
    <3> QED BY <2>1, <2>2, <3>1, FrameStep DEF OnDisk, Listed, InHand
  <2>3. CASE Vanish(deleting) /\ UNCHANGED excuse
    <3>1. PICK name \in Names : name = deleting
      BY <2>1
    <3>2. Notify("Remove", name) /\ ~OnDisk(name)'
      BY <2>3, <3>1 DEF Vanish, OnDisk, TypeOK
    <3>3. \A n \in Names : n # name => OnDisk(n)' = OnDisk(n)
      BY <2>3, <3>1 DEF Vanish, OnDisk, TypeOK
    <3> QED BY <2>1, <2>3, <3>1, <3>2, <3>3, GoneStep
  <2>4. CASE /\ OnDisk(deleting)
             /\ \E content \in {disk[deleting], "partial"} :
                  disk' = [disk EXCEPT ![deleting] = content]
             /\ excuse' = [excuse EXCEPT ![deleting] = @ \cup {"kept"}]
             /\ UNCHANGED events
    <3>1. \A n \in Names : OnDisk(n)' = OnDisk(n)
      BY <2>1, <2>4 DEF OnDisk, TypeOK
    <3>2. \A n \in Names : excuse[n] \subseteq excuse'[n] /\ (n = deleting => excuse'[n] # {})
      BY <1>0, <2>1, <2>4
    <3> QED BY <2>1, <2>4, <3>1, <3>2, FrameStep DEF Listed, InHand
  <2> QED BY <1>8, <2>2, <2>3, <2>4 DEF DeleteDir
<1>9. ASSUME NEW id \in DOMAIN registry, Unload(id) PROVE ChannelInv'
  <2>1. /\ UNCHANGED <<disk, watch, events, seen, settling, load, excuse>>
        /\ DOMAIN registry' = DOMAIN registry \ {id}
        /\ deleting = NoName /\ deleting' = id[1]
    BY <1>9 DEF Unload, Serving
  <2>2. \A n \in Names : Listed(n) => Listed(n)' \/ n = deleting'
    BY <2>1 DEF Listed
  <2>3. \A n \in Names : InHand(n) => InHand(n)'
    BY <2>1, NamesAssumption DEF InHand
  <2> QED BY <2>1, <2>2, <2>3, FrameStep DEF OnDisk, InHand
<1>10. ASSUME NEW id \in DOMAIN registry, NEW on \in BOOLEAN, SetEnabled(id, on) PROVE ChannelInv'
  <2>1. /\ UNCHANGED <<disk, watch, events, seen, settling, load, deleting, excuse>>
        /\ DOMAIN registry' = DOMAIN registry
    BY <1>10 DEF SetEnabled
  <2> QED BY <2>1, FrameStep DEF OnDisk, Listed, InHand
<1>11. ASSUME NEW n \in Names, LoadByPath(n) PROVE ChannelInv'
  <2>1. /\ UNCHANGED <<disk, watch, events, seen, settling, registry, deleting>>
        /\ load["ipc"] = NoName /\ load'["watcher"] = load["watcher"]
        /\ \A m \in Names : excuse[m] \subseteq excuse'[m]
    BY <1>0, <1>11 DEF LoadByPath, Serving, Refuse, ReadManifest
  <2> QED BY <2>1, FrameStep, NamesAssumption DEF OnDisk, Listed, InHand
<1>12. ASSUME NEW n \in Names, UserLinks(n) PROVE ChannelInv'
  BY <1>12, AppearStep DEF UserLinks
<1>13. ASSUME NEW n \in Names, UserCopies(n) PROVE ChannelInv'
  BY <1>13, AppearStep DEF UserCopies
<1>14. ASSUME NEW name \in Names, UserDeletes(name) PROVE ChannelInv'
  <2>1. /\ UNCHANGED <<watch, seen, settling, load, registry, deleting, excuse>>
        /\ Notify("Remove", name) /\ ~OnDisk(name)'
        /\ \A n \in Names : n # name => OnDisk(n)' = OnDisk(n)
    BY <1>14 DEF UserDeletes, Vanish, OnDisk, TypeOK
  <2> QED BY <2>1, GoneStep
<1>15. ASSUME NEW name \in Names, UserMovesAway(name) PROVE ChannelInv'
  <2>1. /\ UNCHANGED <<watch, seen, settling, load, registry, deleting>>
        /\ Notify("Name", name) /\ ~OnDisk(name)'
        /\ \A n \in Names : n # name => OnDisk(n)' = OnDisk(n)
        /\ \A n \in Names : excuse[n] \subseteq excuse'[n]
        /\ name \in seen \cup {settling} => "moved" \in excuse'[name]
    BY <1>0, <1>15 DEF UserMovesAway, OnDisk, TypeOK
  <2> QED BY <2>1, GoneStep
<1>16. ASSUME NEW n \in Names, BeginExtract(n) PROVE ChannelInv'
  <2>1. CASE Appear(n, "partial") /\ UNCHANGED requests
    BY <1>16, <2>1, AppearStep DEF BeginExtract
  <2>2. CASE OnDisk(n) /\ disk' = [disk EXCEPT ![n] = "partial"]
             /\ UNCHANGED <<arrivals, excuse, events>>
    <3>1. \A m \in Names : OnDisk(m)' = OnDisk(m)
      BY <2>2 DEF OnDisk, TypeOK
    <3> QED BY <1>16, <2>2, <3>1, FrameStep DEF BeginExtract, Listed, InHand
  <2> QED BY <1>16, <2>1, <2>2 DEF BeginExtract
<1>17. ASSUME NEW n \in Names, FinishWrite(n) PROVE ChannelInv'
  <2>1. CASE Appear(n, "partial")
    BY <1>17, <2>1, AppearStep DEF FinishWrite
  <2>2. CASE /\ disk[n] = "partial"
             /\ disk' = [disk EXCEPT ![n] = IF writer[n] = "install" THEN "installed" ELSE "copied"]
             /\ UNCHANGED <<arrivals, excuse, events>>
    <3>1. \A m \in Names : OnDisk(m)' = OnDisk(m)
      BY <2>2 DEF OnDisk, TypeOK
    <3> QED BY <1>17, <2>2, <3>1, FrameStep DEF FinishWrite, Listed, InHand
  <2> QED BY <1>17, <2>1, <2>2 DEF FinishWrite
<1>18. ASSUME NEW n \in Names, AbortWrite(n) PROVE ChannelInv'
  BY <1>18, FrameStep DEF AbortWrite, OnDisk, Listed, InHand
<1>19. CASE UNCHANGED vars
  BY <1>19, FrameStep DEF vars, OnDisk, Listed, InHand
<1> QED
  BY <1>1, <1>2, <1>3, <1>4, <1>5, <1>6, <1>7, <1>8, <1>9, <1>10, <1>11, <1>12, <1>13, <1>14,
     <1>15, <1>16, <1>17, <1>18, <1>19
  DEF Next, Scan, Watcher, Handler, Request, User, Writer, Loaders

-----------------------------------------------------------------------------
\* Counting loads: one for every arrival and every request by path
(***************************************************************************)
(* A directory put in place queues one creation, and a load comes from one *)
(* place: the scan, a request, or a creation that finds the name unknown.  *)
(* So the loads done, those under way and the creations still queued never *)
(* exceed the arrivals and requests, except for a creation that will find  *)
(* the name known and is therefore worth nothing (Ignored).  A rename that *)
(* loads the directory it finds does so in place of the creation behind it *)
(* (MovedThenCreated), which by then finds the name known.                 *)
(***************************************************************************)

One(b) == IF b THEN 1 ELSE 0

\* Where the creations of a name stand in the channel.
CreatesAt(n) == {i \in 1..Len(events) : Queued(i, "Create", n)}
Creates(n) == Cardinality(CreatesAt(n))

\* Loads of this name the loaders are committed to.
Coming(n) == One(n \in toScan) + One(n = settling) + One(n = load["scan"])
             + One(n = load["watcher"]) + One(n = load["ipc"])

\* The next creation in the channel will find the name known.
Ignored(n) ==
  /\ n \in seen \cup {settling}
  /\ \E i \in Nat : Queued(i, "Create", n) /\ \A j \in Nat : j < i => ~Queued(j, "Remove", n)

PaidAt(n) == loads[n] + Coming(n) + Creates(n) <= arrivals[n] + asked[n] + One(Ignored(n))

\* After a rename queued for a name its directory is gone and nothing more was
\* heard of it, or its creation comes before any removal of it.
MovedThenCreatedAt(n) ==
  \A i \in Nat : Queued(i, "Name", n) =>
    \/ /\ ~OnDisk(n)
       /\ \A j \in Nat : i < j => ~Queued(j, "Create", n) /\ ~Queued(j, "Remove", n)
    \/ \E j \in Nat : /\ i < j /\ Queued(j, "Create", n)
                      /\ \A k \in Nat : i < k /\ k < j => ~Queued(k, "Remove", n)

LoadInv == \A n \in Names : PaidAt(n) /\ MovedThenCreatedAt(n)

LEMMA CreatesFinite ==
  ASSUME events \in Seq(Event), NEW n
  PROVE  /\ IsFiniteSet(CreatesAt(n))
         /\ Creates(n) \in Nat
         /\ \A i \in Nat : Queued(i, "Create", n) => Creates(n) >= 1
<1>1. Len(events) \in Nat
  OBVIOUS
<1>2. IsFiniteSet(1..Len(events))
  BY <1>1, FS_Interval
<1>3. CreatesAt(n) \in SUBSET (1..Len(events))
  BY DEF CreatesAt
<1>4. IsFiniteSet(CreatesAt(n))
  BY <1>2, <1>3, FS_Subset
<1>5. Cardinality(CreatesAt(n)) \in Nat /\ (Cardinality(CreatesAt(n)) = 0 <=> CreatesAt(n) = {})
  BY <1>4, FS_CardinalityType, FS_EmptySet
<1>6. \A i \in Nat : Queued(i, "Create", n) => i \in CreatesAt(n)
  BY DEF CreatesAt, Queued
<1> QED BY <1>4, <1>5, <1>6 DEF Creates

\* An event of a name adds one to the creations of that name, if it is one.
LEMMA CreatesAppended ==
  ASSUME events \in Seq(Event),
         NEW kind \in {"Create", "Remove", "Name"}, NEW name \in Names,
         events' = Append(events, [kind |-> kind, name |-> name]), NEW n
  PROVE  Creates(n)' = Creates(n) + One(kind = "Create" /\ n = name)
<1>0. [kind |-> kind, name |-> name] \in Event
  BY DEF Event
<1>1. PICK last \in Nat : last = Len(events) + 1
  OBVIOUS
<1>2. /\ Len(events) \in Nat /\ Len(events') = last
      /\ \A i \in 1..Len(events) : events'[i] = events[i]
      /\ events'[last] = [kind |-> kind, name |-> name]
      /\ 1..last = 1..Len(events) \cup {last} /\ last \notin 1..Len(events)
  BY <1>0, <1>1
<1>3. IsFiniteSet(CreatesAt(n)) /\ Cardinality(CreatesAt(n)) \in Nat
  BY CreatesFinite DEF Creates
<1>4. last \notin CreatesAt(n)
  BY <1>2 DEF CreatesAt
<1>5. CreatesAt(n)' = {i \in 1..last : Queued(i, "Create", n)'}
  BY <1>2 DEF CreatesAt
<1>6. \A i \in 1..Len(events) : Queued(i, "Create", n)' <=> Queued(i, "Create", n)
  BY <1>2 DEF Queued
<1>7. Queued(last, "Create", n)' <=> kind = "Create" /\ n = name
  <2>1. last \in 1..Len(events')
    BY <1>2
  <2>2. Queued(last, "Create", n)' <=>
          [kind |-> kind, name |-> name] = [kind |-> "Create", name |-> n]
    BY <1>2, <2>1 DEF Queued
  <2>3. ASSUME [kind |-> kind, name |-> name] = [kind |-> "Create", name |-> n]
        PROVE  kind = "Create" /\ n = name
    <3>1. [kind |-> kind, name |-> name].kind = [kind |-> "Create", name |-> n].kind
      BY <2>3
    <3>2. [kind |-> kind, name |-> name].name = [kind |-> "Create", name |-> n].name
      BY <2>3
    <3> QED BY <3>1, <3>2
  <2> QED BY <2>2, <2>3
<1>8. CASE kind = "Create" /\ n = name
  <2>1. CreatesAt(n)' = CreatesAt(n) \cup {last}
    BY <1>2, <1>5, <1>6, <1>7, <1>8 DEF CreatesAt
  <2>2. Cardinality(CreatesAt(n)') = Cardinality(CreatesAt(n)) + 1
    BY <1>3, <1>4, <2>1, FS_AddElement
  <2> QED BY <1>8, <2>2 DEF Creates, One
<1>9. CASE ~(kind = "Create" /\ n = name)
  <2>1. CreatesAt(n)' = CreatesAt(n)
    BY <1>2, <1>5, <1>6, <1>7, <1>9 DEF CreatesAt
  <2> QED BY <1>3, <1>9, <2>1 DEF Creates, One
<1> QED BY <1>8, <1>9

\* Taking the first event takes one off the creations of its name, if it is one.
LEMMA CreatesTaken ==
  ASSUME events \in Seq(Event), events # <<>>, events' = Tail(events), NEW n
  PROVE  Creates(n)' = Creates(n) - One(Head(events) = [kind |-> "Create", name |-> n])
<1> DEFINE S == CreatesAt(n) \ {1}
           T == CreatesAt(n)'
           shift == [i \in S |-> i - 1]
<1>1. /\ Len(events') = Len(events) - 1
      /\ \A i \in 1..Len(events') : events'[i] = events[i + 1]
      /\ Head(events) = events[1]
      /\ Len(events) \in Nat \ {0}
  OBVIOUS
<1>2. IsFiniteSet(CreatesAt(n)) /\ Cardinality(CreatesAt(n)) \in Nat
  BY CreatesFinite DEF Creates
<1>3. IsFiniteSet(S)
      /\ Cardinality(S) = IF 1 \in CreatesAt(n) THEN Cardinality(CreatesAt(n)) - 1
                                                ELSE Cardinality(CreatesAt(n))
  BY <1>2, FS_RemoveElement
<1>4. 1 \in CreatesAt(n) <=> Head(events) = [kind |-> "Create", name |-> n]
  BY <1>1 DEF CreatesAt, Queued
<1>5. \A i \in S : i \in Nat /\ i - 1 \in T
  BY <1>1 DEF CreatesAt, Queued
<1>6. \A i \in T : i \in Nat /\ i + 1 \in S /\ (i + 1) - 1 = i
  BY <1>1 DEF CreatesAt, Queued
<1>7. shift \in Bijection(S, T)
  <2>1. shift \in [S -> T]
    BY <1>5
  <2>2. \A a, b \in S : shift[a] = shift[b] => a = b
    BY <1>5
  <2>3. \A t \in T : \E s \in S : shift[s] = t
    BY <1>6
  <2> QED BY <2>1, <2>2, <2>3 DEF Bijection, Injection, Surjection, IsInjective
<1>8. ExistsBijection(S, T)
  BY <1>7 DEF ExistsBijection
<1>9. Cardinality(T) = Cardinality(S)
  BY <1>3, <1>8, FS_Bijection
<1> QED BY <1>2, <1>3, <1>4, <1>9 DEF Creates, One

LEMMA LedgerTypes ==
  ASSUME TypeOK, NEW n \in Names
  PROVE  /\ loads[n] \in Nat /\ arrivals[n] \in Nat /\ asked[n] \in Nat
         /\ Coming(n) \in Nat /\ Creates(n) \in Nat
         /\ One(Ignored(n)) \in {0, 1} /\ (One(Ignored(n)) = 1 <=> Ignored(n))
<1>1. Creates(n) \in Nat
  BY CreatesFinite DEF TypeOK
<1>2. Coming(n) \in Nat
  BY DEF Coming, One
<1> QED BY <1>1, <1>2 DEF TypeOK, One

\* The channel and the directories stay, and what was known stays known: a load
\* that begins or ends must be paid for by what it came from.
LEMMA LoaderStep ==
  ASSUME TypeOK, TypeOK', LoadInv, UNCHANGED events,
         \A n \in Names : n \in seen \cup {settling} => n \in (seen \cup {settling})',
         \A n \in Names : OnDisk(n)' = OnDisk(n),
         \A n \in Names : loads'[n] + Coming(n)' + arrivals[n] + asked[n]
                            <= loads[n] + Coming(n) + arrivals'[n] + asked'[n]
  PROVE  LoadInv'
<1> SUFFICES ASSUME NEW n \in Names PROVE PaidAt(n)' /\ MovedThenCreatedAt(n)'
  BY DEF LoadInv
<1>1. \A i \in Nat : \A k : Queued(i, k, n)' <=> Queued(i, k, n)
  BY DEF Queued
<1>2. MovedThenCreatedAt(n)'
  BY <1>1 DEF LoadInv, MovedThenCreatedAt
<1>3. Creates(n)' = Creates(n)
  BY DEF Creates, CreatesAt, Queued
<1>4. Ignored(n) => Ignored(n)'
  BY <1>1 DEF Ignored
<1>5. One(Ignored(n)) <= One(Ignored(n))'
  BY <1>4 DEF One
<1>6. PaidAt(n)'
  <2>1. /\ loads'[n] \in Nat /\ arrivals'[n] \in Nat /\ asked'[n] \in Nat
        /\ Coming(n)' \in Nat /\ One(Ignored(n))' \in {0, 1}
    BY DEF TypeOK, Coming, One
  <2>2. loads[n] + Coming(n) + Creates(n) <= arrivals[n] + asked[n] + One(Ignored(n))
    BY DEF LoadInv, PaidAt
  <2>3. loads'[n] + Coming(n)' + Creates(n)' <= arrivals'[n] + asked'[n] + One(Ignored(n))'
    BY <1>3, <1>5, <2>1, <2>2, LedgerTypes
  <2> QED BY <2>3 DEF PaidAt
<1> QED BY <1>2, <1>6

\* An event is heard, or missed because nobody listens: an arrival pays for the
\* creation it queues.
LEMMA HeardStep ==
  ASSUME TypeOK, TypeOK', OffIsEmpty, LoadInv,
         NEW kind \in {"Create", "Remove", "Name"}, NEW name \in Names, Notify(kind, name),
         OnDisk(name) <=> kind # "Create", OnDisk(name)' <=> kind = "Create",
         \A n \in Names : n # name => OnDisk(n)' = OnDisk(n),
         \A n \in Names : arrivals'[n] = arrivals[n] + One(kind = "Create" /\ n = name),
         UNCHANGED <<watch, seen, settling, load, toScan, loads, asked>>
  PROVE  LoadInv'
<1> SUFFICES ASSUME NEW n \in Names PROVE PaidAt(n)' /\ MovedThenCreatedAt(n)'
  BY DEF LoadInv
<1>0. /\ loads[n] + Coming(n) + Creates(n) <= arrivals[n] + asked[n] + One(Ignored(n))
      /\ Coming(n)' = Coming(n)
      /\ One(kind = "Create" /\ n = name) \in {0, 1}
      /\ One(Ignored(n))' \in {0, 1}
  BY DEF LoadInv, PaidAt, Coming, One
<1>1. CASE watch = "off"
  <2>1. events = <<>> /\ events' = <<>>
    BY <1>1 DEF OffIsEmpty, Notify
  <2>2. MovedThenCreatedAt(n)'
    BY <2>1 DEF MovedThenCreatedAt, Queued
  <2>3. Creates(n)' = Creates(n)
    BY <2>1 DEF Creates, CreatesAt, Queued
  <2>4. ~Ignored(n)
    BY <2>1 DEF Ignored, Queued
  <2>5. One(Ignored(n)) = 0
    BY <2>4 DEF One
  <2>6. loads'[n] + Coming(n)' + Creates(n)' <= arrivals'[n] + asked'[n] + One(Ignored(n))'
    BY <1>0, <2>3, <2>5, LedgerTypes
  <2> QED BY <2>2, <2>6 DEF PaidAt
<1>2. CASE watch # "off"
  <2>0. events \in Seq(Event) /\ events' = Append(events, [kind |-> kind, name |-> name])
    BY <1>2 DEF TypeOK, Notify
  <2>1. PICK last \in Nat :
          /\ Queued(last, kind, name)'
          /\ \A i \in Nat : \A k, m : Queued(i, k, m) => i < last /\ Queued(i, k, m)'
          /\ \A i \in Nat : \A k, m : Queued(i, k, m)' =>
               Queued(i, k, m) \/ (i = last /\ k = kind /\ m = name)
    BY <2>0, AppendKeeps
  <2>2. Ignored(n) => Ignored(n)'
    <3> SUFFICES ASSUME NEW i \in Nat, n \in seen \cup {settling}, Queued(i, "Create", n),
                        \A j \in Nat : j < i => ~Queued(j, "Remove", n)
                 PROVE  Ignored(n)'
      BY DEF Ignored
    <3>1. Queued(i, "Create", n)' /\ i < last
      BY <2>1
    <3>2. \A j \in Nat : j < i => ~Queued(j, "Remove", n)'
      BY <2>1, <3>1
    <3> QED BY <3>1, <3>2 DEF Ignored
  <2>3. One(Ignored(n)) <= One(Ignored(n))'
    BY <2>2 DEF One
  <2>4. Creates(n)' = Creates(n) + One(kind = "Create" /\ n = name)
    BY <2>0, CreatesAppended
  <2>5. arrivals'[n] = arrivals[n] + One(kind = "Create" /\ n = name)
    OBVIOUS
  <2>6. loads'[n] + Coming(n)' + Creates(n)' <= arrivals'[n] + asked'[n] + One(Ignored(n))'
    BY <1>0, <2>3, <2>4, <2>5, LedgerTypes
  <2>7. MovedThenCreatedAt(n)'
    <3> SUFFICES ASSUME NEW i \in Nat, Queued(i, "Name", n)'
                 PROVE  \/ /\ ~OnDisk(n)'
                           /\ \A j \in Nat : i < j => ~Queued(j, "Create", n)' /\ ~Queued(j, "Remove", n)'
                        \/ \E j \in Nat : /\ i < j /\ Queued(j, "Create", n)'
                                          /\ \A k \in Nat : i < k /\ k < j => ~Queued(k, "Remove", n)'
      BY DEF MovedThenCreatedAt
    <3>1. CASE i = last /\ ~Queued(i, "Name", n)
      <4>1. kind = "Name" /\ n = name
        BY <2>1, <3>1
      <4>2. \A j \in Nat : \A k : i < j => ~Queued(j, k, n)'
        BY <2>1, <3>1
      <4> QED BY <4>1, <4>2
    <3>2. CASE Queued(i, "Name", n)
      <4>1. i < last
        BY <2>1, <3>2
      <4>2. ASSUME NEW j \in Nat, i < j, Queued(j, "Create", n),
                   \A k \in Nat : i < k /\ k < j => ~Queued(k, "Remove", n)
            PROVE  /\ Queued(j, "Create", n)'
                   /\ \A k \in Nat : i < k /\ k < j => ~Queued(k, "Remove", n)'
        <5>1. Queued(j, "Create", n)' /\ j < last
          BY <2>1, <4>2
        <5> QED BY <2>1, <4>2, <5>1
      <4>3. CASE \E j \in Nat : /\ i < j /\ Queued(j, "Create", n)
                                /\ \A k \in Nat : i < k /\ k < j => ~Queued(k, "Remove", n)
        BY <4>2, <4>3
      <4>4. CASE /\ ~OnDisk(n)
                 /\ \A j \in Nat : i < j => ~Queued(j, "Create", n) /\ ~Queued(j, "Remove", n)
        <5>1. CASE n # name
          BY <2>1, <4>4, <5>1
        <5>2. CASE n = name
          <6>1. kind = "Create" /\ Queued(last, "Create", n)'
            BY <2>1, <4>4, <5>2
          <6>2. \A k \in Nat : i < k => ~Queued(k, "Remove", n)'
            BY <2>1, <4>4, <6>1
          <6> QED BY <4>1, <6>1, <6>2
        <5> QED BY <5>1, <5>2
      <4> QED BY <3>2, <4>3, <4>4 DEF LoadInv, MovedThenCreatedAt
    <3> QED BY <2>1, <3>1, <3>2
  <2> QED BY <2>6, <2>7 DEF PaidAt
<1> QED BY <1>1, <1>2

\* What follows a rename in the channel stays when the first event is taken.
LEMMA MovedTaken ==
  ASSUME events \in Seq(Event), events # <<>>, events' = Tail(events),
         NEW n, MovedThenCreatedAt(n), OnDisk(n)' = OnDisk(n)
  PROVE  MovedThenCreatedAt(n)'
<1>1. /\ \A i \in Nat : \A k, m : Queued(i, k, m)' => i # 0 /\ Queued(i + 1, k, m)
      /\ \A i \in Nat : \A k, m : Queued(i, k, m) =>
           \/ i = 1 /\ Head(events) = [kind |-> k, name |-> m]
           \/ i > 1 /\ i - 1 \in Nat /\ Queued(i - 1, k, m)'
  BY TailShifts
<1> SUFFICES ASSUME NEW i \in Nat, Queued(i, "Name", n)'
             PROVE  \/ /\ ~OnDisk(n)'
                       /\ \A j \in Nat : i < j => ~Queued(j, "Create", n)' /\ ~Queued(j, "Remove", n)'
                    \/ \E j \in Nat : /\ i < j /\ Queued(j, "Create", n)'
                                      /\ \A k \in Nat : i < k /\ k < j => ~Queued(k, "Remove", n)'
  BY DEF MovedThenCreatedAt
<1>2. i + 1 \in Nat /\ Queued(i + 1, "Name", n)
  BY <1>1
<1>3. CASE /\ ~OnDisk(n)
           /\ \A j \in Nat : i + 1 < j => ~Queued(j, "Create", n) /\ ~Queued(j, "Remove", n)
  <2>1. \A j \in Nat : i < j => j + 1 \in Nat /\ i + 1 < j + 1
    OBVIOUS
  <2> QED BY <1>1, <1>3, <2>1
<1>4. ASSUME NEW j \in Nat, i + 1 < j, Queued(j, "Create", n),
             \A k \in Nat : i + 1 < k /\ k < j => ~Queued(k, "Remove", n)
      PROVE  \E e \in Nat : /\ i < e /\ Queued(e, "Create", n)'
                            /\ \A k \in Nat : i < k /\ k < e => ~Queued(k, "Remove", n)'
  <2>1. j - 1 \in Nat /\ i < j - 1 /\ Queued(j - 1, "Create", n)'
    BY <1>1, <1>4
  <2>2. \A k \in Nat : i < k /\ k < j - 1 => k + 1 \in Nat /\ i + 1 < k + 1 /\ k + 1 < j
    OBVIOUS
  <2>3. \A k \in Nat : i < k /\ k < j - 1 => ~Queued(k, "Remove", n)'
    BY <1>1, <1>4, <2>2
  <2> QED BY <2>1, <2>3
<1> QED BY <1>2, <1>3, <1>4 DEF MovedThenCreatedAt

\* The next creation of a name stays next, unless it is the event taken.
LEMMA IgnoredTaken ==
  ASSUME events \in Seq(Event), events # <<>>, events' = Tail(events),
         NEW n, n \in (seen \cup {settling})', Ignored(n),
         Head(events) # [kind |-> "Create", name |-> n]
  PROVE  Ignored(n)'
<1>1. /\ \A i \in Nat : \A k, m : Queued(i, k, m)' => i # 0 /\ Queued(i + 1, k, m)
      /\ \A i \in Nat : \A k, m : Queued(i, k, m) =>
           \/ i = 1 /\ Head(events) = [kind |-> k, name |-> m]
           \/ i > 1 /\ i - 1 \in Nat /\ Queued(i - 1, k, m)'
  BY TailShifts
<1>2. PICK i \in Nat : Queued(i, "Create", n) /\ \A j \in Nat : j < i => ~Queued(j, "Remove", n)
  BY DEF Ignored
<1>3. i > 1 /\ i - 1 \in Nat /\ Queued(i - 1, "Create", n)'
  BY <1>1, <1>2
<1>4. \A j \in Nat : j < i - 1 => j + 1 \in Nat /\ j + 1 < i
  OBVIOUS
<1>5. \A j \in Nat : j < i - 1 => ~Queued(j, "Remove", n)'
  BY <1>1, <1>2, <1>4
<1> QED BY <1>3, <1>5 DEF Ignored

\* The watcher takes a removal: a name forgotten had none of its creations ahead.
LEMMA RemoveTaken ==
  ASSUME TypeOK, LoadInv, TakeRemove PROVE LoadInv'
<1> USE DEF diskVars, engineVars
<1>1. PICK name \in Names : Head(events) = [kind |-> "Remove", name |-> name]
  <2>1. Head(events) \in Event /\ Head(events).kind = "Remove"
    BY DEF TypeOK, TakeRemove
  <2> QED BY <2>1 DEF Event
<1>2. /\ events \in Seq(Event) /\ events # <<>> /\ events' = Tail(events)
      /\ seen' = seen \ {name} /\ settling = NoName
      /\ UNCHANGED <<disk, arrivals, toScan, settling, load, loads, asked>>
  BY <1>1 DEF TypeOK, TakeRemove, WatcherFree
<1> SUFFICES ASSUME NEW n \in Names PROVE PaidAt(n)' /\ MovedThenCreatedAt(n)'
  BY DEF LoadInv
<1>3. MovedThenCreatedAt(n)'
  <2>1. MovedThenCreatedAt(n) /\ OnDisk(n)' = OnDisk(n)
    BY <1>2 DEF LoadInv, OnDisk
  <2> QED BY <1>2, <2>1, MovedTaken
<1>4. Head(events) # [kind |-> "Create", name |-> n]
  <2>1. Head(events).kind = "Remove"
    BY <1>1
  <2> QED BY <2>1
<1>5. Creates(n)' = Creates(n)
  <2>1. Creates(n)' = Creates(n) - 0
    BY <1>2, <1>4, CreatesTaken DEF One
  <2> QED BY <2>1, LedgerTypes
<1>6. ASSUME Ignored(n) PROVE Ignored(n)'
  <2>1. PICK i \in Nat : Queued(i, "Create", n) /\ \A j \in Nat : j < i => ~Queued(j, "Remove", n)
    BY <1>6 DEF Ignored
  <2>2. i > 1
    BY <1>2, <1>4, <2>1, TailShifts
  <2>3. n # name
    <3>1. Queued(1, "Remove", name)
      BY <1>1, <1>2 DEF Queued
    <3> QED BY <2>1, <2>2, <3>1
  <2>4. n \in (seen \cup {settling})'
    BY <1>2, <1>6, <2>3 DEF Ignored
  <2> QED BY <1>2, <1>4, <1>6, <2>4, IgnoredTaken
<1>7. PaidAt(n)'
  <2>1. One(Ignored(n)) <= One(Ignored(n))' /\ One(Ignored(n))' \in {0, 1}
    BY <1>6 DEF One
  <2>2. Coming(n)' = Coming(n) /\ loads'[n] = loads[n] /\ arrivals'[n] = arrivals[n]
        /\ asked'[n] = asked[n]
    BY <1>2 DEF Coming
  <2>3. loads[n] + Coming(n) + Creates(n) <= arrivals[n] + asked[n] + One(Ignored(n))
    BY DEF LoadInv, PaidAt
  <2>4. loads'[n] + Coming(n)' + Creates(n)' <= arrivals'[n] + asked'[n] + One(Ignored(n))'
    BY <1>5, <2>1, <2>2, <2>3, LedgerTypes
  <2> QED BY <2>4 DEF PaidAt
<1> QED BY <1>3, <1>7

\* The watcher takes a creation, which pays for the load it begins, or a rename,
\* whose load is paid for by the creation behind it.
LEMMA CreateTaken ==
  ASSUME TypeOK, LoadInv, TakeCreate PROVE LoadInv'
<1> USE DEF diskVars, engineVars
<1>1. PICK kind \in {"Create", "Name"}, name \in Names :
        Head(events) = [kind |-> kind, name |-> name]
  <2>1. Head(events) \in Event /\ Head(events).kind # "Remove"
    BY DEF TypeOK, TakeCreate
  <2> QED BY <2>1 DEF Event
<1>2. /\ events \in Seq(Event) /\ events # <<>> /\ events' = Tail(events)
      /\ settling = NoName /\ settling' = IF Fresh(name) THEN name ELSE NoName
      /\ UNCHANGED <<disk, arrivals, toScan, seen, load, loads, asked>>
  BY <1>1 DEF TypeOK, TakeCreate, WatcherFree
<1> SUFFICES ASSUME NEW n \in Names PROVE PaidAt(n)' /\ MovedThenCreatedAt(n)'
  BY DEF LoadInv
<1>3. MovedThenCreatedAt(n)'
  <2>1. MovedThenCreatedAt(n) /\ OnDisk(n)' = OnDisk(n)
    BY <1>2 DEF LoadInv, OnDisk
  <2> QED BY <1>2, <2>1, MovedTaken
<1>4. Head(events) = [kind |-> "Create", name |-> n] <=> kind = "Create" /\ n = name
  <2>1. Head(events).kind = kind /\ Head(events).name = name
    BY <1>1
  <2>2. ASSUME Head(events) = [kind |-> "Create", name |-> n] PROVE kind = "Create" /\ n = name
    BY <2>1, <2>2
  <2> QED BY <1>1, <2>2
<1>5. Creates(n)' = Creates(n) - One(kind = "Create" /\ n = name)
  BY <1>2, <1>4, CreatesTaken
<1>6. Coming(n)' = Coming(n) + One(Fresh(name) /\ n = name)
  BY <1>2, NamesAssumption DEF Coming, One
<1>7. One(Ignored(n)) + One(Fresh(name) /\ n = name)
        <= One(Ignored(n))' + One(kind = "Create" /\ n = name)
  <2>1. ASSUME Ignored(n), ~(kind = "Create" /\ n = name) PROVE Ignored(n)'
    <3>1. n \in (seen \cup {settling})'
      BY <1>2, <2>1, NamesAssumption DEF Ignored
    <3> QED BY <1>2, <1>4, <2>1, <3>1, IgnoredTaken
  <2>2. ASSUME Fresh(name), n = name PROVE ~Ignored(n)
    BY <1>2, <2>2, NamesAssumption DEF Fresh, Ignored
  <2>3. ASSUME Fresh(name), n = name, kind = "Name" PROVE Ignored(n)'
    <3>1. Queued(1, "Name", n) /\ OnDisk(n)
      BY <1>1, <1>2, <2>3 DEF Queued, Fresh
    <3>2. PICK j \in Nat : /\ 1 < j /\ Queued(j, "Create", n)
                           /\ \A k \in Nat : 1 < k /\ k < j => ~Queued(k, "Remove", n)
      BY <3>1 DEF LoadInv, MovedThenCreatedAt
    <3>3. /\ \A i \in Nat : \A k, m : Queued(i, k, m)' => i # 0 /\ Queued(i + 1, k, m)
          /\ j - 1 \in Nat /\ Queued(j - 1, "Create", n)'
      BY <1>2, <3>2, TailShifts
    <3>4. \A k \in Nat : k # 0 /\ k < j - 1 => k + 1 \in Nat /\ 1 < k + 1 /\ k + 1 < j
      BY <3>2
    <3>5. \A k \in Nat : k < j - 1 => ~Queued(k, "Remove", n)'
      BY <3>2, <3>3, <3>4
    <3>6. n \in (seen \cup {settling})'
      BY <1>2, <2>3
    <3> QED BY <3>3, <3>5, <3>6 DEF Ignored
  <2> QED BY <2>1, <2>2, <2>3 DEF One
<1>8. PaidAt(n)'
  <2>1. loads'[n] = loads[n] /\ arrivals'[n] = arrivals[n] /\ asked'[n] = asked[n]
    BY <1>2
  <2>2. loads[n] + Coming(n) + Creates(n) <= arrivals[n] + asked[n] + One(Ignored(n))
    BY DEF LoadInv, PaidAt
  <2>3. /\ One(Ignored(n))' \in {0, 1} /\ One(Fresh(name) /\ n = name) \in {0, 1}
        /\ One(kind = "Create" /\ n = name) \in {0, 1}
    BY DEF One
  <2>4. loads'[n] + Coming(n)' + Creates(n)' <= arrivals'[n] + asked'[n] + One(Ignored(n))'
    BY <1>5, <1>6, <1>7, <2>1, <2>2, <2>3, LedgerTypes
  <2> QED BY <2>4 DEF PaidAt
<1> QED BY <1>3, <1>8

\* A directory appears.
LEMMA AppearPaid ==
  ASSUME TypeOK, TypeOK', OffIsEmpty, LoadInv, NEW name \in Names,
         NEW content \in {"partial", "copied"}, Appear(name, content),
         UNCHANGED <<watch, seen, settling, load, toScan, loads, asked>>
  PROVE  LoadInv'
<1>1. Notify("Create", name) /\ ~OnDisk(name) /\ OnDisk(name)'
  BY DEF Appear, OnDisk, TypeOK
<1>2. \A n \in Names : n # name => OnDisk(n)' = OnDisk(n)
  BY DEF Appear, OnDisk, TypeOK
<1>3. \A n \in Names : arrivals'[n] = arrivals[n] + One("Create" = "Create" /\ n = name)
  BY DEF Appear, TypeOK, One
<1> QED BY <1>1, <1>2, <1>3, HeardStep

\* A directory is deleted or moved away.
LEMMA GonePaid ==
  ASSUME TypeOK, TypeOK', OffIsEmpty, LoadInv, NEW name \in Names,
         NEW kind \in {"Remove", "Name"}, Notify(kind, name),
         OnDisk(name), disk' = [disk EXCEPT ![name] = "absent"],
         UNCHANGED <<arrivals, watch, seen, settling, load, toScan, loads, asked>>
  PROVE  LoadInv'
<1>1. ~OnDisk(name)' /\ \A n \in Names : n # name => OnDisk(n)' = OnDisk(n)
  BY DEF OnDisk, TypeOK
<1>2. \A n \in Names : arrivals'[n] = arrivals[n] + One(kind = "Create" /\ n = name)
  BY DEF TypeOK, One
<1> QED BY <1>1, <1>2, HeardStep

\* A load that a loader begins is the only one it has under way.
LEMMA LoadStep ==
  TypeOK /\ TypeOK' /\ OffIsEmpty /\ LoadInv /\ [Next]_vars => LoadInv'
<1> SUFFICES ASSUME TypeOK, TypeOK', OffIsEmpty, LoadInv, [Next]_vars
             PROVE  LoadInv'
  OBVIOUS
<1> USE DEF diskVars, watchVars, engineVars
<1>0. /\ load \in [Loaders -> Maybe] /\ load' \in [Loaders -> Maybe]
      /\ Loaders = {"scan", "watcher", "ipc"}
      /\ \A n \in Names : /\ loads[n] \in Nat /\ arrivals[n] \in Nat /\ asked[n] \in Nat
                          /\ Coming(n) \in Nat
  BY LedgerTypes DEF TypeOK, Loaders
<1>1. ASSUME NEW m \in Names, ScanNext(m) PROVE LoadInv'
  <2>1. /\ UNCHANGED <<disk, arrivals, asked, events, seen, settling, loads>>
        /\ m \in toScan /\ toScan' = toScan \ {m}
        /\ load["scan"] = NoName
        /\ load'["watcher"] = load["watcher"] /\ load'["ipc"] = load["ipc"]
        /\ load'["scan"] \in {NoName, m}
    BY <1>0, <1>1 DEF ScanNext, Refuse, ReadManifest
  <2>2. \A n \in Names : Coming(n)' <= Coming(n)
    BY <2>1, NamesAssumption DEF Coming, One
  <2>3. \A n \in Names : loads'[n] + Coming(n)' + arrivals[n] + asked[n]
                           <= loads[n] + Coming(n) + arrivals'[n] + asked'[n]
    <3> SUFFICES ASSUME NEW n \in Names
                 PROVE  loads'[n] + Coming(n)' + arrivals[n] + asked[n]
                          <= loads[n] + Coming(n) + arrivals'[n] + asked'[n]
      OBVIOUS
    <3>1. Coming(n)' \in Nat
      BY DEF Coming, One
    <3> QED BY <1>0, <2>1, <2>2, <3>1
  <2> QED BY <2>1, <2>3, LoaderStep DEF OnDisk
<1>2. ASSUME NEW l \in Loaders, Splice(l) PROVE LoadInv'
  <2>1. /\ UNCHANGED <<disk, arrivals, asked, toScan, events, seen, settling>>
        /\ load[l] \in Names /\ load'[l] = NoName
        /\ \A k \in Loaders : k # l => load'[k] = load[k]
        /\ loads' = [loads EXCEPT ![load[l]] = @ + 1]
    BY <1>0, <1>2 DEF Splice, Maybe
  <2>2. ASSUME NEW n \in Names PROVE Coming(n)' + One(n = load[l]) = Coming(n)
    BY <1>0, <2>1, NamesAssumption DEF Coming, One
  <2>3. ASSUME NEW n \in Names PROVE loads'[n] = loads[n] + One(n = load[l])
    BY <1>0, <2>1 DEF One, TypeOK
  <2>4. ASSUME NEW n \in Names
        PROVE  loads'[n] + Coming(n)' + arrivals[n] + asked[n]
                 <= loads[n] + Coming(n) + arrivals'[n] + asked'[n]
    <3>1. One(n = load[l]) \in {0, 1} /\ Coming(n)' \in Nat
      BY DEF One, Coming
    <3> QED BY <1>0, <2>1, <2>2, <2>3, <3>1
  <2> QED BY <2>1, <2>4, LoaderStep DEF OnDisk
\* Most actions neither begin nor end a load.
<1> DEFINE Idle == UNCHANGED <<loads, arrivals, asked, toScan, settling, load>>
<1>3. ASSUME Idle, UNCHANGED events, seen \subseteq seen',
             \A n \in Names : OnDisk(n)' = OnDisk(n)
      PROVE  LoadInv'
  <2>1. \A n \in Names : Coming(n)' = Coming(n)
    BY <1>3 DEF Coming
  <2>2. \A n \in Names : loads'[n] + Coming(n)' + arrivals[n] + asked[n]
                           <= loads[n] + Coming(n) + arrivals'[n] + asked'[n]
    BY <1>0, <1>3, <2>1
  <2> QED BY <1>3, <2>2, LoaderStep
<1>4. CASE StartWatcher
  BY <1>3, <1>4 DEF StartWatcher, OnDisk
<1>5. CASE CollectSeen
  BY <1>3, <1>5 DEF CollectSeen, OffIsEmpty, OnDisk
<1>6. CASE TakeRemove
  BY <1>6, RemoveTaken
<1>7. CASE TakeCreate
  BY <1>7, CreateTaken
<1>8. CASE Settled
  <2>1. /\ UNCHANGED <<disk, arrivals, asked, toScan, events, loads>>
        /\ settling \in Names /\ settling' = NoName /\ seen' = seen \cup {settling}
        /\ load'["scan"] = load["scan"] /\ load'["ipc"] = load["ipc"]
        /\ load'["watcher"] \in {load["watcher"], settling}
    BY <1>0, <1>8 DEF TypeOK, Maybe, Settled, Refuse, ReadManifest
  <2>2. ASSUME NEW n \in Names PROVE Coming(n)' <= Coming(n)
    BY <2>1, NamesAssumption DEF Coming, One
  <2>3. ASSUME NEW n \in Names
        PROVE  loads'[n] + Coming(n)' + arrivals[n] + asked[n]
                 <= loads[n] + Coming(n) + arrivals'[n] + asked'[n]
    <3>1. Coming(n)' \in Nat
      BY DEF Coming, One
    <3> QED BY <1>0, <2>1, <2>2, <3>1
  <2>4. \A n \in Names : n \in seen \cup {settling} => n \in (seen \cup {settling})'
    BY <2>1
  <2> QED BY <2>1, <2>3, <2>4, LoaderStep DEF OnDisk
<1>9. CASE DeleteDir
  <2>1. deleting \in Names /\ Idle /\ UNCHANGED <<watch, seen>>
    BY <1>9 DEF DeleteDir, TypeOK, Maybe
  <2>2. CASE UNCHANGED <<disk, events, excuse>>
    BY <1>3, <2>1, <2>2 DEF OnDisk
  <2>3. CASE OnDisk(deleting) /\ Vanish(deleting)
    BY <2>1, <2>3, GonePaid DEF Vanish
  <2>4. CASE /\ OnDisk(deleting) /\ UNCHANGED events
             /\ \E content \in {disk[deleting], "partial"} :
                  disk' = [disk EXCEPT ![deleting] = content]
    <3>1. \A n \in Names : OnDisk(n)' = OnDisk(n)
      BY <2>1, <2>4 DEF OnDisk, TypeOK
    <3> QED BY <1>3, <2>1, <2>4, <3>1
  <2> QED BY <1>9, <2>2, <2>3, <2>4 DEF DeleteDir
<1>10. ASSUME NEW id \in DOMAIN registry, Unload(id) PROVE LoadInv'
  BY <1>3, <1>10 DEF Unload, OnDisk
<1>11. ASSUME NEW id \in DOMAIN registry, NEW on \in BOOLEAN, SetEnabled(id, on) PROVE LoadInv'
  BY <1>3, <1>11 DEF SetEnabled, OnDisk
<1>12. ASSUME NEW m \in Names, LoadByPath(m) PROVE LoadInv'
  <2>1. /\ UNCHANGED <<disk, arrivals, toScan, events, seen, settling, loads>>
        /\ load["ipc"] = NoName /\ load'["ipc"] \in {NoName, m}
        /\ load'["watcher"] = load["watcher"] /\ load'["scan"] = load["scan"]
        /\ asked' = [asked EXCEPT ![m] = @ + 1]
    BY <1>0, <1>12 DEF LoadByPath, Serving, Refuse, ReadManifest
  <2>2. ASSUME NEW n \in Names PROVE Coming(n)' <= Coming(n) + One(n = m)
    BY <2>1, NamesAssumption DEF Coming, One
  <2>3. ASSUME NEW n \in Names PROVE asked'[n] = asked[n] + One(n = m)
    BY <2>1 DEF One, TypeOK
  <2>4. ASSUME NEW n \in Names
        PROVE  loads'[n] + Coming(n)' + arrivals[n] + asked[n]
                 <= loads[n] + Coming(n) + arrivals'[n] + asked'[n]
    <3>1. One(n = m) \in {0, 1} /\ Coming(n)' \in Nat
      BY DEF One, Coming
    <3> QED BY <1>0, <2>1, <2>2, <2>3, <3>1
  <2> QED BY <2>1, <2>4, LoaderStep DEF OnDisk
<1>13. ASSUME NEW n \in Names, UserLinks(n) PROVE LoadInv'
  BY <1>13, AppearPaid DEF UserLinks
<1>14. ASSUME NEW n \in Names, UserCopies(n) PROVE LoadInv'
  BY <1>14, AppearPaid DEF UserCopies
<1>15. ASSUME NEW n \in Names, UserDeletes(n) PROVE LoadInv'
  BY <1>15, GonePaid DEF UserDeletes, Vanish
<1>16. ASSUME NEW n \in Names, UserMovesAway(n) PROVE LoadInv'
  BY <1>16, GonePaid DEF UserMovesAway
<1>17. ASSUME NEW n \in Names, BeginExtract(n) PROVE LoadInv'
  <2>1. CASE Appear(n, "partial") /\ UNCHANGED requests
    BY <1>17, <2>1, AppearPaid DEF BeginExtract
  <2>2. CASE OnDisk(n) /\ disk' = [disk EXCEPT ![n] = "partial"]
             /\ UNCHANGED <<arrivals, excuse, events>>
    <3>1. \A m \in Names : OnDisk(m)' = OnDisk(m)
      BY <2>2 DEF OnDisk, TypeOK
    <3> QED BY <1>3, <1>17, <2>2, <3>1 DEF BeginExtract
  <2> QED BY <1>17, <2>1, <2>2 DEF BeginExtract
<1>18. ASSUME NEW n \in Names, FinishWrite(n) PROVE LoadInv'
  <2>1. CASE Appear(n, "partial")
    BY <1>18, <2>1, AppearPaid DEF FinishWrite
  <2>2. CASE /\ disk[n] = "partial"
             /\ disk' = [disk EXCEPT ![n] = IF writer[n] = "install" THEN "installed" ELSE "copied"]
             /\ UNCHANGED <<arrivals, excuse, events>>
    <3>1. \A m \in Names : OnDisk(m)' = OnDisk(m)
      BY <2>2 DEF OnDisk, TypeOK
    <3> QED BY <1>3, <1>18, <2>2, <3>1 DEF FinishWrite
  <2> QED BY <1>18, <2>1, <2>2 DEF FinishWrite
<1>19. ASSUME NEW n \in Names, AbortWrite(n) PROVE LoadInv'
  BY <1>3, <1>19 DEF AbortWrite, OnDisk
<1>20. CASE UNCHANGED vars
  BY <1>3, <1>20 DEF vars, OnDisk
<1> QED
  BY <1>1, <1>2, <1>4, <1>5, <1>6, <1>7, <1>8, <1>9, <1>10, <1>11, <1>12, <1>13, <1>14,
     <1>15, <1>16, <1>17, <1>18, <1>19, <1>20
  DEF Next, Scan, Watcher, Handler, Request, User, Writer, Loaders

\* What the scan has to load arrived before it.
LEMMA LoadStart == Init => LoadInv
<1> SUFFICES ASSUME Init, NEW n \in Names PROVE PaidAt(n) /\ MovedThenCreatedAt(n)
  BY DEF LoadInv
<1>1. events = <<>> /\ settling = NoName /\ \A l \in Loaders : load[l] = NoName
  BY DEF Init
<1>2. CreatesAt(n) = {} /\ MovedThenCreatedAt(n)
  BY <1>1 DEF CreatesAt, Queued, MovedThenCreatedAt
<1>3. Creates(n) = 0
  BY <1>2, FS_EmptySet DEF Creates
<1>4. Coming(n) = One(n \in toScan)
  BY <1>1, NamesAssumption DEF Coming, One, Loaders
<1>5. arrivals[n] = One(n \in toScan) /\ loads[n] = 0 /\ asked[n] = 0
  BY DEF Init, One
<1>6. PaidAt(n)
  BY <1>3, <1>4, <1>5 DEF PaidAt, One
<1> QED BY <1>2, <1>6

-----------------------------------------------------------------------------
\* The theorems

LEMMA Inductive == Spec => []IInv
<1>1. IInv /\ [Next]_vars => IInv'
  BY TypeStep, WatcherStep, ChannelStep DEF IInv, ChannelInv
<1> QED BY InitInvariant, <1>1, PTL DEF Spec

\* Every variable keeps its type.
THEOREM TypeCorrect == Spec => []TypeOK
<1>1. IInv => TypeOK
  BY DEF IInv
<1> QED BY Inductive, <1>1, PTL

\* With its channel drained the watcher remembers only directories that are
\* there or were moved away (handle_fs_event, discovery.rs).
THEOREM SeenSound == Spec => []SeenIsOnDisk
<1>1. IInv => SeenIsOnDisk
  <2> SUFFICES ASSUME IInv, events = <<>>, NEW n \in seen
               PROVE  OnDisk(n) \/ "moved" \in excuse[n]
    BY DEF SeenIsOnDisk
  <2>1. \A i \in Nat : ~Queued(i, "Remove", n)
    BY DEF Queued
  <2>2. n \in Names
    BY DEF IInv, TypeOK
  <2> QED BY <2>1, <2>2 DEF IInv, SeenHasReason, SeenHasReasonAt
<1> QED BY Inductive, <1>1, PTL

\* When nothing is under way every whole directory has its plugin or a reason
\* why not (discovery.rs, engine/mod.rs).
THEOREM NothingLost == Spec => []NothingIsLostSilently
<1>1. IInv => NothingIsLostSilently
  <2> SUFFICES ASSUME IInv, Quiet, NEW n \in Names, Whole(n)
               PROVE  Listed(n) \/ excuse[n] # {}
    BY DEF NothingIsLostSilently, Explained
  <2>1. OnDisk(n)
    BY DEF Whole, OnDisk
  <2>2. ~ToBeTaken(n)
    BY DEF Quiet, ToBeTaken, Queued
  <2>3. ~InHand(n)
    BY NamesAssumption DEF Quiet, WatcherFree, InHand
  <2> QED BY <2>1, <2>2, <2>3 DEF IInv, Accounted, AccountedAt, Quiet, WatcherFree
<1> QED BY Inductive, <1>1, PTL
\* For any plugins and any interleaving of the scan, the watcher and requests, a
\* directory is not loaded more often than it was put in place and asked for by
\* path (discovery.rs, engine/mod.rs).
THEOREM LoadedOncePerArrival == Spec => []OneLoadPerArrival
<1>1. IInv /\ IInv' /\ LoadInv /\ [Next]_vars => LoadInv'
  BY LoadStep DEF IInv
<1>2. Spec => []LoadInv
  BY Inductive, LoadStart, <1>1, PTL DEF Spec
<1>3. IInv /\ LoadInv => OneLoadPerArrival
  <2> SUFFICES ASSUME TypeOK, LoadInv, NEW n \in Names
               PROVE  loads[n] <= arrivals[n] + asked[n]
    BY DEF IInv, OneLoadPerArrival
  <2>1. loads[n] + Coming(n) + Creates(n) <= arrivals[n] + asked[n] + One(Ignored(n))
    BY DEF LoadInv, PaidAt
  <2>2. Ignored(n) => Creates(n) >= 1
    BY CreatesFinite DEF Ignored, TypeOK
  <2> QED BY <2>1, <2>2, LedgerTypes
<1> QED BY Inductive, <1>2, <1>3, PTL
=============================================================================
