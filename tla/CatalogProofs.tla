----------------------------- MODULE CatalogProofs -----------------------------
(***************************************************************************)
(* What Catalog guarantees for any number of tabs, refreshes, clients and  *)
(* entries and any capacity of the broadcast channel.  The argument about  *)
(* the channel: a message is lost only by the send that overruns it, which *)
(* marks every other tab as lapsed; the batcher clears what it received    *)
(* before that send and nothing that came after it.                        *)
(***************************************************************************)
EXTENDS Catalog, SequenceTheorems, FiniteSetTheorems, TLAPS

\* A refresh that does something, and a publication, belong to a started one.
RunsStarted ==
  /\ \A r \in Refreshes : refresh[r] # "none" => r <= Len(started)
  /\ \A w \in writers : w.run <= Len(started)

\* The bound leaves a refresh to every tab that is still starting up.
Starting == {t \in Tabs : startup[t] # "over"}
Room == Cardinality(Starting) <= MaxRefreshes - Len(started)

\* An empty result is never published.
Published == \A w \in writers : w.grid # None

\* Without a client nothing is queued for it, and before it is served nothing is
\* buffered.
Session ==
  /\ client = "none" => mail["client"] = <<>> /\ ~lagged /\ owed = {}
  /\ client # "on" => buffer = {} /\ batch = {}

\* What the client is owed is in the channel or the batch, or in the buffer if
\* that will not be cleared.
Newest(t, u) == u.tab = t /\ u.grid = latest[t]
OnItsWay ==
  \A t \in owed \ lapsed["client"] :
    \/ \E u \in Range(mail["client"]) \cup batch : Newest(t, u)
    \/ ~lagged /\ \E u \in buffer : Newest(t, u)

\* The last message of a tab that the media cache has to read is its newest
\* grid, or the cache has it.
LastOf(q, t, n) == q[n].tab = t /\ \A m \in DOMAIN q : m > n => q[m].tab # t
MediaInv ==
  LET q == mail["media"] IN
  \A t \in Tabs \ lapsed["media"] :
    \/ \E n \in DOMAIN q : LastOf(q, t, n) /\ q[n].grid = latest[t]
    \/ saved[t] = latest[t] /\ \A m \in DOMAIN q : q[m].tab # t

----------------------------------------------------------------------------
(* The channel.                                                             *)

\* No channel holds more than its capacity, and a listening subscriber gets the
\* message at the end, behind all others if the channel was not full.
LEMMA EmitMail ==
  ASSUME TypeOK, NEW u \in Update, Emit(u)
  PROVE  /\ mail' \in [Subscribers -> Seq(Update)]
         /\ \A s \in Subscribers :
              /\ Len(mail'[s]) <= Capacity
              /\ Listening(s) => mail'[s] = Append(IF Full(s) THEN Tail(mail[s]) ELSE mail[s], u)
              /\ Listening(s) /\ Full(s) => Tail(mail[s]) \in Seq(Update)
              /\ ~Listening(s) => mail'[s] = mail[s]
<1> DEFINE kept(s) == IF Full(s) THEN Tail(mail[s]) ELSE mail[s]
<1>1. ASSUME NEW s \in Subscribers
      PROVE  kept(s) \in Seq(Update) /\ Len(kept(s)) < Capacity
  <2>1. mail[s] \in Seq(Update) /\ Len(mail[s]) <= Capacity /\ Capacity \in Nat \ {0}
    BY CatalogAssumption DEF TypeOK
  <2>2. CASE Full(s)
    <3>1. mail[s] # <<>>
      BY <2>1, <2>2 DEF Full
    <3> QED BY <2>1, <2>2, <3>1, HeadTailProperties DEF Full
  <2>3. CASE ~Full(s)
    BY <2>1, <2>3 DEF Full
  <2> QED BY <2>2, <2>3
<1>2. ASSUME NEW s \in Subscribers
      PROVE  Append(kept(s), u) \in Seq(Update) /\ Len(Append(kept(s), u)) <= Capacity
  <2> HIDE DEF kept
  <2> QED BY <1>1, AppendProperties, CatalogAssumption
<1>3. mail' = [s \in Subscribers |-> IF ~Listening(s) THEN mail[s] ELSE Append(kept(s), u)]
  BY DEF Emit
<1>4. \A s \in Subscribers : mail[s] \in Seq(Update) /\ Len(mail[s]) <= Capacity
  BY DEF TypeOK
<1>5. mail' \in [Subscribers -> Seq(Update)]
  <2> HIDE DEF kept
  <2> QED BY <1>2, <1>3, <1>4
<1>6. \A s \in Subscribers : Full(s) => Tail(mail[s]) \in Seq(Update)
  BY <1>1
<1> QED BY <1>2, <1>3, <1>4, <1>5, <1>6

\* The histories keep their types; a send that overruns a channel leaves only
\* its own tab without a lapse.
LEMMA EmitHistory ==
  ASSUME TypeOK, NEW u \in Update, Emit(u)
  PROVE  /\ lagged' \in BOOLEAN /\ latest' \in [Tabs -> Version]
         /\ owed' \subseteq Tabs /\ lapsed' \in [Subscribers -> SUBSET Tabs]
         /\ latest'[u.tab] = u.grid /\ \A t \in Tabs : t # u.tab => latest'[t] = latest[t]
         /\ \A s \in Subscribers : \A t \in Tabs : t # u.tab /\ t \notin lapsed'[s] =>
              t \notin lapsed[s] /\ ~(Listening(s) /\ Full(s))
<1>1. u.tab \in Tabs /\ u.grid \in Version
  BY DEF Update
<1>2. lagged' \in BOOLEAN
  BY DEF Emit, TypeOK
<1>3. /\ latest' \in [Tabs -> Version] /\ latest'[u.tab] = u.grid
      /\ \A t \in Tabs : t # u.tab => latest'[t] = latest[t]
  BY <1>1 DEF Emit, TypeOK
<1>4. owed' \subseteq Tabs
  BY <1>1 DEF Emit, TypeOK
<1>5. lapsed' = [s \in Subscribers |-> (IF Listening(s) /\ Full(s) THEN Tabs ELSE lapsed[s]) \ {u.tab}]
  BY DEF Emit
<1>6. \A s \in Subscribers : lapsed[s] \subseteq Tabs
  BY DEF TypeOK
<1>7. lapsed' \in [Subscribers -> SUBSET Tabs]
  BY <1>5, <1>6
<1>8. \A s \in Subscribers : \A t \in Tabs : t # u.tab /\ t \notin lapsed'[s] =>
        t \notin lapsed[s] /\ ~(Listening(s) /\ Full(s))
  BY <1>5
<1> QED BY <1>2, <1>3, <1>4, <1>7, <1>8

----------------------------------------------------------------------------
(* Types.                                                                   *)

TypeInv == TypeOK /\ RunsStarted /\ Room

\* The initial state is well typed.
LEMMA InitTypeInv == Init => TypeInv
<1> SUFFICES ASSUME Init PROVE TypeInv
  OBVIOUS
<1>1. None \in Version /\ Cached \in Version
  BY CatalogAssumption DEF None, Cached, Version
<1>2. \A S : <<>> \in Seq(S) /\ Len(<<>>) = 0
  BY EmptySeq
<1>3. mail \in [Subscribers -> Seq(Update)]
  BY <1>2 DEF Init
<1>4. \A s \in Subscribers : Len(mail[s]) <= Capacity
  BY <1>2, CatalogAssumption DEF Init
<1>5. /\ NoGrids \in [Tabs -> Version] /\ file \in [Tabs -> Version]
  BY <1>1 DEF Init, NoGrids
<1>6. /\ refresh \in [Refreshes -> RefreshSteps] /\ done \in [Refreshes -> 0 .. Total + 1]
      /\ clients \in 0 .. MaxClients
  BY CatalogAssumption DEF Init, RefreshSteps
<1>7. started \in Seq(Tabs) /\ Len(started) = 0
  BY <1>2 DEF Init
<1>8. /\ startup \in [Tabs -> {"read", "announce", "enlist", "check", "wait", "refresh", "over"}]
      /\ woken \in [Tabs -> BOOLEAN] /\ enlisted \in [Tabs -> BOOLEAN]
      /\ lapsed \in [Subscribers -> SUBSET Tabs]
  BY DEF Init
<1>9. TypeOK
  <2>1. Len(started) <= MaxRefreshes
    BY <1>7, CatalogAssumption
  <2>2. /\ cached \in [Tabs -> Version] /\ grids \in [Tabs -> Version]
        /\ saved \in [Tabs -> Version] /\ latest \in [Tabs -> Version]
    BY <1>5 DEF Init
  <2>3. /\ ready \in BOOLEAN /\ lagged \in BOOLEAN /\ loading \in {"scan", "notify", "done"}
        /\ client \in {"none", "subscribed", "on"}
        /\ writers = {} /\ buffer = {} /\ batch = {} /\ view = {} /\ owed = {}
    BY DEF Init
  <2> QED BY <1>3, <1>4, <1>5, <1>6, <1>7, <1>8, <2>1, <2>2, <2>3 DEF TypeOK
<1>10. RunsStarted
  BY DEF Init, RunsStarted
<1>11. Room
  <2>1. Starting = Tabs
    BY DEF Init, Starting
  <2> QED BY <1>7, <2>1, CatalogAssumption, FS_CardinalityType DEF Room
<1> QED BY <1>9, <1>10, <1>11 DEF TypeInv

\* The room left does not change while no refresh starts and no tab is starting
\* that was not.
LEMMA RoomStays ==
  ASSUME TypeInv, UNCHANGED started, Starting' \subseteq Starting
  PROVE  Room'
<1>1. IsFiniteSet(Starting)
  BY CatalogAssumption, FS_Subset DEF Starting
<1>2. Cardinality(Starting') <= Cardinality(Starting) /\ IsFiniteSet(Starting')
  BY <1>1, FS_Subset
<1>3. Cardinality(Starting) \in Nat /\ Cardinality(Starting') \in Nat /\ Len(started) \in Nat
  BY <1>1, <1>2, FS_CardinalityType DEF TypeInv, TypeOK
<1> QED BY <1>2, <1>3, CatalogAssumption DEF TypeInv, Room

\* A started refresh is one of the bound.
LEMMA StartTypes ==
  ASSUME TypeInv, NEW t \in Tabs, Start(t), Len(started) < MaxRefreshes, UNCHANGED writers
  PROVE  /\ started' \in Seq(Tabs) /\ Len(started') = Len(started) + 1 /\ Len(started') <= MaxRefreshes
         /\ refresh' \in [Refreshes -> RefreshSteps]
         /\ RunsStarted'
<1>1. started \in Seq(Tabs) /\ Len(started) \in Nat
  BY DEF TypeInv, TypeOK
<1>2. started' \in Seq(Tabs) /\ Len(started') = Len(started) + 1
  BY <1>1, AppendProperties DEF Start
<1>3. refresh' \in [Refreshes -> RefreshSteps]
  BY DEF Start, TypeInv, TypeOK, RefreshSteps
<1>4. ASSUME NEW r \in Refreshes, refresh'[r] # "none" PROVE r <= Len(started')
  <2>1. CASE r = Len(started) + 1
    BY <1>1, <1>2, <2>1
  <2>2. CASE r # Len(started) + 1
    <3>1. refresh[r] # "none"
      BY <1>4, <2>2 DEF Start, TypeInv, TypeOK
    <3> QED BY <1>1, <1>2, <3>1 DEF TypeInv, RunsStarted, Refreshes
  <2> QED BY <2>1, <2>2
<1>5. \A w \in writers' : w.run <= Len(started')
  BY <1>1, <1>2 DEF TypeInv, TypeOK, RunsStarted, Refreshes
<1> QED BY <1>1, <1>2, <1>3, <1>4, <1>5, CatalogAssumption DEF RunsStarted

\* init_tab and the plugin scan keep the types.
LEMMA StartupTypes ==
  ASSUME TypeInv, StartupStep
  PROVE  TypeInv'
<1>0. TypeOK
  BY DEF TypeInv
<1>1. ASSUME NEW t \in Tabs, AnnounceCache(t) PROVE TypeInv'
  <2> DEFINE u == [tab |-> t, source |-> "cache", grid |-> cached[t]]
  <2>1. u \in Update /\ Emit(u)
    BY <1>0, <1>1 DEF AnnounceCache, TypeOK, Update, Sources
  <2>2. /\ mail' \in [Subscribers -> Seq(Update)] /\ \A s \in Subscribers : Len(mail'[s]) <= Capacity
        /\ lagged' \in BOOLEAN /\ latest' \in [Tabs -> Version]
        /\ owed' \subseteq Tabs /\ lapsed' \in [Subscribers -> SUBSET Tabs]
    BY <1>0, <2>1, EmitMail, EmitHistory
  <2>3. /\ startup' \in [Tabs -> {"read", "announce", "enlist", "check", "wait", "refresh", "over"}]
        /\ cached' \in [Tabs -> Version]
        /\ UNCHANGED <<ready, woken, enlisted, loading, started, refresh, done, writers, grids, file,
                       buffer, batch, client, clients, view, saved>>
    <3>1. None \in Version
      BY CatalogAssumption DEF None, Version
    <3> QED BY <1>0, <1>1, <3>1 DEF AnnounceCache, TypeOK, passVars, storeVars, batchVars, sessionVars
  <2>4. TypeOK'
    BY <1>0, <2>2, <2>3 DEF TypeOK
  <2>5. Starting' \subseteq Starting
    BY <1>0, <1>1 DEF AnnounceCache, Starting, TypeOK
  <2>6. RunsStarted'
    BY <2>3 DEF TypeInv, RunsStarted
  <2> QED BY <2>3, <2>4, <2>5, <2>6, RoomStays DEF TypeInv
<1>2. ASSUME NEW t \in Tabs, ReadCache(t) \/ Enlist(t) \/ CheckReady(t) \/ AwaitReady(t) PROVE TypeInv'
  <2>1. UNCHANGED <<ready, loading, started, refresh, done, writers, file, mail, lagged, buffer, batch,
                    client, clients, view, saved, latest, owed, lapsed>>
    BY <1>2 DEF ReadCache, Enlist, CheckReady, AwaitReady,
                passVars, storeVars, busVars, batchVars, sessionVars, history
  <2>2. /\ startup' \in [Tabs -> {"read", "announce", "enlist", "check", "wait", "refresh", "over"}]
        /\ Starting' \subseteq Starting
    BY <1>0, <1>2 DEF ReadCache, Enlist, CheckReady, AwaitReady, TypeOK, Starting
  <2>3. cached' \in [Tabs -> Version] /\ grids' \in [Tabs -> Version]
    BY <1>0, <1>2 DEF ReadCache, Enlist, CheckReady, AwaitReady, TypeOK, storeVars
  <2>4. enlisted' \in [Tabs -> BOOLEAN] /\ woken' \in [Tabs -> BOOLEAN]
    BY <1>0, <1>2 DEF ReadCache, Enlist, CheckReady, AwaitReady, TypeOK
  <2>5. TypeOK' /\ RunsStarted'
    BY <1>0, <2>1, <2>2, <2>3, <2>4 DEF TypeOK, TypeInv, RunsStarted
  <2> QED BY <2>1, <2>2, <2>5, RoomStays DEF TypeInv
<1>3. ASSUME NEW t \in Tabs, RefreshAtStart(t) PROVE TypeInv'
  <2>1. /\ t \in Starting /\ Starting' = Starting \ {t}
        /\ startup' \in [Tabs -> {"read", "announce", "enlist", "check", "wait", "refresh", "over"}]
    BY <1>0, <1>3 DEF RefreshAtStart, Starting, TypeOK
  <2>2. IsFiniteSet(Starting)
    BY CatalogAssumption, FS_Subset DEF Starting
  <2>3. /\ Cardinality(Starting) \in Nat /\ Cardinality(Starting) # 0
        /\ Cardinality(Starting') = Cardinality(Starting) - 1
    BY <2>1, <2>2, FS_CardinalityType, FS_RemoveElement, FS_EmptySet
  <2>4. Len(started) \in Nat /\ Cardinality(Starting) <= MaxRefreshes - Len(started)
    BY <1>0 DEF TypeInv, TypeOK, Room
  <2>5. Len(started) < MaxRefreshes
    BY <2>3, <2>4, CatalogAssumption
  <2>6. Start(t) /\ UNCHANGED writers
    BY <1>3 DEF RefreshAtStart
  <2>7. /\ started' \in Seq(Tabs) /\ Len(started') = Len(started) + 1 /\ Len(started') <= MaxRefreshes
        /\ refresh' \in [Refreshes -> RefreshSteps] /\ RunsStarted'
    BY <2>5, <2>6, StartTypes
  <2>8. TypeOK'
    BY <1>0, <1>3, <2>1, <2>7 DEF RefreshAtStart, TypeOK, storeVars, busVars, batchVars, sessionVars, history
  <2>9. Room'
    BY <2>3, <2>4, <2>7, CatalogAssumption DEF Room
  <2> QED BY <2>7, <2>8, <2>9 DEF TypeInv
<1>4. CASE SetReady \/ NotifyWaiters
  <2>1. UNCHANGED <<startup, cached, enlisted, started, refresh, done, writers, grids, file, mail, lagged,
                    buffer, batch, client, clients, view, saved, latest, owed, lapsed>>
    BY <1>4 DEF SetReady, NotifyWaiters, passVars, storeVars, busVars, batchVars, sessionVars, history
  <2>2. ready' \in BOOLEAN /\ loading' \in {"scan", "notify", "done"} /\ woken' \in [Tabs -> BOOLEAN]
    BY <1>0, <1>4 DEF SetReady, NotifyWaiters, TypeOK
  <2>3. TypeOK' /\ RunsStarted' /\ Starting' = Starting
    BY <1>0, <2>1, <2>2 DEF TypeOK, TypeInv, RunsStarted, Starting
  <2> QED BY <2>1, <2>3, RoomStays DEF TypeInv
<1> QED BY <1>1, <1>2, <1>3, <1>4 DEF StartupStep

\* The refreshes and their enrichment keep the types.
LEMMA RefreshTypes ==
  ASSUME TypeInv, RefreshStep
  PROVE  TypeInv'
<1>0. TypeOK
  BY DEF TypeInv
<1>1. \A r \in Refreshes, n \in 0 .. Total + 1 : Grid(r, n) \in Version
  BY CatalogAssumption DEF Grid, Version, Refreshes
<1>2. ASSUME NEW r \in Refreshes, SearchEnds(r) \/ BulkPass(r) \/ EnrichEntry(r) PROVE TypeInv'
  <2>1. refresh[r] # "none" /\ r <= Len(started)
    BY <1>2 DEF SearchEnds, BulkPass, EnrichEntry, TypeInv, RunsStarted
  <2>2. /\ refresh' \in [Refreshes -> RefreshSteps]
        /\ \A q \in Refreshes : refresh'[q] # "none" => refresh[q] # "none"
    BY <1>0, <1>2, <2>1 DEF SearchEnds, BulkPass, EnrichEntry, TypeOK, RefreshSteps
  <2>3. done' \in [Refreshes -> 0 .. Total + 1]
    <3>1. done \in [Refreshes -> 0 .. Total + 1] /\ 1 \in 0 .. Total + 1
      BY <1>0, CatalogAssumption DEF TypeOK
    <3>2. CASE EnrichEntry(r)
      <4>1. done[r] + 1 \in 0 .. Total + 1
        BY <3>1, <3>2, CatalogAssumption DEF EnrichEntry
      <4> QED BY <3>1, <3>2, <4>1 DEF EnrichEntry
    <3> QED BY <1>2, <3>1, <3>2 DEF SearchEnds, BulkPass
  <2>4. \A w \in writers' : w \in writers \/ \E n \in 0 .. Total + 1 : w = [run |-> r, grid |-> Grid(r, n), step |-> "insert"]
    <3>1. CASE SearchEnds(r)
      <4>1. writers' = writers \/ \E n \in {0} : writers' = writers \cup {[run |-> r, grid |-> Grid(r, n), step |-> "insert"]}
        BY <3>1 DEF SearchEnds, Publish
      <4>2. 0 \in 0 .. Total + 1
        BY CatalogAssumption
      <4> QED BY <4>1, <4>2
    <3>2. CASE BulkPass(r)
      <4>1. 1 \in 0 .. Total + 1
        BY CatalogAssumption
      <4> QED BY <3>2, <4>1 DEF BulkPass, Publish
    <3>3. CASE EnrichEntry(r)
      <4>1. done[r] + 1 \in 0 .. Total + 1
        BY <1>0, <3>3, CatalogAssumption DEF EnrichEntry, TypeOK
      <4> QED BY <3>3, <4>1 DEF EnrichEntry, Publish
    <3> QED BY <1>2, <3>1, <3>2, <3>3
  <2>5. writers' \subseteq [run : Refreshes, grid : Version, step : Steps]
    BY <1>0, <1>1, <2>4 DEF TypeOK, Steps
  <2>6. UNCHANGED <<startup, cached, ready, woken, enlisted, loading, started, grids, file, mail, lagged, buffer, batch,
                    client, clients, view, saved, latest, owed, lapsed>>
    BY <1>2 DEF SearchEnds, BulkPass, EnrichEntry, initVars, storeVars, busVars, batchVars, sessionVars, history
  <2>7. TypeOK'
    BY <1>0, <2>2, <2>3, <2>5, <2>6 DEF TypeOK
  <2>8. RunsStarted'
    BY <2>1, <2>2, <2>4, <2>6 DEF TypeInv, RunsStarted
  <2>9. Starting' = Starting
    BY <2>6 DEF Starting
  <2> QED BY <2>6, <2>7, <2>8, <2>9, RoomStays DEF TypeInv
<1>3. ASSUME NEW w \in writers, InsertGrid(w) PROVE TypeInv'
  <2>1. w.grid \in Version /\ grids' \in [Tabs -> Version]
    BY <1>0, <1>3 DEF InsertGrid, TypeOK
  <2>2. /\ writers' \subseteq [run : Refreshes, grid : Version, step : Steps]
        /\ \A x \in writers' : x \in writers \/ x.run = w.run
    BY <1>0, <1>3 DEF InsertGrid, TypeOK, Steps
  <2>3. UNCHANGED <<startup, cached, ready, woken, enlisted, loading, started, refresh, done, file, mail, lagged,
                    buffer, batch, client, clients, view, saved, latest, owed, lapsed>>
    BY <1>3 DEF InsertGrid, initVars, passVars, busVars, batchVars, sessionVars, history
  <2>4. TypeOK' /\ Starting' = Starting
    BY <1>0, <2>1, <2>2, <2>3 DEF TypeOK, Starting
  <2>5. RunsStarted'
    BY <2>2, <2>3 DEF TypeInv, RunsStarted
  <2> QED BY <2>3, <2>4, <2>5, RoomStays DEF TypeInv
<1>4. ASSUME NEW w \in writers, EmitGrid(w) PROVE TypeInv'
  <2> DEFINE t == started[w.run]
  <2> DEFINE u == [tab |-> t, source |-> "live", grid |-> w.grid]
  <2>1. w.run \in 1 .. Len(started) /\ w.run \in Refreshes /\ w.grid \in Version
    BY <1>0 DEF TypeInv, TypeOK, RunsStarted, Refreshes
  <2>2. t \in Tabs
    BY <1>0, <2>1 DEF TypeOK
  <2>3. u \in Update /\ Emit(u)
    BY <1>4, <2>1, <2>2 DEF EmitGrid, Update, Sources
  <2>4. /\ mail' \in [Subscribers -> Seq(Update)] /\ \A s \in Subscribers : Len(mail'[s]) <= Capacity
        /\ lagged' \in BOOLEAN /\ latest' \in [Tabs -> Version]
        /\ owed' \subseteq Tabs /\ lapsed' \in [Subscribers -> SUBSET Tabs]
    BY <1>0, <2>3, EmitMail, EmitHistory
  <2>5. /\ refresh' \in [Refreshes -> RefreshSteps] /\ done' \in [Refreshes -> 0 .. Total + 1]
        /\ \A q \in Refreshes : refresh'[q] # "none" => refresh[q] # "none"
    <3>1. AfterEmit(w.run)
      BY <1>4 DEF EmitGrid
    <3>2. CASE refresh[w.run] = "publish"
      <4>1. PICK next \in Passes[t] : /\ refresh' = [refresh EXCEPT ![w.run] = next]
                                     /\ done' = [done EXCEPT ![w.run] = IF next = "enrich" THEN 1 ELSE 0]
        BY <3>1, <3>2 DEF AfterEmit
      <4>2. next \in RefreshSteps
        BY <2>2, CatalogAssumption DEF RefreshSteps
      <4> QED BY <1>0, <2>1, <3>2, <4>1, <4>2, CatalogAssumption DEF TypeOK
    <3>3. CASE refresh[w.run] # "publish"
      BY <1>0, <2>1, <3>1, <3>3 DEF AfterEmit, TypeOK, RefreshSteps
    <3> QED BY <3>2, <3>3
  <2>6. file' \in [Tabs -> Version] /\ writers' \subseteq writers
    BY <1>0, <1>4, <2>1 DEF EmitGrid, TypeOK
  <2>7. UNCHANGED <<startup, cached, ready, woken, enlisted, loading, started, grids, buffer, batch,
                    client, clients, view, saved>>
    BY <1>4 DEF EmitGrid, initVars, batchVars, sessionVars
  <2>8. TypeOK'
    BY <1>0, <2>4, <2>5, <2>6, <2>7 DEF TypeOK
  <2>9. RunsStarted' /\ Starting' = Starting
    BY <2>5, <2>6, <2>7 DEF TypeInv, RunsStarted, Starting
  <2> QED BY <2>7, <2>8, <2>9, RoomStays DEF TypeInv
<1> QED BY <1>2, <1>3, <1>4 DEF RefreshStep

\* The media cache and the session keep the types.
LEMMA SessionTypes ==
  ASSUME TypeInv, SessionStep \/ Subscribe \/ Disconnect
  PROVE  TypeInv'
<1>0. TypeOK
  BY DEF TypeInv
<1>1. ASSUME NEW s \in Subscribers, mail[s] # <<>>, Take(s)
      PROVE  /\ Head(mail[s]) \in Update
             /\ mail' \in [Subscribers -> Seq(Update)]
             /\ \A q \in Subscribers : Len(mail'[q]) <= Capacity
  <2>1. mail \in [Subscribers -> Seq(Update)] /\ Len(mail[s]) <= Capacity
    BY <1>0 DEF TypeOK
  <2>2. /\ Head(mail[s]) \in Update /\ Tail(mail[s]) \in Seq(Update)
        /\ Len(Tail(mail[s])) = Len(mail[s]) - 1 /\ Len(mail[s]) \in Nat
    BY <1>1, <2>1, HeadTailProperties
  <2> QED BY <1>0, <1>1, <2>1, <2>2, CatalogAssumption DEF Take, TypeOK
<1>2. CASE SaveTab
  <2>1. "media" \in Subscribers /\ mail["media"] # <<>> /\ Take("media")
    BY <1>2 DEF SaveTab, Subscribers
  <2>2. /\ Head(mail["media"]) \in Update /\ mail' \in [Subscribers -> Seq(Update)]
        /\ \A q \in Subscribers : Len(mail'[q]) <= Capacity
    BY <1>1, <2>1
  <2>3. saved' \in [Tabs -> Version]
    BY <1>0, <1>2, <2>2 DEF SaveTab, TypeOK, Update
  <2> QED BY <1>0, <1>2, <2>2, <2>3 DEF SaveTab, TypeInv, TypeOK, RunsStarted, Room, Starting,
          initVars, passVars, storeVars, batchVars, sessionVars, history
<1>3. CASE BufferInsert
  <2>1. "client" \in Subscribers /\ mail["client"] # <<>> /\ Take("client")
    BY <1>3 DEF BufferInsert, Subscribers
  <2>2. /\ Head(mail["client"]) \in Update /\ mail' \in [Subscribers -> Seq(Update)]
        /\ \A q \in Subscribers : Len(mail'[q]) <= Capacity
    BY <1>1, <2>1
  <2> QED BY <1>0, <1>3, <2>2 DEF BufferInsert, TypeInv, TypeOK, RunsStarted, Room, Starting,
          initVars, passVars, storeVars, sessionVars, history
<1>4. CASE Subscribe \/ ReadGrids \/ ClearOnLag \/ Drain
  <2>1. clients' \in 0 .. MaxClients
    <3>1. CASE Subscribe
      BY <1>0, <3>1, CatalogAssumption DEF Subscribe, TypeOK
    <3> QED BY <1>0, <1>4, <3>1 DEF ReadGrids, ClearOnLag, Drain, TypeOK, sessionVars
  <2>4. client' \in {"none", "subscribed", "on"} /\ lagged' \in BOOLEAN /\ UNCHANGED mail
    BY <1>0, <1>4 DEF Subscribe, ReadGrids, ClearOnLag, Drain, TypeOK, busVars, sessionVars
  <2>2. buffer' \subseteq Update /\ batch' \subseteq Update
    BY <1>0, <1>4 DEF Subscribe, ReadGrids, ClearOnLag, Drain, TypeOK, batchVars, Update, Sources
  <2>3. UNCHANGED <<initVars, passVars, writers, storeVars, view, saved, history>>
    BY <1>4 DEF Subscribe, ReadGrids, ClearOnLag, Drain, sessionVars
  <2> QED BY <1>0, <2>1, <2>2, <2>3, <2>4 DEF TypeInv, TypeOK, RunsStarted, Room, Starting,
          initVars, passVars, storeVars, history
<1>5. ASSUME NEW t \in Tabs, NEW s \in Sources, WriteUpdate(t, s) PROVE TypeInv'
  <2>1. batch' \subseteq Update /\ view' \subseteq Tabs /\ owed' \subseteq Tabs
    BY <1>0, <1>5 DEF WriteUpdate, TypeOK
  <2> QED BY <1>0, <1>5, <2>1 DEF WriteUpdate, TypeInv, TypeOK, RunsStarted, Room, Starting,
          initVars, passVars, storeVars, busVars
<1>6. CASE Disconnect
  <2>1. \A S : <<>> \in Seq(S) /\ Len(<<>>) = 0
    BY EmptySeq
  <2>2. mail \in [Subscribers -> Seq(Update)] /\ mail' = [mail EXCEPT !["client"] = <<>>]
    BY <1>0, <1>6 DEF Disconnect, TypeOK
  <2>3. mail' \in [Subscribers -> Seq(Update)] /\ \A s \in Subscribers : mail'[s] = mail[s] \/ mail'[s] = <<>>
    BY <2>1, <2>2
  <2>4. \A s \in Subscribers : Len(mail'[s]) <= Capacity
    BY <1>0, <2>1, <2>3, CatalogAssumption DEF TypeOK
  <2>5. lapsed' \in [Subscribers -> SUBSET Tabs]
    BY <1>0, <1>6 DEF Disconnect, TypeOK
  <2> QED BY <1>0, <1>6, <2>3, <2>4, <2>5 DEF Disconnect, TypeInv, TypeOK, RunsStarted, Room, Starting,
          initVars, passVars, storeVars
<1> QED BY <1>2, <1>3, <1>4, <1>5, <1>6 DEF SessionStep

\* A refresh on demand leaves the room the starting tabs need.
LEMMA DemandTypes ==
  ASSUME TypeInv, RefreshOnDemand
  PROVE  TypeInv'
<1>1. PICK t \in Wanted : Start(t)
  BY DEF RefreshOnDemand
<1>2. /\ t \in Tabs /\ UNCHANGED <<startup, writers>>
      /\ MaxRefreshes - Len(started) > Cardinality(Starting)
  BY CatalogAssumption DEF RefreshOnDemand, Spare, Starting, initVars
<1>3. Len(started) \in Nat /\ Cardinality(Starting) \in Nat /\ MaxRefreshes \in Nat
  BY CatalogAssumption, FS_Subset, FS_CardinalityType DEF TypeInv, TypeOK, Starting
<1>4. Len(started) < MaxRefreshes
  BY <1>2, <1>3
<1>5. /\ started' \in Seq(Tabs) /\ Len(started') = Len(started) + 1 /\ Len(started') <= MaxRefreshes
      /\ refresh' \in [Refreshes -> RefreshSteps] /\ RunsStarted'
  BY <1>1, <1>2, <1>4, StartTypes
<1>6. TypeOK'
  BY <1>5 DEF RefreshOnDemand, TypeInv, TypeOK, initVars, storeVars, busVars, batchVars, sessionVars, history
<1>7. Starting' = Starting
  BY <1>2 DEF Starting
<1> QED BY <1>2, <1>3, <1>5, <1>6, <1>7 DEF TypeInv, Room

\* Every step keeps the types.
LEMMA TypeStep ==
  ASSUME TypeInv, [Next]_vars
  PROVE  TypeInv'
<1>1. CASE UNCHANGED vars
  BY <1>1 DEF vars, TypeInv, TypeOK, RunsStarted, Room, Starting,
              initVars, passVars, storeVars, busVars, batchVars, sessionVars, history
<1> QED BY <1>1, StartupTypes, RefreshTypes, SessionTypes, DemandTypes DEF Next

\* Grids, channels, batches and sessions keep their types in every step, and
\* whatever clients ask for, no tab's startup is left without its refresh.
THEOREM TypeCorrect == Spec => []TypeInv
<1>1. TypeInv /\ [Next]_vars => TypeInv'
  BY TypeStep
<1> QED BY InitTypeInv, <1>1, PTL DEF Spec

----------------------------------------------------------------------------
(* The steps that send, and the others.                                     *)

\* Only an announcement or a publication sends; neither touches a subscriber.
LEMMA Senders ==
  ASSUME TypeInv, StartupStep \/ RefreshStep \/ RefreshOnDemand
  PROVE  /\ \/ \E u \in Update : Emit(u)
            \/ UNCHANGED <<mail, lagged, latest, owed, lapsed>>
         /\ UNCHANGED <<buffer, batch, client, saved>>
<1>1. ASSUME NEW t \in Tabs, AnnounceCache(t)
      PROVE  (\E u \in Update : Emit(u)) /\ UNCHANGED <<buffer, batch, client, saved>>
  <2>1. [tab |-> t, source |-> "cache", grid |-> cached[t]] \in Update
    BY DEF TypeInv, TypeOK, Update, Sources
  <2> QED BY <1>1, <2>1 DEF AnnounceCache, batchVars, sessionVars
<1>2. ASSUME NEW t \in Tabs,
             ReadCache(t) \/ Enlist(t) \/ CheckReady(t) \/ AwaitReady(t) \/ RefreshAtStart(t)
      PROVE  UNCHANGED <<mail, lagged, latest, owed, lapsed, buffer, batch, client, saved>>
  BY <1>2 DEF ReadCache, Enlist, CheckReady, AwaitReady, RefreshAtStart,
              busVars, batchVars, sessionVars, history
<1>3. ASSUME NEW r \in Refreshes, SearchEnds(r) \/ BulkPass(r) \/ EnrichEntry(r)
      PROVE  UNCHANGED <<mail, lagged, latest, owed, lapsed, buffer, batch, client, saved>>
  BY <1>3 DEF SearchEnds, BulkPass, EnrichEntry, busVars, batchVars, sessionVars, history
<1>4. ASSUME NEW w \in writers, InsertGrid(w)
      PROVE  UNCHANGED <<mail, lagged, latest, owed, lapsed, buffer, batch, client, saved>>
  BY <1>4 DEF InsertGrid, busVars, batchVars, sessionVars, history
<1>5. ASSUME NEW w \in writers, EmitGrid(w)
      PROVE  (\E u \in Update : Emit(u)) /\ UNCHANGED <<buffer, batch, client, saved>>
  <2>1. w.run \in 1 .. Len(started) /\ w.grid \in Version
    BY DEF TypeInv, TypeOK, RunsStarted, Refreshes
  <2>2. [tab |-> started[w.run], source |-> "live", grid |-> w.grid] \in Update
    BY <2>1 DEF TypeInv, TypeOK, Update, Sources
  <2> QED BY <1>5, <2>2 DEF EmitGrid, batchVars, sessionVars
<1>6. CASE RefreshOnDemand \/ SetReady \/ NotifyWaiters
  BY <1>6 DEF RefreshOnDemand, SetReady, NotifyWaiters, busVars, batchVars, sessionVars, history
<1> QED BY <1>1, <1>2, <1>3, <1>4, <1>5, <1>6 DEF StartupStep, RefreshStep

----------------------------------------------------------------------------
(* The media cache.                                                         *)

\* A step that leaves the media cache and its channel alone.
LEMMA MediaStill ==
  ASSUME MediaInv, UNCHANGED <<latest, saved>>,
         mail'["media"] = mail["media"], lapsed'["media"] = lapsed["media"]
  PROVE  MediaInv'
BY DEF MediaInv, LastOf

\* Every step keeps the newest grid of a tab that did not lapse the last of its
\* tab in the media cache's channel, or in the cache.
LEMMA MediaStep ==
  ASSUME TypeInv, MediaInv, [Next]_vars
  PROVE  MediaInv'
<1> DEFINE q == mail["media"]
<1>0. /\ TypeOK /\ "media" \in Subscribers /\ Listening("media")
      /\ q \in Seq(Update) /\ Len(q) \in Nat /\ DOMAIN q = 1 .. Len(q)
  BY DEF TypeInv, TypeOK, Subscribers, Listening
<1>1. ASSUME NEW u \in Update, Emit(u), UNCHANGED saved PROVE MediaInv'
  <2> SUFFICES ASSUME NEW t \in Tabs \ lapsed'["media"]
               PROVE  \/ \E n \in DOMAIN q' : LastOf(q', t, n) /\ q'[n].grid = latest'[t]
                      \/ saved'[t] = latest'[t] /\ \A m \in DOMAIN q' : q'[m].tab # t
    BY DEF MediaInv
  <2>1. CASE t = u.tab
    <3> DEFINE k == IF Full("media") THEN Tail(q) ELSE q
    <3>1. k \in Seq(Update) /\ q' = Append(k, u)
      BY <1>0, <1>1, EmitMail
    <3> HIDE DEF k
    <3>2. Len(k) + 1 \in DOMAIN q' /\ DOMAIN q' = 1 .. Len(k) + 1 /\ q'[Len(k) + 1] = u /\ Len(k) \in Nat
      BY <3>1, AppendProperties
    <3>3. LastOf(q', t, Len(k) + 1)
      BY <2>1, <3>2 DEF LastOf
    <3>4. latest'[t] = u.grid
      BY <1>0, <1>1, <2>1, EmitHistory
    <3> QED BY <3>2, <3>3, <3>4
  <2>2. CASE t # u.tab
    <3>1. t \notin lapsed["media"] /\ ~Full("media") /\ latest'[t] = latest[t]
      BY <1>0, <1>1, <2>2, EmitHistory
    <3>2. q' = Append(q, u)
      BY <1>0, <1>1, <3>1, EmitMail
    <3>3. /\ DOMAIN q' = 1 .. Len(q) + 1 /\ q'[Len(q) + 1] = u
          /\ \A n \in DOMAIN q : q'[n] = q[n] /\ n \in DOMAIN q'
          /\ \A n \in DOMAIN q' : n \in DOMAIN q \/ n = Len(q) + 1
      <4> HIDE DEF q
      <4>1. /\ DOMAIN q' = 1 .. Len(q) + 1 /\ q'[Len(q) + 1] = u
            /\ \A n \in 1 .. Len(q) : q'[n] = q[n]
        BY <1>0, <3>2, AppendProperties
      <4> QED BY <1>0, <4>1
    <3>4. CASE \E n \in DOMAIN q : LastOf(q, t, n) /\ q[n].grid = latest[t]
      <4>1. PICK n \in DOMAIN q : LastOf(q, t, n) /\ q[n].grid = latest[t]
        BY <3>4
      <4>2. n \in DOMAIN q' /\ LastOf(q', t, n) /\ q'[n].grid = latest'[t]
        BY <2>2, <3>1, <3>3, <4>1 DEF LastOf
      <4> QED BY <4>2
    <3>5. CASE saved[t] = latest[t] /\ \A m \in DOMAIN q : q[m].tab # t
      BY <1>1, <2>2, <3>1, <3>3, <3>5
    <3>6. t \in Tabs \ lapsed["media"]
      BY <3>1
    <3> QED BY <3>4, <3>5, <3>6 DEF MediaInv
  <2> QED BY <2>1, <2>2
<1>2. CASE SaveTab
  <2>1. /\ q # <<>> /\ q' = Tail(q) /\ UNCHANGED <<latest, lapsed>>
        /\ saved' = [saved EXCEPT ![Head(q).tab] = Head(q).grid]
    BY <1>0, <1>2 DEF SaveTab, Take, TypeOK, history
  <2>2. /\ Head(q) = q[1] /\ Head(q) \in Update /\ Len(q) \in Nat \ {0}
        /\ DOMAIN q' = 1 .. Len(q) - 1
        /\ \A n \in 1 .. Len(q) - 1 : q'[n] = q[n + 1]
    <3> HIDE DEF q
    <3> QED BY <1>0, <2>1, HeadTailProperties
  <2>3. /\ Head(q).tab \in Tabs /\ saved'[Head(q).tab] = Head(q).grid
        /\ \A t \in Tabs : t # Head(q).tab => saved'[t] = saved[t]
    BY <1>0, <2>1, <2>2 DEF TypeOK, Update
  <2> SUFFICES ASSUME NEW t \in Tabs \ lapsed["media"]
               PROVE  \/ \E n \in DOMAIN q' : LastOf(q', t, n) /\ q'[n].grid = latest[t]
                      \/ saved'[t] = latest[t] /\ \A m \in DOMAIN q' : q'[m].tab # t
    BY <2>1 DEF MediaInv
  <2> HIDE DEF q
  <2>4. ASSUME NEW n \in DOMAIN q, LastOf(q, t, n), q[n].grid = latest[t], n = 1
        PROVE  saved'[t] = latest[t] /\ \A m \in DOMAIN q' : q'[m].tab # t
    <3>1. saved'[t] = latest[t]
      BY <2>2, <2>3, <2>4 DEF LastOf
    <3>2. \A m \in DOMAIN q' : m + 1 \in DOMAIN q /\ m + 1 > 1 /\ q'[m] = q[m + 1]
      BY <1>0, <2>2
    <3> QED BY <2>4, <3>1, <3>2 DEF LastOf
  <2>5. ASSUME NEW n \in DOMAIN q, LastOf(q, t, n), q[n].grid = latest[t], n # 1
        PROVE  \E k \in DOMAIN q' : LastOf(q', t, k) /\ q'[k].grid = latest[t]
    <3>1. n - 1 \in DOMAIN q' /\ q'[n - 1] = q[n]
      BY <1>0, <2>2, <2>5
    <3>2. \A m \in DOMAIN q' : m > n - 1 => m + 1 \in DOMAIN q /\ m + 1 > n /\ q'[m] = q[m + 1]
      BY <1>0, <2>2, <2>5
    <3>3. LastOf(q', t, n - 1)
      BY <2>5, <3>1, <3>2 DEF LastOf
    <3> QED BY <2>5, <3>1, <3>3
  <2>6. ASSUME saved[t] = latest[t], \A m \in DOMAIN q : q[m].tab # t
        PROVE  saved'[t] = latest[t] /\ \A m \in DOMAIN q' : q'[m].tab # t
    <3>1. \A m \in DOMAIN q' : m + 1 \in DOMAIN q /\ q'[m] = q[m + 1]
      BY <1>0, <2>2
    <3>2. Head(q).tab # t
      BY <1>0, <2>2, <2>6
    <3> QED BY <2>3, <2>6, <3>1, <3>2
  <2>7. \/ \E n \in DOMAIN q : LastOf(q, t, n) /\ q[n].grid = latest[t]
        \/ saved[t] = latest[t] /\ \A m \in DOMAIN q : q[m].tab # t
    BY DEF MediaInv, q
  <2> QED BY <2>4, <2>5, <2>6, <2>7
<1>3. CASE BufferInsert \/ Disconnect
  <2>1. UNCHANGED <<latest, saved>>
    BY <1>3 DEF BufferInsert, Disconnect, history
  <2>2. mail'["media"] = mail["media"] /\ lapsed'["media"] = lapsed["media"]
    BY <1>0, <1>3 DEF BufferInsert, Disconnect, Take, TypeOK, history, Subscribers
  <2> QED BY <2>1, <2>2, MediaStill
<1>4. CASE ReadGrids \/ ClearOnLag \/ Drain \/ Subscribe \/ UNCHANGED vars
  <2>1. UNCHANGED <<mail, latest, lapsed, saved>>
    BY <1>4 DEF ReadGrids, ClearOnLag, Drain, Subscribe, vars, history, busVars
  <2> QED BY <2>1, MediaStill
<1>5. ASSUME NEW t \in Tabs, NEW s \in Sources, WriteUpdate(t, s) PROVE MediaInv'
  BY <1>5, MediaStill DEF WriteUpdate, busVars
<1>6. CASE StartupStep \/ RefreshStep \/ RefreshOnDemand
  BY <1>1, <1>6, Senders, MediaStill
<1> QED BY <1>2, <1>3, <1>4, <1>5, <1>6 DEF Next, SessionStep

\* The media cache that has read everything holds the newest grid of every tab
\* that was announced after its last lag, for any tabs, capacity, refreshes and
\* clients.
THEOREM MediaCacheIsCurrent == Spec => []MediaCacheCatchesUp
<1>1. Init => MediaInv
  BY DEF Init, MediaInv, Subscribers
<1>2. TypeInv /\ MediaInv /\ [Next]_vars => MediaInv'
  BY MediaStep
<1>3. MediaInv => MediaCacheCatchesUp
  <2> SUFFICES ASSUME MediaInv, mail["media"] = <<>>, NEW t \in Tabs \ lapsed["media"]
               PROVE  saved[t] = latest[t]
    BY DEF MediaCacheCatchesUp
  <2>1. DOMAIN mail["media"] = {}
    OBVIOUS
  <2> QED BY <2>1 DEF MediaInv
<1> QED BY <1>1, <1>2, <1>3, TypeCorrect, PTL DEF Spec

----------------------------------------------------------------------------
(* The grids in memory.                                                     *)

\* What is published was found by a search or made of what was found.
LEMMA PublishedStep ==
  ASSUME TypeInv, Published, [Next]_vars
  PROVE  Published'
<1>1. ASSUME NEW r \in Refreshes, SearchEnds(r) PROVE Published'
  <2>1. PICK found \in {None, Grid(r, 0)} :
          IF found = None THEN UNCHANGED writers ELSE Publish(r, found)
    BY <1>1 DEF SearchEnds
  <2>2. CASE found = None
    BY <2>1, <2>2 DEF Published
  <2>3. CASE found # None
    BY <2>1, <2>3 DEF Published, Publish
  <2> QED BY <2>2, <2>3
<1>2. ASSUME NEW r \in Refreshes, BulkPass(r) \/ EnrichEntry(r) PROVE Published'
  <2>1. writers' = writers \/ \E n \in Nat \ {0} : Publish(r, Grid(r, n))
    <3>1. CASE BulkPass(r)
      BY <3>1 DEF BulkPass
    <3>2. CASE EnrichEntry(r)
      <4>1. done[r] + 1 \in Nat \ {0}
        BY CatalogAssumption DEF TypeInv, TypeOK
      <4> QED BY <3>2, <4>1 DEF EnrichEntry
    <3> QED BY <1>2, <3>1, <3>2
  <2>2. \A n \in Nat \ {0} : Grid(r, n) # None
    BY DEF Grid, None
  <2> QED BY <2>1, <2>2 DEF Published, Publish
<1>3. ASSUME NEW w \in writers, InsertGrid(w) \/ EmitGrid(w) PROVE Published'
  <2>1. \A x \in writers' : \E y \in writers : x.grid = y.grid
    BY <1>3 DEF InsertGrid, EmitGrid, TypeInv, TypeOK
  <2> QED BY <2>1 DEF Published
<1>4. ASSUME UNCHANGED writers PROVE Published'
  BY <1>4 DEF Published
<1>5. ASSUME NEW t \in Tabs,
             \/ ReadCache(t) \/ AnnounceCache(t) \/ Enlist(t) \/ CheckReady(t)
             \/ AwaitReady(t) \/ RefreshAtStart(t)
      PROVE  UNCHANGED writers
  BY <1>5 DEF ReadCache, AnnounceCache, Enlist, CheckReady, AwaitReady, RefreshAtStart
<1>6. ASSUME NEW t \in Tabs, NEW s \in Sources, WriteUpdate(t, s) PROVE UNCHANGED writers
  BY <1>6 DEF WriteUpdate
<1>7. CASE \/ SetReady \/ NotifyWaiters \/ SaveTab \/ ReadGrids \/ BufferInsert \/ ClearOnLag \/ Drain
           \/ Subscribe \/ Disconnect \/ RefreshOnDemand \/ UNCHANGED vars
  BY <1>4, <1>7 DEF SetReady, NotifyWaiters, SaveTab, ReadGrids, BufferInsert, ClearOnLag, Drain,
                    Subscribe, Disconnect, RefreshOnDemand, vars
<1> QED BY <1>1, <1>2, <1>3, <1>4, <1>5, <1>6, <1>7 DEF Next, StartupStep, RefreshStep, SessionStep

\* A step changes the grid of a tab only for another grid.
LEMMA GridStep ==
  ASSUME TypeInv, Published, [Next]_vars, NEW tab \in Tabs, grids[tab] # None
  PROVE  grids'[tab] # None
<1>1. ASSUME NEW t \in Tabs, ReadCache(t) PROVE grids'[tab] # None
  BY <1>1 DEF ReadCache, TypeInv, TypeOK
<1>2. ASSUME NEW w \in writers, InsertGrid(w) PROVE grids'[tab] # None
  BY <1>2 DEF InsertGrid, Published, TypeInv, TypeOK
<1>3. ASSUME UNCHANGED grids PROVE grids'[tab] # None
  BY <1>3
<1>4. ASSUME NEW t \in Tabs,
             AnnounceCache(t) \/ Enlist(t) \/ CheckReady(t) \/ AwaitReady(t) \/ RefreshAtStart(t)
      PROVE  UNCHANGED grids
  BY <1>4 DEF AnnounceCache, Enlist, CheckReady, AwaitReady, RefreshAtStart, storeVars
<1>5. ASSUME NEW r \in Refreshes, SearchEnds(r) \/ BulkPass(r) \/ EnrichEntry(r) PROVE UNCHANGED grids
  BY <1>5 DEF SearchEnds, BulkPass, EnrichEntry, storeVars
<1>6. ASSUME NEW w \in writers, EmitGrid(w) PROVE UNCHANGED grids
  BY <1>6 DEF EmitGrid
<1>7. ASSUME NEW t \in Tabs, NEW s \in Sources, WriteUpdate(t, s) PROVE UNCHANGED grids
  BY <1>7 DEF WriteUpdate, storeVars
<1>8. CASE \/ SetReady \/ NotifyWaiters \/ SaveTab \/ ReadGrids \/ BufferInsert \/ ClearOnLag \/ Drain
           \/ Subscribe \/ Disconnect \/ RefreshOnDemand \/ UNCHANGED vars
  BY <1>3, <1>8 DEF SetReady, NotifyWaiters, SaveTab, ReadGrids, BufferInsert, ClearOnLag, Drain,
                    Subscribe, Disconnect, RefreshOnDemand, storeVars, vars
<1> QED BY <1>1, <1>2, <1>3, <1>4, <1>5, <1>6, <1>7, <1>8 DEF Next, StartupStep, RefreshStep, SessionStep

\* Because an empty search result is not published, no tab that has a grid ever
\* loses it, whatever refreshes fail and in whatever order their snapshots are
\* published.
THEOREM GridsAreKept == Spec => GridsKept
<1>1. Init => Published
  BY DEF Init, Published
<1>2. TypeInv /\ Published /\ [Next]_vars => Published'
  BY PublishedStep
<1>3. TypeInv /\ Published /\ [Next]_vars => [\A t \in Tabs : grids[t] # None => grids'[t] # None]_vars
  BY GridStep
<1> QED BY <1>1, <1>2, <1>3, TypeCorrect, PTL DEF Spec, GridsKept

----------------------------------------------------------------------------
(* The client.                                                              *)

ClientInv == Session /\ OnItsWay

\* A step that leaves the client's side alone.
LEMMA ClientStill ==
  ASSUME ClientInv, UNCHANGED <<lagged, latest, owed, client, buffer, batch>>,
         mail'["client"] = mail["client"], lapsed'["client"] = lapsed["client"]
  PROVE  ClientInv'
BY DEF ClientInv, Session, OnItsWay, Newest

\* Appending adds one element to a queue.
LEMMA AppendRange ==
  ASSUME NEW S, NEW q \in Seq(S), NEW e \in S
  PROVE  Range(q) \subseteq Range(Append(q, e)) /\ e \in Range(Append(q, e))
<1>1. /\ DOMAIN Append(q, e) = 1 .. Len(q) + 1 /\ DOMAIN q = 1 .. Len(q) /\ Len(q) \in Nat
      /\ \A n \in 1 .. Len(q) : Append(q, e)[n] = q[n]
      /\ Append(q, e)[Len(q) + 1] = e
  BY AppendProperties
<1> QED BY <1>1 DEF Range

\* Taking the first message leaves the others.
LEMMA TailRange ==
  ASSUME NEW S, NEW q \in Seq(S), q # <<>>
  PROVE  Head(q) \in S /\ Range(q) \subseteq Range(Tail(q)) \cup {Head(q)}
<1>1. /\ Head(q) \in S /\ Head(q) = q[1] /\ Len(q) \in Nat \ {0}
      /\ DOMAIN q = 1 .. Len(q) /\ DOMAIN Tail(q) = 1 .. Len(q) - 1
      /\ \A n \in 1 .. Len(q) - 1 : Tail(q)[n] = q[n + 1]
  BY HeadTailProperties
<1>2. ASSUME NEW n \in DOMAIN q, n # 1 PROVE n - 1 \in DOMAIN Tail(q) /\ Tail(q)[n - 1] = q[n]
  BY <1>1, <1>2
<1> QED BY <1>1, <1>2 DEF Range

\* Every step keeps the newest grid of a tab that did not lapse on its way to the
\* client.
LEMMA ClientStep ==
  ASSUME TypeInv, ClientInv, [Next]_vars
  PROVE  ClientInv'
<1> DEFINE q == mail["client"]
<1>0. /\ TypeOK /\ "client" \in Subscribers /\ q \in Seq(Update)
      /\ owed \subseteq Tabs /\ batch \subseteq Update /\ buffer \subseteq Update
  BY DEF TypeInv, TypeOK, Subscribers
<1>1. ASSUME NEW u \in Update, Emit(u), UNCHANGED <<buffer, batch, client>> PROVE ClientInv'
  <2>1. CASE client = "none"
    <3>1. /\ q' = q /\ owed' = {} /\ ~lagged'
      BY <1>0, <1>1, <2>1, EmitMail DEF Listening, ClientInv, Session, Emit
    <3> QED BY <1>1, <2>1, <3>1 DEF ClientInv, Session, OnItsWay
  <2>2. CASE client # "none"
    <3>1. Session'
      BY <1>1, <2>2 DEF ClientInv, Session
    <3>2. Listening("client") /\ owed' = owed \cup {u.tab}
      BY <1>1, <2>2 DEF Listening, Emit
    <3> SUFFICES ASSUME NEW t \in owed' \ lapsed'["client"]
                 PROVE  \/ \E x \in Range(q') \cup batch : Newest(t, x)'
                        \/ ~lagged' /\ \E x \in buffer : Newest(t, x)'
      BY <1>1, <3>1 DEF ClientInv, OnItsWay
    <3>3. CASE t = u.tab
      <4> DEFINE k == IF Full("client") THEN Tail(q) ELSE q
      <4>1. k \in Seq(Update) /\ q' = Append(k, u)
        BY <1>0, <1>1, <3>2, EmitMail
      <4> HIDE DEF k
      <4>2. u \in Range(q')
        BY <4>1, AppendRange
      <4>3. Newest(t, u)'
        BY <1>0, <1>1, <3>3, EmitHistory DEF Newest
      <4> QED BY <4>2, <4>3
    <3>4. CASE t # u.tab
      <4>1. t \in owed /\ t \in Tabs
        BY <1>0, <3>2, <3>4
      <4>2. t \notin lapsed["client"] /\ ~Full("client") /\ latest'[t] = latest[t]
        BY <1>0, <1>1, <3>2, <3>4, <4>1, EmitHistory
      <4>3. q' = Append(q, u) /\ lagged' = lagged
        BY <1>0, <1>1, <3>2, <4>2, EmitMail DEF Emit, TypeOK
      <4>4. Range(q) \subseteq Range(q')
        <5> HIDE DEF q
        <5> QED BY <1>0, <4>3, AppendRange
      <4>5. \A x : Newest(t, x) => Newest(t, x)'
        BY <4>2 DEF Newest
      <4>6. \/ \E x \in Range(q) \cup batch : Newest(t, x)
            \/ ~lagged /\ \E x \in buffer : Newest(t, x)
        BY <4>1, <4>2 DEF ClientInv, OnItsWay
      <4> HIDE DEF q
      <4> QED BY <4>3, <4>4, <4>5, <4>6
    <3> QED BY <3>3, <3>4
  <2> QED BY <2>1, <2>2
<1>2. CASE SaveTab
  <2>1. /\ q' = q /\ UNCHANGED <<lagged, latest, owed, lapsed, client, buffer, batch>>
    BY <1>0, <1>2 DEF SaveTab, Take, TypeOK, batchVars, sessionVars, history
  <2> QED BY <2>1, ClientStill
<1>3. CASE ReadGrids
  <2>1. /\ client = "subscribed" /\ client' = "on"
        /\ UNCHANGED <<mail, lagged, latest, owed, lapsed, buffer>>
    BY <1>3 DEF ReadGrids, busVars, history
  <2>2. buffer = {} /\ batch = {}
    BY <2>1 DEF ClientInv, Session
  <2>3. Session'
    BY <2>1 DEF Session
  <2>4. OnItsWay'
    BY <2>1, <2>2 DEF ClientInv, OnItsWay, Newest
  <2> QED BY <2>3, <2>4 DEF ClientInv
<1>4. CASE BufferInsert
  <2>1. /\ client = "on" /\ ~lagged /\ q # <<>> /\ q' = Tail(q) /\ buffer' = buffer \cup {Head(q)}
        /\ UNCHANGED <<lagged, latest, owed, lapsed, client, batch>>
    BY <1>0, <1>4 DEF BufferInsert, AtSelect, Take, TypeOK, sessionVars, history
  <2>2. Range(q) \subseteq Range(q') \cup {Head(q)}
    <3> HIDE DEF q
    <3> QED BY <1>0, <2>1, TailRange
  <2>3. Session'
    BY <2>1 DEF Session
  <2>4. OnItsWay'
    BY <2>1, <2>2 DEF ClientInv, OnItsWay, Newest
  <2> QED BY <2>3, <2>4 DEF ClientInv
<1>5. CASE ClearOnLag
  <2>1. /\ client = "on" /\ lagged /\ ~lagged' /\ UNCHANGED <<mail, latest, owed, lapsed, client, batch>>
    BY <1>5 DEF ClearOnLag, AtSelect, sessionVars, history
  <2> QED BY <2>1 DEF ClientInv, Session, OnItsWay, Newest
<1>6. CASE Drain
  <2>1. /\ client = "on" /\ batch = {} /\ batch' = buffer /\ buffer' = {}
        /\ UNCHANGED <<mail, lagged, latest, owed, lapsed, client>>
    BY <1>6 DEF Drain, AtSelect, busVars, sessionVars, history
  <2> QED BY <2>1 DEF ClientInv, Session, OnItsWay, Newest
<1>7. ASSUME NEW t \in Tabs, NEW s \in Sources, WriteUpdate(t, s) PROVE ClientInv'
  <2> DEFINE written == {u \in batch : u.tab = t /\ u.source = s}
  <2>1. /\ client = "on" /\ batch' = batch \ written
        /\ owed' = IF latest[t] \in {u.grid : u \in written} THEN owed \ {t} ELSE owed
        /\ UNCHANGED <<mail, lagged, latest, lapsed, client, buffer>>
    BY <1>7 DEF WriteUpdate, busVars
  <2>2. ASSUME NEW o \in owed' \ lapsed["client"], NEW x \in batch, Newest(o, x) PROVE x \in batch'
    BY <2>1, <2>2 DEF Newest
  <2>3. owed' \subseteq owed
    BY <2>1
  <2>4. OnItsWay'
    BY <2>1, <2>2, <2>3 DEF ClientInv, OnItsWay, Newest
  <2> QED BY <2>1, <2>4 DEF ClientInv, Session
<1>8. CASE Subscribe
  BY <1>8 DEF Subscribe, busVars, batchVars, history, ClientInv, Session, OnItsWay, Newest
<1>9. CASE Disconnect
  <2>1. /\ q' = <<>> /\ ~lagged' /\ owed' = {} /\ buffer' = {} /\ batch' = {}
    BY <1>0, <1>9 DEF Disconnect, TypeOK
  <2> QED BY <2>1 DEF ClientInv, Session, OnItsWay
<1>10. CASE StartupStep \/ RefreshStep \/ RefreshOnDemand
  BY <1>1, <1>10, Senders, ClientStill
<1>11. CASE UNCHANGED vars
  BY <1>11, ClientStill DEF vars, busVars, batchVars, sessionVars, history
<1> QED BY <1>2, <1>3, <1>4, <1>5, <1>6, <1>7, <1>8, <1>9, <1>10, <1>11 DEF Next, SessionStep

\* The newest grid of a tab announced after the client's last lag is on its way
\* until it has been sent, for any tabs, capacity, refreshes and clients: what
\* the batcher throws away on a lag is never that.
THEOREM NewestIsSent == Spec => []NewestReachesTheClient
<1>1. Init => ClientInv
  BY DEF Init, ClientInv, Session, OnItsWay, Subscribers
<1>2. TypeInv /\ ClientInv /\ [Next]_vars => ClientInv'
  BY ClientStep
<1>3. ClientInv => NewestReachesTheClient
  BY DEF ClientInv, OnItsWay, Newest, NewestReachesTheClient
<1> QED BY <1>1, <1>2, <1>3, TypeCorrect, PTL DEF Spec
=============================================================================
