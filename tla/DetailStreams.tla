---------------------------- MODULE DetailStreams ----------------------------
(***************************************************************************)
(* The streams of the detail card, from the Enter key to the list on       *)
(* screen: the request goroutine of the client (requests.go, FindStreams), *)
(* the runtime's provider fan-out with its cache (pipeline/resolve.rs) and *)
(* the card's handlers (handlers_catalog.go, keys_detail.go).              *)
(*                                                                         *)
(* The fan-out is awaited inside run_ipc_loop, which is also the only      *)
(* reader of the event channel.  So its partials wait in that channel      *)
(* until the request has been acknowledged, and then travel on the same    *)
(* pipe behind the acknowledgement.  In the client the acknowledgement     *)
(* wakes the request's goroutine, while the read loop goes on with the     *)
(* partials: the two meet again in the message channel of the UI.          *)
(*                                                                         *)
(* A stream is a record: its infohash, its resolution tier and its seeder  *)
(* count, Unknown when the provider gave none.                             *)
(***************************************************************************)
EXTENDS DetailCard, Naturals, Sequences, SequencesExt

CONSTANTS
  Episodes,   \* (season, episode) pairs; movies use {0, 0}
  Providers,  \* plugins that find streams
  Offers,     \* Offers[t][p]: what provider p knows of title t
  Idents,     \* Idents[t]: the identifiers a request for t carries
  Configs,    \* the streaming settings the user may choose
  Unknown,    \* no seeder count
  MaxAsks     \* bound: requests

ASSUME BoundOfAsks == MaxAsks \in Nat
ASSUME SettingsTypes == \A c \in Configs : c.max \in Nat

Asks == 1 .. MaxAsks
Tiers == {"Uhd4k", "Hd1080", "Hd720", "Sd", "Unknown"}
Streams == UNION {Offers[t][p] : t \in Titles, p \in Providers}

VARIABLES
  shown,         \* EpisodeStreams: the list of each key
  busy,          \* EpisodeStreamsInFlight
  wrong,         \* EpisodeStreamsError
  out,           \* messages for the UI, in order
  asker,         \* the goroutine of each request
  wanted,        \* what each request asks for
  asked,         \* requests on their way to the runtime
  serving,       \* the request the runtime's loop is awaiting
  snap,          \* the streaming settings it read when it began
  pending,       \* providers that have not answered yet
  partials,      \* partials_buffer: the partials of this fan-out
  streamsCache,  \* STREAMS_CACHE
  events,        \* the event channel
  sent           \* history: the partials sent for each request

listVars == <<screen, shown, busy, wrong>>
clientVars == <<out, asker, wanted, asked>>
fanVars == <<serving, snap, pending, partials>>
streamVars == <<listVars, clientVars, fanVars, streamsCache, events, sent>>

-----------------------------------------------------------------------------
(* Filtering, ranking and deduplication of one provider's answer.          *)

\* QualityScore: resolution weight and log-scaled seeders; the parts that come
\* from the release name are the same for every stream here.
Weight == [Sd |-> 100, Unknown |-> 50, Hd720 |-> 200, Hd1080 |-> 300, Uhd4k |-> 400]
SeederPoints(n) == CASE n = Unknown \/ n = 0 -> 0
                     [] n \in 1 .. 9         -> 22 + 6 * n
                     [] n \in 10 .. 99       -> 76 + (n - 10)
                     [] OTHER                -> 150
Score(s) == Weight[s.tier] + SeederPoints(s.seeders)

\* The seeder floor, the resolution allowlist and the unknown-resolution gate.
Passes(c, s) ==
  /\ IF s.seeders = Unknown THEN ~c.require_seeders
                            ELSE c.min_seeders = 0 \/ s.seeders > c.min_seeders
  /\ s.tier \in c.tiers \cup {"Unknown"}
  /\ c.require_resolution => s.tier # "Unknown"

\* The streams of some partials, and the infohashes that tell streams apart.
Listed(ps) == UNION {Range(ps[x]) : x \in DOMAIN ps}
Hashes(ps) == {s.hash : s \in Listed(ps)}

\* Mutant: duplicates are looked for within one provider's answer only.
UnseenByProvider(s, seen) == TRUE

\* One stream per infohash over all providers of a fan-out: the first keeps it.
Unseen(s, seen) == s.hash \notin seen

\* Best first, one stream per infohash, at most max: the answers that may come of
\* a provider's streams S.  Streams of equal score come in any order (theirs is
\* the plugin's), so what is left out is no better than what is kept.
Offered(c, S, seen) ==
  LET kept == {s \in S : Passes(c, s) /\ Unseen(s, seen)}
  IN {q \in BoundedSeq(kept, c.max) :
        /\ \A i, j \in DOMAIN q : i < j => Score(q[i]) >= Score(q[j]) /\ q[i].hash # q[j].hash
        /\ \A s \in kept :
             \/ \E i \in DOMAIN q : q[i].hash = s.hash /\ Score(q[i]) >= Score(s)
             \/ Len(q) = c.max /\ \A i \in DOMAIN q : Score(q[i]) >= Score(s)}

\* Mutant: every request without entry_id shares one slot.
CacheKeyOfEntry(r) == [by |-> "eid", id |-> Idents[r.title].entry_id, key |-> r.key]

\* streams_cache_key: the best identifier the request carries, with season and
\* episode; "name" stands for title, year and kind.  A TMDB number is taken
\* without its kind, entries may share any of the five, and a request that
\* carries none is not cached.
CacheKey(r) ==
  LET i == Idents[r.title]
      Slot(by, id) == [by |-> by, id |-> id, key |-> r.key]
  IN IF i.imdb_id # Nothing THEN Slot("imdb", i.imdb_id)
     ELSE IF i.external_imdb # Nothing THEN Slot("imdb", i.external_imdb)
     ELSE IF i.tmdb_id # Nothing THEN Slot("tmdb", i.tmdb_id)
     ELSE IF i.entry_id # Nothing THEN Slot("eid", i.entry_id)
     ELSE IF i.name # Nothing THEN Slot("title", i.name)
     ELSE Nothing

-----------------------------------------------------------------------------
(* State.                                                                  *)

Idle == 0            \* serving no request
Partial(n, q) == [what |-> "partial", ask |-> n, key |-> wanted[n].key, streams |-> q]
Complete(n, failed) == [what |-> "complete", ask |-> n, key |-> wanted[n].key, failed |-> failed]
Loaded(n, failed) == [what |-> "loaded", ask |-> n, key |-> wanted[n].key, failed |-> failed]
Messages ==
  [what : {"partial"}, ask : Asks, key : Episodes, streams : Seq(Streams)]
    \cup [what : {"complete", "loaded"}, ask : Asks, key : Episodes, failed : BOOLEAN]

StreamsTypeOK ==
  /\ screen \in Titles \cup {Nothing}
  /\ shown \in [Episodes -> Seq(Streams)]
  /\ busy \subseteq Episodes /\ wrong \subseteq Episodes
  /\ out \in Seq(Messages) /\ events \in Seq(Messages)
  /\ asker \in [Asks -> {"none", "sent", "acked", "done"}]
  /\ wanted \in Seq([title : Titles, key : Episodes]) /\ Len(wanted) <= MaxAsks
  /\ asked \subseteq DOMAIN wanted
  /\ serving \in {Idle} \cup DOMAIN wanted
  /\ pending \subseteq Providers
  /\ partials \in Seq(Seq(Streams))
  /\ IF serving = Idle THEN snap = Nothing /\ pending = {} /\ partials = <<>>
                       ELSE snap \in Configs
  /\ \A k \in DOMAIN streamsCache : streamsCache[k] \in Seq(Seq(Streams))
  /\ sent \in [Asks -> Seq(Seq(Streams))]

StreamsInit ==
  /\ screen = Nothing /\ shown = [k \in Episodes |-> <<>>] /\ busy = {} /\ wrong = {}
  /\ out = <<>> /\ asker = [n \in Asks |-> "none"] /\ wanted = <<>> /\ asked = {}
  /\ serving = Idle /\ snap = Nothing /\ pending = {} /\ partials = <<>>
  /\ streamsCache = <<>> /\ events = <<>> /\ sent = [n \in Asks |-> <<>>]

-----------------------------------------------------------------------------
(* The user.                                                               *)

\* Mutant: the spinners of the last card are kept.
VisitKeepingSpinners(t) ==
  /\ t # screen
  /\ screen' = t
  /\ shown' = [k \in Episodes |-> <<>>] /\ wrong' = {}
  /\ UNCHANGED <<busy, clientVars, fanVars, streamsCache, events, sent>>

\* openDetail: a card starts with empty maps; t = Nothing leaves the card.
Visit(t) ==
  /\ t # screen
  /\ screen' = t
  /\ shown' = [k \in Episodes |-> <<>>] /\ busy' = {} /\ wrong' = {}
  /\ UNCHANGED <<clientVars, fanVars, streamsCache, events, sent>>

\* Enter on an episode, or on the panel of streams with the cursor on none: the
\* list of the key is cleared and the request sent, whether or not one is in
\* flight.  A movie's key is {0, 0}.
Ask(k) ==
  /\ screen # Nothing /\ Len(wanted) < MaxAsks
  /\ LET n == Len(wanted) + 1 IN
     /\ wanted' = Append(wanted, [title |-> screen, key |-> k])
     /\ asker' = [asker EXCEPT ![n] = "sent"]
     /\ asked' = asked \cup {n}
  /\ shown' = [shown EXCEPT ![k] = <<>>] /\ busy' = busy \cup {k} /\ wrong' = wrong \ {k}
  /\ UNCHANGED <<screen, out, fanVars, streamsCache, events, sent>>

-----------------------------------------------------------------------------
(* The runtime.                                                            *)

Put(f, k, v) == [x \in DOMAIN f \cup {k} |-> IF x = k THEN v ELSE f[x]]

\* A run is cached when it found something and its request has a key.
CacheWith(r, ps) ==
  IF ps = <<>> \/ CacheKey(r) = Nothing THEN streamsCache ELSE Put(streamsCache, CacheKey(r), ps)

\* run_get_streams returns Response::Ok; a goroutine that has given up is gone.
Acknowledge(n) == asker' = [asker EXCEPT ![n] = IF @ = "sent" THEN "acked" ELSE @]

\* Mutant: the marker is sent first.
ReplayMarkerFirst(n, ps) ==
  /\ events' = events \o <<Complete(n, FALSE)>> \o [x \in DOMAIN ps |-> Partial(n, ps[x])]
  /\ sent' = [sent EXCEPT ![n] = ps]
  /\ Acknowledge(n)
  /\ UNCHANGED fanVars

Replay(n, ps) ==
  /\ events' = Append(events \o [x \in DOMAIN ps |-> Partial(n, ps[x])], Complete(n, FALSE))
  /\ sent' = [sent EXCEPT ![n] = ps]
  /\ Acknowledge(n)
  /\ UNCHANGED fanVars

FanOut(n) ==
  /\ serving' = n /\ snap' \in Configs /\ pending' = Providers /\ partials' = <<>>
  /\ UNCHANGED <<asker, events, sent>>

\* The loop reads the request: entries older than five minutes are dropped; a
\* cached run is replayed, else every provider is called.
Serve(n) ==
  /\ serving = Idle /\ n \in asked
  /\ asked' = asked \ {n}
  /\ \E old \in SUBSET DOMAIN streamsCache :
       streamsCache' = [k \in DOMAIN streamsCache \ old |-> streamsCache[k]]
  /\ LET k == CacheKey(wanted[n]) IN
     IF k # Nothing /\ k \in DOMAIN streamsCache' THEN Replay(n, streamsCache[k]) ELSE FanOut(n)
  /\ UNCHANGED <<listVars, out, wanted>>

ProviderAnswers(p) ==
  /\ serving # Idle /\ p \in pending
  /\ pending' = pending \ {p}
  /\ \E q \in Offered(snap, Offers[wanted[serving].title][p], Hashes(partials)) :
     IF q = <<>> THEN UNCHANGED <<partials, events, sent>>
     ELSE /\ partials' = Append(partials, q)
          /\ events' = Append(events, Partial(serving, q))
          /\ sent' = [sent EXCEPT ![serving] = Append(@, q)]
  /\ UNCHANGED <<listVars, clientVars, serving, snap, streamsCache>>

ProviderFails(p) ==
  /\ serving # Idle /\ p \in pending
  /\ pending' = pending \ {p}
  /\ UNCHANGED <<listVars, clientVars, serving, snap, partials, streamsCache, events, sent>>

\* Mutant: the marker reports any provider that has not answered.
FinishReportingLate ==
  /\ serving # Idle
  /\ streamsCache' = CacheWith(wanted[serving], partials)
  /\ events' = Append(events, Complete(serving, partials = <<>> \/ pending # {}))
  /\ Acknowledge(serving)
  /\ serving' = Idle /\ snap' = Nothing /\ pending' = {} /\ partials' = <<>>
  /\ UNCHANGED <<listVars, out, wanted, asked, sent>>

\* Every provider has answered, or 45 seconds have passed and the rest are
\* dropped.  Whatever was found is cached, the marker sent, the request
\* acknowledged.
Finish ==
  /\ serving # Idle
  /\ streamsCache' = CacheWith(wanted[serving], partials)
  /\ events' = Append(events, Complete(serving, partials = <<>>))
  /\ Acknowledge(serving)
  /\ serving' = Idle /\ snap' = Nothing /\ pending' = {} /\ partials' = <<>>
  /\ UNCHANGED <<listVars, out, wanted, asked, sent>>

\* The loop forwards an event, when it is not awaiting a handler.
Forward ==
  /\ serving = Idle /\ events # <<>>
  /\ out' = Append(out, Head(events)) /\ events' = Tail(events)
  /\ UNCHANGED <<listVars, asker, wanted, asked, fanVars, streamsCache, sent>>

-----------------------------------------------------------------------------
(* The client.                                                             *)

\* The goroutine wakes: the acknowledgement carries no streams.
Wake(n) ==
  /\ asker[n] = "acked"
  /\ asker' = [asker EXCEPT ![n] = "done"]
  /\ out' = Append(out, Loaded(n, FALSE))
  /\ UNCHANGED <<listVars, wanted, asked, fanVars, streamsCache, events, sent>>

Timeout(n) ==
  /\ asker[n] = "sent"
  /\ asker' = [asker EXCEPT ![n] = "done"]
  /\ out' = Append(out, Loaded(n, TRUE))
  /\ UNCHANGED <<listVars, wanted, asked, fanVars, streamsCache, events, sent>>

\* SortStreamsByQualityThenSeeders: here an unknown count is zero, and an
\* unknown resolution comes last.
Rank == [Unknown |-> 0, Sd |-> 2, Hd720 |-> 4, Hd1080 |-> 5, Uhd4k |-> 7]
Count(s) == IF s.seeders = Unknown THEN 0 ELSE s.seeders
Ahead(x, y) == \/ Rank[x.tier] > Rank[y.tier]
               \/ x.tier = y.tier /\ Count(x) > Count(y)
\* The sort is stable: there is one such list.
Sortings(q) ==
  {[i \in DOMAIN q |-> q[p[i]]] : p \in {p \in Bijection(DOMAIN q, DOMAIN q) :
     \A i, j \in DOMAIN q : i < j => \/ Ahead(q[p[i]], q[p[j]])
                                     \/ ~Ahead(q[p[j]], q[p[i]]) /\ p[i] < p[j]}}

OnLoaded(m) ==
  /\ busy' = busy \ {m.key}
  /\ wrong' = IF m.failed THEN wrong \cup {m.key} ELSE wrong \ {m.key}
  /\ shown' = IF m.failed THEN shown ELSE [shown EXCEPT ![m.key] = <<>>]

OnPartial(m) ==
  /\ shown' = [shown EXCEPT ![m.key] = @ \o m.streams]
  /\ UNCHANGED <<busy, wrong>>

OnComplete(m) ==
  /\ busy' = busy \ {m.key}
  /\ wrong' = IF m.failed /\ shown[m.key] = <<>> THEN wrong \cup {m.key} ELSE wrong
  /\ \E q \in Sortings(shown[m.key]) : shown' = [shown EXCEPT ![m.key] = q]

\* Update: no handler looks at the title; without a card all are ignored.
Handle ==
  /\ out # <<>>
  /\ out' = Tail(out)
  /\ LET m == Head(out) IN
     IF screen = Nothing THEN UNCHANGED <<shown, busy, wrong>>
     ELSE CASE m.what = "loaded"   -> OnLoaded(m)
            [] m.what = "partial"  -> OnPartial(m)
            [] m.what = "complete" -> OnComplete(m)
  /\ UNCHANGED <<screen, asker, wanted, asked, fanVars, streamsCache, events, sent>>

-----------------------------------------------------------------------------
UserStep == (\E t \in Titles \cup {Nothing} : Visit(t)) \/ (\E k \in Episodes : Ask(k))
RuntimeStep ==
  \/ \E n \in DOMAIN wanted : Serve(n)
  \/ \E p \in Providers : ProviderAnswers(p) \/ ProviderFails(p)
  \/ Finish \/ Forward
ClientStep == (\E n \in DOMAIN wanted : Wake(n) \/ Timeout(n)) \/ Handle
StreamsNext == UserStep \/ RuntimeStep \/ ClientStep

StreamsSpec == StreamsInit /\ [][StreamsNext]_streamVars

\* The loop goes on, the fan-out ends by its deadline at the latest, and the
\* client's goroutines and its UI go on.
StreamsProgress ==
  \/ \E n \in DOMAIN wanted : Serve(n) \/ Wake(n)
  \/ Finish \/ Forward \/ Handle
FairStreamsSpec == StreamsSpec /\ WF_streamVars(StreamsProgress)

-----------------------------------------------------------------------------
(* Properties.                                                             *)

Flow == out \o events       \* what is on its way to the UI
About(n, w) == {x \in DOMAIN Flow : Flow[x].ask = n /\ Flow[x].what = w}

\* However many providers know a release, and in whatever order they answer, a
\* request is sent it once (resolve.rs, seen_keys).
EachStreamOnce ==
  \A n \in Asks : \A x, y \in DOMAIN sent[n] :
    \A i \in DOMAIN sent[n][x], j \in DOMAIN sent[n][y] :
      sent[n][x][i].hash = sent[n][y][j].hash => x = y /\ i = j

\* The identifiers a request for t carries, and the titles that share one with it.
Carried(t) ==
  LET i == Idents[t] IN
  {x \in {<<"imdb", i.imdb_id>>, <<"imdb", i.external_imdb>>, <<"tmdb", i.tmdb_id>>,
           <<"eid", i.entry_id>>, <<"title", i.name>>} : x[2] # Nothing}
Alike(t) == {t} \cup {u \in Titles : Carried(u) \cap Carried(t) # {}}

\* Everything a request is sent comes of one run, for its own title or for one
\* that carries an identifier in common with it: whatever the cache holds, no
\* unrelated title's run is replayed (resolve.rs 28-43, "all movies shared one
\* slot and the first cached fetch poisoned every subsequent picker open").
StreamsAreOfTheTitle ==
  \A n \in DOMAIN wanted : \E t \in Alike(wanted[n].title) :
    Listed(sent[n]) \subseteq UNION {Offers[t][p] : p \in Providers}

\* The marker of a request comes once, after all of its streams: the order in
\* which the client sorts what it has (resolve.rs 594-607, handlers_catalog.go 242).
MarkerLast ==
  \A n \in DOMAIN wanted : \A x \in About(n, "complete") :
    /\ serving # n
    /\ \A y \in About(n, "partial") \cup About(n, "complete") : y <= x

\* The marker carries an error exactly when the request was sent no stream
\* (resolve.rs, "Carry an error string ONLY when the user got nothing at all").
ErrorOnlyWhenEmpty ==
  \A n \in DOMAIN wanted : \A x \in About(n, "complete") :
    Flow[x].failed <=> sent[n] = <<>>

\* The spinner of a row always stops, even when the card has been left and
\* opened again while the request was on its way.
SpinnerStops == \A k \in Episodes : (k \in busy) ~> (k \notin busy)
=============================================================================
