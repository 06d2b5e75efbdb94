--------------------------- MODULE DetailMetadata ---------------------------
(***************************************************************************)
(* The metadata of a detail card: the request the TUI sends when a card    *)
(* opens, the runtime's fan-out over metadata plugins (engine/metadata),   *)
(* its cache, and the partial answers applied to whichever card is open.   *)
(*                                                                         *)
(* "enrich" runs first: the ids it finds in other catalogues route the     *)
(* verbs after it, which run side by side.  A payload is a set of facts, of *)
(* which is kept by which plugin and for which title's request each was    *)
(* given.                                                                  *)
(***************************************************************************)
EXTENDS DetailCard, Naturals, Sequences

CONSTANTS
  Spaces, Ids,      \* id namespaces (IdSource), and ids
  Source,           \* Source[t]: the namespace of the id t is asked for with
  EntryId,          \* EntryId[t]: that id, without the prefix of its catalogue
  Accepts,          \* Accepts[t]: the entry id of t, and what follows a dash in it
  External,         \* External[t]: the ids in other catalogues that come with t
  Plugins, Addon,   \* metadata sources, and the rating addon among them
  Verbs,            \* "enrich", "ratings" and those that stop at a deadline
  Sources,          \* Sources[v][t]: the plugins SourceResolver lists for v and t's kind
  Needs,            \* Needs[v][p][t]: the namespaces p accepts for v, {} if any
  Bridges,          \* Bridges[p][t]: the ids p's enrich gives for t, right or wrong
  MaxOpens          \* bound: cards opened

PartialIds == UNION {[S -> Ids] : S \in SUBSET Spaces}

ASSUME DataTypes ==
  /\ Nothing \notin Titles
  /\ "imdb" \in Spaces
  /\ Source \in [Titles -> Spaces] /\ EntryId \in [Titles -> Ids]
  /\ Accepts \in [Titles -> SUBSET Ids] /\ \A t \in Titles : EntryId[t] \in Accepts[t]
  /\ External \in [Titles -> PartialIds]
  /\ Addon \in Plugins
  /\ {"enrich", "ratings"} \subseteq Verbs
  /\ Sources \in [Verbs -> [Titles -> SUBSET Plugins]]
  /\ \A t \in Titles : Sources["ratings"][t] \subseteq {Addon}
  /\ Needs \in [Verbs -> [Plugins -> [Titles -> SUBSET Spaces]]]
  /\ Bridges \in [Plugins -> [Titles -> PartialIds]]
  /\ MaxOpens \in Nat

Requests == 1 .. MaxOpens
Facts == [asked : Titles, by : Plugins]

VARIABLES
  view,     \* per verb, the card's FetchStatus and what it shows
  req,      \* the requests sent, by number: the title of each
  stage,    \* per request and verb: not begun, calling, ready (a partial), delivered
  due,      \* per request and verb: the plugins yet to answer
  found,    \* per request and verb: the facts heard, later the payload
  cache     \* MetadataCache: key to payload

cardVars == <<screen, view, req>>
runVars  == <<stage, due, found>>
vars == <<cardVars, runVars, cache>>

Blank == [v \in Verbs |-> [status |-> "pending", facts |-> {}]]
Keys == [verb : Verbs, space : Spaces, id : Ids]

TypeOK ==
  /\ screen \in Titles \cup {Nothing}
  /\ view \in [Verbs -> [status : {"pending", "empty", "loaded"}, facts : SUBSET Facts]]
  /\ req \in Seq(Titles) /\ Len(req) <= MaxOpens
  /\ stage \in [Requests -> [Verbs -> {"idle", "calling", "ready", "delivered"}]]
  /\ due \in [Requests -> [Verbs -> SUBSET Plugins]]
  /\ found \in [Requests -> [Verbs -> SUBSET Facts]]
  /\ DOMAIN cache \subseteq Keys /\ \A k \in DOMAIN cache : cache[k] \subseteq Facts

Init ==
  /\ screen = Nothing /\ view = Blank /\ req = <<>>
  /\ stage = [n \in Requests |-> [v \in Verbs |-> "idle"]]
  /\ due = [n \in Requests |-> [v \in Verbs |-> {}]]
  /\ found = [n \in Requests |-> [v \in Verbs |-> {}]]
  /\ cache = <<>>

-----------------------------------------------------------------------------
(* The card.                                                               *)

Open(t) ==
  /\ Len(req) < MaxOpens
  /\ screen' = t /\ view' = Blank
  /\ req' = Append(req, t)
  /\ UNCHANGED <<runVars, cache>>

Close ==
  /\ screen # Nothing
  /\ screen' = Nothing /\ view' = Blank
  /\ UNCHANGED <<req, runVars, cache>>

-----------------------------------------------------------------------------
(* Which id each plugin is given.                                          *)

Own(n, s) == IF Source[req[n]] = s THEN {EntryId[req[n]]} ELSE {}
Enriched(n) == stage[n]["enrich"] \in {"ready", "delivered"}
\* The ids of enrich's payload, heard now or when it was cached.
Bridged(n, s) ==
  {Bridges[f.by][f.asked][s] : f \in {g \in found[n]["enrich"] : s \in DOMAIN Bridges[g.by][g.asked]}}
\* An id that came with the entry stays; of those enrich found one is kept.
ExternalId(n, s) ==
  IF s \in DOMAIN External[req[n]] THEN {External[req[n]][s]}
  ELSE IF Enriched(n) /\ Bridged(n, s) # {} THEN {CHOOSE i \in Bridged(n, s) : TRUE} ELSE {}

\* Whether there is an id to give a plugin: one that accepts none of those known
\* is skipped, one that declares nothing gets the entry's own.
Routed(n, v, p) ==
  \/ Needs[v][p][req[n]] = {}
  \/ \E s \in Needs[v][p][req[n]] : Own(n, s) \cup ExternalId(n, s) # {}

RatingsId(n) == IF Own(n, "imdb") # {} THEN Own(n, "imdb") ELSE ExternalId(n, "imdb")

\* What a verb's payload is cached under: the entry's own id, or for the ratings
\* the IMDb id they are asked with.
Key(n, v) ==
  IF v = "ratings"
  THEN [verb |-> v, space |-> "imdb", id |-> CHOOSE i \in RatingsId(n) : TRUE]
  ELSE [verb |-> v, space |-> Source[req[n]], id |-> EntryId[req[n]]]

-----------------------------------------------------------------------------
(* The runtime.                                                            *)

\* A verb may start: enrich at once, the others after it, the ratings only with
\* an IMDb id.
Startable(n, v) ==
  /\ n \in DOMAIN req /\ stage[n][v] = "idle"
  /\ v = "enrich" \/ Enriched(n)
  /\ v = "ratings" => Sources[v][req[n]] # {} /\ RatingsId(n) # {}

Hit(n, v) ==
  /\ Startable(n, v)
  /\ Key(n, v) \in DOMAIN cache
  /\ stage' = [stage EXCEPT ![n][v] = "ready"]
  /\ found' = [found EXCEPT ![n][v] = cache[Key(n, v)]]
  /\ UNCHANGED <<cardVars, due, cache>>

\* Nothing is cached, or its time to live has passed.
Miss(n, v) ==
  /\ Startable(n, v)
  /\ LET listed == Sources[v][req[n]] IN
     /\ stage' = [stage EXCEPT ![n][v] = IF listed = {} THEN "ready" ELSE "calling"]
     /\ due' = [due EXCEPT ![n][v] = {p \in listed : Routed(n, v, p)}]
  /\ UNCHANGED <<cardVars, found, cache>>

Answer(n, v, p) ==
  /\ stage[n][v] = "calling" /\ p \in due[n][v]
  /\ due' = [due EXCEPT ![n][v] = @ \ {p}]
  /\ found' = [found EXCEPT ![n][v] = @ \cup {[asked |-> req[n], by |-> p]}]
  /\ UNCHANGED <<cardVars, stage, cache>>

\* An error, or an answer that says nothing.
Fail(n, v, p) ==
  /\ stage[n][v] = "calling" /\ p \in due[n][v]
  /\ due' = [due EXCEPT ![n][v] = @ \ {p}]
  /\ UNCHANGED <<cardVars, stage, found, cache>>

\* What a verb returns when its calls have ended or its time is up: the ratings
\* have no deadline but their client's own; enrich joins its calls under one
\* timeout and loses them all; the others keep what was heard in time.
Late(n, v) == v # "ratings" /\ due[n][v] # {}
\* Mutant: every verb under one timeout.
PayloadUnderTimeout(n, v) == IF Late(n, v) THEN {} ELSE found[n][v]
Payload(n, v) == IF v = "enrich" /\ Late(n, v) THEN {} ELSE found[n][v]

\* Mutant: enrich waits for all of its plugins.
SettleJoining(n, v) ==
  /\ stage[n][v] = "calling" /\ due[n][v] = {}
  /\ found' = [found EXCEPT ![n][v] = Payload(n, v)]
  /\ cache' = [k \in DOMAIN cache \cup {Key(n, v)} |-> IF k = Key(n, v) THEN Payload(n, v) ELSE cache[k]]
  /\ stage' = [stage EXCEPT ![n][v] = "ready"]
  /\ due' = [due EXCEPT ![n][v] = {}]
  /\ UNCHANGED cardVars

\* The merged payload is cached, an empty one too (only for less long).
Settle(n, v) ==
  /\ stage[n][v] = "calling" /\ (due[n][v] = {} \/ Late(n, v))
  /\ found' = [found EXCEPT ![n][v] = Payload(n, v)]
  /\ cache' = [k \in DOMAIN cache \cup {Key(n, v)} |-> IF k = Key(n, v) THEN Payload(n, v) ELSE cache[k]]
  /\ stage' = [stage EXCEPT ![n][v] = "ready"]
  /\ due' = [due EXCEPT ![n][v] = {}]
  /\ UNCHANGED cardVars

-----------------------------------------------------------------------------
(* A partial reaches the card.  The tasks of the verbs send when they can, *)
(* and enrich's partial goes first.                                        *)

\* Mutant: any partial is for the open card.
ConcernsAny(n) == screen # Nothing
\* The id of the partial is the card's entry id, or ends it after a dash.
Concerns(n) == screen # Nothing /\ EntryId[req[n]] \in Accepts[screen]

\* Every payload decides the status; an empty enrich or credits payload leaves
\* what is shown.
Shown(v, facts) ==
  IF facts # {} THEN [status |-> "loaded", facts |-> facts]
  ELSE [status |-> "empty",
        facts |-> IF v \in {"enrich", "credits"} THEN view[v].facts ELSE {}]

\* The ids enrich found stay with the request; the other payloads leave with
\* their partial.
Deliver(n, v) ==
  /\ stage[n][v] = "ready"
  /\ v = "enrich" \/ stage[n]["enrich"] = "delivered"
  /\ view' = IF Concerns(n) THEN [view EXCEPT ![v] = Shown(v, found[n][v])] ELSE view
  /\ stage' = [stage EXCEPT ![n][v] = "delivered"]
  /\ found' = IF v = "enrich" THEN found ELSE [found EXCEPT ![n][v] = {}]
  /\ UNCHANGED <<screen, req, due, cache>>

-----------------------------------------------------------------------------
Progress ==
  \/ \E n \in Requests, v \in Verbs : Hit(n, v) \/ Miss(n, v) \/ Settle(n, v) \/ Deliver(n, v)
  \/ \E n \in Requests, p \in Plugins : Answer(n, "ratings", p) \/ Fail(n, "ratings", p)

Next ==
  \/ \E t \in Titles : Open(t)
  \/ Close
  \/ \E n \in Requests, v \in Verbs : Hit(n, v) \/ Miss(n, v) \/ Settle(n, v) \/ Deliver(n, v)
  \/ \E n \in Requests, v \in Verbs, p \in Plugins : Answer(n, v, p) \/ Fail(n, v, p)

Spec == Init /\ [][Next]_vars
\* The tasks run, the deadlines pass (per_verb_timeout, the HTTP client's own for
\* the ratings) and the TUI reads; plugins need not answer.  Every task is
\* finite, so fairness of the union is fairness of each.
FairSpec == Spec /\ WF_vars(Progress)

-----------------------------------------------------------------------------
(* Properties.                                                             *)

\* Titles whose card takes no other title's id for its own.
Unmistaken == {t \in Titles : \A u \in Titles \ {t} : EntryId[u] \notin Accepts[t]}

\* Partials of a card left are ignored, and so is what was cached for another
\* title: a card whose id no other ends in shows only what was asked for its own
\* entry (detail_state.go 264-279).  The ratings go by IMDb ids, which entries
\* may share.
StaleIgnored ==
  screen \in Unmistaken => \A v \in Verbs \ {"ratings"} : \A f \in view[v].facts : f.asked = screen

\* When no more cards are opened every verb of the open one leaves "pending",
\* with facts or without, whichever plugins hang; the ratings only where there
\* is an IMDb id to ask with.
CardFills ==
  <>[](screen # Nothing => \A v \in Verbs \ {"ratings"} : view[v].status # "pending")

Newest(n) == n = Len(req) /\ screen = req[n]

\* Facts heard in time reach the card although another plugin hangs
\* (drain_with_deadline: "a single hung source would shadow a fast one").
FastAnswersShown ==
  \A n \in Requests, v \in Verbs \ {"enrich"} :
    (Newest(n) /\ found[n][v] # {}) ~> (~Newest(n) \/ view[v].facts # {})
=============================================================================
