-------------------------- MODULE DetailCardProofs --------------------------
(***************************************************************************)
(* Theorems about the two halves of the detail card.                       *)
(*                                                                         *)
(* DetailMetadata, for every set of titles, plugins, ids and routes:       *)
(* types, and that a card ignores what was asked for another title.        *)
(* StaleIgnored is not inductive: what arrives at the card was in a        *)
(* payload before, which came from a plugin, or from the cache, into which *)
(* another request put it.  IdInv says of each of these places for which   *)
(* entry id its facts were asked.                                          *)
(*                                                                         *)
(* DetailStreams, for every set of titles, providers, offers and settings: *)
(* types, and what a request is sent.  A run is sent as it is found and    *)
(* kept to be sent again, so FanInv says of the buffer and of the cache    *)
(* what is claimed of the messages; FlowInv follows the messages through   *)
(* the two channels, in which a marker must stay behind its partials.      *)
(***************************************************************************)
EXTENDS DetailMetadata, DetailStreams, SequenceTheorems, TLAPS

-----------------------------------------------------------------------------
(* Types.                                                                  *)

(* A request that has been sent is one of the bounded many and is about a
   title. *)
LEMMA SentRequest ==
  ASSUME TypeOK, NEW n \in DOMAIN req
  PROVE  n \in Requests /\ req[n] \in Titles
<1>1. req \in Seq(Titles) /\ Len(req) \in Nat /\ Len(req) <= MaxOpens /\ MaxOpens \in Nat
  BY DataTypes DEF TypeOK
<1>2. n \in 1 .. Len(req)
  BY <1>1
<1> QED BY <1>1, <1>2, ElementOfSeq DEF Requests

(* The ids of an entry in other catalogues are ids. *)
LEMMA PartialId ==
  ASSUME NEW I \in PartialIds, NEW s \in DOMAIN I
  PROVE  I[s] \in Ids
BY DEF PartialIds

(* The ratings are asked for with one id at most. *)
LEMMA RatingsIdTyped ==
  ASSUME TypeOK, NEW n \in DOMAIN req
  PROVE  RatingsId(n) = {} \/ \E i \in Ids : RatingsId(n) = {i}
<1> DEFINE One(S) == S = {} \/ \E i \in Ids : S = {i}
<1>1. n \in Requests /\ req[n] \in Titles
  BY SentRequest
<1>2. One(Own(n, "imdb"))
  BY <1>1, DataTypes DEF Own
<1>3. Bridged(n, "imdb") \subseteq Ids
  <2>1. found[n]["enrich"] \subseteq Facts
    BY <1>1, DataTypes DEF TypeOK
  <2>2. ASSUME NEW f \in found[n]["enrich"], "imdb" \in DOMAIN Bridges[f.by][f.asked]
        PROVE  Bridges[f.by][f.asked]["imdb"] \in Ids
    <3>1. f.by \in Plugins /\ f.asked \in Titles
      BY <2>1 DEF Facts
    <3>2. Bridges[f.by][f.asked] \in PartialIds
      BY <3>1, DataTypes
    <3> QED BY <2>2, <3>2, PartialId
  <2> QED BY <2>2 DEF Bridged
<1>4. One(ExternalId(n, "imdb"))
  <2>1. CASE "imdb" \in DOMAIN External[req[n]]
    <3>1. External[req[n]] \in PartialIds
      BY <1>1, DataTypes
    <3>2. External[req[n]]["imdb"] \in Ids
      BY <2>1, <3>1, PartialId
    <3> QED BY <2>1, <3>2 DEF ExternalId
  <2>2. CASE "imdb" \notin DOMAIN External[req[n]]
    <3> DEFINE B == Bridged(n, "imdb")
    <3>1. CASE Enriched(n) /\ B # {}
      <4>1. ExternalId(n, "imdb") = {CHOOSE i \in B : TRUE}
        BY <2>2, <3>1 DEF ExternalId
      <4> HIDE DEF B
      <4>2. (CHOOSE i \in B : TRUE) \in B
        BY <3>1
      <4> QED BY <1>3, <4>1, <4>2 DEF B
    <3>2. CASE ~(Enriched(n) /\ B # {})
      BY <2>2, <3>2 DEF ExternalId
    <3> QED BY <3>1, <3>2
  <2> QED BY <2>1, <2>2
<1> QED BY <1>2, <1>4 DEF RatingsId

(* What a verb is cached under is a key. *)
LEMMA KeyIsKey ==
  ASSUME TypeOK, NEW n \in DOMAIN req, NEW v \in Verbs,
         v = "ratings" => RatingsId(n) # {}
  PROVE  Key(n, v) \in Keys
<1>1. req[n] \in Titles
  BY SentRequest
<1>2. CASE v = "ratings"
  <2>1. PICK i \in Ids : RatingsId(n) = {i}
    BY <1>2, RatingsIdTyped
  <2>2. (CHOOSE x \in RatingsId(n) : TRUE) = i
    BY <2>1
  <2> QED BY <1>2, <2>2, DataTypes DEF Key, Keys
<1>3. CASE v # "ratings"
  BY <1>1, <1>3, DataTypes DEF Key, Keys
<1> QED BY <1>2, <1>3

-----------------------------------------------------------------------------
(* The invariant.                                                          *)

(* Nothing is held for a request or a verb that has not begun. *)
Unbegun ==
  \A n \in Requests : \A v \in Verbs :
    /\ n \notin DOMAIN req => stage[n][v] = "idle"
    /\ stage[n][v] = "idle" => found[n][v] = {}

(* The payload of a request, its own or one from the cache, was asked for with
   its entry id. *)
FoundOwn ==
  \A n \in DOMAIN req : \A v \in Verbs \ {"ratings"} : \A f \in found[n][v] :
    EntryId[f.asked] = EntryId[req[n]]

(* The cache holds under an entry id what was asked for with it. *)
CacheOwn ==
  \A k \in DOMAIN cache : \A f \in cache[k] : k.verb # "ratings" => EntryId[f.asked] = k.id

(* The card shows what was asked for with an id it takes for its own. *)
CardOwn ==
  screen # Nothing =>
    \A v \in Verbs \ {"ratings"} : \A f \in view[v].facts : EntryId[f.asked] \in Accepts[screen]

(* While the ratings are asked for there is an id to cache them under. *)
RatingsOf(n) == stage[n]["ratings"] = "calling" => Enriched(n) /\ RatingsId(n) # {}
RatingsOwn == \A n \in DOMAIN req : RatingsOf(n)

IdInv == TypeOK /\ Unbegun /\ FoundOwn /\ RatingsOwn /\ CacheOwn /\ CardOwn

(* The id of the ratings stays once enrich has ended. *)
LEMMA RatingsIdStays ==
  ASSUME NEW n, req[n]' = req[n], Enriched(n), Enriched(n)',
         found[n]["enrich"]' = found[n]["enrich"]
  PROVE  RatingsId(n)' = RatingsId(n)
BY DEF RatingsId, Own, ExternalId, Bridged

(* The initial state. *)
LEMMA InitIdInv == Init => IdInv
<1> SUFFICES ASSUME Init PROVE IdInv
  OBVIOUS
<1>1. TypeOK
  <2>1. req \in Seq(Titles) /\ Len(req) = 0
    BY EmptySeq DEF Init
  <2>2. cache = <<>> /\ DOMAIN cache = {}
    BY DEF Init
  <2> QED BY <2>1, <2>2, DataTypes DEF Init, TypeOK, Blank, Requests
<1>2. Unbegun /\ CardOwn
  BY DEF Init, Unbegun, CardOwn
<1>3. DOMAIN req = {} /\ DOMAIN cache = {}
  BY DEF Init
<1> QED BY <1>1, <1>2, <1>3 DEF IdInv, FoundOwn, RatingsOwn, CacheOwn

-----------------------------------------------------------------------------
(* One lemma per action.                                                   *)

LEMMA OpenKeeps == ASSUME IdInv, NEW t \in Titles, Open(t) PROVE IdInv'
<1>1. /\ req \in Seq(Titles) /\ Len(req) \in Nat /\ Len(req) < MaxOpens /\ MaxOpens \in Nat
      /\ req' = Append(req, t)
  BY DataTypes DEF Open, IdInv, TypeOK
<1>2. /\ req' \in Seq(Titles) /\ Len(req') = Len(req) + 1
      /\ \A n \in DOMAIN req : n \in DOMAIN req' /\ req'[n] = req[n]
      /\ DOMAIN req' = DOMAIN req \cup {Len(req) + 1} /\ Len(req) + 1 \notin DOMAIN req
      /\ Len(req) + 1 \in Requests
  BY <1>1, AppendProperties DEF Requests
<1>3. screen' = t /\ view' = Blank /\ UNCHANGED <<stage, due, found, cache>>
  BY DEF Open, runVars
<1>4. TypeOK'
  BY <1>1, <1>2, <1>3 DEF IdInv, TypeOK, Blank
<1>5. Unbegun'
  BY <1>2, <1>3 DEF IdInv, Unbegun
<1>6. FoundOwn'
  <2>1. \A v \in Verbs : found[Len(req) + 1][v] = {}
    BY <1>2 DEF IdInv, Unbegun
  <2>2. \A n \in DOMAIN req : \A v \in Verbs \ {"ratings"} : \A f \in found'[n][v] :
          EntryId[f.asked] = EntryId[req'[n]]
    BY <1>2, <1>3 DEF IdInv, FoundOwn
  <2> QED BY <1>2, <1>3, <2>1, <2>2 DEF FoundOwn
<1>7. RatingsOwn'
  <2> SUFFICES ASSUME NEW n \in DOMAIN req', stage[n]["ratings"] = "calling"
               PROVE  Enriched(n)' /\ RatingsId(n)' # {}
    BY <1>3 DEF RatingsOwn, RatingsOf
  <2>1. n \in DOMAIN req
    <3>1. stage[Len(req) + 1]["ratings"] = "idle"
      BY <1>2, DataTypes DEF IdInv, Unbegun
    <3> QED BY <1>2, <3>1
  <2>2. Enriched(n) /\ Enriched(n)' /\ RatingsId(n) # {}
    BY <1>3, <2>1 DEF IdInv, RatingsOwn, RatingsOf, Enriched
  <2> QED BY <1>2, <1>3, <2>1, <2>2, RatingsIdStays
<1>8. CacheOwn'
  BY <1>3 DEF IdInv, CacheOwn
<1>9. CardOwn'
  BY <1>3 DEF CardOwn, Blank
<1> QED BY <1>4, <1>5, <1>6, <1>7, <1>8, <1>9 DEF IdInv

LEMMA CloseKeeps == ASSUME IdInv, Close PROVE IdInv'
<1>1. screen' = Nothing /\ view' = Blank /\ UNCHANGED <<req, stage, due, found, cache>>
  BY DEF Close, runVars
<1>2. TypeOK'
  BY <1>1 DEF IdInv, TypeOK, Blank
<1>3. Unbegun' /\ FoundOwn' /\ CacheOwn'
  BY <1>1 DEF IdInv, Unbegun, FoundOwn, CacheOwn
<1>4. RatingsOwn'
  BY <1>1 DEF IdInv, RatingsOwn, RatingsOf, Enriched, RatingsId, Own, ExternalId, Bridged
<1> QED BY <1>1, <1>2, <1>3, <1>4 DEF IdInv, CardOwn

(* A request that begins a verb has been sent, and so has enrich when it is
   over. *)
LEMMA StartableSent ==
  ASSUME IdInv, NEW n \in Requests, NEW v \in Verbs, Startable(n, v)
  PROVE  /\ n \in DOMAIN req /\ stage[n][v] = "idle" /\ found[n][v] = {}
         /\ v # "enrich" => Enriched(n)
         /\ v = "ratings" => RatingsId(n) # {}
BY DEF Startable, IdInv, Unbegun

(* A step of one verb of one request, which leaves the ids of a request whose
   enrich is over, keeps what the other verbs need. *)
LEMMA StepKeepsRatings ==
  ASSUME IdInv, NEW n \in Requests, NEW v \in Verbs, NEW x, NEW F,
         req' = req,
         stage' = [stage EXCEPT ![n][v] = x],
         found' = [found EXCEPT ![n][v] = F],
         v = "enrich" /\ Enriched(n) => x = "delivered" /\ F = found[n][v],
         v = "ratings" /\ x = "calling" => Enriched(n) /\ RatingsId(n) # {}
  PROVE  RatingsOwn'
<1> SUFFICES ASSUME NEW m \in DOMAIN req, stage'[m]["ratings"] = "calling"
             PROVE  Enriched(m)' /\ RatingsId(m)' # {}
  BY DEF RatingsOwn, RatingsOf
<1>1. m \in Requests /\ "enrich" \in Verbs /\ "ratings" \in Verbs
  BY SentRequest, DataTypes DEF IdInv
<1>2. Enriched(m) /\ RatingsId(m) # {}
  <2>1. CASE m = n /\ v = "ratings"
    BY <1>1, <2>1 DEF IdInv, TypeOK
  <2>2. CASE m # n \/ v # "ratings"
    <3>1. stage[m]["ratings"] = "calling"
      BY <1>1, <2>2 DEF IdInv, TypeOK
    <3> QED BY <3>1 DEF IdInv, RatingsOwn, RatingsOf
  <2> QED BY <2>1, <2>2
<1>3. Enriched(m)' /\ found'[m]["enrich"] = found[m]["enrich"]
  BY <1>1, <1>2 DEF Enriched, IdInv, TypeOK
<1>4. req[m]' = req[m]
  OBVIOUS
<1> QED BY <1>2, <1>3, <1>4, RatingsIdStays

LEMMA HitKeeps ==
  ASSUME IdInv, NEW n \in Requests, NEW v \in Verbs, Hit(n, v) PROVE IdInv'
<1> DEFINE k == Key(n, v)
<1>1. n \in DOMAIN req /\ stage[n][v] = "idle"
  BY StartableSent DEF Hit
<1>2. /\ k \in DOMAIN cache
      /\ stage' = [stage EXCEPT ![n][v] = "ready"]
      /\ found' = [found EXCEPT ![n][v] = cache[k]]
      /\ UNCHANGED <<screen, view, req, due, cache>>
  BY DEF Hit, cardVars
<1>3. cache[k] \subseteq Facts
  BY <1>2 DEF IdInv, TypeOK
<1>4. v # "ratings" => \A f \in cache[k] : EntryId[f.asked] = EntryId[req[n]]
  <2> SUFFICES ASSUME v # "ratings" PROVE \A f \in cache[k] : EntryId[f.asked] = EntryId[req[n]]
    OBVIOUS
  <2>1. k.verb # "ratings" /\ k.id = EntryId[req[n]]
    BY DEF Key
  <2> QED BY <1>2, <2>1 DEF IdInv, CacheOwn
<1> HIDE DEF k
<1>5. TypeOK'
  BY <1>2, <1>3 DEF IdInv, TypeOK
<1>6. Unbegun'
  BY <1>1, <1>2 DEF IdInv, Unbegun, TypeOK
<1>7. FoundOwn'
  <2> SUFFICES ASSUME NEW m \in DOMAIN req, NEW w \in Verbs \ {"ratings"}, NEW f \in found'[m][w]
               PROVE  EntryId[f.asked] = EntryId[req[m]]
    BY <1>2 DEF FoundOwn
  <2>1. m \in Requests
    BY SentRequest DEF IdInv
  <2>2. f \in found[m][w] \/ (m = n /\ w = v /\ f \in cache[k])
    BY <1>2, <2>1 DEF IdInv, TypeOK
  <2> QED BY <1>4, <2>2 DEF IdInv, FoundOwn
<1>8. RatingsOwn'
  <2>1. ~(v = "enrich" /\ Enriched(n))
    BY <1>1 DEF Enriched
  <2> QED BY <1>2, <2>1, StepKeepsRatings
<1>9. CacheOwn' /\ CardOwn'
  BY <1>2 DEF IdInv, CacheOwn, CardOwn
<1> QED BY <1>5, <1>6, <1>7, <1>8, <1>9 DEF IdInv

LEMMA MissKeeps ==
  ASSUME IdInv, NEW n \in Requests, NEW v \in Verbs, Miss(n, v) PROVE IdInv'
<1> DEFINE x == IF Sources[v][req[n]] = {} THEN "ready" ELSE "calling"
           D == {p \in Sources[v][req[n]] : Routed(n, v, p)}
<1>1. /\ n \in DOMAIN req /\ stage[n][v] = "idle" /\ found[n][v] = {}
      /\ v # "enrich" => Enriched(n)
      /\ v = "ratings" => RatingsId(n) # {}
  BY StartableSent DEF Miss
<1>2. /\ stage' = [stage EXCEPT ![n][v] = x] /\ due' = [due EXCEPT ![n][v] = D]
      /\ UNCHANGED <<screen, view, req, found, cache>>
  BY DEF Miss, cardVars
<1>3. x \in {"ready", "calling"} /\ D \subseteq Plugins
  <2>1. req[n] \in Titles
    BY <1>1, SentRequest DEF IdInv
  <2> QED BY <2>1, DataTypes
<1> HIDE DEF x, D
<1>4. TypeOK'
  BY <1>2, <1>3 DEF IdInv, TypeOK
<1>5. Unbegun'
  BY <1>1, <1>2, <1>3 DEF IdInv, Unbegun, TypeOK
<1>6. RatingsOwn'
  <2>1. found' = [found EXCEPT ![n][v] = found[n][v]]
    BY <1>2 DEF IdInv, TypeOK
  <2>2. ~(v = "enrich" /\ Enriched(n))
    BY <1>1 DEF Enriched
  <2>3. v = "ratings" => Enriched(n) /\ RatingsId(n) # {}
    BY <1>1
  <2> QED BY <1>2, <2>1, <2>2, <2>3, StepKeepsRatings
<1>7. FoundOwn' /\ CacheOwn' /\ CardOwn'
  BY <1>2 DEF IdInv, FoundOwn, CacheOwn, CardOwn
<1> QED BY <1>4, <1>5, <1>6, <1>7 DEF IdInv

LEMMA AnswerKeeps ==
  ASSUME IdInv, NEW n \in Requests, NEW v \in Verbs, NEW p \in Plugins, Answer(n, v, p)
  PROVE  IdInv'
<1> DEFINE told == [asked |-> req[n], by |-> p]
<1>1. /\ stage[n][v] = "calling" /\ p \in due[n][v]
      /\ due' = [due EXCEPT ![n][v] = due[n][v] \ {p}]
      /\ found' = [found EXCEPT ![n][v] = found[n][v] \cup {told}]
      /\ UNCHANGED <<screen, view, req, stage, cache>>
  BY DEF Answer, cardVars
<1>2. n \in DOMAIN req
  BY <1>1 DEF IdInv, Unbegun
<1>3. told \in Facts /\ told.asked = req[n]
  BY <1>2, SentRequest DEF IdInv, Facts
<1> HIDE DEF told
<1>4. TypeOK'
  BY <1>1, <1>3 DEF IdInv, TypeOK
<1>5. Unbegun'
  BY <1>1 DEF IdInv, Unbegun, TypeOK
<1>6. FoundOwn'
  <2> SUFFICES ASSUME NEW m \in DOMAIN req, NEW w \in Verbs \ {"ratings"}, NEW f \in found'[m][w]
               PROVE  EntryId[f.asked] = EntryId[req[m]]
    BY <1>1 DEF FoundOwn
  <2>1. m \in Requests
    BY SentRequest DEF IdInv
  <2>2. f \in found[m][w] \/ (m = n /\ f = told)
    BY <1>1, <2>1 DEF IdInv, TypeOK
  <2> QED BY <1>3, <2>2 DEF IdInv, FoundOwn
<1>7. RatingsOwn'
  <2>1. stage' = [stage EXCEPT ![n][v] = stage[n][v]]
    BY <1>1 DEF IdInv, TypeOK
  <2>2. ~(v = "enrich" /\ Enriched(n))
    BY <1>1 DEF Enriched
  <2>3. v = "ratings" => Enriched(n) /\ RatingsId(n) # {}
    BY <1>1, <1>2 DEF IdInv, RatingsOwn, RatingsOf
  <2> QED BY <1>1, <2>1, <2>2, <2>3, StepKeepsRatings
<1>8. CacheOwn' /\ CardOwn'
  BY <1>1 DEF IdInv, CacheOwn, CardOwn
<1> QED BY <1>4, <1>5, <1>6, <1>7, <1>8 DEF IdInv

LEMMA FailKeeps ==
  ASSUME IdInv, NEW n \in Requests, NEW v \in Verbs, NEW p \in Plugins, Fail(n, v, p)
  PROVE  IdInv'
<1>1. /\ due' = [due EXCEPT ![n][v] = due[n][v] \ {p}]
      /\ UNCHANGED <<screen, view, req, stage, found, cache>>
  BY DEF Fail, cardVars
<1>2. TypeOK'
  BY <1>1 DEF IdInv, TypeOK
<1>3. Unbegun' /\ FoundOwn' /\ CacheOwn' /\ CardOwn'
  BY <1>1 DEF IdInv, Unbegun, FoundOwn, CacheOwn, CardOwn
<1>4. RatingsOwn'
  BY <1>1 DEF IdInv, RatingsOwn, RatingsOf, Enriched, RatingsId, Own, ExternalId, Bridged
<1> QED BY <1>2, <1>3, <1>4 DEF IdInv

LEMMA SettleKeeps ==
  ASSUME IdInv, NEW n \in Requests, NEW v \in Verbs, Settle(n, v) PROVE IdInv'
<1> DEFINE k == Key(n, v)
           F == Payload(n, v)
<1>1. /\ stage[n][v] = "calling"
      /\ due' = [due EXCEPT ![n][v] = {}]
      /\ found' = [found EXCEPT ![n][v] = F]
      /\ stage' = [stage EXCEPT ![n][v] = "ready"]
      /\ cache' = [j \in DOMAIN cache \cup {k} |-> IF j = k THEN F ELSE cache[j]]
      /\ UNCHANGED <<screen, view, req>>
  BY DEF Settle, cardVars
<1>2. n \in DOMAIN req
  BY <1>1 DEF IdInv, Unbegun
<1>3. F \subseteq found[n][v] /\ F \subseteq Facts
  BY DEF Payload, IdInv, TypeOK
<1>4. k \in Keys
  <2>1. v = "ratings" => RatingsId(n) # {}
    BY <1>1, <1>2 DEF IdInv, RatingsOwn, RatingsOf
  <2> QED BY <1>2, <2>1, KeyIsKey DEF IdInv
<1>5. \A f \in F : k.verb # "ratings" => EntryId[f.asked] = k.id
  <2>1. CASE v = "ratings"
    BY <2>1 DEF Key
  <2>2. CASE v # "ratings"
    <3>1. k.id = EntryId[req[n]]
      BY <2>2 DEF Key
    <3>2. \A f \in F : EntryId[f.asked] = EntryId[req[n]]
      BY <1>2, <1>3, <2>2 DEF IdInv, FoundOwn
    <3> QED BY <3>1, <3>2
  <2> QED BY <2>1, <2>2
<1> HIDE DEF k, F
<1>6. TypeOK'
  <2>1. DOMAIN cache' \subseteq Keys /\ \A j \in DOMAIN cache' : cache'[j] \subseteq Facts
    BY <1>1, <1>3, <1>4 DEF IdInv, TypeOK
  <2> QED BY <1>1, <1>3, <2>1 DEF IdInv, TypeOK
<1>7. Unbegun'
  BY <1>1, <1>2 DEF IdInv, Unbegun, TypeOK
<1>8. FoundOwn'
  <2> SUFFICES ASSUME NEW m \in DOMAIN req, NEW w \in Verbs \ {"ratings"}, NEW f \in found'[m][w]
               PROVE  EntryId[f.asked] = EntryId[req[m]]
    BY <1>1 DEF FoundOwn
  <2>1. m \in Requests
    BY SentRequest DEF IdInv
  <2>2. f \in found[m][w]
    BY <1>1, <1>3, <2>1 DEF IdInv, TypeOK
  <2> QED BY <2>2 DEF IdInv, FoundOwn
<1>9. RatingsOwn'
  <2>1. ~(v = "enrich" /\ Enriched(n))
    BY <1>1 DEF Enriched
  <2> QED BY <1>1, <2>1, StepKeepsRatings
<1>10. CacheOwn'
  BY <1>1, <1>5 DEF IdInv, CacheOwn
<1>11. CardOwn'
  BY <1>1 DEF IdInv, CardOwn
<1> QED BY <1>6, <1>7, <1>8, <1>9, <1>10, <1>11 DEF IdInv

LEMMA DeliverKeeps ==
  ASSUME IdInv, NEW n \in Requests, NEW v \in Verbs, Deliver(n, v) PROVE IdInv'
<1> DEFINE F == IF v = "enrich" THEN found[n][v] ELSE {}
<1>1. /\ stage[n][v] = "ready"
      /\ stage' = [stage EXCEPT ![n][v] = "delivered"]
      /\ found' = [found EXCEPT ![n][v] = F]
      /\ view' = IF Concerns(n) THEN [view EXCEPT ![v] = Shown(v, found[n][v])] ELSE view
      /\ UNCHANGED <<screen, req, due, cache>>
  BY DEF Deliver, IdInv, TypeOK
<1>2. n \in DOMAIN req
  BY <1>1 DEF IdInv, Unbegun
<1>3. F \subseteq found[n][v] /\ F \subseteq Facts
  BY DEF IdInv, TypeOK
<1>4. Shown(v, found[n][v]).facts \subseteq found[n][v] \cup view[v].facts
  BY DEF Shown
<1>5. Shown(v, found[n][v]) \in [status : {"pending", "empty", "loaded"}, facts : SUBSET Facts]
  <2>1. found[n][v] \subseteq Facts /\ view[v].facts \subseteq Facts
    BY DEF IdInv, TypeOK
  <2> QED BY <2>1 DEF Shown
<1>6. TypeOK'
  BY <1>1, <1>3, <1>5 DEF IdInv, TypeOK
<1>7. Unbegun'
  BY <1>1, <1>2 DEF IdInv, Unbegun, TypeOK
<1>8. FoundOwn'
  <2> SUFFICES ASSUME NEW m \in DOMAIN req, NEW w \in Verbs \ {"ratings"}, NEW f \in found'[m][w]
               PROVE  EntryId[f.asked] = EntryId[req[m]]
    BY <1>1 DEF FoundOwn
  <2>1. m \in Requests
    BY SentRequest DEF IdInv
  <2>2. f \in found[m][w]
    BY <1>1, <1>3, <2>1 DEF IdInv, TypeOK
  <2> QED BY <2>2 DEF IdInv, FoundOwn
<1>9. RatingsOwn'
  BY <1>1, StepKeepsRatings
<1>10. CacheOwn'
  BY <1>1 DEF IdInv, CacheOwn
<1>11. CardOwn'
  <2> SUFFICES ASSUME screen # Nothing, NEW w \in Verbs \ {"ratings"}, NEW f \in view'[w].facts
               PROVE  EntryId[f.asked] \in Accepts[screen]
    BY <1>1 DEF CardOwn
  <2>1. f \in view[w].facts \/ (w = v /\ Concerns(n) /\ f \in found[n][v])
    BY <1>1, <1>4 DEF IdInv, TypeOK
  <2>2. w = v => \A g \in found[n][v] : EntryId[g.asked] = EntryId[req[n]]
    BY <1>2 DEF IdInv, FoundOwn
  <2> QED BY <2>1, <2>2 DEF IdInv, CardOwn, Concerns
<1> QED BY <1>6, <1>7, <1>8, <1>9, <1>10, <1>11 DEF IdInv

LEMMA StutterKeeps == ASSUME IdInv, UNCHANGED vars PROVE IdInv'
<1>1. UNCHANGED <<screen, view, req, stage, due, found, cache>>
  BY DEF vars, cardVars, runVars
<1>2. RatingsOwn'
  BY <1>1 DEF IdInv, RatingsOwn, RatingsOf, Enriched, RatingsId, Own, ExternalId, Bridged
<1> QED BY <1>1, <1>2 DEF IdInv, TypeOK, Unbegun, FoundOwn, CacheOwn, CardOwn

-----------------------------------------------------------------------------
(* Nothing is ever held for a request, under a cache key or by a card but what
   was asked for with an entry id that is theirs. *)
THEOREM IdInvHolds == Spec => []IdInv
<1>1. IdInv /\ [Next]_vars => IdInv'
  <2> SUFFICES ASSUME IdInv, [Next]_vars PROVE IdInv'
    OBVIOUS
  <2>1. ASSUME NEW n \in Requests, NEW v \in Verbs,
               Hit(n, v) \/ Miss(n, v) \/ Settle(n, v) \/ Deliver(n, v)
        PROVE  IdInv'
    BY <2>1, HitKeeps, MissKeeps, SettleKeeps, DeliverKeeps
  <2>2. ASSUME NEW n \in Requests, NEW v \in Verbs, NEW p \in Plugins,
               Answer(n, v, p) \/ Fail(n, v, p)
        PROVE  IdInv'
    BY <2>2, AnswerKeeps, FailKeeps
  <2> QED BY <2>1, <2>2, OpenKeeps, CloseKeeps, StutterKeeps DEF Next
<1> QED BY InitIdInv, <1>1, PTL DEF Spec

(* Every variable keeps its type in every step of the card and of the verbs. *)
THEOREM TypeCorrect == Spec => []TypeOK
<1>1. IdInv => TypeOK
  BY DEF IdInv
<1> QED BY <1>1, IdInvHolds, PTL

(* Whatever is opened, answered late or cached, and whatever ids enrich gives
   an entry, a card whose id no other title's ends in shows, but for ratings,
   what was asked for its own title only. *)
THEOREM StaleIsIgnored == Spec => []StaleIgnored
<1>1. IdInv => StaleIgnored
  <2> SUFFICES ASSUME IdInv, screen \in Unmistaken,
                      NEW v \in Verbs \ {"ratings"}, NEW f \in view[v].facts
               PROVE  f.asked = screen
    BY DEF StaleIgnored
  <2>1. screen \in Titles /\ screen # Nothing
    BY DataTypes DEF Unmistaken
  <2>2. EntryId[f.asked] \in Accepts[screen]
    BY <2>1 DEF IdInv, CardOwn
  <2>3. f.asked \in Titles
    BY DEF IdInv, TypeOK, Facts
  <2> QED BY <2>1, <2>2, <2>3 DEF Unmistaken
<1> QED BY <1>1, IdInvHolds, PTL

-----------------------------------------------------------------------------
(* The streams of the card: the types of the messages and of the lists.    *)

LEMMA WantedIsTyped ==
  ASSUME StreamsTypeOK, NEW n \in DOMAIN wanted
  PROVE  /\ n \in Asks /\ n # Idle /\ wanted[n].title \in Titles /\ wanted[n].key \in Episodes
         /\ wanted[n] \in [title : Titles, key : Episodes]
<1>1. wanted \in Seq([title : Titles, key : Episodes]) /\ Len(wanted) \in Nat
      /\ Len(wanted) <= MaxAsks /\ DOMAIN wanted = 1 .. Len(wanted)
  BY DEF StreamsTypeOK
<1>2. wanted[n] \in [title : Titles, key : Episodes]
  BY <1>1, ElementOfSeq
<1> QED BY <1>1, <1>2, BoundOfAsks DEF Asks, Idle

LEMMA MessagesAreTyped ==
  ASSUME StreamsTypeOK, NEW n \in DOMAIN wanted
  PROVE  /\ \A q \in Seq(Streams) : Partial(n, q) \in Messages
         /\ \A failed \in BOOLEAN : Complete(n, failed) \in Messages /\ Loaded(n, failed) \in Messages
BY WantedIsTyped DEF Partial, Complete, Loaded, Messages

\* What comes of a provider's answer is a list of its own streams, each new to
\* the request and listed once (resolve.rs, seen_keys).
LEMMA OfferedLists ==
  ASSUME NEW c \in Configs, NEW S, NEW seen, NEW q \in Offered(c, S, seen)
  PROVE  /\ q \in Seq(S) /\ Range(q) \subseteq S
         /\ \A i \in DOMAIN q : q[i].hash \notin seen
         /\ \A i, j \in DOMAIN q : q[i].hash = q[j].hash => i = j
<1> DEFINE kept == {s \in S : Passes(c, s) /\ Unseen(s, seen)}
<1>1. /\ q \in BoundedSeq(kept, c.max)
      /\ \A i, j \in DOMAIN q : i < j => q[i].hash # q[j].hash
  BY DEF Offered
<1>2. PICK m \in Nat : q \in [1 .. m -> kept]
  BY <1>1, SettingsTypes DEF BoundedSeq, SeqOf
<1>3. q \in [1 .. m -> S] /\ \A i \in DOMAIN q : q[i].hash \notin seen
  BY <1>2 DEF Unseen
<1>4. \A i, j \in DOMAIN q : i # j => i < j \/ j < i
  BY <1>2
<1> QED BY <1>1, <1>2, <1>3, <1>4 DEF Range

LEMMA OfferIsTyped ==
  ASSUME StreamsTypeOK, serving # Idle, NEW p \in Providers, NEW seen,
         NEW q \in Offered(snap, Offers[wanted[serving].title][p], seen)
  PROVE  q \in Seq(Streams) /\ Partial(serving, q) \in Messages
<1>1. serving \in DOMAIN wanted /\ snap \in Configs
  BY DEF StreamsTypeOK
<1>2. Offers[wanted[serving].title][p] \subseteq Streams
  BY <1>1, WantedIsTyped DEF Streams
<1>3. q \in Seq(Offers[wanted[serving].title][p])
  BY <1>1, OfferedLists
<1>4. q \in Seq(Streams)
  BY <1>2, <1>3, SeqMonotonic
<1> QED BY <1>1, <1>4, MessagesAreTyped

\* Sorting keeps the type of a list.
LEMMA SortingIsTyped ==
  ASSUME NEW S, NEW q \in Seq(S), NEW r \in Sortings(q)
  PROVE  r \in Seq(S)
<1>1. PICK p \in [DOMAIN q -> DOMAIN q] : r = [i \in DOMAIN q |-> q[p[i]]]
  BY DEF Sortings, Bijection, Injection
<1>2. DOMAIN q = 1 .. Len(q) /\ Len(q) \in Nat /\ \A i \in DOMAIN q : q[i] \in S
  OBVIOUS
<1>3. r \in [1 .. Len(q) -> S]
  BY <1>1, <1>2
<1> QED BY <1>2, <1>3, SeqDef

\* The partials of a run as messages.
LEMMA ReplayIsTyped ==
  ASSUME StreamsTypeOK, NEW n \in DOMAIN wanted, NEW ps \in Seq(Seq(Streams))
  PROVE  /\ [x \in DOMAIN ps |-> Partial(n, ps[x])] \in Seq(Messages)
         /\ events \o [x \in DOMAIN ps |-> Partial(n, ps[x])] \in Seq(Messages)
<1> DEFINE r == [x \in DOMAIN ps |-> Partial(n, ps[x])]
<1>1. DOMAIN ps = 1 .. Len(ps) /\ Len(ps) \in Nat /\ \A x \in DOMAIN ps : ps[x] \in Seq(Streams)
  OBVIOUS
<1>2. r \in [1 .. Len(ps) -> Messages]
  BY <1>1, MessagesAreTyped
<1>3. r \in Seq(Messages)
  BY <1>1, <1>2, SeqDef
<1>4. events \in Seq(Messages)
  BY DEF StreamsTypeOK
<1> HIDE DEF r
<1>5. events \o r \in Seq(Messages)
  BY <1>3, <1>4, ConcatProperties
<1> QED BY <1>3, <1>5 DEF r

LEMMA AcknowledgeIsTyped ==
  ASSUME StreamsTypeOK, NEW n \in Asks, Acknowledge(n)
  PROVE  asker' \in [Asks -> {"none", "sent", "acked", "done"}]
BY DEF StreamsTypeOK, Acknowledge

\* Serving a request keeps the types: of the cache some entries are left.
LEMMA ServeType ==
  ASSUME StreamsTypeOK, NEW n \in DOMAIN wanted, Serve(n)
  PROVE  StreamsTypeOK'
<1> USE DEF listVars, clientVars, fanVars
<1> DEFINE k == CacheKey(wanted[n])
<1>1. /\ UNCHANGED <<screen, shown, busy, wrong, out, wanted>>
      /\ serving = Idle /\ n \in Asks /\ n # Idle
      /\ asked' = asked \ {n}
  BY WantedIsTyped DEF Serve
<1>2. \A e \in DOMAIN streamsCache' : e \in DOMAIN streamsCache /\ streamsCache'[e] = streamsCache[e]
  BY DEF Serve
<1>3. \A e \in DOMAIN streamsCache' : streamsCache'[e] \in Seq(Seq(Streams))
  BY <1>2 DEF StreamsTypeOK
<1>4. CASE k # Nothing /\ k \in DOMAIN streamsCache'
  <2>1. Replay(n, streamsCache[k]) /\ streamsCache[k] \in Seq(Seq(Streams))
    BY <1>2, <1>4 DEF Serve, StreamsTypeOK
  <2>2. events' \in Seq(Messages)
    BY <2>1, ReplayIsTyped, MessagesAreTyped, AppendProperties DEF Replay
  <2>3. sent' \in [Asks -> Seq(Seq(Streams))]
    BY <2>1 DEF Replay, StreamsTypeOK
  <2>4. asker' \in [Asks -> {"none", "sent", "acked", "done"}]
    BY <1>1, <2>1, AcknowledgeIsTyped DEF Replay
  <2> QED BY <1>1, <1>3, <2>1, <2>2, <2>3, <2>4 DEF StreamsTypeOK, Replay
<1>5. CASE ~(k # Nothing /\ k \in DOMAIN streamsCache')
  <2>1. FanOut(n)
    BY <1>5 DEF Serve
  <2>2. partials' \in Seq(Seq(Streams))
    BY <2>1 DEF FanOut
  <2> QED BY <1>1, <1>3, <2>1, <2>2 DEF StreamsTypeOK, FanOut
<1> QED BY <1>4, <1>5

LEMMA ProviderAnswersType ==
  ASSUME StreamsTypeOK, NEW p \in Providers, ProviderAnswers(p)
  PROVE  StreamsTypeOK'
<1> USE DEF listVars, clientVars, fanVars
<1>1. PICK q \in Offered(snap, Offers[wanted[serving].title][p], Hashes(partials)) :
        IF q = <<>> THEN UNCHANGED <<partials, events, sent>>
        ELSE /\ partials' = Append(partials, q)
             /\ events' = Append(events, Partial(serving, q))
             /\ sent' = [sent EXCEPT ![serving] = Append(@, q)]
  BY DEF ProviderAnswers
<1>2. serving # Idle /\ serving \in DOMAIN wanted
  BY DEF ProviderAnswers, StreamsTypeOK
<1>3. q \in Seq(Streams) /\ Partial(serving, q) \in Messages
  BY <1>2, OfferIsTyped
<1>4. /\ partials' \in Seq(Seq(Streams)) /\ events' \in Seq(Messages)
      /\ sent' \in [Asks -> Seq(Seq(Streams))]
  <2>1. serving \in Asks
    BY <1>2, WantedIsTyped
  <2>2. partials \in Seq(Seq(Streams)) /\ events \in Seq(Messages) /\ sent[serving] \in Seq(Seq(Streams))
    BY <2>1 DEF StreamsTypeOK
  <2>3. /\ Append(partials, q) \in Seq(Seq(Streams))
        /\ Append(events, Partial(serving, q)) \in Seq(Messages)
        /\ Append(sent[serving], q) \in Seq(Seq(Streams))
    BY <1>3, <2>2, AppendProperties
  <2> QED BY <1>1, <2>1, <2>3 DEF StreamsTypeOK
<1> QED BY <1>2, <1>4 DEF ProviderAnswers, StreamsTypeOK

LEMMA FinishType ==
  ASSUME StreamsTypeOK, Finish
  PROVE  StreamsTypeOK'
<1> USE DEF listVars, clientVars, fanVars
<1>1. serving \in DOMAIN wanted /\ serving \in Asks
  BY WantedIsTyped DEF Finish, StreamsTypeOK
<1>2. events' \in Seq(Messages)
  <2>1. (partials = <<>>) \in BOOLEAN
    OBVIOUS
  <2>2. Complete(serving, partials = <<>>) \in Messages
    BY <1>1, <2>1, MessagesAreTyped
  <2> QED BY <2>2, AppendProperties DEF Finish, StreamsTypeOK
<1>3. asker' \in [Asks -> {"none", "sent", "acked", "done"}]
  BY <1>1, AcknowledgeIsTyped DEF Finish
<1>4. \A k \in DOMAIN streamsCache' : streamsCache'[k] \in Seq(Seq(Streams))
  BY DEF Finish, CacheWith, Put, StreamsTypeOK
<1>5. partials' \in Seq(Seq(Streams))
  BY DEF Finish
<1> QED BY <1>2, <1>3, <1>4, <1>5 DEF Finish, StreamsTypeOK

\* Every handler of the card keeps the types.
LEMMA HandleType ==
  ASSUME StreamsTypeOK, Handle
  PROVE  StreamsTypeOK'
<1> USE DEF listVars, clientVars, fanVars
<1> DEFINE m == Head(out)
<1>1. m \in Messages /\ out' \in Seq(Messages)
  BY DEF Handle, StreamsTypeOK
<1>2. /\ m.key \in Episodes
      /\ m.what = "partial" => m.streams \in Seq(Streams)
      /\ m.what \in {"partial", "complete", "loaded"}
  BY <1>1 DEF Messages
<1> HIDE DEF m
<1>3. shown' \in [Episodes -> Seq(Streams)] /\ busy' \subseteq Episodes /\ wrong' \subseteq Episodes
  <2>1. CASE screen = Nothing
    BY <2>1 DEF Handle, StreamsTypeOK
  <2>2. CASE screen # Nothing /\ m.what = "loaded"
    <3>1. OnLoaded(m)
      BY <2>2 DEF Handle, m
    <3>2. <<>> \in Seq(Streams)
      OBVIOUS
    <3> QED BY <1>2, <3>1, <3>2 DEF OnLoaded, StreamsTypeOK
  <2>3. CASE screen # Nothing /\ m.what = "partial"
    <3>1. OnPartial(m)
      BY <2>3 DEF Handle, m
    <3>2. shown[m.key] \o m.streams \in Seq(Streams)
      BY <1>2, <2>3 DEF StreamsTypeOK
    <3> QED BY <1>2, <3>1, <3>2 DEF OnPartial, StreamsTypeOK
  <2>4. CASE screen # Nothing /\ m.what = "complete"
    <3>1. OnComplete(m)
      BY <2>4 DEF Handle, m
    <3>2. PICK q \in Sortings(shown[m.key]) : shown' = [shown EXCEPT ![m.key] = q]
      BY <3>1 DEF OnComplete
    <3>3. q \in Seq(Streams)
      BY <1>2, <3>2, SortingIsTyped DEF StreamsTypeOK
    <3> QED BY <1>2, <3>1, <3>2, <3>3 DEF OnComplete, StreamsTypeOK
  <2> QED BY <1>2, <2>1, <2>2, <2>3, <2>4
<1> QED BY <1>1, <1>3 DEF Handle, StreamsTypeOK

LEMMA StreamsTypeStep == StreamsTypeOK /\ [StreamsNext]_streamVars => StreamsTypeOK'
<1> SUFFICES ASSUME StreamsTypeOK, [StreamsNext]_streamVars PROVE StreamsTypeOK'
  OBVIOUS
<1> USE DEF listVars, clientVars, fanVars
<1>1. ASSUME NEW t \in Titles \cup {Nothing}, Visit(t) PROVE StreamsTypeOK'
  <2>1. shown' \in [Episodes -> Seq(Streams)]
    BY <1>1 DEF Visit
  <2> QED BY <1>1, <2>1 DEF Visit, StreamsTypeOK
<1>2. ASSUME NEW k \in Episodes, Ask(k) PROVE StreamsTypeOK'
  <2>0. shown' \in [Episodes -> Seq(Streams)]
    BY <1>2 DEF Ask, StreamsTypeOK
  <2>1. [title |-> screen, key |-> k] \in [title : Titles, key : Episodes]
    BY <1>2 DEF Ask, StreamsTypeOK
  <2>2. /\ wanted' \in Seq([title : Titles, key : Episodes]) /\ Len(wanted') <= MaxAsks
        /\ DOMAIN wanted' = DOMAIN wanted \cup {Len(wanted) + 1}
        /\ Len(wanted) + 1 \in Asks
    <3>1. /\ wanted \in Seq([title : Titles, key : Episodes]) /\ Len(wanted) \in Nat
          /\ Len(wanted) < MaxAsks
          /\ wanted' = Append(wanted, [title |-> screen, key |-> k])
      BY <1>2 DEF Ask, StreamsTypeOK
    <3>2. wanted' \in Seq([title : Titles, key : Episodes]) /\ Len(wanted') = Len(wanted) + 1
      BY <2>1, <3>1, AppendProperties
    <3>3. DOMAIN wanted = 1 .. Len(wanted) /\ DOMAIN wanted' = 1 .. (Len(wanted) + 1)
      BY <3>1, <3>2
    <3> QED BY <3>1, <3>2, <3>3, BoundOfAsks DEF Asks
  <2>3. asker' \in [Asks -> {"none", "sent", "acked", "done"}]
    BY <1>2, <2>2 DEF Ask, StreamsTypeOK
  <2> QED BY <1>2, <2>0, <2>2, <2>3 DEF Ask, StreamsTypeOK
<1>3. ASSUME NEW n \in DOMAIN wanted, Serve(n) PROVE StreamsTypeOK'
  BY <1>3, ServeType
<1>4. ASSUME NEW p \in Providers, ProviderAnswers(p) PROVE StreamsTypeOK'
  BY <1>4, ProviderAnswersType
<1>5. ASSUME NEW p \in Providers, ProviderFails(p) PROVE StreamsTypeOK'
  BY <1>5 DEF ProviderFails, StreamsTypeOK
<1>6. CASE Finish
  BY <1>6, FinishType
<1>7. CASE Forward
  <2>1. Head(events) \in Messages /\ events' \in Seq(Messages) /\ out' \in Seq(Messages)
    BY <1>7 DEF Forward, StreamsTypeOK
  <2> QED BY <1>7, <2>1 DEF Forward, StreamsTypeOK
<1>8. ASSUME NEW n \in DOMAIN wanted, Wake(n) \/ Timeout(n) PROVE StreamsTypeOK'
  <2>1. out' \in Seq(Messages)
    <3>1. Loaded(n, FALSE) \in Messages /\ Loaded(n, TRUE) \in Messages
      BY MessagesAreTyped
    <3>2. PICK m \in Messages : out' = Append(out, m)
      BY <1>8, <3>1 DEF Wake, Timeout
    <3> QED BY <3>2, AppendProperties DEF StreamsTypeOK
  <2>2. asker' \in [Asks -> {"none", "sent", "acked", "done"}]
    BY <1>8 DEF Wake, Timeout, StreamsTypeOK
  <2> QED BY <1>8, <2>1, <2>2 DEF Wake, Timeout, StreamsTypeOK
<1>9. CASE Handle
  BY <1>9, HandleType
<1>10. CASE UNCHANGED streamVars
  BY <1>10 DEF streamVars, StreamsTypeOK
<1> QED
  BY <1>1, <1>2, <1>3, <1>4, <1>5, <1>6, <1>7, <1>8, <1>9, <1>10
  DEF StreamsNext, UserStep, RuntimeStep, ClientStep

LEMMA StreamsTypeStart == StreamsInit => StreamsTypeOK
<1> SUFFICES ASSUME StreamsInit PROVE StreamsTypeOK
  OBVIOUS
<1>1. wanted = <<>> /\ Len(wanted) = 0 /\ DOMAIN streamsCache = {}
  BY DEF StreamsInit
<1> QED BY <1>1, BoundOfAsks DEF StreamsInit, StreamsTypeOK


-----------------------------------------------------------------------------
(* What a request is sent, and what the cache keeps of it.                 *)

Once(ps) ==
  \A x, y \in DOMAIN ps : \A i \in DOMAIN ps[x], j \in DOMAIN ps[y] :
    ps[x][i].hash = ps[y][j].hash => x = y /\ i = j
OfTitle(ps, t) == Listed(ps) \subseteq UNION {Offers[t][p] : p \in Providers}
OfLike(ps, t) == \E u \in Alike(t) : OfTitle(ps, u)
OfSlot(ps, k) == \E r \in [title : Titles, key : Episodes] : CacheKey(r) = k /\ OfTitle(ps, r.title)

(* Fresh streams are of the title of the request that is being served, what is
   cached is of a title whose requests use that slot. *)
FanInv ==
  /\ StreamsTypeOK
  /\ \A n \in Asks : Once(sent[n]) /\ (n \in asked \/ n \notin DOMAIN wanted => sent[n] = <<>>)
  /\ \A n \in DOMAIN wanted : OfLike(sent[n], wanted[n].title)
  /\ serving # Idle => /\ partials = sent[serving] /\ serving \notin asked
                       /\ OfTitle(partials, wanted[serving].title)
  /\ \A k \in DOMAIN streamsCache :
       streamsCache[k] # <<>> /\ Once(streamsCache[k]) /\ OfSlot(streamsCache[k], k)

(* Two titles whose requests use one slot carry an identifier in common. *)
LEMMA SameSlotAlike ==
  ASSUME NEW r \in [title : Titles, key : Episodes], NEW w \in [title : Titles, key : Episodes],
         CacheKey(r) = CacheKey(w), CacheKey(w) # Nothing
  PROVE  r.title \in Alike(w.title)
<1> DEFINE i == Idents[w.title]
           j == Idents[r.title]
           Slot(by, id, x) == [by |-> by, id |-> id, key |-> x.key]
<1>1. /\ r.title \in Titles /\ w.title \in Titles
      /\ \A x \in Carried(r.title) : x \in Carried(w.title) => r.title \in Alike(w.title)
  BY DEF Alike
<1>2. /\ \A a \in {j.imdb_id, j.external_imdb} \ {Nothing} : <<"imdb", a>> \in Carried(r.title)
      /\ \A a \in {i.imdb_id, i.external_imdb} \ {Nothing} : <<"imdb", a>> \in Carried(w.title)
      /\ j.tmdb_id # Nothing => <<"tmdb", j.tmdb_id>> \in Carried(r.title)
      /\ i.tmdb_id # Nothing => <<"tmdb", i.tmdb_id>> \in Carried(w.title)
      /\ j.entry_id # Nothing => <<"eid", j.entry_id>> \in Carried(r.title)
      /\ i.entry_id # Nothing => <<"eid", i.entry_id>> \in Carried(w.title)
      /\ j.name # Nothing => <<"title", j.name>> \in Carried(r.title)
      /\ i.name # Nothing => <<"title", i.name>> \in Carried(w.title)
  BY DEF Carried
<1>3. PICK by, a : /\ CacheKey(w) = Slot(by, a, w) /\ <<by, a>> \in Carried(w.title)
  BY <1>2 DEF CacheKey
<1>4. PICK bz, b : /\ CacheKey(r) = Slot(bz, b, r) /\ <<bz, b>> \in Carried(r.title)
  BY <1>2 DEF CacheKey
<1>5. by = bz /\ a = b
  BY <1>3, <1>4
<1> QED BY <1>1, <1>3, <1>4, <1>5

LEMMA NothingSent == Once(<<>>) /\ Listed(<<>>) = {}
BY DEF Once, Listed

\* One more partial, of streams the run does not list yet.
LEMMA OncePartialMore ==
  ASSUME NEW ps \in Seq(Seq(Streams)), NEW q \in Seq(Streams), Once(ps),
         \A i \in DOMAIN q : q[i].hash \notin Hashes(ps),
         \A i, j \in DOMAIN q : q[i].hash = q[j].hash => i = j
  PROVE  Once(Append(ps, q)) /\ Listed(Append(ps, q)) = Listed(ps) \cup Range(q)
<1> DEFINE rs == Append(ps, q)
           last == Len(ps) + 1
<1>1. /\ DOMAIN rs = DOMAIN ps \cup {last} /\ rs[last] = q
      /\ \A x \in DOMAIN ps : rs[x] = ps[x] /\ x # last
  OBVIOUS
<1>2. \A x \in DOMAIN ps : \A i \in DOMAIN ps[x] : ps[x][i].hash \in Hashes(ps)
  BY DEF Hashes, Listed, Range
<1> HIDE DEF rs, last
<1>3. Listed(rs) = Listed(ps) \cup Range(q)
  BY <1>1 DEF Listed
<1>4. Once(rs)
  <2> SUFFICES ASSUME NEW x \in DOMAIN rs, NEW y \in DOMAIN rs,
                      NEW i \in DOMAIN rs[x], NEW j \in DOMAIN rs[y], rs[x][i].hash = rs[y][j].hash
               PROVE  x = y /\ i = j
    BY DEF Once
  <2>1. CASE x = last /\ y = last
    BY <1>1, <2>1
  <2>2. CASE x = last /\ y # last
    BY <1>1, <1>2, <2>2
  <2>3. CASE x # last /\ y = last
    BY <1>1, <1>2, <2>3
  <2>4. CASE x # last /\ y # last
    BY <1>1, <2>4 DEF Once
  <2> QED BY <2>1, <2>2, <2>3, <2>4
<1> QED BY <1>3, <1>4 DEF rs

\* A step that touches neither the fan-out nor the cache.
LEMMA FanIdle ==
  ASSUME FanInv, StreamsTypeOK', UNCHANGED <<wanted, asked, serving, partials, streamsCache, sent>>
  PROVE  FanInv'
BY DEF FanInv, Idle

LEMMA FanAsk ==
  ASSUME FanInv, StreamsTypeOK', NEW e \in Episodes, Ask(e)
  PROVE  FanInv'
<1> DEFINE n == Len(wanted) + 1
<1>1. /\ UNCHANGED <<serving, partials, streamsCache, sent>> /\ asked' = asked \cup {n}
      /\ DOMAIN wanted' = DOMAIN wanted \cup {n} /\ n \notin DOMAIN wanted
      /\ \A m \in DOMAIN wanted : wanted'[m] = wanted[m]
  <2>1. /\ UNCHANGED <<serving, partials, streamsCache, sent>> /\ asked' = asked \cup {n}
        /\ wanted' = Append(wanted, [title |-> screen, key |-> e])
        /\ wanted \in Seq([title : Titles, key : Episodes])
    BY DEF Ask, FanInv, StreamsTypeOK, fanVars
  <2>2. /\ DOMAIN wanted = 1 .. Len(wanted) /\ DOMAIN wanted' = 1 .. n /\ Len(wanted) \in Nat
        /\ \A m \in 1 .. Len(wanted) : wanted'[m] = wanted[m]
    BY <2>1
  <2> QED BY <2>1, <2>2
<1>2. n \in Asks
  BY <1>1, BoundOfAsks DEF Ask, FanInv, StreamsTypeOK, Asks
<1>3. \A m \in DOMAIN wanted' : OfLike(sent[m], wanted'[m].title)
  <2>1. Listed(sent[n]) = {}
    BY <1>1, <1>2, NothingSent DEF FanInv
  <2>2. OfLike(sent[n], wanted'[n].title)
    BY <2>1 DEF OfLike, OfTitle, Alike
  <2> QED BY <1>1, <2>2 DEF FanInv
<1>4. serving # Idle => serving # n /\ wanted'[serving] = wanted[serving]
  BY <1>1 DEF FanInv, StreamsTypeOK
<1> HIDE DEF n
<1> QED BY <1>1, <1>3, <1>4 DEF FanInv

LEMMA FanServe ==
  ASSUME FanInv, StreamsTypeOK', NEW n \in DOMAIN wanted, Serve(n)
  PROVE  FanInv'
<1> USE DEF clientVars, fanVars, listVars
<1> DEFINE k == CacheKey(wanted[n])
<1>1. wanted' = wanted /\ asked' = asked \ {n} /\ n \in asked /\ n \in Asks /\ n # Idle
  BY WantedIsTyped DEF Serve, FanInv
<1>2. \A e \in DOMAIN streamsCache' : e \in DOMAIN streamsCache /\ streamsCache'[e] = streamsCache[e]
  BY DEF Serve
<1>3. \A e \in DOMAIN streamsCache' :
        streamsCache'[e] # <<>> /\ Once(streamsCache'[e]) /\ OfSlot(streamsCache'[e], e)
  BY <1>2 DEF FanInv
<1>4. CASE k # Nothing /\ k \in DOMAIN streamsCache'
  <2>1. Replay(n, streamsCache[k]) /\ k \in DOMAIN streamsCache
    BY <1>2, <1>4 DEF Serve
  <2>2. Once(streamsCache[k]) /\ OfSlot(streamsCache[k], k) /\ serving' = Idle
    BY <2>1 DEF FanInv, Replay, Serve
  <2>8. OfLike(streamsCache[k], wanted[n].title)
    <3>1. wanted[n] \in [title : Titles, key : Episodes]
      BY WantedIsTyped DEF FanInv
    <3>2. PICK r \in [title : Titles, key : Episodes] :
            CacheKey(r) = k /\ OfTitle(streamsCache[k], r.title)
      BY <2>2 DEF OfSlot
    <3>3. r.title \in Alike(wanted[n].title)
      BY <1>4, <3>1, <3>2, SameSlotAlike
    <3> QED BY <3>2, <3>3 DEF OfLike
  <2>3. sent' = [sent EXCEPT ![n] = streamsCache[k]] /\ sent \in [Asks -> Seq(Seq(Streams))]
    BY <2>1 DEF Replay, FanInv, StreamsTypeOK
  <2>4. \A m \in Asks : Once(sent'[m]) /\ (m \in asked' \/ m \notin DOMAIN wanted => sent'[m] = <<>>)
    BY <1>1, <2>2, <2>3 DEF FanInv
  <2>5. \A m \in DOMAIN wanted : OfLike(sent'[m], wanted[m].title)
    BY <1>1, <2>3, <2>8, WantedIsTyped DEF FanInv
  <2> QED BY <1>1, <1>3, <2>2, <2>4, <2>5 DEF FanInv
<1>5. CASE ~(k # Nothing /\ k \in DOMAIN streamsCache')
  <2>1. FanOut(n)
    BY <1>5 DEF Serve
  <2>2. serving' = n /\ partials' = sent[n] /\ sent' = sent /\ partials' = <<>>
    BY <1>1, <2>1 DEF FanOut, FanInv
  <2>3. OfTitle(partials', wanted[n].title)
    BY <2>2, NothingSent DEF OfTitle
  <2> QED BY <1>1, <1>3, <2>2, <2>3 DEF FanInv
<1> QED BY <1>4, <1>5

LEMMA FanAnswer ==
  ASSUME FanInv, StreamsTypeOK', NEW p \in Providers, ProviderAnswers(p)
  PROVE  FanInv'
<1> USE DEF clientVars, fanVars, listVars
<1>1. /\ UNCHANGED <<wanted, asked, serving, streamsCache>>
      /\ serving # Idle /\ serving \in DOMAIN wanted /\ serving \in Asks /\ snap \in Configs
      /\ partials = sent[serving] /\ serving \notin asked
      /\ OfTitle(partials, wanted[serving].title)
  BY WantedIsTyped DEF ProviderAnswers, FanInv, StreamsTypeOK
<1>2. PICK q \in Offered(snap, Offers[wanted[serving].title][p], Hashes(partials)) :
        IF q = <<>> THEN UNCHANGED <<partials, events, sent>>
        ELSE /\ partials' = Append(partials, q)
             /\ events' = Append(events, Partial(serving, q))
             /\ sent' = [sent EXCEPT ![serving] = Append(@, q)]
  BY DEF ProviderAnswers
<1>3. CASE q = <<>>
  BY <1>1, <1>2, <1>3, FanIdle
<1>4. CASE q # <<>>
  <2>1. /\ partials' = Append(partials, q)
        /\ sent' = [sent EXCEPT ![serving] = partials'] /\ sent \in [Asks -> Seq(Seq(Streams))]
    BY <1>1, <1>2, <1>4 DEF FanInv, StreamsTypeOK
  <2>2. /\ q \in Seq(Streams) /\ Range(q) \subseteq Offers[wanted[serving].title][p]
        /\ \A i \in DOMAIN q : q[i].hash \notin Hashes(partials)
        /\ \A i, j \in DOMAIN q : q[i].hash = q[j].hash => i = j
    <3>1. /\ Range(q) \subseteq Offers[wanted[serving].title][p]
          /\ \A i \in DOMAIN q : q[i].hash \notin Hashes(partials)
          /\ \A i, j \in DOMAIN q : q[i].hash = q[j].hash => i = j
      BY <1>1, <1>2, OfferedLists
    <3>2. q \in Seq(Streams)
      BY <1>1, <1>2, OfferIsTyped DEF FanInv
    <3> QED BY <3>1, <3>2
  <2>3. partials \in Seq(Seq(Streams)) /\ Once(partials) /\ OfTitle(partials, wanted[serving].title)
    BY <1>1 DEF FanInv, StreamsTypeOK
  <2>4. Once(partials') /\ OfTitle(partials', wanted[serving].title)
    BY <2>1, <2>2, <2>3, OncePartialMore DEF OfTitle
  <2>5. \A m \in Asks : Once(sent'[m]) /\ (m \in asked \/ m \notin DOMAIN wanted => sent'[m] = <<>>)
    BY <1>1, <2>1, <2>4 DEF FanInv
  <2>6. \A m \in DOMAIN wanted : OfLike(sent'[m], wanted[m].title)
    <3>1. OfLike(partials', wanted[serving].title)
      BY <2>4 DEF OfLike, Alike
    <3> QED BY <2>1, <3>1, WantedIsTyped DEF FanInv
  <2>7. sent'[serving] = partials'
    BY <1>1, <2>1
  <2> QED BY <1>1, <2>4, <2>5, <2>6, <2>7 DEF FanInv
<1> QED BY <1>3, <1>4

LEMMA FanFinish ==
  ASSUME FanInv, StreamsTypeOK', Finish
  PROVE  FanInv'
<1> USE DEF clientVars, fanVars, listVars
<1>1. /\ UNCHANGED <<wanted, asked, sent>> /\ serving' = Idle
      /\ serving \in DOMAIN wanted /\ serving \in Asks /\ partials = sent[serving]
      /\ OfTitle(partials, wanted[serving].title)
  BY WantedIsTyped DEF Finish, FanInv, StreamsTypeOK
<1>2. Once(partials) /\ wanted[serving] \in [title : Titles, key : Episodes]
  BY <1>1, WantedIsTyped DEF FanInv
<1>3. \A k \in DOMAIN streamsCache' :
        streamsCache'[k] # <<>> /\ Once(streamsCache'[k]) /\ OfSlot(streamsCache'[k], k)
  <2> DEFINE c == CacheKey(wanted[serving])
  <2>1. CASE partials = <<>> \/ c = Nothing
    BY <2>1 DEF Finish, CacheWith, FanInv
  <2>2. CASE partials # <<>> /\ c # Nothing
    <3>1. streamsCache' = Put(streamsCache, c, partials)
      BY <2>2 DEF Finish, CacheWith
    <3>2. OfSlot(partials, c)
      BY <1>1, <1>2 DEF OfSlot
    <3> HIDE DEF c
    <3> QED BY <1>2, <2>2, <3>1, <3>2 DEF Put, FanInv
  <2> QED BY <2>1, <2>2
<1> QED BY <1>1, <1>3 DEF FanInv

LEMMA FanStep == FanInv /\ [StreamsNext]_streamVars => FanInv'
<1> SUFFICES ASSUME FanInv, [StreamsNext]_streamVars PROVE FanInv'
  OBVIOUS
<1> USE DEF clientVars, fanVars, listVars
<1>1. StreamsTypeOK'
  BY StreamsTypeStep DEF FanInv
<1>2. ASSUME NEW e \in Episodes, Ask(e) PROVE FanInv'
  BY <1>1, <1>2, FanAsk
<1>3. ASSUME NEW n \in DOMAIN wanted, Serve(n) PROVE FanInv'
  BY <1>1, <1>3, FanServe
<1>4. ASSUME NEW p \in Providers, ProviderAnswers(p) PROVE FanInv'
  BY <1>1, <1>4, FanAnswer
<1>5. CASE Finish
  BY <1>1, <1>5, FanFinish
<1>6. ASSUME NEW t \in Titles \cup {Nothing}, Visit(t) PROVE FanInv'
  BY <1>1, <1>6, FanIdle DEF Visit
<1>7. ASSUME NEW p \in Providers, ProviderFails(p) PROVE FanInv'
  BY <1>1, <1>7, FanIdle DEF ProviderFails
<1>8. CASE Forward \/ Handle \/ UNCHANGED streamVars
  BY <1>1, <1>8, FanIdle DEF Forward, Handle, streamVars
<1>9. ASSUME NEW n \in DOMAIN wanted, Wake(n) \/ Timeout(n) PROVE FanInv'
  BY <1>1, <1>9, FanIdle DEF Wake, Timeout
<1> QED
  BY <1>2, <1>3, <1>4, <1>5, <1>6, <1>7, <1>8, <1>9
  DEF StreamsNext, UserStep, RuntimeStep, ClientStep

LEMMA FanStart == StreamsInit => FanInv
<1> SUFFICES ASSUME StreamsInit PROVE FanInv
  OBVIOUS
<1>1. \A n \in Asks : sent[n] = <<>>
  BY DEF StreamsInit
<1>2. wanted = <<>> /\ DOMAIN wanted = {} /\ DOMAIN streamsCache = {} /\ serving = Idle
  BY DEF StreamsInit
<1> QED BY <1>1, <1>2, StreamsTypeStart, NothingSent DEF FanInv

THEOREM FanInvHolds == StreamsSpec => []FanInv
BY FanStart, FanStep, PTL DEF StreamsSpec

(* The messages of the UI, the caches and the lists have their types. *)
THEOREM StreamsTypeCorrect == StreamsSpec => []StreamsTypeOK
<1>1. FanInv => StreamsTypeOK
  BY DEF FanInv
<1> QED BY <1>1, FanInvHolds, PTL

(* However many providers know a release, in whatever order they answer and
   however often the run is replayed, a request is sent it once. *)
THEOREM SentOnce == StreamsSpec => []EachStreamOnce
<1>1. FanInv => EachStreamOnce
  BY DEF FanInv, Once, EachStreamOnce
<1> QED BY <1>1, FanInvHolds, PTL

(* Fresh or from the cache, a request is sent one run's streams: its own title's
   or those of a title that carries an identifier in common with it, for any
   identifiers the entries may carry and share. *)
THEOREM SentOfTheTitle == StreamsSpec => []StreamsAreOfTheTitle
<1>1. FanInv => StreamsAreOfTheTitle
  BY DEF FanInv, OfLike, OfTitle, StreamsAreOfTheTitle
<1> QED BY <1>1, FanInvHolds, PTL

-----------------------------------------------------------------------------
(* The order of the messages, from the fan-out to the UI.  Forwarding moves *)
(* a message within Flow without changing it; the goroutine's own answer    *)
(* goes into the middle of it.                                              *)

(* A message about a request follows the request, and nothing but the answer of
   the client's own goroutine follows the marker. *)
Told(m) == m.what # "loaded"
FlowInv ==
  \A x \in DOMAIN Flow : Told(Flow[x]) =>
    /\ Flow[x].ask \in DOMAIN wanted \ asked
    /\ Flow[x].what = "complete" =>
         /\ Flow[x].ask # serving
         /\ Flow[x].failed <=> sent[Flow[x].ask] = <<>>
         /\ \A y \in DOMAIN Flow : Told(Flow[y]) /\ Flow[y].ask = Flow[x].ask => y <= x

\* What F tells was told by G, in the same order.
Kept(F, G) ==
  \E at \in [DOMAIN F -> Nat] :
    \A x \in DOMAIN F : Told(F[x]) =>
      /\ at[x] \in DOMAIN G /\ G[at[x]] = F[x]
      /\ \A y \in DOMAIN F : x < y /\ Told(F[y]) => at[x] < at[y]

LEMMA FlowIsTyped ==
  ASSUME StreamsTypeOK
  PROVE  Flow \in Seq(Messages) /\ Len(Flow) \in Nat /\ DOMAIN Flow = 1 .. Len(Flow)
BY ConcatProperties, LenProperties DEF StreamsTypeOK, Flow

LEMMA ToldOrNot ==
  ASSUME NEW m \in Messages
  PROVE  /\ m.ask \in Asks /\ m.what \in {"partial", "complete", "loaded"}
         /\ Told(m) <=> m.what \in {"partial", "complete"}
BY DEF Messages, Told

LEMMA SameKept == ASSUME NEW F, NEW G, F = G, DOMAIN F \subseteq Nat PROVE Kept(F, G)
<1> DEFINE at == [x \in DOMAIN F |-> x]
<1>1. at \in [DOMAIN F -> Nat]
  OBVIOUS
<1> QED BY <1>1 DEF Kept

\* The UI takes its next message.
LEMMA TailKept ==
  ASSUME NEW M, NEW F \in Seq(M), NEW G \in Seq(M), F # <<>>
  PROVE  Kept(Tail(F) \o G, F \o G)
<1> DEFINE H == Tail(F) \o G
           at == [x \in DOMAIN H |-> x + 1]
<1>1. /\ Tail(F) \in Seq(M) /\ Len(F) \in Nat /\ Len(F) > 0 /\ Len(G) \in Nat
      /\ Len(Tail(F)) = Len(F) - 1
      /\ \A x \in 1 .. Len(F) - 1 : Tail(F)[x] = F[x + 1]
  OBVIOUS
<1>2. /\ DOMAIN H = 1 .. (Len(F) - 1 + Len(G)) /\ DOMAIN (F \o G) = 1 .. (Len(F) + Len(G))
      /\ \A x \in DOMAIN H : (F \o G)[x + 1] = H[x]
  <2>1. /\ DOMAIN H = 1 .. (Len(F) - 1 + Len(G)) /\ DOMAIN (F \o G) = 1 .. (Len(F) + Len(G))
        /\ \A x \in DOMAIN H : H[x] = IF x <= Len(F) - 1 THEN Tail(F)[x] ELSE G[x - (Len(F) - 1)]
        /\ \A x \in DOMAIN (F \o G) : (F \o G)[x] = IF x <= Len(F) THEN F[x] ELSE G[x - Len(F)]
    BY <1>1
  <2> QED BY <1>1, <2>1
<1>3. at \in [DOMAIN H -> Nat]
  BY <1>2
<1>4. \A x, y \in DOMAIN H : at[x] \in DOMAIN (F \o G) /\ (x < y => at[x] < at[y])
  BY <1>1, <1>2
<1> HIDE DEF H
<1>5. Kept(H, F \o G)
  BY <1>2, <1>3, <1>4 DEF Kept
<1> QED BY <1>5 DEF H

\* The goroutine of a request puts its own answer before what the loop sends next.
LEMMA AnswerKept ==
  ASSUME NEW M, NEW F \in Seq(M), NEW G \in Seq(M), NEW m \in M, ~Told(m)
  PROVE  Kept(Append(F, m) \o G, F \o G)
<1> DEFINE H == Append(F, m) \o G
           last == Len(F) + 1
           at == [x \in DOMAIN H |-> IF x < last THEN x ELSE x - 1]
<1>1. Len(F) \in Nat /\ Len(G) \in Nat /\ Append(F, m) \in Seq(M) /\ Len(Append(F, m)) = last
      /\ Append(F, m)[last] = m /\ \A x \in 1 .. Len(F) : Append(F, m)[x] = F[x]
  OBVIOUS
<1>2. /\ DOMAIN H = 1 .. (last + Len(G)) /\ DOMAIN (F \o G) = 1 .. (Len(F) + Len(G))
      /\ H[last] = m
      /\ \A x \in DOMAIN H : x < last => H[x] = (F \o G)[x]
      /\ \A x \in DOMAIN H : x > last => H[x] = (F \o G)[x - 1]
  <2>1. /\ DOMAIN H = 1 .. (last + Len(G)) /\ DOMAIN (F \o G) = 1 .. (Len(F) + Len(G))
        /\ \A x \in DOMAIN H : H[x] = IF x <= last THEN Append(F, m)[x] ELSE G[x - last]
        /\ \A x \in DOMAIN (F \o G) : (F \o G)[x] = IF x <= Len(F) THEN F[x] ELSE G[x - Len(F)]
    BY <1>1
  <2> QED BY <1>1, <2>1
<1>3. at \in [DOMAIN H -> Nat] /\ last \in Nat \ {0}
  BY <1>1, <1>2
<1> HIDE DEF H
<1>4. \A x \in DOMAIN H : Told(H[x]) => x # last
  BY <1>2
<1>5. ASSUME NEW x \in DOMAIN H, Told(H[x])
      PROVE  /\ at[x] \in DOMAIN (F \o G) /\ (F \o G)[at[x]] = H[x]
             /\ \A y \in DOMAIN H : x < y /\ Told(H[y]) => at[x] < at[y]
  <2>0. \A y \in DOMAIN H : at[y] = IF y < last THEN y ELSE y - 1
    OBVIOUS
  <2>1. x \in 1 .. (last + Len(G)) /\ x # last /\ \A y \in DOMAIN H : Told(H[y]) => y # last
    BY <1>2, <1>4, <1>5
  <2> HIDE DEF at
  <2>2. CASE x < last
    BY <1>1, <1>2, <1>3, <2>1, <2>2, <2>0, SMTT(30)
  <2>3. CASE x > last
    BY <1>1, <1>2, <1>3, <2>1, <2>3, <2>0, SMTT(30)
  <2> QED BY <1>1, <2>1, <2>2, <2>3
<1>6. Kept(H, F \o G)
  BY <1>3, <1>5 DEF Kept
<1> QED BY <1>6 DEF H

\* What loses no order and tells nothing new keeps the invariant.
LEMMA KeptFlow ==
  ASSUME FlowInv, Kept(Flow', Flow), DOMAIN Flow \subseteq Nat, DOMAIN Flow' \subseteq Nat,
         UNCHANGED <<wanted, serving, sent>>, asked' \subseteq asked
  PROVE  FlowInv'
<1>1. PICK at \in [DOMAIN Flow' -> Nat] :
        \A x \in DOMAIN Flow' : Told(Flow'[x]) =>
          /\ at[x] \in DOMAIN Flow /\ Flow[at[x]] = Flow'[x]
          /\ \A y \in DOMAIN Flow' : x < y /\ Told(Flow'[y]) => at[x] < at[y]
  BY DEF Kept
<1>2. ASSUME NEW x \in DOMAIN Flow', Told(Flow'[x])
      PROVE  /\ Flow'[x].ask \in DOMAIN wanted \ asked'
             /\ Flow'[x].what = "complete" =>
                  /\ Flow'[x].ask # serving
                  /\ Flow'[x].failed <=> sent[Flow'[x].ask] = <<>>
  BY <1>1, <1>2 DEF FlowInv
<1>3. ASSUME NEW x \in DOMAIN Flow', NEW y \in DOMAIN Flow', Flow'[x].what = "complete",
             Told(Flow'[x]), Told(Flow'[y]), Flow'[y].ask = Flow'[x].ask
      PROVE  y <= x
  <2>1. at[y] <= at[x]
    BY <1>1, <1>3 DEF FlowInv
  <2>2. ~(at[x] < at[y])
    BY <1>1, <1>3, <2>1
  <2> QED BY <1>1, <1>3, <2>2
<1> QED BY <1>2, <1>3 DEF FlowInv

LEMMA FlowStaysTyped ==
  ASSUME StreamsTypeOK'
  PROVE  DOMAIN Flow' \subseteq Nat
<1>1. out' \in Seq(Messages)' /\ events' \in Seq(Messages)'
  BY DEF StreamsTypeOK
<1>2. out' \o events' \in Seq(Messages')
  BY <1>1, ConcatProperties
<1> QED BY <1>2 DEF Flow

\* A step that neither tells anything nor moves a request on.
LEMMA FlowIdle ==
  ASSUME StreamsTypeOK, StreamsTypeOK', FlowInv, Flow' = Flow,
         UNCHANGED <<wanted, asked, serving, sent>>
  PROVE  FlowInv'
<1>1. DOMAIN Flow \subseteq Nat /\ DOMAIN Flow' \subseteq Nat
  BY FlowIsTyped
<1>2. Kept(Flow', Flow)
  BY <1>1, SameKept
<1> QED BY <1>1, <1>2, KeptFlow

LEMMA FlowForward ==
  ASSUME StreamsTypeOK, StreamsTypeOK', FlowInv, Forward
  PROVE  FlowInv'
<1>1. /\ out \in Seq(Messages) /\ events \in Seq(Messages) /\ events # <<>>
      /\ out' = Append(out, Head(events)) /\ events' = Tail(events)
      /\ UNCHANGED <<wanted, asked, serving, sent>>
  BY DEF Forward, StreamsTypeOK, fanVars
<1>2. \A M : \A F, G \in Seq(M) : G # <<>> => Append(F, Head(G)) \o Tail(G) = F \o G
  <2> SUFFICES ASSUME NEW M, NEW F \in Seq(M), NEW G \in Seq(M), G # <<>>
               PROVE  Append(F, Head(G)) \o Tail(G) = F \o G
    OBVIOUS
  <2>1. /\ Head(G) \in M /\ Tail(G) \in Seq(M) /\ Len(Tail(G)) = Len(G) - 1 /\ Head(G) = G[1]
        /\ \A i \in 1 .. Len(G) - 1 : Tail(G)[i] = G[i + 1]
        /\ Len(F) \in Nat /\ Len(G) \in Nat /\ Len(G) > 0
    BY HeadTailProperties
  <2>2. /\ Append(F, Head(G)) \in Seq(M) /\ Len(Append(F, Head(G))) = Len(F) + 1
        /\ \A i \in 1 .. Len(F) : Append(F, Head(G))[i] = F[i]
        /\ Append(F, Head(G))[Len(F) + 1] = G[1]
    BY <2>1, AppendProperties
  <2> DEFINE A == Append(F, Head(G))
             T == Tail(G)
  <2>3. A \in Seq(M) /\ T \in Seq(M)
    BY <2>1, <2>2
  <2> HIDE DEF A, T
  <2>4. /\ A \o T \in Seq(M) /\ Len(A \o T) = Len(A) + Len(T)
        /\ \A i \in 1 .. Len(A) + Len(T) : (A \o T)[i] = IF i <= Len(A) THEN A[i] ELSE T[i - Len(A)]
    BY <2>3, ConcatProperties
  <2>5. /\ F \o G \in Seq(M) /\ Len(F \o G) = Len(F) + Len(G)
        /\ \A i \in 1 .. Len(F) + Len(G) : (F \o G)[i] = IF i <= Len(F) THEN F[i] ELSE G[i - Len(F)]
    BY ConcatProperties
  <2>6. Len(A \o T) = Len(F \o G)
    BY <2>1, <2>2, <2>4, <2>5 DEF A, T
  <2>7. \A i \in 1 .. Len(F \o G) : (A \o T)[i] = (F \o G)[i]
    BY <2>1, <2>2, <2>4, <2>5 DEF A, T
  <2> QED BY <2>4, <2>5, <2>6, <2>7, SeqEqual DEF A, T
<1>3. Flow' = Flow
  BY <1>1, <1>2 DEF Flow
<1> QED BY <1>1, <1>3, FlowIdle

LEMMA FlowHandle ==
  ASSUME StreamsTypeOK, StreamsTypeOK', FlowInv, Handle
  PROVE  FlowInv'
<1>1. /\ out \in Seq(Messages) /\ events \in Seq(Messages) /\ out # <<>>
      /\ out' = Tail(out) /\ events' = events
      /\ UNCHANGED <<wanted, asked, serving, sent>>
  BY DEF Handle, StreamsTypeOK, fanVars
<1>2. Kept(Flow', Flow)
  BY <1>1, TailKept DEF Flow
<1> QED BY <1>1, <1>2, FlowIsTyped, FlowStaysTyped, KeptFlow

LEMMA FlowLoaded ==
  ASSUME StreamsTypeOK, StreamsTypeOK', FlowInv, NEW n \in DOMAIN wanted, Wake(n) \/ Timeout(n)
  PROVE  FlowInv'
<1>1. PICK failed \in BOOLEAN : out' = Append(out, Loaded(n, failed))
  BY DEF Wake, Timeout
<1>2. /\ out \in Seq(Messages) /\ events \in Seq(Messages) /\ events' = events
      /\ UNCHANGED <<wanted, asked, serving, sent>>
  BY DEF Wake, Timeout, StreamsTypeOK, fanVars
<1>3. Loaded(n, failed) \in Messages /\ ~Told(Loaded(n, failed))
  BY MessagesAreTyped DEF Loaded, Told
<1>4. Kept(Flow', Flow)
  BY <1>1, <1>2, <1>3, AnswerKept DEF Flow
<1> QED BY <1>2, <1>4, FlowIsTyped, FlowStaysTyped, KeptFlow

\* The loop tells more about one request that has no marker yet; a marker comes last.
LEMMA ToldMore ==
  ASSUME StreamsTypeOK, FlowInv, wanted' = wanted, asked' \subseteq asked,
         serving' \in {serving, Idle}, NEW n \in DOMAIN wanted \ asked',
         \A m \in DOMAIN wanted \ {n} : sent'[m] = sent[m],
         \A x \in DOMAIN Flow : Flow[x].what = "complete" => Flow[x].ask # n,
         NEW r \in Seq(Messages), out' = out, events' = events \o r,
         \A x \in DOMAIN r :
           /\ r[x].ask = n
           /\ r[x].what = "complete" =>
                x = Len(r) /\ serving' # n /\ (r[x].failed <=> sent'[n] = <<>>)
  PROVE  FlowInv'
<1>1. Flow \in Seq(Messages) /\ Len(Flow) \in Nat /\ Len(r) \in Nat
  BY FlowIsTyped
<1>2. Flow' = Flow \o r
  <2>1. out \in Seq(Messages) /\ events \in Seq(Messages)
    BY DEF StreamsTypeOK
  <2>2. (out \o events) \o r = out \o (events \o r)
    BY <2>1, ConcatAssociative
  <2> QED BY <2>2 DEF Flow
<1>3. /\ DOMAIN Flow' = 1 .. (Len(Flow) + Len(r)) /\ DOMAIN Flow = 1 .. Len(Flow) /\ DOMAIN r = 1 .. Len(r)
      /\ \A x \in DOMAIN Flow : Flow'[x] = Flow[x]
      /\ \A x \in DOMAIN Flow' \ DOMAIN Flow :
           x - Len(Flow) \in DOMAIN r /\ Flow'[x] = r[x - Len(Flow)]
  BY <1>1, <1>2
<1> DEFINE Good(x) ==
             /\ Flow'[x].ask \in DOMAIN wanted \ asked'
             /\ Flow'[x].what = "complete" =>
                  /\ Flow'[x].ask # serving'
                  /\ Flow'[x].failed <=> sent'[Flow'[x].ask] = <<>>
                  /\ \A y \in DOMAIN Flow' : Told(Flow'[y]) /\ Flow'[y].ask = Flow'[x].ask => y <= x
<1>4. ASSUME NEW x \in DOMAIN Flow, Told(Flow'[x]) PROVE Good(x)
  <2>1. Flow'[x] = Flow[x] /\ Flow[x].ask \in DOMAIN wanted \ asked
    BY <1>3, <1>4 DEF FlowInv
  <2>2. SUFFICES ASSUME Flow[x].what = "complete"
                 PROVE  /\ Flow[x].ask # serving'
                        /\ Flow[x].failed <=> sent'[Flow[x].ask] = <<>>
                        /\ \A y \in DOMAIN Flow' : Told(Flow'[y]) /\ Flow'[y].ask = Flow[x].ask => y <= x
    BY <2>1
  <2>3. Flow[x].ask # n
    BY <2>2
  <2>4. Flow[x].ask # serving' /\ (Flow[x].failed <=> sent'[Flow[x].ask] = <<>>)
    BY <1>3, <1>4, <2>1, <2>2, <2>3, WantedIsTyped DEF FlowInv
  <2>5. ASSUME NEW y \in DOMAIN Flow', Told(Flow'[y]), Flow'[y].ask = Flow[x].ask PROVE y <= x
    <3>1. y \in DOMAIN Flow
      BY <1>3, <2>3, <2>5
    <3> QED BY <1>3, <1>4, <2>2, <2>5, <3>1 DEF FlowInv
  <2> QED BY <2>4, <2>5
<1>5. ASSUME NEW x \in DOMAIN Flow' \ DOMAIN Flow PROVE Good(x)
  <2>1. /\ x - Len(Flow) \in DOMAIN r /\ Flow'[x] = r[x - Len(Flow)] /\ Flow'[x].ask = n
    BY <1>3
  <2>2. ASSUME Flow'[x].what = "complete" PROVE \A y \in DOMAIN Flow' : y <= x
    <3>1. x - Len(Flow) = Len(r)
      BY <2>1, <2>2
    <3> QED BY <1>1, <1>3, <3>1
  <2>3. Flow'[x].what = "complete" => Flow'[x].ask # serving' /\ (Flow'[x].failed <=> sent'[Flow'[x].ask] = <<>>)
    BY <2>1
  <2> QED BY <2>1, <2>2, <2>3
<1> QED BY <1>4, <1>5 DEF FlowInv

LEMMA AppendToConcat ==
  ASSUME NEW F \in Seq(Messages), NEW G \in Seq(Messages), NEW m \in Messages
  PROVE  Append(F \o G, m) = F \o Append(G, m)
<1>1. /\ F \o G \in Seq(Messages) /\ <<m>> \in Seq(Messages) /\ Append(G, m) = G \o <<m>>
      /\ Append(F \o G, m) = (F \o G) \o <<m>>
  BY ConcatProperties, AppendIsConcat
<1> QED BY <1>1, ConcatAssociative

\* Until a request has been served it has no marker; while it is served neither.
LEMMA Unmarked ==
  ASSUME FlowInv, NEW n, n \in asked \/ n = serving
  PROVE  \A x \in DOMAIN Flow : Flow[x].what = "complete" => Flow[x].ask # n
BY DEF FlowInv, Told

LEMMA FlowServe ==
  ASSUME FanInv, FlowInv, StreamsTypeOK', NEW n \in DOMAIN wanted, Serve(n)
  PROVE  FlowInv'
<1> USE DEF clientVars, fanVars, listVars
<1> DEFINE k == CacheKey(wanted[n])
           ps == streamsCache[k]
           run == [x \in DOMAIN ps |-> Partial(n, ps[x])]
           mark == Complete(n, FALSE)
<1>1. /\ StreamsTypeOK /\ wanted' = wanted /\ asked' = asked \ {n} /\ out' = out
      /\ n \in asked /\ n \in Asks /\ n # Idle /\ serving = Idle
  BY WantedIsTyped DEF Serve, FanInv
<1>2. \A x \in DOMAIN Flow : Flow[x].what = "complete" => Flow[x].ask # n
  BY <1>1, Unmarked
<1>3. CASE k # Nothing /\ k \in DOMAIN streamsCache'
  <2>1. Replay(n, ps) /\ k \in DOMAIN streamsCache
    BY <1>3 DEF Serve
  <2>2. ps \in Seq(Seq(Streams)) /\ ps # <<>>
    BY <2>1 DEF FanInv, StreamsTypeOK
  <2>3. /\ sent' = [sent EXCEPT ![n] = ps] /\ sent \in [Asks -> Seq(Seq(Streams))]
        /\ serving' = Idle /\ events' = Append(events \o run, mark)
    BY <1>1, <2>1 DEF Replay, StreamsTypeOK
  <2>4. /\ run \in Seq(Messages) /\ mark \in Messages /\ events \in Seq(Messages)
    BY <1>1, <2>2, ReplayIsTyped, MessagesAreTyped DEF StreamsTypeOK
  <2>5. /\ mark.ask = n /\ mark.what = "complete" /\ mark.failed = FALSE
        /\ \A x \in DOMAIN run : run[x].ask = n /\ run[x].what = "partial"
    BY DEF Complete, Partial
  <2> HIDE DEF run, mark
  <2>6. events' = events \o Append(run, mark) /\ Append(run, mark) \in Seq(Messages)
    <3> HIDE DEF ps, k
    <3>1. Append(events \o run, mark) = events \o Append(run, mark)
      BY <2>4, AppendToConcat
    <3>2. Append(run, mark) \in Seq(Messages)
      BY <2>4, AppendProperties
    <3> QED BY <2>3, <3>1, <3>2
  <2>7. \A x \in DOMAIN Append(run, mark) : \/ x \in DOMAIN run /\ Append(run, mark)[x] = run[x]
                                            \/ x = Len(Append(run, mark)) /\ Append(run, mark)[x] = mark
    BY <2>4
  <2>8. sent'[n] # <<>> /\ \A m \in DOMAIN wanted \ {n} : sent'[m] = sent[m]
    BY <1>1, <2>2, <2>3, WantedIsTyped
  <2>9. \A x \in DOMAIN Append(run, mark) :
          /\ Append(run, mark)[x].ask = n
          /\ Append(run, mark)[x].what = "complete" =>
               x = Len(Append(run, mark)) /\ serving' # n
                 /\ (Append(run, mark)[x].failed <=> sent'[n] = <<>>)
    BY <1>1, <2>3, <2>5, <2>7, <2>8
  <2>10. serving' \in {serving, Idle} /\ asked' \subseteq asked /\ n \in DOMAIN wanted \ asked'
    BY <1>1, <2>3
  <2> HIDE DEF ps, k
  <2> QED BY <1>1, <1>2, <2>6, <2>8, <2>9, <2>10, ToldMore
<1>4. CASE ~(k # Nothing /\ k \in DOMAIN streamsCache')
  <2>1. FanOut(n)
    BY <1>4 DEF Serve
  <2>2. serving' = n /\ sent' = sent /\ events' = events
    BY <2>1 DEF FanOut
  <2>3. Flow' = Flow
    BY <1>1, <2>2 DEF Flow
  <2> QED BY <1>1, <1>2, <2>2, <2>3 DEF FlowInv
<1> QED BY <1>3, <1>4

LEMMA FlowAnswer ==
  ASSUME FanInv, FlowInv, StreamsTypeOK', NEW p \in Providers, ProviderAnswers(p)
  PROVE  FlowInv'
<1> USE DEF clientVars, fanVars, listVars
<1>1. /\ StreamsTypeOK /\ UNCHANGED <<wanted, asked, serving, out>>
      /\ serving # Idle /\ serving \in DOMAIN wanted \ asked /\ serving \in Asks
  BY WantedIsTyped DEF ProviderAnswers, FanInv, StreamsTypeOK
<1>2. PICK q \in Offered(snap, Offers[wanted[serving].title][p], Hashes(partials)) :
        IF q = <<>> THEN UNCHANGED <<partials, events, sent>>
        ELSE /\ partials' = Append(partials, q)
             /\ events' = Append(events, Partial(serving, q))
             /\ sent' = [sent EXCEPT ![serving] = Append(@, q)]
  BY DEF ProviderAnswers
<1>3. CASE q = <<>>
  <2>1. Flow' = Flow /\ sent' = sent
    BY <1>1, <1>2, <1>3 DEF Flow
  <2> QED BY <1>1, <2>1, FlowIdle
<1>4. CASE q # <<>>
  <2> DEFINE r == <<Partial(serving, q)>>
  <2>1. Partial(serving, q) \in Messages /\ events \in Seq(Messages)
    BY <1>1, <1>2, OfferIsTyped DEF StreamsTypeOK
  <2>2. r \in Seq(Messages) /\ events' = events \o r
    BY <1>2, <1>4, <2>1, AppendIsConcat
  <2>3. \A x \in DOMAIN r : r[x].ask = serving /\ r[x].what = "partial"
    BY DEF Partial
  <2>4. \A m \in DOMAIN wanted \ {serving} : sent'[m] = sent[m]
    BY <1>1, <1>2, <1>4, WantedIsTyped DEF StreamsTypeOK
  <2>5. \A x \in DOMAIN Flow : Flow[x].what = "complete" => Flow[x].ask # serving
    BY Unmarked
  <2>6. /\ wanted' = wanted /\ asked' \subseteq asked /\ out' = out
        /\ serving' \in {serving, Idle} /\ serving \in DOMAIN wanted \ asked'
    BY <1>1
  <2>7. \A x \in DOMAIN r :
          /\ r[x].ask = serving
          /\ r[x].what = "complete" =>
               x = Len(r) /\ serving' # serving /\ (r[x].failed <=> sent'[serving] = <<>>)
    BY <2>3
  <2> HIDE DEF r
  <2> QED BY <1>1, <2>2, <2>4, <2>5, <2>6, <2>7, ToldMore, ZenonT(60)
<1> QED BY <1>3, <1>4

LEMMA FlowFinish ==
  ASSUME FanInv, FlowInv, StreamsTypeOK', Finish
  PROVE  FlowInv'
<1> USE DEF clientVars, fanVars, listVars
<1> DEFINE mark == Complete(serving, partials = <<>>)
           r == <<mark>>
<1>1. /\ StreamsTypeOK /\ UNCHANGED <<wanted, asked, sent, out>> /\ serving' = Idle
      /\ serving # Idle /\ serving \in DOMAIN wanted \ asked /\ partials = sent[serving]
      /\ events' = Append(events, mark)
  BY DEF Finish, FanInv, StreamsTypeOK
<1>2. mark \in Messages /\ events \in Seq(Messages)
  <2>1. (partials = <<>>) \in BOOLEAN
    OBVIOUS
  <2> QED BY <1>1, <2>1, MessagesAreTyped DEF StreamsTypeOK
<1>3. mark.ask = serving /\ (mark.failed <=> sent'[serving] = <<>>)
  BY <1>1 DEF Complete
<1> HIDE DEF mark
<1>4. r \in Seq(Messages) /\ events' = events \o r
  BY <1>1, <1>2, AppendIsConcat
<1>5. \A x \in DOMAIN r : x = Len(r) /\ r[x] = mark
  OBVIOUS
<1>6. \A x \in DOMAIN Flow : Flow[x].what = "complete" => Flow[x].ask # serving
  BY Unmarked
<1>7. /\ wanted' = wanted /\ asked' \subseteq asked /\ out' = out
      /\ serving' \in {serving, Idle} /\ serving \in DOMAIN wanted \ asked'
      /\ \A m \in DOMAIN wanted \ {serving} : sent'[m] = sent[m]
  BY <1>1
<1>8. \A x \in DOMAIN r :
        /\ r[x].ask = serving
        /\ r[x].what = "complete" =>
             x = Len(r) /\ serving' # serving /\ (r[x].failed <=> sent'[serving] = <<>>)
  BY <1>1, <1>3, <1>5
<1> HIDE DEF r
<1> QED BY <1>1, <1>4, <1>6, <1>7, <1>8, ToldMore

LEMMA FlowAsk ==
  ASSUME FanInv, FlowInv, StreamsTypeOK', NEW e \in Episodes, Ask(e)
  PROVE  FlowInv'
<1> DEFINE n == Len(wanted) + 1
<1>1. /\ UNCHANGED <<out, events, serving, sent>> /\ asked' = asked \cup {n}
      /\ wanted' = Append(wanted, [title |-> screen, key |-> e])
      /\ wanted \in Seq([title : Titles, key : Episodes])
  BY DEF Ask, FanInv, StreamsTypeOK, fanVars
<1>2. DOMAIN wanted' = DOMAIN wanted \cup {n} /\ n \notin DOMAIN wanted
  BY <1>1
<1>3. Flow' = Flow
  BY <1>1 DEF Flow
<1> HIDE DEF n
<1> QED BY <1>1, <1>2, <1>3 DEF FlowInv

LEMMA FlowStep == FanInv /\ FanInv' /\ FlowInv /\ [StreamsNext]_streamVars => FlowInv'
<1> SUFFICES ASSUME FanInv, FanInv', FlowInv, [StreamsNext]_streamVars PROVE FlowInv'
  OBVIOUS
<1> USE DEF clientVars, fanVars, listVars
<1>1. StreamsTypeOK /\ StreamsTypeOK'
  BY DEF FanInv
<1>2. ASSUME NEW e \in Episodes, Ask(e) PROVE FlowInv'
  BY <1>1, <1>2, FlowAsk
<1>3. ASSUME NEW n \in DOMAIN wanted, Serve(n) PROVE FlowInv'
  BY <1>1, <1>3, FlowServe
<1>4. ASSUME NEW p \in Providers, ProviderAnswers(p) PROVE FlowInv'
  BY <1>1, <1>4, FlowAnswer
<1>5. CASE Finish
  BY <1>1, <1>5, FlowFinish
<1>6. CASE Forward
  BY <1>1, <1>6, FlowForward
<1>7. CASE Handle
  BY <1>1, <1>7, FlowHandle
<1>8. ASSUME NEW n \in DOMAIN wanted, Wake(n) \/ Timeout(n) PROVE FlowInv'
  BY <1>1, <1>8, FlowLoaded
<1>9. ASSUME NEW t \in Titles \cup {Nothing}, Visit(t) PROVE FlowInv'
  BY <1>1, <1>9, FlowIdle DEF Visit, Flow
<1>10. ASSUME NEW p \in Providers, ProviderFails(p) PROVE FlowInv'
  BY <1>1, <1>10, FlowIdle DEF ProviderFails, Flow
<1>11. CASE UNCHANGED streamVars
  BY <1>1, <1>11, FlowIdle DEF streamVars, Flow
<1> QED
  BY <1>2, <1>3, <1>4, <1>5, <1>6, <1>7, <1>8, <1>9, <1>10, <1>11
  DEF StreamsNext, UserStep, RuntimeStep, ClientStep

LEMMA FlowStart == StreamsInit => FlowInv
BY DEF StreamsInit, FlowInv, Flow

THEOREM FlowInvHolds == StreamsSpec => []FlowInv
BY FanInvHolds, FlowStart, FlowStep, PTL DEF StreamsSpec

(* The marker of a request comes once, behind all of its streams, fresh or
   replayed, whatever else is put into the channel of the UI in between. *)
THEOREM MarkerComesLast == StreamsSpec => []MarkerLast
<1>1. FanInv /\ FlowInv => MarkerLast
  BY DEF FlowInv, MarkerLast, About, Told
<1> QED BY <1>1, FanInvHolds, FlowInvHolds, PTL

(* The marker carries an error exactly when the request was sent no stream. *)
THEOREM MarkerIsHonest == StreamsSpec => []ErrorOnlyWhenEmpty
<1>1. FanInv /\ FlowInv => ErrorOnlyWhenEmpty
  BY DEF FlowInv, ErrorOnlyWhenEmpty, About, Told
<1> QED BY <1>1, FanInvHolds, FlowInvHolds, PTL
=============================================================================
