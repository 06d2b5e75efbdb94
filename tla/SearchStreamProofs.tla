-------------------------- MODULE SearchStreamProofs --------------------------
(***************************************************************************)
(* What SearchStream guarantees for any scopes, queries and channel sizes, *)
(* also when the runtime exits in the middle of a search.  The argument    *)
(* about closing: a subscription expects at least as many finals as there  *)
(* are scopes that can still send, and the final of a scope is the last of *)
(* its messages in the pipe; so when the count reaches zero nothing of the *)
(* query is left.                                                          *)
(* The messages of a scope keep their order from the wire into the column  *)
(* (StreamInv), so there are two of a scope, the channel has room for both *)
(* and a column only advances; the finals neither shown nor in the channel *)
(* are counted by the subscription, so at its end none is missing (EndInv).*)
(***************************************************************************)
EXTENDS SearchStream, FiniteSetTheorems, SequenceTheorems, TLAPS

\* Scopes of a query that have not finalised, or of which a message is on its way.
Travels(q, s) == \E i \in DOMAIN wire : wire[i].query = q /\ wire[i].scope = s
Owes(q) == {s \in Scopes : stage[q][s] # "final" \/ Travels(q, s)}

\* The final of a scope is the last of its messages on the wire.
FinalsAreSent ==
  \A i \in DOMAIN wire : ~wire[i].partial => stage[wire[i].query][wire[i].scope] = "final"
FinalsAreLast ==
  \A i, j \in DOMAIN wire :
    i < j /\ wire[i].query = wire[j].query /\ wire[i].scope = wire[j].scope => wire[i].partial

\* Queries not handed out yet, requests not handled yet, live subscriptions and
\* closed channels.
NewQueries ==
  \A q \in Queries : q > lastQuery =>
    q \notin subs \cup closed \cup requested /\ \A s \in Scopes : stage[q][s] = "idle"
RequestsAreIdle == \A q \in requested : \A s \in Scopes : stage[q][s] = "idle"
CountSuffices == \A q \in subs : q \notin closed /\ remaining[q] >= Cardinality(Owes(q))
ClosedOweNothing == \A q \in closed : Owes(q) = {}

QueryInv ==
  /\ FinalsAreSent /\ FinalsAreLast
  /\ NewQueries /\ RequestsAreIdle
  /\ CountSuffices /\ ClosedOweNothing

\* The view kept for the way back is the one before the first search, and it is
\* there as long as there is a search.
ScreenInv ==
  /\ snapshot \subseteq {BrowseView}
  /\ snapshot = {} => active = NoQuery /\ starting = NoQuery
  /\ BrowseOutsideSearch

----------------------------------------------------------------------------
(* Types.                                                                   *)

\* The initial state is well typed.
LEMMA InitTypeOK == Init => TypeOK
<1> SUFFICES ASSUME Init PROVE TypeOK
  OBVIOUS
<1>1. <<>> \in Seq(Message)
  BY EmptySeq
<1>2. wire \in Seq(Message) /\ ch \in [Queries -> Seq(Message)]
  BY <1>1 DEF Init
<1>3. snapshot \subseteq View /\ Cardinality(snapshot) <= 1
  BY FS_EmptySet DEF Init
<1>4. items \in View
  BY DEF Init, BrowseView, Browse, View
<1>5. 0 \in 0 .. MaxQueries /\ 0 \in 0 .. MaxSwitches
  BY SizesAreNat
<1>6. stage \in [Queries -> [Scopes -> {"idle", "running", "partial", "final"}]]
  BY DEF Init
<1>7. remaining \in [Queries -> Int]
  BY DEF Init
<1>8. reader \in [Queries -> {"none", "reading", "posted", "lost", "stopped"}]
  BY DEF Init
<1> QED BY <1>2, <1>3, <1>4, <1>5, <1>6, <1>7, <1>8 DEF Init, TypeOK, NoQuery

\* The screen's steps keep the types.
LEMMA ScreenTypes ==
  ASSUME TypeOK, Screen \/ ActivateSearch
  PROVE  TypeOK'
<1>1. CASE StartSearch
  <2>1. lastQuery + 1 \in Queries /\ lastQuery' \in 0 .. MaxQueries
    BY <1>1, SizesAreNat DEF StartSearch, TypeOK, Queries
  <2>2. Cardinality(Scopes) \in Int
    BY SizesAreNat, FS_CardinalityType
  <2>3. snapshot' \subseteq View /\ Cardinality(snapshot') <= 1
    <3>1. Cardinality({items}) = 1
      BY FS_Singleton
    <3> QED BY <1>1, <3>1 DEF StartSearch, KeepFirstView, TypeOK
  <2>4. remaining' \in [Queries -> Int]
    BY <1>1, <2>1, <2>2 DEF StartSearch, TypeOK
  <2>5. /\ requested' \in SUBSET Queries /\ unacked' \in SUBSET Queries
        /\ failed' \in SUBSET Queries /\ subs' \in SUBSET Queries
        /\ starting' \in Queries \cup {NoQuery}
    BY <1>1, <2>1 DEF StartSearch, TypeOK
  <2> QED BY <1>1, <2>1, <2>3, <2>4, <2>5 DEF StartSearch, TypeOK, runtimeVars, tabVars
<1>2. CASE RestoreView
  <2>1. snapshot' \subseteq View /\ Cardinality(snapshot') <= 1 /\ items' \in View
    BY <1>2, FS_EmptySet DEF RestoreView, TypeOK
  <2> QED BY <1>2, <2>1 DEF RestoreView, TypeOK, runtimeVars, clientVars, tabVars
<1>3. CASE SwitchTab
  <2>1. switches' \in 0 .. MaxSwitches
    BY <1>3, SizesAreNat DEF SwitchTab, TypeOK
  <2> QED BY <1>3, <2>1 DEF SwitchTab, TypeOK, runtimeVars, clientVars, screenVars
<1>4. CASE ActivateSearch
  BY <1>4 DEF ActivateSearch, TypeOK, runtimeVars, clientVars, tabVars
<1> QED BY <1>1, <1>2, <1>3, <1>4 DEF Screen

\* The steps of one query keep the types.
LEMMA QueryTypes ==
  ASSUME TypeOK, NEW q \in Queries, Query(q)
  PROVE  TypeOK'
<1>1. CASE ReadNext(q)
  <2>1. Head(ch[q]) \in Message /\ Tail(ch[q]) \in Seq(Message)
    BY <1>1, HeadTailProperties DEF ReadNext, TypeOK
  <2>2. ch' \in [Queries -> Seq(Message)]
    BY <1>1, <2>1 DEF ReadNext, TypeOK
  <2>3. items' \in View /\ partial' \in BOOLEAN
    BY <1>1, <2>1 DEF ReadNext, TypeOK, View, Message
  <2>4. reader' \in [Queries -> {"none", "reading", "posted", "lost", "stopped"}]
    BY <1>1 DEF ReadNext, TypeOK
  <2> QED BY <1>1, <2>2, <2>3, <2>4 DEF ReadNext, TypeOK, runtimeVars, tabVars
<1>2. CASE ReadClosed(q)
  BY <1>2 DEF ReadClosed, TypeOK, runtimeVars, clientVars, tabVars
<1>3. CASE UpdateFollowup(q)
  BY <1>3 DEF UpdateFollowup, TypeOK, runtimeVars, clientVars, tabVars
<1>4. CASE HandleSearch(q)
  BY <1>4 DEF HandleSearch, TypeOK, screenVars, tabVars
<1>5. CASE AckArrives(q) \/ ForgetFailed(q)
  BY <1>5 DEF AckArrives, ForgetFailed, TypeOK, runtimeVars, screenVars, tabVars
<1> QED BY <1>1, <1>2, <1>3, <1>4, <1>5 DEF Query

\* The runtime's messages and the client's read loop keep the types.
LEMMA StreamTypes ==
  ASSUME TypeOK,
         \/ \E q \in Queries, s \in Scopes : EmitPartial(q, s) \/ EmitFinal(q, s)
         \/ RuntimeExits \/ DrainPending \/ DispatchScopeResults
  PROVE  TypeOK'
<1>1. ASSUME NEW q \in Queries, NEW s \in Scopes, EmitPartial(q, s) \/ EmitFinal(q, s)
      PROVE  TypeOK'
  <2>1. \A b \in BOOLEAN : [query |-> q, scope |-> s, partial |-> b] \in Message
    BY DEF Message
  <2>2. wire' \in Seq(Message)
    <3>1. PICK b \in BOOLEAN : wire' = Append(wire, [query |-> q, scope |-> s, partial |-> b])
      BY <1>1 DEF EmitPartial, EmitFinal, Send
    <3> QED BY <2>1, <3>1, AppendProperties DEF TypeOK
  <2>3. stage' \in [Queries -> [Scopes -> {"idle", "running", "partial", "final"}]]
    <3>1. PICK to \in {"partial", "final"} : stage' = [stage EXCEPT ![q][s] = to]
      BY <1>1 DEF EmitPartial, EmitFinal
    <3> QED BY <3>1 DEF TypeOK
  <2> QED BY <1>1, <2>2, <2>3
       DEF EmitPartial, EmitFinal, TypeOK, clientVars, screenVars, tabVars
<1>2. CASE RuntimeExits
  <2>1. PICK n \in 0 .. Len(wire) : wire' = SubSeq(wire, 1, n)
    BY <1>2 DEF RuntimeExits
  <2>2. wire' \in Seq(Message)
    <3>1. wire \in Seq(Message) /\ Len(wire) \in Nat
      BY LenProperties DEF TypeOK
    <3>2. n \in Int /\ \A i \in 1 .. n : i \in 1 .. Len(wire)
      BY <3>1
    <3>3. \A i \in 1 .. n : wire[i] \in Message
      BY <3>1, <3>2, ElementOfSeq
    <3> QED BY <2>1, <3>2, <3>3, SubSeqProperties
  <2> QED BY <1>2, <2>2 DEF RuntimeExits, TypeOK, clientVars, screenVars, tabVars
<1>3. CASE DrainPending
  BY <1>3 DEF DrainPending, TypeOK, runtimeVars, screenVars, tabVars
<1>4. CASE DispatchScopeResults
  <2> DEFINE m == Head(wire)
  <2>1. m \in Message /\ Tail(wire) \in Seq(Message)
    BY <1>4, HeadTailProperties DEF DispatchScopeResults, TypeOK
  <2>2. m.query \in Queries /\ ch[m.query] \in Seq(Message)
    BY <2>1 DEF Message, TypeOK
  <2>3. Append(ch[m.query], m) \in Seq(Message)
    BY <2>1, <2>2, AppendProperties
  <2>4. /\ ch' \in [Queries -> Seq(Message)] /\ remaining' \in [Queries -> Int]
        /\ subs' \in SUBSET Queries /\ closed' \in SUBSET Queries
    <3> HIDE DEF m
    <3>1. ch' = ch \/ ch' = [ch EXCEPT ![m.query] = Append(ch[m.query], m)]
      BY <1>4 DEF DispatchScopeResults, Deliver, m
    <3>2. remaining' = remaining \/ remaining' = [remaining EXCEPT ![m.query] = remaining[m.query] - 1]
      BY <1>4 DEF DispatchScopeResults, CountFinal, m
    <3>3. subs' \subseteq subs /\ closed' \subseteq closed \cup {m.query}
      BY <1>4 DEF DispatchScopeResults, CountFinal, m
    <3>4. ch' \in [Queries -> Seq(Message)]
      BY <2>2, <2>3, <3>1 DEF TypeOK
    <3>5. remaining' \in [Queries -> Int]
      <4>1. remaining \in [Queries -> Int] /\ remaining[m.query] - 1 \in Int
        BY <2>2 DEF TypeOK
      <4> QED BY <3>2, <4>1
    <3> QED BY <2>2, <3>3, <3>4, <3>5 DEF TypeOK
  <2> QED BY <1>4, <2>1, <2>4 DEF DispatchScopeResults, TypeOK, screenVars, tabVars
<1> QED BY <1>1, <1>2, <1>3, <1>4

\* Every step keeps the types.
LEMMA TypeStep ==
  ASSUME TypeOK, [Next]_vars
  PROVE  TypeOK'
<1>1. CASE UNCHANGED vars
  BY <1>1 DEF vars, runtimeVars, clientVars, screenVars, tabVars, TypeOK
<1> QED BY <1>1, ScreenTypes, QueryTypes, StreamTypes DEF Next

\* Streams, subscriptions and columns keep their types in every step.
THEOREM TypeCorrect == Spec => []TypeOK
<1>1. TypeOK /\ [Next]_vars => TypeOK'
  BY TypeStep
<1> QED BY InitTypeOK, <1>1, PTL DEF Spec

----------------------------------------------------------------------------
(* The way back to the browse view.                                         *)

\* Every step keeps the first view.
LEMMA ScreenStep ==
  ASSUME TypeOK, ScreenInv, [Next]_vars
  PROVE  ScreenInv'
<1> USE DEF ScreenInv, BrowseOutsideSearch
<1>0. NoQuery \notin Queries
  BY DEF NoQuery, Queries
<1>1. CASE StartSearch
  BY <1>1 DEF StartSearch, KeepFirstView, TypeOK
<1>2. CASE RestoreView
  BY <1>2 DEF RestoreView
<1>3. CASE ActivateSearch
  BY <1>0, <1>3 DEF ActivateSearch, TypeOK
<1>4. ASSUME NEW q \in Queries, ReadNext(q) PROVE ScreenInv'
  <2>1. Head(ch[q]) \in Message
    BY <1>4, HeadTailProperties DEF ReadNext, TypeOK
  <2>2. Head(ch[q]).query # NoQuery
    BY <1>0, <2>1 DEF Message
  <2> QED BY <1>4, <2>2 DEF ReadNext
<1>5. CASE UNCHANGED <<snapshot, active, starting, items>>
  BY <1>5
<1>6. ASSUME NEW q \in Queries,
             \/ ReadClosed(q) \/ UpdateFollowup(q) \/ HandleSearch(q) \/ AckArrives(q)
             \/ ForgetFailed(q)
      PROVE  UNCHANGED <<snapshot, active, starting, items>>
  BY <1>6 DEF ReadClosed, UpdateFollowup, HandleSearch, AckArrives, ForgetFailed, screenVars
<1>7. ASSUME NEW q \in Queries, NEW s \in Scopes, EmitPartial(q, s) \/ EmitFinal(q, s)
      PROVE  UNCHANGED <<snapshot, active, starting, items>>
  BY <1>7 DEF EmitPartial, EmitFinal, screenVars
<1>8. ASSUME SwitchTab \/ RuntimeExits \/ DrainPending \/ DispatchScopeResults \/ UNCHANGED vars
      PROVE  UNCHANGED <<snapshot, active, starting, items>>
  BY <1>8 DEF SwitchTab, RuntimeExits, DrainPending, DispatchScopeResults, vars, screenVars
<1> QED BY <1>1, <1>2, <1>3, <1>4, <1>5, <1>6, <1>7, <1>8 DEF Next, Screen, Query

\* Outside a search the columns show the view from before the first one, whatever
\* the readers of abandoned queries still receive.
THEOREM BrowseViewReturns == Spec => []BrowseOutsideSearch
<1>1. Init => ScreenInv
  BY DEF Init, ScreenInv, BrowseOutsideSearch
<1>2. TypeOK /\ ScreenInv /\ [Next]_vars => ScreenInv'
  BY ScreenStep
<1>3. ScreenInv => BrowseOutsideSearch
  BY DEF ScreenInv
<1> QED BY <1>1, <1>2, <1>3, TypeCorrect, PTL DEF Spec

----------------------------------------------------------------------------
(* What a query still owes.                                                 *)

\* A query owes finitely many scopes.
LEMMA OwesFinite ==
  ASSUME NEW q \in Queries
  PROVE  IsFiniteSet(Owes(q)) /\ Cardinality(Owes(q)) \in Nat
<1>1. Owes(q) \in SUBSET Scopes
  BY DEF Owes
<1> QED BY <1>1, SizesAreNat, FS_Subset, FS_CardinalityType

\* The same after a step.
LEMMA OwesFiniteNext ==
  ASSUME NEW q \in Queries
  PROVE  IsFiniteSet(Owes(q)') /\ Cardinality(Owes(q)') \in Nat
<1>1. Owes(q)' \in SUBSET Scopes
  BY DEF Owes
<1> QED BY <1>1, SizesAreNat, FS_Subset, FS_CardinalityType

\* A step by which no query owes more keeps the counts sufficient.
LEMMA OwingLess ==
  ASSUME TypeOK, QueryInv, subs' \subseteq subs, closed' = closed,
         \A q \in subs' : remaining'[q] = remaining[q],
         \A q \in Queries : Owes(q)' \subseteq Owes(q)
  PROVE  CountSuffices' /\ ClosedOweNothing'
<1>1. ASSUME NEW q \in subs' PROVE q \notin closed' /\ remaining'[q] >= Cardinality(Owes(q)')
  <2>1. q \in Queries /\ q \in subs /\ remaining[q] \in Int
    BY <1>1 DEF TypeOK
  <2>2. /\ Cardinality(Owes(q)') <= Cardinality(Owes(q))
        /\ Cardinality(Owes(q)') \in Nat /\ Cardinality(Owes(q)) \in Nat
    BY <2>1, OwesFinite, OwesFiniteNext, FS_Subset
  <2>3. q \notin closed /\ remaining[q] >= Cardinality(Owes(q))
    BY <2>1 DEF QueryInv, CountSuffices
  <2> QED BY <1>1, <2>1, <2>2, <2>3
<1>2. ASSUME NEW q \in closed' PROVE Owes(q)' = {}
  BY <1>2 DEF QueryInv, ClosedOweNothing, TypeOK
<1> QED BY <1>1, <1>2 DEF CountSuffices, ClosedOweNothing

\* A step that touches neither the wire nor the scopes.
LEMMA QueryStill ==
  ASSUME TypeOK, QueryInv, UNCHANGED <<stage, wire, lastQuery, closed, remaining>>,
         subs' \subseteq subs, requested' \subseteq requested
  PROVE  QueryInv'
<1>1. FinalsAreSent' /\ FinalsAreLast' /\ NewQueries' /\ RequestsAreIdle'
  BY DEF QueryInv, FinalsAreSent, FinalsAreLast, NewQueries, RequestsAreIdle
<1>2. \A q \in Queries : Owes(q)' \subseteq Owes(q)
  BY DEF Owes, Travels
<1> QED BY <1>1, <1>2, OwingLess DEF QueryInv

\* A new search subscribes for a final from every scope.
LEMMA StartStep ==
  ASSUME TypeOK, QueryInv, StartSearch
  PROVE  QueryInv'
<1>0. PICK q \in Queries : q = lastQuery + 1
  BY SizesAreNat DEF StartSearch, TypeOK, Queries
<1>1. q \in Queries /\ q > lastQuery /\ lastQuery' = q /\ lastQuery \in Int
  BY <1>0, SizesAreNat DEF StartSearch, TypeOK, Queries
<1>2. /\ q \notin subs \cup closed \cup requested
      /\ \A s \in Scopes : stage[q][s] = "idle"
  BY <1>1 DEF QueryInv, NewQueries
<1>3. /\ UNCHANGED <<stage, wire, closed>>
      /\ subs' = subs \cup {q} /\ requested' \subseteq requested \cup {q}
      /\ remaining' = [remaining EXCEPT ![q] = Cardinality(Scopes)]
  BY <1>0 DEF StartSearch, runtimeVars
<1>4. FinalsAreSent' /\ FinalsAreLast'
  BY <1>3 DEF QueryInv, FinalsAreSent, FinalsAreLast
<1>5. RequestsAreIdle'
  BY <1>2, <1>3 DEF QueryInv, RequestsAreIdle
<1>6. NewQueries'
  <2> SUFFICES ASSUME NEW r \in Queries, r > q
               PROVE  r \notin subs' \cup closed' \cup requested'
                      /\ \A s \in Scopes : stage'[r][s] = "idle"
    BY <1>1 DEF NewQueries
  <2>1. r > lastQuery /\ r # q
    BY <1>1 DEF Queries
  <2> QED BY <1>3, <2>1 DEF QueryInv, NewQueries
<1>7. \A r \in Queries : Owes(r)' = Owes(r)
  BY <1>3 DEF Owes, Travels
<1>8. CountSuffices'
  <2>1. ASSUME NEW r \in subs, r # q PROVE r \notin closed' /\ remaining'[r] >= Cardinality(Owes(r)')
    BY <1>3, <1>7, <2>1 DEF QueryInv, CountSuffices, TypeOK
  <2>2. q \notin closed' /\ remaining'[q] >= Cardinality(Owes(q)')
    <3>1. Owes(q)' \in SUBSET Scopes
      BY DEF Owes
    <3>2. /\ Cardinality(Owes(q)') <= Cardinality(Scopes)
          /\ Cardinality(Owes(q)') \in Nat /\ Cardinality(Scopes) \in Nat
      BY <1>1, <3>1, SizesAreNat, FS_Subset, FS_CardinalityType, OwesFiniteNext
    <3>3. remaining'[q] = Cardinality(Scopes)
      BY <1>1, <1>3 DEF TypeOK
    <3> QED BY <1>2, <1>3, <3>2, <3>3
  <2> QED BY <1>3, <2>1, <2>2 DEF CountSuffices
<1>9. ClosedOweNothing'
  BY <1>3, <1>7 DEF QueryInv, ClosedOweNothing, TypeOK
<1> QED BY <1>4, <1>5, <1>6, <1>8, <1>9 DEF QueryInv

\* A message sent by a scope that has not finalised is the last on the wire, and
\* the scope already owed.
LEMMA EmitStep ==
  ASSUME TypeOK, QueryInv, NEW q \in Queries, NEW s \in Scopes,
         EmitPartial(q, s) \/ EmitFinal(q, s)
  PROVE  QueryInv'
<1>1. PICK b \in BOOLEAN :
        /\ wire' = Append(wire, [query |-> q, scope |-> s, partial |-> b])
        /\ stage' = [stage EXCEPT ![q][s] = IF b THEN "partial" ELSE "final"]
        /\ stage[q][s] \in {"running", "partial"}
        /\ UNCHANGED <<lastQuery, requested, subs, remaining, closed>>
  BY DEF EmitPartial, EmitFinal, Send, clientVars
<1> DEFINE m == [query |-> q, scope |-> s, partial |-> b]
           n == Len(wire)
<1>2. /\ wire \in Seq(Message) /\ m \in Message /\ n \in Nat
      /\ DOMAIN wire = 1 .. n /\ DOMAIN wire' = 1 .. (n + 1)
      /\ \A i \in 1 .. n : wire'[i] = wire[i]
      /\ wire'[n + 1] = m
  BY <1>1, LenProperties, AppendProperties DEF TypeOK, Message
<1>3. /\ stage'[q][s] = IF b THEN "partial" ELSE "final"
      /\ \A r \in Queries, t \in Scopes : r # q \/ t # s => stage'[r][t] = stage[r][t]
  BY <1>1 DEF TypeOK
<1>4. \A i \in DOMAIN wire : wire[i] \in Message
  BY <1>2, ElementOfSeq
<1>5. m.query = q /\ m.scope = s /\ m.partial = b
  OBVIOUS
<1>6. \A i \in DOMAIN wire : ~(wire[i].query = q /\ wire[i].scope = s /\ ~wire[i].partial)
  BY <1>1 DEF QueryInv, FinalsAreSent
<1> HIDE DEF m, n
<1>7. FinalsAreSent'
  <2> SUFFICES ASSUME NEW i \in DOMAIN wire', ~wire'[i].partial
               PROVE  stage'[wire'[i].query][wire'[i].scope] = "final"
    BY DEF FinalsAreSent
  <2>1. CASE i = n + 1
    BY <1>2, <1>3, <1>5, <2>1
  <2>2. CASE i \in 1 .. n
    <3>1. /\ i \in DOMAIN wire /\ wire'[i] = wire[i]
          /\ wire[i].query \in Queries /\ wire[i].scope \in Scopes
      BY <1>2, <1>4, <2>2 DEF Message
    <3>2. stage[wire[i].query][wire[i].scope] = "final"
      BY <3>1 DEF QueryInv, FinalsAreSent
    <3> QED BY <1>3, <1>6, <3>1, <3>2
  <2> QED BY <1>2, <2>1, <2>2
<1>8. FinalsAreLast'
  <2> SUFFICES ASSUME NEW i \in DOMAIN wire', NEW j \in DOMAIN wire', i < j,
                      wire'[i].query = wire'[j].query, wire'[i].scope = wire'[j].scope
               PROVE  wire'[i].partial
    BY DEF FinalsAreLast
  <2>1. i \in DOMAIN wire /\ wire'[i] = wire[i]
    BY <1>2
  <2>2. CASE j = n + 1
    <3>1. wire[i].query = q /\ wire[i].scope = s
      BY <1>2, <1>5, <2>1, <2>2
    <3> QED BY <1>6, <2>1, <3>1
  <2>3. CASE j \in 1 .. n
    BY <1>2, <2>1, <2>3 DEF QueryInv, FinalsAreLast
  <2> QED BY <1>2, <2>2, <2>3
<1>9. NewQueries' /\ RequestsAreIdle'
  <2>1. ~(q > lastQuery) /\ q \notin requested
    BY <1>1 DEF QueryInv, NewQueries, RequestsAreIdle
  <2> QED BY <1>1, <1>3, <2>1 DEF QueryInv, NewQueries, RequestsAreIdle, TypeOK
<1>10. ASSUME NEW r \in Queries PROVE Owes(r)' \subseteq Owes(r)
  <2> SUFFICES ASSUME NEW t \in Scopes, stage'[r][t] # "final" \/ Travels(r, t)'
               PROVE  stage[r][t] # "final" \/ Travels(r, t)
    BY DEF Owes
  <2>1. CASE r = q /\ t = s
    BY <1>1, <2>1
  <2>2. CASE r # q \/ t # s
    <3>1. stage'[r][t] = stage[r][t]
      BY <1>3, <2>2
    <3>2. ASSUME Travels(r, t)' PROVE Travels(r, t)
      <4>1. PICK i \in DOMAIN wire' : wire'[i].query = r /\ wire'[i].scope = t
        BY <3>2 DEF Travels
      <4>2. i \in 1 .. n
        BY <1>2, <1>5, <2>2, <4>1
      <4> QED BY <1>2, <4>1, <4>2 DEF Travels
    <3> QED BY <3>1, <3>2
  <2> QED BY <2>1, <2>2
<1> QED BY <1>1, <1>7, <1>8, <1>9, <1>10, OwingLess DEF QueryInv

\* Handling a request starts scopes that were idle: all of them were owed.
LEMMA HandleStep ==
  ASSUME TypeOK, QueryInv, NEW q \in Queries, HandleSearch(q)
  PROVE  QueryInv'
<1>1. /\ q \in requested /\ requested' = requested \ {q}
      /\ stage' = [stage EXCEPT ![q] = [s \in Scopes |-> "running"]]
      /\ UNCHANGED <<wire, lastQuery, subs, remaining, closed>>
  BY DEF HandleSearch
<1>2. /\ \A s \in Scopes : stage[q][s] = "idle"
      /\ ~(q > lastQuery)
  BY <1>1 DEF QueryInv, NewQueries, RequestsAreIdle
<1>3. \A r \in Queries \ {q} : stage'[r] = stage[r]
  BY <1>1 DEF TypeOK
<1>4. \A i \in DOMAIN wire : wire[i].query \in Queries /\ wire[i].scope \in Scopes
  <2>1. wire \in Seq(Message) /\ DOMAIN wire = 1 .. Len(wire)
    BY LenProperties DEF TypeOK
  <2>2. \A i \in DOMAIN wire : wire[i] \in Message
    BY <2>1, ElementOfSeq
  <2> QED BY <2>2 DEF Message
<1>5. FinalsAreSent'
  <2> SUFFICES ASSUME NEW i \in DOMAIN wire, ~wire[i].partial
               PROVE  stage'[wire[i].query][wire[i].scope] = "final"
    BY <1>1 DEF FinalsAreSent
  <2>1. stage[wire[i].query][wire[i].scope] = "final"
    BY DEF QueryInv, FinalsAreSent
  <2>2. wire[i].query # q
    BY <1>2, <1>4, <2>1
  <2> QED BY <1>3, <1>4, <2>1, <2>2
<1>6. FinalsAreLast'
  BY <1>1 DEF QueryInv, FinalsAreLast
<1>7. NewQueries' /\ RequestsAreIdle'
  BY <1>1, <1>2, <1>3 DEF QueryInv, NewQueries, RequestsAreIdle, TypeOK
<1>8. ASSUME NEW r \in Queries PROVE Owes(r)' \subseteq Owes(r)
  <2>1. CASE r = q
    BY <1>2, <2>1 DEF Owes
  <2>2. CASE r # q
    BY <1>1, <1>3, <2>2 DEF Owes, Travels
  <2> QED BY <2>1, <2>2
<1> QED BY <1>1, <1>5, <1>6, <1>7, <1>8, OwingLess DEF QueryInv

\* What a dying runtime leaves on the pipe is a prefix of it.
LEMMA ExitPrefix ==
  ASSUME TypeOK, RuntimeExits
  PROVE  DOMAIN wire' \subseteq DOMAIN wire /\ \A i \in DOMAIN wire' : wire'[i] = wire[i]
<1>1. PICK n \in 0 .. Len(wire) : wire' = SubSeq(wire, 1, n)
  BY DEF RuntimeExits
<1>2. wire \in Seq(Message) /\ Len(wire) \in Nat /\ DOMAIN wire = 1 .. Len(wire)
  BY LenProperties DEF TypeOK
<1>3. n \in Int /\ \A i \in 1 .. n : i \in 1 .. Len(wire)
  BY <1>2
<1>4. \A i \in 1 .. n : wire[i] \in Message
  BY <1>2, <1>3, ElementOfSeq
<1>5. DOMAIN wire' = 1 .. n /\ \A i \in 1 .. n : wire'[i] = wire[i]
  BY <1>1, <1>2, <1>3, <1>4, SubSeqProperties
<1> QED BY <1>2, <1>3, <1>5

\* So nothing it leaves behind was not owed before.
LEMMA ExitStep ==
  ASSUME TypeOK, QueryInv, RuntimeExits
  PROVE  QueryInv'
<1>2. UNCHANGED <<stage, lastQuery, requested, subs, remaining, closed>>
  BY DEF RuntimeExits, clientVars
<1>3. DOMAIN wire' \subseteq DOMAIN wire /\ \A i \in DOMAIN wire' : wire'[i] = wire[i]
  BY ExitPrefix
<1>4. FinalsAreSent' /\ FinalsAreLast'
  BY <1>2, <1>3 DEF QueryInv, FinalsAreSent, FinalsAreLast
<1>5. NewQueries' /\ RequestsAreIdle'
  BY <1>2 DEF QueryInv, NewQueries, RequestsAreIdle
<1>6. \A q \in Queries : Owes(q)' \subseteq Owes(q)
  BY <1>2, <1>3 DEF Owes, Travels
<1> QED BY <1>2, <1>4, <1>5, <1>6, OwingLess DEF QueryInv

\* The read loop takes the first message off the wire.  Its final, when it is
\* one, was the last message of its scope, so that scope no longer owes.
LEMMA DispatchStep ==
  ASSUME TypeOK, QueryInv, DispatchScopeResults
  PROVE  QueryInv'
<1>0. wire \in Seq(Message) /\ wire # <<>> /\ wire' = Tail(wire)
  BY DEF DispatchScopeResults, TypeOK
<1>1. PICK m \in Message : m = Head(wire)
  BY <1>0, HeadTailProperties
<1>2. /\ m.query \in Queries /\ m.scope \in Scopes /\ m.partial \in BOOLEAN
      /\ UNCHANGED <<stage, lastQuery, requested>>
  BY <1>1 DEF DispatchScopeResults, Message
<1>3. /\ Len(wire) \in Nat /\ Len(wire) > 0
      /\ DOMAIN wire = 1 .. Len(wire) /\ DOMAIN wire' = 1 .. (Len(wire) - 1)
      /\ \A i \in 1 .. (Len(wire) - 1) : wire'[i] = wire[i + 1]
      /\ wire[1] = m
  BY <1>0, <1>1, HeadTailProperties, LenProperties, EmptySeq
<1>4. 1 \in DOMAIN wire /\ \A i \in DOMAIN wire' : i + 1 \in DOMAIN wire /\ wire'[i] = wire[i + 1]
  BY <1>3
<1>5. FinalsAreSent'
  BY <1>2, <1>4 DEF QueryInv, FinalsAreSent
<1>6. FinalsAreLast'
  <2> SUFFICES ASSUME NEW i \in DOMAIN wire', NEW j \in DOMAIN wire', i < j,
                      wire'[i].query = wire'[j].query, wire'[i].scope = wire'[j].scope
               PROVE  wire'[i].partial
    BY DEF FinalsAreLast
  <2>1. i + 1 < j + 1
    BY <1>3
  <2> QED BY <1>4, <2>1 DEF QueryInv, FinalsAreLast
<1>7. \A r \in Queries : Owes(r)' \subseteq Owes(r)
  BY <1>2, <1>4 DEF Owes, Travels
<1>8. CASE ~(m.query \in subs /\ ~m.partial)
  <2>1. UNCHANGED <<remaining, subs, closed>>
    BY <1>1, <1>8 DEF DispatchScopeResults, CountFinal
  <2> QED
    BY <1>2, <1>5, <1>6, <1>7, <2>1, OwingLess
    DEF QueryInv, NewQueries, RequestsAreIdle
<1>9. CASE m.query \in subs /\ ~m.partial
  <2>1. PICK q \in Queries : q = m.query
    BY <1>2
  <2>2. /\ remaining' = [remaining EXCEPT ![q] = remaining[q] - 1]
        /\ IF remaining'[q] <= 0
           THEN subs' = subs \ {q} /\ closed' = closed \cup {q}
           ELSE subs' = subs /\ closed' = closed
    BY <1>1, <1>9, <2>1 DEF DispatchScopeResults, CountFinal
  <2>3. /\ remaining[q] \in Int /\ remaining'[q] = remaining[q] - 1
        /\ \A r \in Queries \ {q} : remaining'[r] = remaining[r]
    BY <2>1, <2>2 DEF TypeOK
  <2>4. m.scope \in Owes(q)
    BY <1>2, <1>3, <1>4, <2>1 DEF Owes, Travels
  <2>5. m.scope \notin Owes(q)'
    <3>1. stage'[q][m.scope] = "final"
      BY <1>2, <1>3, <1>4, <1>9, <2>1 DEF QueryInv, FinalsAreSent
    <3>2. ~Travels(q, m.scope)'
      <4> SUFFICES ASSUME NEW i \in DOMAIN wire',
                          wire'[i].query = q, wire'[i].scope = m.scope
                   PROVE  FALSE
        BY DEF Travels
      <4>1. 1 < i + 1
        BY <1>3
      <4>2. wire[i + 1].query = wire[1].query /\ wire[i + 1].scope = wire[1].scope
        BY <1>3, <1>4, <2>1
      <4>3. wire[1].partial
        BY <1>4, <4>1, <4>2 DEF QueryInv, FinalsAreLast
      <4> QED BY <1>3, <1>9, <4>3
    <3> QED BY <3>1, <3>2 DEF Owes
  <2>6. /\ Cardinality(Owes(q)') \in Nat /\ Cardinality(Owes(q)) \in Nat
        /\ Cardinality(Owes(q)') <= Cardinality(Owes(q)) - 1
    <3>1. Owes(q)' \subseteq Owes(q) \ {m.scope}
      BY <1>7, <2>1, <2>5
    <3>2. /\ IsFiniteSet(Owes(q) \ {m.scope})
          /\ Cardinality(Owes(q) \ {m.scope}) = Cardinality(Owes(q)) - 1
      BY <2>1, <2>4, OwesFinite, FS_RemoveElement
    <3>3. Cardinality(Owes(q)') <= Cardinality(Owes(q) \ {m.scope})
      BY <3>1, <3>2, FS_Subset
    <3> QED BY <2>1, <3>2, <3>3, OwesFinite, OwesFiniteNext
  <2>7. q \in subs /\ q \notin closed /\ remaining[q] >= Cardinality(Owes(q))
    BY <1>9, <2>1 DEF QueryInv, CountSuffices
  <2>8. remaining'[q] >= Cardinality(Owes(q)')
    BY <2>3, <2>6, <2>7
  <2>9. CountSuffices'
    <3>1. ASSUME NEW r \in subs', r = q PROVE r \notin closed' /\ remaining'[r] >= Cardinality(Owes(r)')
      BY <2>2, <2>7, <2>8, <3>1
    <3>2. ASSUME NEW r \in subs', r # q PROVE r \notin closed' /\ remaining'[r] >= Cardinality(Owes(r)')
      <4>1. r \in subs /\ r \in Queries /\ remaining[r] \in Int
        BY <2>2, <3>2 DEF TypeOK
      <4>2. /\ Cardinality(Owes(r)') <= Cardinality(Owes(r))
            /\ Cardinality(Owes(r)') \in Nat /\ Cardinality(Owes(r)) \in Nat
        BY <1>7, <4>1, OwesFinite, OwesFiniteNext, FS_Subset
      <4>3. r \notin closed /\ remaining[r] >= Cardinality(Owes(r))
        BY <4>1 DEF QueryInv, CountSuffices
      <4>4. r \notin closed' /\ remaining'[r] = remaining[r]
        BY <2>2, <2>3, <3>2, <4>1, <4>3
      <4> QED BY <4>1, <4>2, <4>3, <4>4
    <3> QED BY <3>1, <3>2 DEF CountSuffices
  <2>10. ClosedOweNothing'
    <3>1. ASSUME NEW r \in closed', r \in closed PROVE Owes(r)' = {}
      BY <1>7, <3>1 DEF QueryInv, ClosedOweNothing, TypeOK
    <3>2. ASSUME q \in closed' PROVE Owes(q)' = {}
      <4>1. remaining'[q] <= 0
        BY <2>2, <2>7, <3>2
      <4>2. Cardinality(Owes(q)') = 0
        BY <2>3, <2>6, <2>8, <4>1
      <4> QED BY <2>1, <4>2, OwesFiniteNext, FS_EmptySet
    <3>3. closed' \subseteq closed \cup {q}
      BY <2>2
    <3> QED BY <3>1, <3>2, <3>3 DEF ClosedOweNothing
  <2>11. NewQueries' /\ RequestsAreIdle'
    <3>1. ~(q > lastQuery)
      BY <2>1, <2>7 DEF QueryInv, NewQueries
    <3>2. subs' \subseteq subs /\ closed' \subseteq closed \cup {q}
      BY <2>2
    <3> QED BY <1>2, <3>1, <3>2 DEF QueryInv, NewQueries, RequestsAreIdle
  <2> QED BY <1>5, <1>6, <2>9, <2>10, <2>11 DEF QueryInv
<1> QED BY <1>8, <1>9

\* Every step keeps the argument about closing.
LEMMA QueryInvStep ==
  ASSUME TypeOK, QueryInv, [Next]_vars
  PROVE  QueryInv'
<1>1. ASSUME NEW q \in Queries,
             ReadNext(q) \/ ReadClosed(q) \/ UpdateFollowup(q) \/ AckArrives(q) \/ ForgetFailed(q)
      PROVE  QueryInv'
  <2>1. /\ UNCHANGED <<stage, wire, lastQuery, closed, remaining>>
        /\ subs' \subseteq subs /\ requested' \subseteq requested
    BY <1>1 DEF ReadNext, ReadClosed, UpdateFollowup, AckArrives, ForgetFailed,
                runtimeVars, clientVars
  <2> QED BY <2>1, QueryStill
<1>2. ASSUME RestoreView \/ SwitchTab \/ ActivateSearch \/ DrainPending \/ UNCHANGED vars
      PROVE  QueryInv'
  <2>1. UNCHANGED <<stage, wire, lastQuery, closed, remaining, subs, requested>>
    BY <1>2 DEF RestoreView, SwitchTab, ActivateSearch, DrainPending, vars,
                runtimeVars, clientVars
  <2> QED BY <2>1, QueryStill
<1> QED BY <1>1, <1>2, StartStep, EmitStep, HandleStep, ExitStep, DispatchStep
       DEF Next, Screen, Query

\* Before the first search nothing is owed to anyone.
LEMMA QueryInvInit == Init => QueryInv
BY DEF Init, QueryInv, FinalsAreSent, FinalsAreLast, NewQueries, RequestsAreIdle,
       CountSuffices, ClosedOweNothing

\* The argument about closing holds in every state.
THEOREM QueryInvHolds == Spec => []QueryInv
<1>1. TypeOK /\ QueryInv /\ [Next]_vars => QueryInv'
  BY QueryInvStep
<1> QED BY QueryInvInit, <1>1, TypeCorrect, PTL DEF Spec

\* The read loop never sends on, or closes, a channel that is closed: a
\* subscription it can find is open (dispatchScopeResults).
THEOREM SubscriptionsAreOpen == Spec => []OpenWhileSubscribed
<1>1. QueryInv => OpenWhileSubscribed
  BY DEF QueryInv, CountSuffices, OpenWhileSubscribed
<1> QED BY <1>1, QueryInvHolds, PTL

\* A channel is closed only when every scope has finalised and nothing of the
\* query is still on its way.
THEOREM ClosedIsFinal == Spec => []ClosedMeansFinal
<1>1. TypeOK /\ QueryInv => ClosedMeansFinal
  <2> SUFFICES ASSUME TypeOK, QueryInv, NEW q \in closed, NEW s \in Scopes
               PROVE  /\ stage[q][s] = "final"
                      /\ \A i \in DOMAIN wire : wire[i].query # q
    BY DEF ClosedMeansFinal
  <2>1. Owes(q) = {}
    BY DEF QueryInv, ClosedOweNothing
  <2>2. wire \in Seq(Message) /\ DOMAIN wire = 1 .. Len(wire)
    BY LenProperties DEF TypeOK
  <2>3. \A i \in DOMAIN wire : wire[i] \in Message
    BY <2>2, ElementOfSeq
  <2>4. \A i \in DOMAIN wire : wire[i].query # q
    BY <2>1, <2>3 DEF Owes, Travels, Message
  <2> QED BY <2>1, <2>4 DEF Owes
<1> QED BY <1>1, QueryInvHolds, TypeCorrect, PTL

----------------------------------------------------------------------------
(* The order of a scope's messages.                                         *)

\* Of two messages of one scope the earlier is the partial, the later the final.
Ordered(a, b) == a.query = b.query /\ a.scope = b.scope => a.partial /\ ~b.partial

\* What a scope has sent, its stage remembers.
Passed(m) == stage[m.query][m.scope] \in IF m.partial THEN {"partial", "final"} ELSE {"final"}

\* A message goes from the wire to its channel and from there to its column; all
\* along this way those ahead of it are earlier ones.
InOrder ==
  /\ \A i, j \in DOMAIN wire : i < j => Ordered(wire[i], wire[j])
  /\ \A q \in Queries : \A i, j \in DOMAIN ch[q] : i < j => Ordered(ch[q][i], ch[q][j])
  /\ \A q \in Queries : \A i \in DOMAIN ch[q] : \A j \in DOMAIN wire : Ordered(ch[q][i], wire[j])
  /\ \A s \in Scopes : \A j \in DOMAIN wire : Ordered(items[s], wire[j])
  /\ \A s \in Scopes : \A q \in Queries : \A i \in DOMAIN ch[q] : Ordered(items[s], ch[q][i])

AllPassed ==
  /\ \A i \in DOMAIN wire : Passed(wire[i])
  /\ \A q \in Queries : \A i \in DOMAIN ch[q] : ch[q][i].query = q /\ Passed(ch[q][i])
  /\ \A s \in Scopes : items[s].scope = s /\ (items[s].query # NoQuery => Passed(items[s]))

StreamInv == InOrder /\ AllPassed

\* What the types say of the messages at each of the three places.
LEMMA Places ==
  ASSUME TypeOK
  PROVE  /\ wire \in Seq(Message) /\ \A i \in DOMAIN wire : wire[i] \in Message
         /\ \A q \in Queries : ch[q] \in Seq(Message) /\ \A i \in DOMAIN ch[q] : ch[q][i] \in Message
         /\ \A s \in Scopes : /\ items[s].query \in Queries \cup {NoQuery}
                              /\ items[s].partial \in BOOLEAN
<1>1. wire \in Seq(Message) /\ \A q \in Queries : ch[q] \in Seq(Message)
  BY DEF TypeOK
<1>2. \A t \in Seq(Message) : \A i \in DOMAIN t : t[i] \in Message
  BY LenProperties, ElementOfSeq
<1>3. \A s \in Scopes : items[s] \in Message \/ \E t \in Scopes : items[s] = Browse(t)
  BY DEF TypeOK, View
<1>4. \A s \in Scopes : items[s].query \in Queries \cup {NoQuery} /\ items[s].partial \in BOOLEAN
  <2> SUFFICES ASSUME NEW s \in Scopes
               PROVE  items[s].query \in Queries \cup {NoQuery} /\ items[s].partial \in BOOLEAN
    OBVIOUS
  <2>1. CASE items[s] \in Message
    BY <2>1 DEF Message
  <2>2. ASSUME NEW t \in Scopes, items[s] = Browse(t)
        PROVE  items[s].query \in Queries \cup {NoQuery} /\ items[s].partial \in BOOLEAN
    BY <2>2 DEF Browse
  <2> QED BY <1>3, <2>1, <2>2
<1> QED BY <1>1, <1>2, <1>4

\* Taking the first element of a sequence moves the others up by one.
LEMMA Taking ==
  ASSUME NEW S, NEW t \in Seq(S), t # <<>>
  PROVE  /\ 1 \in DOMAIN t /\ Head(t) = t[1] /\ Len(t) \in Nat
         /\ \A i \in DOMAIN Tail(t) : /\ i \in Nat /\ i + 1 \in DOMAIN t /\ 1 < i + 1
                                      /\ Tail(t)[i] = t[i + 1]
         /\ \A i \in DOMAIN t : i = 1 \/ (i - 1 \in DOMAIN Tail(t) /\ t[i] = Tail(t)[i - 1])
<1>1. Tail(t) \in Seq(S) /\ Len(Tail(t)) = Len(t) - 1 /\ Len(t) \in Nat \ {0}
  BY HeadTailProperties, EmptySeq
<1>2. DOMAIN t = 1 .. Len(t) /\ DOMAIN Tail(t) = 1 .. (Len(t) - 1)
  BY <1>1, LenProperties
<1>3. \A i \in 1 .. (Len(t) - 1) : Tail(t)[i] = t[i + 1]
  BY <1>1, HeadTailProperties
<1> QED BY <1>1, <1>2, <1>3

\* Appending puts one element behind all others.
LEMMA Appending ==
  ASSUME NEW S, NEW t \in Seq(S), NEW e \in S
  PROVE  \E n \in Nat : /\ n \notin DOMAIN t /\ DOMAIN Append(t, e) = DOMAIN t \cup {n}
                        /\ Append(t, e)[n] = e
                        /\ \A i \in DOMAIN t : i < n /\ Append(t, e)[i] = t[i]
<1>1. Append(t, e) \in Seq(S) /\ Len(Append(t, e)) = Len(t) + 1 /\ Len(t) \in Nat
  BY AppendProperties, LenProperties
<1>2. DOMAIN t = 1 .. Len(t) /\ DOMAIN Append(t, e) = 1 .. (Len(t) + 1)
  BY <1>1, LenProperties
<1>3. Append(t, e)[Len(t) + 1] = e /\ \A i \in 1 .. Len(t) : Append(t, e)[i] = t[i]
  BY AppendProperties
<1> QED BY <1>1, <1>2, <1>3

\* A scope sends a message: all that was sent for it before comes first, and its
\* stage still remembers that.
LEMMA StreamEmit ==
  ASSUME TypeOK, StreamInv, NEW q \in Queries, NEW s \in Scopes,
         EmitPartial(q, s) \/ EmitFinal(q, s)
  PROVE  StreamInv'
<1>0. PICK b \in BOOLEAN :
        /\ wire' = Append(wire, [query |-> q, scope |-> s, partial |-> b])
        /\ stage' = [stage EXCEPT ![q][s] = IF b THEN "partial" ELSE "final"]
        /\ stage[q][s] \in IF b THEN {"running"} ELSE {"running", "partial"}
        /\ UNCHANGED <<ch, items>>
  <2>1. CASE EmitPartial(q, s)
    BY <2>1 DEF EmitPartial, Send, clientVars, screenVars
  <2>2. CASE EmitFinal(q, s)
    BY <2>2 DEF EmitFinal, Send, clientVars, screenVars
  <2> QED BY <2>1, <2>2
<1> DEFINE m == [query |-> q, scope |-> s, partial |-> b]
<1>1. m \in Message /\ m.query = q /\ wire' = Append(wire, m)
  BY <1>0 DEF Message
<1>2. \A x : /\ x.partial \in BOOLEAN /\ x.query \in Queries /\ x.scope \in Scopes /\ Passed(x)
             => /\ Ordered(x, m)
                /\ stage'[x.query][x.scope] \in IF x.partial THEN {"partial", "final"} ELSE {"final"}
  <2> SUFFICES ASSUME NEW x, x.partial \in BOOLEAN, x.query \in Queries, x.scope \in Scopes, Passed(x)
               PROVE  /\ Ordered(x, m)
                      /\ stage'[x.query][x.scope] \in IF x.partial THEN {"partial", "final"} ELSE {"final"}
    OBVIOUS
  <2>1. CASE x.query = q /\ x.scope = s
    <3>1. x.partial /\ ~b
      BY <1>0, <2>1 DEF Passed
    <3>2. stage'[q][s] = "final"
      BY <1>0, <3>1 DEF TypeOK
    <3> QED BY <2>1, <3>1, <3>2 DEF Ordered
  <2>2. CASE ~(x.query = q /\ x.scope = s)
    <3>1. stage'[x.query][x.scope] = stage[x.query][x.scope]
      BY <1>0, <2>2 DEF TypeOK
    <3> QED BY <2>2, <3>1 DEF Ordered, Passed
  <2> QED BY <2>1, <2>2
<1>3. stage'[m.query][m.scope] \in IF m.partial THEN {"partial", "final"} ELSE {"final"}
  BY <1>0 DEF TypeOK
<1> HIDE DEF m
<1>4. PICK n \in Nat : /\ n \notin DOMAIN wire /\ DOMAIN wire' = DOMAIN wire \cup {n}
                       /\ wire'[n] = m
                       /\ \A i \in DOMAIN wire : i < n /\ wire'[i] = wire[i]
  BY <1>1, Places, Appending
<1>5. \A i \in DOMAIN wire : Ordered(wire[i], m) /\ (Passed(wire[i]))'
  <2> SUFFICES ASSUME NEW i \in DOMAIN wire PROVE Ordered(wire[i], m) /\ Passed(wire[i])'
    OBVIOUS
  <2>1. wire[i] \in Message /\ Passed(wire[i])
    BY Places DEF StreamInv, AllPassed
  <2>2. wire'[i] = wire[i]
    BY <1>4
  <2> QED BY <1>2, <2>1, <2>2 DEF Message, Passed
<1>6. \A r \in Queries : \A i \in DOMAIN ch[r] : Ordered(ch[r][i], m) /\ (Passed(ch[r][i]))'
  <2> SUFFICES ASSUME NEW r \in Queries, NEW i \in DOMAIN ch[r]
               PROVE  Ordered(ch[r][i], m) /\ Passed(ch[r][i])'
    OBVIOUS
  <2>1. ch[r][i] \in Message /\ Passed(ch[r][i])
    BY Places DEF StreamInv, AllPassed
  <2> QED BY <1>0, <1>2, <2>1 DEF Message, Passed
<1>7. \A t \in Scopes : Ordered(items[t], m) /\ (items[t].query # NoQuery => (Passed(items[t]))')
  <2> SUFFICES ASSUME NEW t \in Scopes
               PROVE  Ordered(items[t], m) /\ (items[t].query # NoQuery => Passed(items[t])')
    OBVIOUS
  <2>1. /\ items[t].scope = t /\ items[t].partial \in BOOLEAN
        /\ items[t].query \in Queries \cup {NoQuery}
        /\ items[t].query # NoQuery => Passed(items[t])
    BY Places DEF StreamInv, AllPassed
  <2>2. items[t].query = NoQuery => Ordered(items[t], m)
    BY <1>1 DEF Ordered, NoQuery, Queries
  <2> QED BY <1>0, <1>2, <2>1, <2>2 DEF Passed
<1>8. InOrder'
  BY <1>0, <1>4, <1>5, <1>6, <1>7 DEF StreamInv, InOrder
<1>9. AllPassed'
  BY <1>0, <1>3, <1>4, <1>5, <1>6, <1>7 DEF StreamInv, AllPassed, Passed
<1> QED BY <1>8, <1>9 DEF StreamInv

\* Handling a request: nothing has been sent for it yet.
LEMMA StreamHandle ==
  ASSUME TypeOK, QueryInv, StreamInv, NEW q \in Queries, HandleSearch(q)
  PROVE  StreamInv'
<1>1. /\ q \in requested /\ stage' = [stage EXCEPT ![q] = [s \in Scopes |-> "running"]]
      /\ UNCHANGED <<wire, ch, items>>
  BY DEF HandleSearch, screenVars
<1>2. \A s \in Scopes : stage[q][s] = "idle"
  BY <1>1 DEF QueryInv, RequestsAreIdle
<1>3. ASSUME NEW x, x.query \in Queries, x.scope \in Scopes, Passed(x)
      PROVE  stage'[x.query][x.scope] \in IF x.partial THEN {"partial", "final"} ELSE {"final"}
  <2>1. x.query # q
    BY <1>2, <1>3 DEF Passed
  <2> QED BY <1>1, <1>3, <2>1 DEF Passed, TypeOK
<1>4. /\ \A i \in DOMAIN wire : Passed(wire[i])'
      /\ \A r \in Queries : \A i \in DOMAIN ch[r] : Passed(ch[r][i])'
      /\ \A s \in Scopes : items[s].query # NoQuery => Passed(items[s])'
  <2>1. ASSUME NEW i \in DOMAIN wire PROVE Passed(wire[i])'
    <3>1. wire[i] \in Message /\ Passed(wire[i])
      BY Places DEF StreamInv, AllPassed
    <3> QED BY <1>1, <1>3, <3>1 DEF Passed, Message
  <2>2. ASSUME NEW r \in Queries, NEW i \in DOMAIN ch[r] PROVE Passed(ch[r][i])'
    <3>1. ch[r][i] \in Message /\ Passed(ch[r][i])
      BY Places DEF StreamInv, AllPassed
    <3> QED BY <1>1, <1>3, <3>1 DEF Passed, Message
  <2>3. ASSUME NEW s \in Scopes, items[s].query # NoQuery PROVE Passed(items[s])'
    <3>1. items[s].query \in Queries /\ items[s].scope = s /\ Passed(items[s])
      BY <2>3, Places DEF StreamInv, AllPassed
    <3> QED BY <1>1, <1>3, <3>1 DEF Passed
  <2> QED BY <2>1, <2>2, <2>3
<1>5. AllPassed'
  BY <1>1, <1>4 DEF StreamInv, AllPassed
<1>6. InOrder'
  BY <1>1 DEF StreamInv, InOrder
<1> QED BY <1>5, <1>6 DEF StreamInv

\* The runtime dies: a prefix of the pipe is in order.
LEMMA StreamExit ==
  ASSUME TypeOK, StreamInv, RuntimeExits
  PROVE  StreamInv'
<1>1. UNCHANGED <<stage, ch, items>>
  BY DEF RuntimeExits, clientVars, screenVars
<1>2. DOMAIN wire' \subseteq DOMAIN wire /\ \A i \in DOMAIN wire' : wire'[i] = wire[i]
  BY ExitPrefix
<1> QED BY <1>1, <1>2 DEF StreamInv, InOrder, AllPassed, Passed

\* The read loop takes the first message: it follows all that is in its channel
\* and precedes all that is still on the wire.
LEMMA StreamDispatch ==
  ASSUME TypeOK, StreamInv, DispatchScopeResults
  PROVE  StreamInv'
<1>0. wire \in Seq(Message) /\ wire # <<>> /\ wire' = Tail(wire) /\ UNCHANGED <<stage, items>>
  BY DEF DispatchScopeResults, TypeOK, screenVars
<1>1. /\ 1 \in DOMAIN wire /\ Head(wire) = wire[1]
      /\ \A i \in DOMAIN wire' : /\ i \in Nat /\ i + 1 \in DOMAIN wire /\ 1 < i + 1
                                 /\ wire'[i] = wire[i + 1]
  BY <1>0, Taking
<1>2. PICK q \in Queries, m \in Message : m = wire[1] /\ q = m.query
  <2>1. wire[1] \in Message
    BY <1>1, Places
  <2> QED BY <2>1 DEF Message
<1>3. ch' = ch \/ ch' = [ch EXCEPT ![q] = Append(ch[q], m)]
  BY <1>1, <1>2 DEF DispatchScopeResults, Deliver
<1>4. /\ \A i, j \in DOMAIN wire' : i < j => Ordered(wire'[i], wire'[j])
      /\ \A s \in Scopes : \A j \in DOMAIN wire' : Ordered(items[s], wire'[j])
      /\ \A i \in DOMAIN wire' : Passed(wire'[i])
      /\ \A r \in Queries : \A i \in DOMAIN ch[r] : \A j \in DOMAIN wire' : Ordered(ch[r][i], wire'[j])
      /\ \A j \in DOMAIN wire' : Ordered(m, wire'[j])
  <2>1. \A i, j \in DOMAIN wire' : i < j => i + 1 < j + 1
    BY <1>1
  <2> QED BY <1>1, <1>2, <2>1 DEF StreamInv, InOrder, AllPassed
<1>5. /\ \A i \in DOMAIN ch[q] : Ordered(ch[q][i], m)
      /\ \A s \in Scopes : Ordered(items[s], m)
      /\ Passed(m)
  BY <1>1, <1>2 DEF StreamInv, InOrder, AllPassed
<1>6. CASE ch' = ch
  <2>1. InOrder'
    BY <1>0, <1>4, <1>6 DEF StreamInv, InOrder
  <2>2. AllPassed'
    BY <1>0, <1>4, <1>6 DEF StreamInv, AllPassed, Passed
  <2> QED BY <2>1, <2>2 DEF StreamInv
<1>7. CASE ch' = [ch EXCEPT ![q] = Append(ch[q], m)]
  <2>1. ch'[q] = Append(ch[q], m) /\ \A r \in Queries \ {q} : ch'[r] = ch[r]
    BY <1>7 DEF TypeOK
  <2>2. PICK n \in Nat : /\ n \notin DOMAIN ch[q] /\ DOMAIN ch'[q] = DOMAIN ch[q] \cup {n}
                         /\ ch'[q][n] = m
                         /\ \A i \in DOMAIN ch[q] : i < n /\ ch'[q][i] = ch[q][i]
    BY <2>1, Places, Appending
  <2>3. \A r \in Queries : \A i, j \in DOMAIN ch'[r] : i < j => Ordered(ch'[r][i], ch'[r][j])
    <3>1. \A i, j \in DOMAIN ch'[q] : i < j => Ordered(ch'[q][i], ch'[q][j])
      <4>1. \A i \in DOMAIN ch[q] : i \in Nat
        BY Places, LenProperties
      <4> QED BY <1>5, <2>2, <4>1 DEF StreamInv, InOrder
    <3> QED BY <2>1, <3>1 DEF StreamInv, InOrder
  <2>4. \A r \in Queries : \A i \in DOMAIN ch'[r] : \A j \in DOMAIN wire' : Ordered(ch'[r][i], wire'[j])
    BY <1>4, <2>1, <2>2, SMTT(30)
  <2>5. \A s \in Scopes : \A r \in Queries : \A i \in DOMAIN ch'[r] : Ordered(items[s], ch'[r][i])
    BY <1>5, <2>1, <2>2 DEF StreamInv, InOrder
  <2>6. \A r \in Queries : \A i \in DOMAIN ch'[r] : ch'[r][i].query = r /\ Passed(ch'[r][i])
    <3>1. \A r \in Queries : \A i \in DOMAIN ch[r] : ch[r][i].query = r /\ Passed(ch[r][i])
      BY DEF StreamInv, AllPassed
    <3>2. m.query = q /\ Passed(m)
      BY <1>2, <1>5
    <3> HIDE DEF Passed
    <3>3. ASSUME NEW i \in DOMAIN ch'[q] PROVE ch'[q][i].query = q /\ Passed(ch'[q][i])
      <4>1. CASE i = n
        BY <2>2, <3>2, <4>1
      <4>2. CASE i \in DOMAIN ch[q]
        BY <2>2, <3>1, <4>2
      <4> QED BY <2>2, <3>3, <4>1, <4>2
    <3>4. ASSUME NEW r \in Queries \ {q}, NEW i \in DOMAIN ch'[r]
          PROVE  ch'[r][i].query = r /\ Passed(ch'[r][i])
      BY <2>1, <3>1, <3>4
    <3> QED BY <3>3, <3>4
  <2>7. InOrder'
    BY <1>0, <1>4, <2>3, <2>4, <2>5 DEF InOrder
  <2>8. AllPassed'
    BY <1>0, <1>4, <2>6 DEF StreamInv, AllPassed, Passed
  <2> QED BY <2>7, <2>8 DEF StreamInv
<1> QED BY <1>3, <1>6, <1>7

\* The reader takes the first message of its channel, which precedes all others of
\* its query; it is shown or thrown away.
LEMMA StreamRead ==
  ASSUME TypeOK, StreamInv, NEW q \in Queries, ReadNext(q)
  PROVE  StreamInv'
<1>0. ch[q] \in Seq(Message) /\ ch[q] # <<>> /\ UNCHANGED <<stage, wire>>
  BY DEF ReadNext, TypeOK, runtimeVars
<1>1. ch'[q] = Tail(ch[q]) /\ \A r \in Queries \ {q} : ch'[r] = ch[r]
  BY DEF ReadNext, TypeOK
<1>2. /\ 1 \in DOMAIN ch[q] /\ Head(ch[q]) = ch[q][1]
      /\ \A i \in DOMAIN ch'[q] : /\ i \in Nat /\ i + 1 \in DOMAIN ch[q] /\ 1 < i + 1
                                  /\ ch'[q][i] = ch[q][i + 1]
  BY <1>0, <1>1, Taking
<1>3. PICK m \in Message : m = ch[q][1]
  BY <1>2, Places
<1>4. m.query = q /\ m.scope \in Scopes /\ Passed(m)
  BY <1>2, <1>3 DEF StreamInv, AllPassed, Message
<1>5. items' = items \/ items' = [items EXCEPT ![m.scope] = m]
  BY <1>2, <1>3 DEF ReadNext
<1>6. \A s \in Scopes : items'[s] = items[s] \/ (items'[s] = m /\ s = m.scope)
  BY <1>4, <1>5 DEF TypeOK, View
<1>7. \A r \in Queries : \A i \in DOMAIN ch'[r] : \E j \in DOMAIN ch[r] : ch'[r][i] = ch[r][j]
  <2>1. ASSUME NEW i \in DOMAIN ch'[q] PROVE \E j \in DOMAIN ch[q] : ch'[q][i] = ch[q][j]
    BY <1>2, <2>1
  <2>2. ASSUME NEW r \in Queries \ {q}, NEW i \in DOMAIN ch'[r]
        PROVE  \E j \in DOMAIN ch[r] : ch'[r][i] = ch[r][j]
    <3>1. i \in DOMAIN ch[r] /\ ch'[r][i] = ch[r][i]
      BY <1>1, <2>2
    <3> QED BY <3>1
  <2> QED BY <2>1, <2>2
<1>8. \A r \in Queries : \A i, j \in DOMAIN ch'[r] : i < j => Ordered(ch'[r][i], ch'[r][j])
  <2>1. \A i, j \in DOMAIN ch'[q] : i < j => i + 1 < j + 1
    BY <1>2
  <2>2. \A i, j \in DOMAIN ch'[q] : i < j => Ordered(ch'[q][i], ch'[q][j])
    BY <1>2, <2>1 DEF StreamInv, InOrder
  <2> QED BY <1>1, <2>2 DEF StreamInv, InOrder
<1>9. \A r \in Queries : \A i \in DOMAIN ch'[r] : \A j \in DOMAIN wire : Ordered(ch'[r][i], wire[j])
  BY <1>7 DEF StreamInv, InOrder
<1>10. \A j \in DOMAIN wire : Ordered(m, wire[j])
  BY <1>2, <1>3 DEF StreamInv, InOrder
<1>11. \A r \in Queries : \A i \in DOMAIN ch'[r] : Ordered(m, ch'[r][i])
  <2>1. \A i \in DOMAIN ch'[q] : Ordered(m, ch'[q][i])
    BY <1>2, <1>3 DEF StreamInv, InOrder
  <2>2. ASSUME NEW r \in Queries \ {q}, NEW i \in DOMAIN ch'[r] PROVE Ordered(m, ch'[r][i])
    <3>1. ch'[r][i].query = r
      BY <1>7 DEF StreamInv, AllPassed
    <3> QED BY <1>4, <3>1 DEF Ordered
  <2> QED BY <2>1, <2>2
<1>12. /\ \A s \in Scopes : \A j \in DOMAIN wire : Ordered(items'[s], wire[j])
       /\ \A s \in Scopes : \A r \in Queries : \A i \in DOMAIN ch'[r] : Ordered(items'[s], ch'[r][i])
  BY <1>6, <1>7, <1>10, <1>11 DEF StreamInv, InOrder
<1>13. InOrder'
  BY <1>0, <1>8, <1>9, <1>12 DEF StreamInv, InOrder
<1>14. /\ \A r \in Queries : \A i \in DOMAIN ch'[r] : ch'[r][i].query = r /\ Passed(ch'[r][i])
       /\ \A s \in Scopes : items'[s].scope = s /\ (items'[s].query # NoQuery => Passed(items'[s]))
  BY <1>4, <1>6, <1>7 DEF StreamInv, AllPassed
<1>15. AllPassed'
  BY <1>0, <1>14 DEF StreamInv, AllPassed, Passed
<1> QED BY <1>13, <1>15 DEF StreamInv

\* The browse view is of no query.
LEMMA StreamRestore ==
  ASSUME TypeOK, ScreenInv, StreamInv, RestoreView
  PROVE  StreamInv'
<1>1. items' = BrowseView /\ UNCHANGED <<stage, wire, ch>>
  BY DEF RestoreView, ScreenInv, runtimeVars, clientVars
<1>2. \A s \in Scopes : items'[s].query = NoQuery /\ items'[s].scope = s
  BY <1>1 DEF BrowseView, Browse
<1>3. NoQuery \notin Queries
  BY DEF NoQuery, Queries
<1>4. \A s \in Scopes, m \in Message : Ordered(items'[s], m)
  BY <1>2, <1>3 DEF Ordered, Message
<1>5. InOrder'
  BY <1>1, <1>4, Places DEF StreamInv, InOrder
<1>6. AllPassed'
  BY <1>1, <1>2 DEF StreamInv, AllPassed, Passed
<1> QED BY <1>5, <1>6 DEF StreamInv

\* The steps that move no message.
LEMMA StreamStill ==
  ASSUME StreamInv, UNCHANGED <<stage, wire, ch, items>>
  PROVE  StreamInv'
BY DEF StreamInv, InOrder, AllPassed, Passed

\* Every step keeps the order of the messages.
LEMMA StreamStep ==
  ASSUME TypeOK, QueryInv, ScreenInv, StreamInv, [Next]_vars
  PROVE  StreamInv'
<1>1. ASSUME \/ StartSearch \/ SwitchTab \/ ActivateSearch \/ DrainPending \/ UNCHANGED vars
             \/ \E q \in Queries : ReadClosed(q) \/ UpdateFollowup(q) \/ AckArrives(q) \/ ForgetFailed(q)
      PROVE  UNCHANGED <<stage, wire, ch, items>>
  BY <1>1 DEF StartSearch, SwitchTab, ActivateSearch, DrainPending, ReadClosed, UpdateFollowup,
              AckArrives, ForgetFailed, vars, runtimeVars, clientVars, screenVars
<1> QED BY <1>1, StreamStill, StreamEmit, StreamHandle, StreamExit, StreamDispatch, StreamRead,
           StreamRestore
       DEF Next, Screen, Query

\* The first view is kept in every state.
LEMMA ScreenInvHolds == Spec => []ScreenInv
<1>1. Init => ScreenInv
  BY DEF Init, ScreenInv, BrowseOutsideSearch
<1>2. TypeOK /\ ScreenInv /\ [Next]_vars => ScreenInv'
  BY ScreenStep
<1> QED BY <1>1, <1>2, TypeCorrect, PTL DEF Spec

\* The messages of a scope stay in order from the runtime to the screen.
THEOREM StreamInvHolds == Spec => []StreamInv
<1>1. Init => StreamInv
  BY DEF Init, StreamInv, InOrder, AllPassed, BrowseView, Browse
<1>2. TypeOK /\ QueryInv /\ ScreenInv /\ StreamInv /\ [Next]_vars => StreamInv'
  BY StreamStep
<1> QED BY <1>1, <1>2, TypeCorrect, QueryInvHolds, ScreenInvHolds, PTL DEF Spec

----------------------------------------------------------------------------
(* No message finds its channel full.                                       *)

\* A sequence without repetitions is no longer than the set of its elements; one
\* that lacks an element of that set is shorter.
LEMMA Shorter ==
  ASSUME NEW S, NEW t \in Seq(S), NEW T, IsFiniteSet(T), NEW e \in T,
         \A i \in DOMAIN t : t[i] \in T \ {e},
         \A i, j \in DOMAIN t : i < j => t[i] # t[j]
  PROVE  Len(t) < Cardinality(T)
<1> DEFINE U == T \ {e}
<1>1. IsFiniteSet(U) /\ Cardinality(U) = Cardinality(T) - 1 /\ Cardinality(T) \in Nat
  BY FS_RemoveElement, FS_CardinalityType
<1>2. Len(t) \in Nat /\ DOMAIN t = 1 .. Len(t) /\ t \in [1 .. Len(t) -> U]
  BY LenProperties
<1>3. IsFiniteSet(1 .. Len(t)) /\ Cardinality(1 .. Len(t)) = Len(t)
  <2>1. /\ IsFiniteSet(1 .. Len(t))
        /\ Cardinality(1 .. Len(t)) = IF 1 > Len(t) THEN 0 ELSE Len(t) - 1 + 1
    <3>1. 1 \in Int /\ Len(t) \in Int
      BY <1>2
    <3> QED BY <3>1, FS_Interval, Zenon
  <2> QED BY <1>2, <2>1
<1>4. ASSUME Cardinality(U) < Len(t) PROVE FALSE
  <2>1. \E x, y \in 1 .. Len(t) : x # y /\ t[x] = t[y]
    BY <1>1, <1>2, <1>3, <1>4, FS_PigeonHole
  <2> QED BY <1>2, <2>1
<1> QED BY <1>1, <1>2, <1>4

\* A message on its way and those in its channel are different messages of one
\* query, of which there are two for each scope.
LEMMA RoomLeft ==
  ASSUME TypeOK, StreamInv
  PROVE  NothingIsDropped
<1> SUFFICES ASSUME wire # <<>> PROVE Len(ch[Head(wire).query]) < BufferSize
  BY DEF NothingIsDropped
<1>1. wire \in Seq(Message) /\ 1 \in DOMAIN wire /\ Head(wire) = wire[1] /\ wire[1] \in Message
  BY Places, Taking
<1>2. PICK q \in Queries, m \in Message : m = wire[1] /\ q = m.query
  BY <1>1 DEF Message
<1> DEFINE M == {x \in Message : x.query = q}
           P == Scopes \X BOOLEAN
           f == [x \in M |-> <<x.scope, x.partial>>]
<1>3. IsFiniteSet(M) /\ Cardinality(M) <= BufferSize
  <2>1. IsFiniteSet(BOOLEAN) /\ Cardinality(BOOLEAN) = 2
    <3>1. ASSUME NEW x, NEW y, x # y
          PROVE  IsFiniteSet({x} \cup {y}) /\ Cardinality({x} \cup {y}) = 2
      <4>1. IsFiniteSet({x}) /\ Cardinality({x}) = 1 /\ y \notin {x}
        BY <3>1, FS_Singleton
      <4>2. /\ IsFiniteSet({x} \cup {y})
            /\ Cardinality({x} \cup {y}) = IF y \in {x} THEN Cardinality({x}) ELSE Cardinality({x}) + 1
        BY <4>1, FS_AddElement, Zenon
      <4>3. Cardinality({x} \cup {y}) = Cardinality({x}) + 1
        BY <4>1, <4>2, Zenon
      <4>4. Cardinality({x}) + 1 = 2
        BY <4>1
      <4> QED BY <4>2, <4>3, <4>4, Zenon
    <3>2. BOOLEAN = {TRUE} \cup {FALSE} /\ TRUE # FALSE
      OBVIOUS
    <3> QED BY <3>1, <3>2, Zenon
  <2>2. IsFiniteSet(P) /\ Cardinality(P) = Cardinality(Scopes) * 2
    BY <2>1, SizesAreNat, FS_Product
  <2>3. f \in Injection(M, P)
    <3>1. f \in [M -> P]
      BY DEF Message
    <3>2. \A x, y \in M : f[x] = f[y] => x = y
      BY DEF Message
    <3> QED BY <3>1, <3>2 DEF Injection, IsInjective
  <2>4. IsFiniteSet(M) /\ Cardinality(M) <= Cardinality(P)
    BY <2>2, <2>3, FS_Injection
  <2>5. Cardinality(M) \in Nat /\ Cardinality(Scopes) \in Nat
    BY <2>4, SizesAreNat, FS_CardinalityType
  <2> QED BY <2>2, <2>4, <2>5, RoomForAll, SizesAreNat
<1>4. \A i \in DOMAIN ch[q] : ch[q][i] \in M \ {m}
  BY <1>1, <1>2, Places DEF StreamInv, InOrder, AllPassed, Ordered
<1>5. \A i, j \in DOMAIN ch[q] : i < j => ch[q][i] # ch[q][j]
  BY DEF StreamInv, InOrder, Ordered
<1>6. m \in M /\ ch[q] \in Seq(Message)
  BY <1>2, Places
<1> HIDE DEF M
<1>7. Len(ch[q]) < Cardinality(M)
  BY <1>3, <1>4, <1>5, <1>6, Shorter
<1>8. Len(ch[q]) \in Nat /\ Cardinality(M) \in Nat
  BY <1>3, <1>6, LenProperties, FS_CardinalityType
<1> QED BY <1>1, <1>2, <1>3, <1>7, <1>8, SizesAreNat

\* The read loop never has to drop a message of a live search: its channel has
\* room (client_scope.go, dispatchScopeResults).
THEOREM NeverDropped == Spec => []NothingIsDropped
<1>1. TypeOK /\ StreamInv => NothingIsDropped
  BY RoomLeft
<1> QED BY <1>1, TypeCorrect, StreamInvHolds, PTL

----------------------------------------------------------------------------
(* Columns only advance.                                                    *)

\* The active query is the newest that has been activated; no column shows a newer
\* one, and the reader of a query starts with its activation.
Newest ==
  /\ active <= lastQuery
  /\ starting # NoQuery => starting = lastQuery /\ active < starting /\ reader[starting] = "none"
  /\ \A q \in Queries : q > lastQuery => reader[q] = "none"
  /\ \A s \in Scopes : items[s].query <= active

\* What the types say of the queries' numbers.
LEMMA Numbers ==
  ASSUME TypeOK
  PROVE  /\ lastQuery \in Nat /\ active \in Nat /\ starting \in Nat
         /\ Queries \subseteq Nat /\ NoQuery = 0 /\ NoQuery \notin Queries
         /\ \A s \in Scopes : items[s].query \in Nat
<1>1. lastQuery \in Nat /\ active \in Nat /\ starting \in Nat
  BY SizesAreNat DEF TypeOK, Queries, NoQuery
<1>2. Queries \subseteq Nat /\ NoQuery = 0 /\ NoQuery \notin Queries
  BY SizesAreNat DEF Queries, NoQuery
<1>3. ASSUME NEW s \in Scopes PROVE items[s].query \in Nat
  <2>1. items[s].query \in Queries \cup {NoQuery}
    BY Places
  <2>2. \A n \in Queries \cup {NoQuery} : n \in Nat
    BY <1>2
  <2> QED BY <2>1, <2>2
<1> QED BY <1>1, <1>2, <1>3

\* What a read does: the first message of its query is shown when the query is active.
LEMMA Reading ==
  ASSUME TypeOK, StreamInv, Newest, NEW q \in Queries, ReadNext(q)
  PROVE  \E m \in Message :
           /\ 1 \in DOMAIN ch[q] /\ m = ch[q][1] /\ m.query = q /\ m.scope \in Scopes
           /\ q <= lastQuery /\ q # starting
           /\ items' = IF q = active THEN [items EXCEPT ![m.scope] = m] ELSE items
<1>1. ch[q] \in Seq(Message) /\ ch[q] # <<>>
  BY DEF ReadNext, TypeOK
<1>2. 1 \in DOMAIN ch[q] /\ Head(ch[q]) = ch[q][1] /\ ch[q][1] \in Message
  BY <1>1, Taking, Places
<1>3. ch[q][1].query = q
  BY <1>2 DEF StreamInv, AllPassed
<1>4. q <= lastQuery /\ q # starting
  <2>1. reader[q] = "reading"
    BY DEF ReadNext
  <2>2. ~(q > lastQuery)
    BY <2>1 DEF Newest
  <2>3. q \in Nat /\ lastQuery \in Nat
    BY Numbers
  <2>4. q # starting
    BY <2>1, Numbers DEF Newest
  <2> QED BY <2>2, <2>3, <2>4
<1>5. ch[q][1].scope \in Scopes
  BY <1>2 DEF Message
<1>6. items' = IF q = active THEN [items EXCEPT ![ch[q][1].scope] = ch[q][1]] ELSE items
  BY <1>2, <1>3 DEF ReadNext
<1>7. PICK m \in Message : m = ch[q][1]
  BY <1>2
<1> WITNESS m \in Message
<1> QED BY <1>2, <1>3, <1>4, <1>5, <1>6, <1>7

\* Every step keeps the newest query the active one.
LEMMA NewestStep ==
  ASSUME TypeOK, ScreenInv, StreamInv, Newest, [Next]_vars
  PROVE  Newest'
<1> USE Numbers
<1>1. CASE StartSearch
  <2>1. lastQuery' = lastQuery + 1 /\ starting' = lastQuery' /\ lastQuery' \in Queries
    BY <1>1, SizesAreNat DEF StartSearch, TypeOK, Queries
  <2>2. UNCHANGED <<active, reader, items>>
    BY <1>1 DEF StartSearch
  <2> QED BY <2>1, <2>2 DEF Newest
<1>2. CASE ActivateSearch
  <2>1. /\ starting # NoQuery /\ starting \in Queries /\ active' = starting /\ starting' = NoQuery
        /\ reader' = [reader EXCEPT ![starting] = "reading"]
        /\ UNCHANGED <<lastQuery, items>>
    BY <1>2 DEF ActivateSearch, TypeOK, clientVars
  <2>2. \A q \in Queries : q > lastQuery => reader'[q] = "none"
    BY <2>1 DEF Newest, TypeOK
  <2> QED BY <2>1, <2>2 DEF Newest
<1>3. CASE RestoreView
  <2>1. items' = BrowseView /\ active' = NoQuery /\ starting' = NoQuery /\ UNCHANGED <<reader, lastQuery>>
    BY <1>3 DEF RestoreView, ScreenInv, clientVars
  <2>2. \A s \in Scopes : items'[s].query = NoQuery
    BY <2>1 DEF BrowseView, Browse
  <2> QED BY <2>1, <2>2 DEF Newest
<1>4. ASSUME NEW q \in Queries, ReadNext(q) PROVE Newest'
  <2>1. PICK m \in Message :
           /\ m.query = q /\ m.scope \in Scopes
           /\ q <= lastQuery /\ q # starting
           /\ items' = IF q = active THEN [items EXCEPT ![m.scope] = m] ELSE items
    BY <1>4, Reading
  <2>2. /\ reader' = [reader EXCEPT ![q] = "posted"]
        /\ UNCHANGED <<active, starting, lastQuery>>
    BY <1>4 DEF ReadNext
  <2>3. \A s \in Scopes : items'[s].query <= active
    BY <2>1 DEF Newest, TypeOK, View
  <2>4. \A r \in Queries : r # q => reader'[r] = reader[r]
    BY <2>2 DEF TypeOK
  <2>5. starting # NoQuery => starting \in Queries
    BY DEF TypeOK
  <2> QED BY <2>1, <2>2, <2>3, <2>4, <2>5 DEF Newest
<1>5. ASSUME NEW q \in Queries, ReadClosed(q) \/ UpdateFollowup(q) PROVE Newest'
  <2>1. /\ reader[q] # "none" /\ UNCHANGED <<active, starting, lastQuery, items>>
        /\ \A r \in Queries : r # q => reader'[r] = reader[r]
    BY <1>5 DEF ReadClosed, UpdateFollowup, TypeOK, clientVars
  <2>2. q <= lastQuery /\ q # starting
    BY <2>1 DEF Newest
  <2>3. starting # NoQuery => starting \in Queries
    BY DEF TypeOK
  <2> QED BY <2>1, <2>2, <2>3 DEF Newest
<1>6. ASSUME \/ SwitchTab \/ RuntimeExits \/ DrainPending \/ DispatchScopeResults \/ UNCHANGED vars
             \/ \E q \in Queries : HandleSearch(q) \/ AckArrives(q) \/ ForgetFailed(q)
             \/ \E q \in Queries, s \in Scopes : EmitPartial(q, s) \/ EmitFinal(q, s)
      PROVE  UNCHANGED <<active, starting, lastQuery, items, reader>>
  BY <1>6 DEF SwitchTab, RuntimeExits, DrainPending, DispatchScopeResults, HandleSearch, AckArrives,
              ForgetFailed, EmitPartial, EmitFinal, vars, clientVars, screenVars
<1>7. UNCHANGED <<active, starting, lastQuery, items, reader>> => Newest'
  BY DEF Newest
<1> QED BY <1>1, <1>2, <1>3, <1>4, <1>5, <1>6, <1>7 DEF Next, Screen, Query

\* The active query is the newest in every state.
LEMMA NewestHolds == Spec => []Newest
<1>1. Init => Newest
  BY SizesAreNat DEF Init, Newest, BrowseView, Browse, NoQuery
<1>2. TypeOK /\ ScreenInv /\ StreamInv /\ Newest /\ [Next]_vars => Newest'
  BY NewestStep
<1> QED BY <1>1, <1>2, TypeCorrect, ScreenInvHolds, StreamInvHolds, PTL DEF Spec

\* What a step may do to a column.
Advances(s) ==
  items'[s].query # NoQuery =>
    \/ items'[s].query > items[s].query
    \/ /\ items'[s].query = items[s].query
       /\ ~items[s].partial => ~items'[s].partial

\* Every step advances every column or leaves the search.
LEMMA AdvanceStep ==
  ASSUME TypeOK, ScreenInv, StreamInv, Newest, [Next]_vars, NEW s \in Scopes
  PROVE  Advances(s)
<1>0. /\ lastQuery \in Nat /\ active \in Nat /\ starting \in Nat
      /\ Queries \subseteq Nat /\ NoQuery = 0 /\ NoQuery \notin Queries
      /\ \A t \in Scopes : items[t].query \in Nat
  BY Numbers
<1>1. CASE items' = items
  BY <1>1 DEF Advances
<1>2. CASE RestoreView
  BY <1>0, <1>2 DEF RestoreView, ScreenInv, BrowseView, Browse, Advances
<1>3. ASSUME NEW q \in Queries, ReadNext(q) PROVE Advances(s)
  <2>1. PICK m \in Message :
           /\ 1 \in DOMAIN ch[q] /\ m = ch[q][1] /\ m.query = q /\ m.scope \in Scopes
           /\ items' = IF q = active THEN [items EXCEPT ![m.scope] = m] ELSE items
    BY <1>3, Reading
  <2>2. CASE q = active /\ s = m.scope
    <3>1. items'[s] = m /\ items[s].query <= q
      BY <2>1, <2>2 DEF TypeOK, View, Newest
    <3>2. items[s].query = q => items[s].partial /\ ~m.partial
      BY <1>0, <2>1, <2>2 DEF StreamInv, InOrder, AllPassed, Ordered
    <3> QED BY <1>0, <2>1, <3>1, <3>2 DEF Advances
  <2>3. CASE ~(q = active /\ s = m.scope)
    <3>1. items'[s] = items[s]
      BY <2>1, <2>3 DEF TypeOK, View
    <3> QED BY <1>0, <2>1, <3>1, <2>3 DEF Advances
  <2> QED BY <2>2, <2>3
<1>4. ASSUME \/ StartSearch \/ ActivateSearch \/ SwitchTab \/ RuntimeExits \/ DrainPending
             \/ DispatchScopeResults \/ UNCHANGED vars
             \/ \E q \in Queries : \/ ReadClosed(q) \/ UpdateFollowup(q) \/ HandleSearch(q)
                                   \/ AckArrives(q) \/ ForgetFailed(q)
             \/ \E q \in Queries, t \in Scopes : EmitPartial(q, t) \/ EmitFinal(q, t)
      PROVE  items' = items
  BY <1>4 DEF StartSearch, ActivateSearch, SwitchTab, RuntimeExits, DrainPending,
              DispatchScopeResults, ReadClosed, UpdateFollowup, HandleSearch, AckArrives,
              ForgetFailed, EmitPartial, EmitFinal, vars, screenVars
<1> QED BY <1>1, <1>2, <1>3, <1>4 DEF Next, Screen, Query

\* A column goes from the browse view to results and from partial to final ones of
\* ever newer queries, until the browse view returns (plugin_source.go, nextScopeCmd).
THEOREM ColumnsAdvance == Spec => ColumnsOnlyAdvance
<1>1. TypeOK /\ ScreenInv /\ StreamInv /\ Newest /\ [Next]_vars
      => [\A s \in Scopes : Advances(s)]_vars
  BY AdvanceStep
<1>2. Spec => [][\A s \in Scopes : Advances(s)]_vars
  BY <1>1, TypeCorrect, ScreenInvHolds, StreamInvHolds, NewestHolds, PTL DEF Spec
<1> QED BY <1>2 DEF ColumnsOnlyAdvance, Advances

----------------------------------------------------------------------------
(* Columns end final.                                                       *)

\* The scopes of a query whose final is neither shown nor in the channel.
Final(q, s) == [query |-> q, scope |-> s, partial |-> FALSE]
Missing(q) ==
  {s \in Scopes : items[s] # Final(q, s) /\ \A i \in DOMAIN ch[q] : ch[q][i] # Final(q, s)}

\* While the results of a query are wanted its subscription expects as many finals
\* as are missing; when its channel is closed none is.
Wanted(q) == q # NoQuery /\ q \in {active, starting}
FinalsKept ==
  \A q \in Queries : Wanted(q) =>
    /\ q \in subs => remaining[q] >= Cardinality(Missing(q))
    /\ q \in closed => Missing(q) = {}

\* A reader that has stopped has found its channel closed and empty.
StoppedAtEnd == \A q \in Queries : reader[q] = "stopped" => q \in closed /\ ch[q] = <<>>

EndInv == FinalsKept /\ StoppedAtEnd

\* Finitely many finals are missing, before and after a step.
LEMMA MissingFinite ==
  ASSUME NEW q \in Queries
  PROVE  /\ IsFiniteSet(Missing(q)) /\ Cardinality(Missing(q)) \in Nat
         /\ IsFiniteSet(Missing(q)') /\ Cardinality(Missing(q)') \in Nat
<1>1. Missing(q) \in SUBSET Scopes /\ Missing(q)' \in SUBSET Scopes
  BY DEF Missing
<1> QED BY <1>1, SizesAreNat, FS_Subset, FS_CardinalityType

\* A step by which nothing more is missing from a wanted query, and which closes
\* no channel, keeps the counts sufficient.
LEMMA MissingLess ==
  ASSUME TypeOK, FinalsKept, subs' \subseteq subs, UNCHANGED <<closed, remaining>>,
         \A q \in Queries : Wanted(q)' => Wanted(q) /\ Missing(q)' \subseteq Missing(q)
  PROVE  FinalsKept'
<1> SUFFICES ASSUME NEW q \in Queries, Wanted(q)'
             PROVE  /\ q \in subs' => remaining[q] >= Cardinality(Missing(q)')
                    /\ q \in closed => Missing(q)' = {}
  BY DEF FinalsKept
<1>1. /\ Wanted(q) /\ Missing(q)' \subseteq Missing(q)
      /\ q \in subs' => remaining[q] >= Cardinality(Missing(q))
      /\ q \in closed => Missing(q) = {}
  BY DEF FinalsKept
<1>2. Cardinality(Missing(q)') <= Cardinality(Missing(q))
  BY <1>1, MissingFinite, FS_Subset
<1>3. remaining[q] \in Int
  BY DEF TypeOK
<1> QED BY <1>1, <1>2, <1>3, MissingFinite

\* A new search misses the final of every scope and expects as many.
LEMMA EndStart ==
  ASSUME TypeOK, QueryInv, Newest, EndInv, StartSearch
  PROVE  EndInv'
<1>1. PICK q \in Queries : q = lastQuery + 1
  BY SizesAreNat DEF StartSearch, TypeOK, Queries
<1>2. /\ UNCHANGED <<ch, closed, active, items, reader>> /\ starting' = q
      /\ remaining' = [remaining EXCEPT ![q] = Cardinality(Scopes)]
      /\ subs' = subs \cup {q}
  BY <1>1 DEF StartSearch
<1>3. q \notin closed /\ q # active /\ active \in Nat
  BY <1>1, Numbers DEF QueryInv, NewQueries, Newest
<1>4. ASSUME NEW r \in Queries, Wanted(r)'
      PROVE  /\ r \in subs' => remaining'[r] >= Cardinality(Missing(r)')
             /\ r \in closed' => Missing(r)' = {}
  <2>1. CASE r = q
    <3>1. Missing(q)' \in SUBSET Scopes /\ remaining'[q] = Cardinality(Scopes)
      BY <1>2 DEF Missing, TypeOK
    <3>2. Cardinality(Missing(q)') <= Cardinality(Scopes) /\ Cardinality(Scopes) \in Nat
      BY <3>1, SizesAreNat, FS_Subset, FS_CardinalityType
    <3> QED BY <1>2, <1>3, <2>1, <3>1, <3>2, MissingFinite
  <2>2. CASE r # q
    <3>1. Wanted(r) /\ remaining'[r] = remaining[r] /\ Missing(r)' = Missing(r)
      BY <1>2, <1>4, <2>2 DEF Wanted, Missing, TypeOK
    <3> QED BY <1>2, <2>2, <3>1 DEF EndInv, FinalsKept
  <2> QED BY <2>1, <2>2
<1>5. FinalsKept'
  BY <1>4 DEF FinalsKept
<1>6. StoppedAtEnd'
  BY <1>2 DEF EndInv, StoppedAtEnd
<1> QED BY <1>5, <1>6 DEF EndInv

\* A read moves a final of the active query from the channel to its column, where
\* it takes the place of what came before it.
LEMMA EndRead ==
  ASSUME TypeOK, StreamInv, Newest, EndInv, NEW q \in Queries, ReadNext(q)
  PROVE  EndInv'
<1>1. PICK m \in Message :
        /\ 1 \in DOMAIN ch[q] /\ m = ch[q][1] /\ m.query = q /\ m.scope \in Scopes
        /\ q # starting
        /\ items' = IF q = active THEN [items EXCEPT ![m.scope] = m] ELSE items
  BY Reading
<1>2. ch[q] \in Seq(Message) /\ ch[q] # <<>> /\ ch' = [ch EXCEPT ![q] = Tail(ch[q])]
  BY DEF ReadNext, TypeOK
<1>3. /\ UNCHANGED <<subs, closed, remaining, active, starting>>
      /\ reader[q] # "stopped" /\ reader' = [reader EXCEPT ![q] = "posted"]
  BY DEF ReadNext
<1>4. \A r \in Queries : r # q => ch'[r] = ch[r]
  BY <1>2 DEF TypeOK
<1>5. ASSUME NEW s \in Scopes, s \notin Missing(q), q = active PROVE s \notin Missing(q)'
  <2>1. CASE items[s] = Final(q, s)
    <3>1. ~(m.scope = s)
      BY <1>1, <2>1 DEF StreamInv, InOrder, Ordered, Final
    <3> QED BY <1>1, <1>5, <2>1, <3>1 DEF Missing, TypeOK, View, Final
  <2>2. ASSUME NEW i \in DOMAIN ch[q], ch[q][i] = Final(q, s) PROVE s \notin Missing(q)'
    <3>1. CASE i = 1
      <4>1. m = Final(q, s) /\ m.scope = s
        BY <1>1, <2>2, <3>1 DEF Final
      <4>2. items'[s] = m
        BY <1>1, <1>5, <4>1 DEF TypeOK, View
      <4> QED BY <4>1, <4>2 DEF Missing, Final
    <3>2. CASE i # 1
      <4>1. i - 1 \in DOMAIN ch'[q] /\ ch'[q][i - 1] = Final(q, s)
        BY <1>2, <2>2, <3>2, Taking DEF TypeOK
      <4> QED BY <4>1 DEF Missing, Final
    <3> QED BY <3>1, <3>2
  <2> QED BY <1>5, <2>1, <2>2 DEF Missing
<1>6. ASSUME NEW r \in Queries, Wanted(r)' PROVE Wanted(r) /\ Missing(r)' \subseteq Missing(r)
  <2>1. Wanted(r)
    BY <1>3, <1>6 DEF Wanted
  <2>2. CASE r = q
    <3>1. q = active
      BY <1>1, <2>1, <2>2 DEF Wanted
    <3> QED BY <1>5, <2>1, <2>2, <3>1 DEF Missing
  <2>3. CASE r # q
    <3>1. \A s \in Scopes : items[s] = Final(r, s) => items'[s] = items[s]
      <4>1. CASE q # active
        BY <1>1, <4>1
      <4>2. CASE q = active
        <5>1. r = starting /\ active < r
          BY <2>1, <2>3, <4>2 DEF Wanted, Newest
        <5>2. \A s \in Scopes : items[s] # Final(r, s)
          BY <5>1, Numbers DEF Newest, Final
        <5> QED BY <5>2
      <4> QED BY <4>1, <4>2
    <3>2. Missing(r)' \subseteq Missing(r)
      BY <1>4, <2>3, <3>1 DEF Missing, Final
    <3> QED BY <2>1, <3>2
  <2> QED BY <2>2, <2>3
<1>7. FinalsKept'
  BY <1>3, <1>6, MissingLess DEF EndInv
<1>8. StoppedAtEnd'
  BY <1>3, <1>4 DEF EndInv, StoppedAtEnd, TypeOK
<1> QED BY <1>7, <1>8 DEF EndInv

\* The read loop delivers a message; the final it counts was missing.
LEMMA EndDispatch ==
  ASSUME TypeOK, QueryInv, StreamInv, EndInv, DispatchScopeResults
  PROVE  EndInv'
<1>0. wire # <<>> /\ 1 \in DOMAIN wire /\ Head(wire) = wire[1] /\ wire[1] \in Message
  BY Places, Taking DEF DispatchScopeResults
<1>1. PICK q \in Queries, m \in Message : m = Head(wire) /\ q = m.query /\ m.scope \in Scopes
  BY <1>0 DEF Message
<1>2. UNCHANGED <<active, starting, items, reader>> /\ closed \subseteq closed' /\ subs' \subseteq subs
  BY DEF DispatchScopeResults, CountFinal, screenVars
<1>3. q \in subs => ch' = [ch EXCEPT ![q] = Append(ch[q], m)]
  BY <1>0, <1>1, RoomLeft DEF DispatchScopeResults, Deliver, NothingIsDropped
<1>4. q \notin subs => UNCHANGED <<ch, remaining, subs, closed>>
  BY <1>1 DEF DispatchScopeResults
<1>5. PICK n : q \in subs => /\ n \in DOMAIN ch'[q] /\ ch'[q][n] = m
                             /\ \A i \in DOMAIN ch[q] : i \in DOMAIN ch'[q] /\ ch'[q][i] = ch[q][i]
  <2>1. \E n : /\ n \in DOMAIN Append(ch[q], m) /\ Append(ch[q], m)[n] = m
               /\ \A i \in DOMAIN ch[q] : /\ i \in DOMAIN Append(ch[q], m)
                                          /\ Append(ch[q], m)[i] = ch[q][i]
    BY Places, Appending
  <2>2. q \in subs => ch'[q] = Append(ch[q], m)
    BY <1>3 DEF TypeOK
  <2> QED BY <2>1, <2>2
<1>6. ASSUME NEW r \in Queries PROVE Missing(r)' \subseteq Missing(r)
  <2>1. \A i \in DOMAIN ch[r] : i \in DOMAIN ch'[r] /\ ch'[r][i] = ch[r][i]
    <3>1. CASE r = q /\ q \in subs
      BY <1>5, <3>1
    <3>2. CASE ~(r = q /\ q \in subs)
      <4>1. ch'[r] = ch[r]
        BY <1>3, <1>4, <3>2 DEF TypeOK
      <4> QED BY <4>1
    <3> QED BY <3>1, <3>2
  <2> QED BY <1>2, <2>1 DEF Missing, Final
<1>7. CASE q \in subs /\ ~m.partial
  <2>1. /\ remaining' = [remaining EXCEPT ![q] = remaining[q] - 1]
        /\ IF remaining'[q] <= 0
           THEN subs' = subs \ {q} /\ closed' = closed \cup {q}
           ELSE subs' = subs /\ closed' = closed
    BY <1>1, <1>7 DEF DispatchScopeResults, CountFinal
  <2>2. /\ remaining[q] \in Int /\ remaining'[q] = remaining[q] - 1
        /\ \A r \in Queries : r # q => remaining'[r] = remaining[r]
    BY <2>1 DEF TypeOK
  <2>3. m = Final(q, m.scope)
    BY <1>1, <1>7 DEF Message, Final
  <2>4. m.scope \in Missing(q)
    <3>1. \A x : Ordered(x, m) => x # m
      BY <1>7 DEF Ordered
    <3>2. items[m.scope] # m /\ \A i \in DOMAIN ch[q] : ch[q][i] # m
      BY <1>0, <1>1, <3>1 DEF StreamInv, InOrder
    <3> QED BY <1>1, <2>3, <3>2 DEF Missing
  <2>5. m.scope \notin Missing(q)'
    BY <1>5, <1>7, <2>3 DEF Missing, Final
  <2>6. Cardinality(Missing(q)') <= Cardinality(Missing(q)) - 1
    <3>1. Missing(q)' \subseteq Missing(q) \ {m.scope}
      BY <1>6, <2>5
    <3>2. /\ IsFiniteSet(Missing(q) \ {m.scope})
          /\ Cardinality(Missing(q) \ {m.scope}) = Cardinality(Missing(q)) - 1
      BY <2>4, MissingFinite, FS_RemoveElement
    <3>3. Cardinality(Missing(q)') <= Cardinality(Missing(q) \ {m.scope})
      BY <3>1, <3>2, FS_Subset
    <3> QED BY <3>2, <3>3
  <2>7. ASSUME NEW r \in Queries, Wanted(r)'
        PROVE  /\ r \in subs' => remaining'[r] >= Cardinality(Missing(r)')
               /\ r \in closed' => Missing(r)' = {}
    <3>1. Wanted(r)
      BY <1>2, <2>7 DEF Wanted
    <3>2. CASE r = q
      <4>1. remaining[q] >= Cardinality(Missing(q))
        BY <1>7, <3>1, <3>2 DEF EndInv, FinalsKept
      <4>2. remaining'[q] >= Cardinality(Missing(q)')
        BY <2>2, <2>6, <4>1, MissingFinite
      <4>3. q \notin closed
        BY <1>7 DEF QueryInv, CountSuffices
      <4>4. q \in closed' => Missing(q)' = {}
        <5> SUFFICES ASSUME q \in closed' PROVE Missing(q)' = {}
          OBVIOUS
        <5>1. remaining'[q] <= 0
          BY <2>1, <4>3
        <5>2. Cardinality(Missing(q)') = 0
          BY <2>2, <4>2, <5>1, MissingFinite
        <5> QED BY <5>2, MissingFinite, FS_EmptySet
      <4> QED BY <3>2, <4>2, <4>4
    <3>3. CASE r # q
      <4>1. /\ r \in subs => remaining[r] >= Cardinality(Missing(r))
            /\ r \in closed => Missing(r) = {}
            /\ r \in subs' => r \in subs
            /\ r \in closed' => r \in closed
        BY <1>2, <2>1, <3>1, <3>3 DEF EndInv, FinalsKept
      <4>2. Cardinality(Missing(r)') <= Cardinality(Missing(r))
        BY <1>6, MissingFinite, FS_Subset
      <4>3. remaining[r] \in Int /\ remaining'[r] = remaining[r] /\ Missing(r)' \subseteq Missing(r)
        BY <1>6, <2>2, <3>3 DEF TypeOK
      <4> QED BY <4>1, <4>2, <4>3, MissingFinite
    <3> QED BY <3>2, <3>3
  <2>8. FinalsKept'
    BY <2>7 DEF FinalsKept
  <2>9. StoppedAtEnd'
    <3>1. \A r \in Queries : r \in closed => r # q
      BY <1>7 DEF QueryInv, CountSuffices
    <3>2. \A r \in Queries : r # q => ch'[r] = ch[r]
      BY <1>3, <1>7 DEF TypeOK
    <3> QED BY <1>2, <3>1, <3>2 DEF EndInv, StoppedAtEnd
  <2> QED BY <2>8, <2>9 DEF EndInv
<1>8. CASE ~(q \in subs /\ ~m.partial)
  <2>1. UNCHANGED <<remaining, subs, closed>>
    BY <1>1, <1>8 DEF DispatchScopeResults, CountFinal
  <2>2. FinalsKept'
    BY <1>2, <1>6, <2>1, MissingLess DEF EndInv, Wanted
  <2>3. StoppedAtEnd'
    <3>1. \A r \in Queries : r \in closed => r # q \/ q \notin subs
      BY DEF QueryInv, CountSuffices
    <3>2. \A r \in Queries : r # q \/ q \notin subs => ch'[r] = ch[r]
      BY <1>3, <1>4 DEF TypeOK
    <3> QED BY <1>2, <2>1, <3>1, <3>2 DEF EndInv, StoppedAtEnd
  <2> QED BY <2>2, <2>3 DEF EndInv
<1> QED BY <1>7, <1>8

\* Every step keeps what is wanted.
LEMMA EndStep ==
  ASSUME TypeOK, QueryInv, ScreenInv, StreamInv, Newest, EndInv, [Next]_vars
  PROVE  EndInv'
<1>1. CASE ActivateSearch
  <2>1. /\ UNCHANGED <<subs, closed, remaining, ch, items>>
        /\ active' = starting /\ starting' = NoQuery
        /\ reader' = [reader EXCEPT ![starting] = "reading"]
    BY <1>1 DEF ActivateSearch, clientVars
  <2>2. FinalsKept'
    <3>1. \A q \in Queries : Wanted(q)' => Wanted(q) /\ Missing(q)' \subseteq Missing(q)
      BY <2>1 DEF Wanted, Missing, Final
    <3> QED BY <2>1, <3>1, MissingLess DEF EndInv
  <2>3. StoppedAtEnd'
    BY <2>1 DEF EndInv, StoppedAtEnd, TypeOK
  <2> QED BY <2>2, <2>3 DEF EndInv
<1>2. CASE RestoreView
  <2>1. /\ UNCHANGED <<closed, ch, reader>> /\ active' = NoQuery /\ starting' = NoQuery
    BY <1>2 DEF RestoreView, clientVars
  <2> QED BY <2>1 DEF EndInv, FinalsKept, StoppedAtEnd, Wanted
<1>3. ASSUME NEW q \in Queries, ReadClosed(q) \/ UpdateFollowup(q) PROVE EndInv'
  <2>1. /\ UNCHANGED <<subs, closed, remaining, ch, items, active, starting>>
        /\ \A r \in Queries : reader'[r] = "stopped" => reader[r] = "stopped" \/ (r \in closed /\ ch[r] = <<>>)
    <3>1. CASE ReadClosed(q)
      BY <3>1 DEF ReadClosed, TypeOK, clientVars
    <3>2. CASE UpdateFollowup(q)
      BY <3>2 DEF UpdateFollowup, TypeOK, clientVars
    <3> QED BY <1>3, <3>1, <3>2
  <2>2. FinalsKept'
    BY <2>1 DEF EndInv, FinalsKept, Missing, Final, Wanted
  <2>3. StoppedAtEnd'
    BY <2>1 DEF EndInv, StoppedAtEnd
  <2> QED BY <2>2, <2>3 DEF EndInv
<1>4. ASSUME \/ SwitchTab \/ RuntimeExits \/ DrainPending \/ UNCHANGED vars
             \/ \E q \in Queries : HandleSearch(q) \/ AckArrives(q) \/ ForgetFailed(q)
             \/ \E q \in Queries, s \in Scopes : EmitPartial(q, s) \/ EmitFinal(q, s)
      PROVE  UNCHANGED <<closed, remaining, ch, items, active, starting, reader>> /\ subs' \subseteq subs
  BY <1>4 DEF SwitchTab, RuntimeExits, DrainPending, HandleSearch, AckArrives, ForgetFailed,
              EmitPartial, EmitFinal, vars, clientVars, screenVars
<1>5. ASSUME UNCHANGED <<closed, remaining, ch, items, active, starting, reader>>, subs' \subseteq subs
      PROVE  EndInv'
  BY <1>5 DEF EndInv, FinalsKept, StoppedAtEnd, Missing, Final, Wanted
<1> QED BY <1>1, <1>2, <1>3, <1>4, <1>5, EndStart, EndRead, EndDispatch DEF Next, Screen, Query

\* When the reader of the active query sees its channel closed every column shows
\* the final results of that query (plugin_source.go, nextScopeCmd).
THEOREM ColumnsAreFinal == Spec => []ColumnsEndFinal
<1>1. Init => EndInv
  BY DEF Init, EndInv, FinalsKept, StoppedAtEnd, Wanted
<1>2. TypeOK /\ QueryInv /\ ScreenInv /\ StreamInv /\ Newest /\ EndInv /\ [Next]_vars => EndInv'
  BY EndStep
<1>3. TypeOK /\ EndInv => ColumnsEndFinal
  <2> SUFFICES ASSUME TypeOK, EndInv, NEW q \in Queries, reader[q] = "stopped", active = q,
                      NEW s \in Scopes
               PROVE  items[s] = Final(q, s)
    BY DEF ColumnsEndFinal, Final
  <2>1. Wanted(q) /\ q \in closed /\ ch[q] = <<>>
    BY Numbers DEF EndInv, StoppedAtEnd, Wanted
  <2>2. Missing(q) = {}
    BY <2>1 DEF EndInv, FinalsKept
  <2>3. DOMAIN ch[q] = {}
    BY <2>1
  <2> QED BY <2>2, <2>3 DEF Missing
<1> QED BY <1>1, <1>2, <1>3, TypeCorrect, QueryInvHolds, ScreenInvHolds, StreamInvHolds, NewestHolds,
           PTL DEF Spec

=============================================================================
