------------------------------ MODULE MeshTables ------------------------------
(***************************************************************************)
(* The three tables of peers a mesh node keeps by the minute they were     *)
(* last heard of: the peers discovered (mesh/discovery.ts), the experts of *)
(* the router (mesh/routing.ts) and the peers of the older protocol        *)
(* (mesh/protocol.ts).  The last two are cleaned once a minute by a timer  *)
(* that attach and start set, the first when somebody asks for it; nothing *)
(* is fetched when an entry is used, and the tables of a node that was     *)
(* never attached are filled and read like the others, so that what a      *)
(* route names may be as old as the cleaning allows.  The tables share     *)
(* nothing: a behaviour is about one of them.                              *)
(***************************************************************************)
EXTENDS Naturals, FiniteSets

CONSTANTS
  MeshIds,      \* ids of peers, and of the experts they announce
  LocalExpert,  \* the id of an expert of the node's own
  ExpertScores, \* values of calculateScore
  MaxAge        \* bound on the minutes an entry is not heard of

ASSUME TableAssumption ==
  MaxAge \in Nat /\ \E s \in ExpertScores : \A r \in ExpertScores : r <= s

VARIABLES
  which,        \* the table this behaviour is about
  age,          \* for each id the minutes since it was heard of; Unknown is no entry
  scoreOf,      \* calculateScore of the experts: of load, latency and reputation
  opened,       \* attach or start was called, on a node that could be attached to
  due,          \* the timer has still to run in the present minute
  timed         \* the timer has run (history)

timerVars == <<opened, due, timed>>
tableVars == <<which, age, scoreOf, timerVars>>

Tables == {"discovered", "experts", "peers"}
Unknown == MaxAge + 1
Ids == MeshIds \cup {LocalExpert}
Known == {i \in Ids : age[i] # Unknown}
\* Minutes after which an entry is removed: 300000, 300000 and 120000 ms.
Lifetime == IF which = "peers" THEN 2 ELSE 5
\* That of an expert of the node's own: no load, no latency.
BestScore == CHOOSE s \in ExpertScores : \A r \in ExpertScores : r <= s

TableInit ==
  /\ which \in Tables /\ age = [i \in Ids |-> Unknown] /\ scoreOf = [i \in Ids |-> BestScore]
  /\ opened = FALSE /\ due = FALSE /\ timed = FALSE

\* attach of the discovery and of the router, start of the older protocol: the listeners, and a
\* timer for the last two.  A second call adds another timer, which finds less to remove.
Attach == opened' = TRUE /\ UNCHANGED <<which, age, scoreOf, due, timed>>

Renewed(i, score) ==
  /\ age' = [age EXCEPT ![i] = 0] /\ scoreOf' = [scoreOf EXCEPT ![i] = score]
  /\ UNCHANGED <<which, timerVars>>

\* handleDiscovery, handleExpertAnnouncement, onPeerDiscovered: an entry for an id replaces the old one.
\* The first two are listeners of attach, the third is called by anyone.
Hear(i, score) ==
  /\ which # "peers" => opened
  /\ which # "experts" => score = BestScore
  /\ Renewed(i, score)
\* The node's own expert is an entry like the others: nobody announces it to the node again.
RegisterLocalExpert ==
  /\ which = "experts" /\ age[LocalExpert] = Unknown
  /\ Renewed(LocalExpert, BestScore)
UpdateExpertLoad(i, score) == which = "experts" /\ i \in Known /\ Renewed(i, score)

\* A minute passes: the timer, if there is one, runs before the next one.
Minute ==
  /\ ~due /\ due' = (opened /\ which # "discovered")
  /\ age' = [i \in Ids |-> IF age[i] < MaxAge THEN age[i] + 1 ELSE age[i]]
  /\ UNCHANGED <<which, scoreOf, opened, timed>>

\* A fault: each run of the timer removes one entry.
FirstOld ==
  LET old == {i \in Known : age[i] > Lifetime} IN {i \in old : i = CHOOSE k \in old : TRUE}
Old == {i \in Known : age[i] > Lifetime}

\* cleanup and pruneStalePeers when the timer runs, clearStalePeers when somebody calls it.
Clean ==
  /\ due \/ which = "discovered"
  /\ due' = FALSE /\ timed' = (timed \/ due)
  /\ age' = [i \in Ids |-> IF i \in Old THEN Unknown ELSE age[i]]
  /\ UNCHANGED <<which, scoreOf, opened>>

\* What route may answer among the experts of a type: the best score, and the three after it.
Route(candidates) ==
  LET Ahead(i) == {k \in candidates : scoreOf[k] > scoreOf[i]}
  IN  {r \in [chosen : candidates, alternatives : SUBSET candidates] :
         /\ Ahead(r.chosen) = {} /\ r.chosen \notin r.alternatives
         /\ Cardinality(r.alternatives) = IF Cardinality(candidates) > 4 THEN 3 ELSE Cardinality(candidates) - 1
         /\ \A i \in r.alternatives : Ahead(i) \subseteq r.alternatives \cup {r.chosen}}
\* routeToExpert sends to any peer of the older protocol that has the expertise.
RouteToExpert == Known

TableNext ==
  \/ Attach \/ Minute \/ Clean \/ RegisterLocalExpert
  \/ \E s \in ExpertScores : \/ \E i \in MeshIds : Hear(i, s)
                             \/ \E i \in Ids : UpdateExpertLoad(i, s)

TableSpec == TableInit /\ [][TableNext]_tableVars

TableTypeOK ==
  /\ which \in Tables /\ age \in [Ids -> 0 .. Unknown] /\ scoreOf \in [Ids -> ExpertScores]
  /\ {opened, due, timed} \subseteq BOOLEAN

Fresh(i) == age[i] <= IF due THEN Lifetime + 1 ELSE Lifetime
\* Once its timer has run, whatever the order of announcements, timers and routes, the experts a
\* route names were heard of in the last six minutes (mesh/routing.ts), a peer of the older
\* protocol in the last three (mesh/protocol.ts), and all of them within five and two once the
\* timer of the minute has run.  Without attach or start nothing bounds their age, as nothing
\* bounds that of the peers discovered.
RoutesAreFresh ==
  timed =>
    /\ which = "experts" => \A c \in SUBSET Known : \A r \in Route(c) :
                              \A i \in r.alternatives \cup {r.chosen} : Fresh(i)
    /\ which = "peers" => \A i \in RouteToExpert : Fresh(i)
=============================================================================
