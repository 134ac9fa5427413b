------------------------------ MODULE Oobiery ------------------------------
(* OOBI resolution: app/oobiing.py.  A URL somebody asks for goes from     *)
(* oobis to coobi while a client fetches it, to eoobi when the host does   *)
(* not have it yet, and to roobi with its result; a reply that lists more  *)
(* URLs waits in moobi for the results of those.  The passes over the      *)
(* tables interleave here entry by entry.                                  *)
EXTENDS Integers, FiniteSets

CONSTANTS
  Web,          \* what each URL may be answered with
  Lists,        \* the URLs a reply from a URL lists
  Malformed,    \* URLs whose path is none of the four the code knows
  Unreachable,  \* URLs the HTTP library makes no client for
  MaxAsked, MaxRestarts  \* bounds: requests, restarts of the process

Urls == DOMAIN Web
(* processClients: the kinds of answer it tells apart.                     *)
Resolving == {"cesr", "schema"}
Failing == {"refused", "wrongSchema", "unknown"}
Answers == {"missing", "list", "wrongList"} \cup Resolving \cup Failing

VARIABLES
  oobis, coobi, eoobi, moobi,  \* the tables of URLs, without their records
  roobi,    \* the result of a URL, or none
  clients,  \* in memory: the last client of a URL, and its answer
  stuck,    \* URLs whose entry in coobi has a client that was removed
  gone,     \* URLs that were dropped without a result
  asked,    \* what was asked for, by a command, a reply or a list
  restarts
tables == <<oobis, coobi, eoobi, moobi, roobi>>
vars == <<tables, clients, stuck, gone, asked, restarts>>

-----------------------------------------------------------------------------
Listed == UNION {Lists[u] : u \in DOMAIN Lists}
(* The command to resolve a URL, a configured URL, or a reply /introduce.  *)
Resolve(u) ==
  /\ u \notin Listed /\ Cardinality(asked) < MaxAsked
  /\ u \notin asked /\ asked' = asked \cup {u} /\ oobis' = oobis \cup {u}
  /\ UNCHANGED <<coobi, eoobi, moobi, roobi, clients, stuck, gone, restarts>>
(* The command with its option to force drops the result first.            *)
ForceResolve(u) ==
  /\ u \in asked \ Listed /\ roobi[u] # "none" /\ restarts < MaxRestarts
  /\ restarts' = restarts + 1
  /\ roobi' = [roobi EXCEPT ![u] = "none"] /\ oobis' = oobis \cup {u}
  /\ UNCHANGED <<coobi, eoobi, moobi, clients, stuck, gone, asked>>

(* request: without a client an entry of oobis is dropped and an entry of  *)
(* coobi left.                                                             *)
request(u) ==
  /\ oobis' = oobis \ {u}
  /\ IF u \in Unreachable
     THEN gone' = (IF u \in coobi THEN gone ELSE gone \cup {u}) /\ UNCHANGED <<coobi, clients, stuck>>
     ELSE /\ coobi' = coobi \cup {u} /\ clients' = [clients EXCEPT ![u] = "open"]
          /\ stuck' = stuck \ {u} /\ UNCHANGED gone
processOobis(u) ==
  /\ u \in oobis \ Malformed
  /\ IF roobi[u] = "resolved" /\ u \in eoobi
     THEN oobis' = oobis \ {u} /\ UNCHANGED <<coobi, clients, stuck, gone>>
     ELSE request(u)
  /\ UNCHANGED <<eoobi, moobi, roobi, asked, restarts>>
Answer(u, a) ==
  /\ clients[u] = "open" /\ a \in Web[u] /\ clients' = [clients EXCEPT ![u] = a]
  /\ UNCHANGED <<tables, stuck, gone, asked, restarts>>

(* roobi.put keeps a result that is there.                                 *)
Put(u, result) == [roobi EXCEPT ![u] = IF @ = "none" THEN result ELSE @]
(* A list for another identifier leaves the entry in coobi, its client     *)
(* gone.                                                                   *)
processMultiOobiRpy(u) ==
  /\ IF clients[u] = "list"
     THEN /\ oobis' = oobis \cup Lists[u] /\ asked' = asked \cup Lists[u]
          /\ coobi' = coobi \ {u} /\ moobi' = moobi \cup {u} /\ UNCHANGED stuck
     ELSE stuck' = stuck \cup {u} /\ UNCHANGED <<oobis, asked, coobi, moobi>>
  /\ UNCHANGED <<roobi, gone>>
processClients(u) ==
  /\ u \in coobi
  /\ \/ /\ clients[u] = "none" /\ request(u) /\ u \notin Unreachable
        /\ UNCHANGED <<eoobi, moobi, roobi, asked>>
     \/ /\ clients[u] \in Answers /\ clients' = [clients EXCEPT ![u] = "spent"]
        /\ \/ /\ clients[u] = "missing" /\ coobi' = coobi \ {u} /\ eoobi' = eoobi \cup {u}
              /\ UNCHANGED <<oobis, moobi, roobi, stuck, gone, asked>>
           \/ /\ clients[u] \in Resolving \cup Failing /\ coobi' = coobi \ {u}
              /\ roobi' = Put(u, IF clients[u] \in Resolving THEN "resolved" ELSE "failed")
              /\ UNCHANGED <<oobis, eoobi, moobi, stuck, gone, asked>>
           \/ /\ clients[u] \in {"list", "wrongList"}
              /\ processMultiOobiRpy(u) /\ UNCHANGED eoobi
  /\ UNCHANGED restarts
(* After RetryDelay.                                                       *)
processRetries(u) ==
  /\ u \in eoobi /\ eoobi' = eoobi \ {u} /\ oobis' = oobis \cup {u}
  /\ UNCHANGED <<coobi, moobi, roobi, clients, stuck, gone, asked, restarts>>
(* An entry of moobi stays, and gives its result again when it is dropped. *)
processMOOBIs(u) ==
  /\ u \in moobi /\ \A v \in Lists[u] : roobi[v] # "none"
  /\ LET failed == \E v \in Lists[u] : roobi[v] = "failed"
     IN roobi' = Put(u, IF failed THEN "failed" ELSE "resolved")
  /\ coobi' = coobi \ {u} /\ stuck' = stuck \ {u}
  /\ UNCHANGED <<oobis, eoobi, moobi, clients, gone, asked, restarts>>

(* Clients are of the process.                                             *)
Restart ==
  /\ restarts < MaxRestarts /\ restarts' = restarts + 1
  /\ clients' = [u \in Urls |-> "none"] /\ stuck' = {}
  /\ UNCHANGED <<tables, gone, asked>>
(* The loops find nothing to do.                                           *)
Idle == UNCHANGED vars

Init ==
  /\ oobis = {} /\ coobi = {} /\ eoobi = {} /\ moobi = {} /\ stuck = {} /\ gone = {} /\ asked = {}
  /\ roobi = [u \in Urls |-> "none"] /\ clients = [u \in Urls |-> "none"] /\ restarts = 0

Turn(u) ==
  \/ processOobis(u) \/ processClients(u) \/ processRetries(u) \/ processMOOBIs(u)
  \/ \E a \in Answers : Answer(u, a)
Next ==
  \/ \E u \in Urls : Resolve(u) \/ ForceResolve(u) \/ Turn(u)
  \/ Restart \/ Idle
(* scoobiDo makes a pass at every turn, and every pass visits every entry: *)
(* a URL that is tried again and again does not hold up the others.        *)
Steady == {u \in Urls : "missing" \notin Web[u]}
SteadyTurn == \E u \in Steady : Turn(u)
Spec == Init /\ [][Next]_vars /\ WF_vars(SteadyTurn)

-----------------------------------------------------------------------------
(* Properties                                                              *)

TypeOK ==
  /\ oobis \cup coobi \cup eoobi \cup moobi \cup gone \subseteq asked
  /\ asked \subseteq Urls /\ moobi \subseteq DOMAIN Lists
  /\ roobi \in [Urls -> {"none", "resolved", "failed"}]
  /\ \A u \in Urls : roobi[u] # "none" => u \in asked
  /\ clients \in [Urls -> Answers \cup {"none", "open", "spent"}]
  /\ \A u \in Urls : clients[u] \in Answers => clients[u] \in Web[u]
  /\ stuck \subseteq {u \in coobi : clients[u] = "spent"}

(* Lists list URLs, and a URL that may answer with a list answers with     *)
(* nothing else that resolves it: such an answer later on would count the  *)
(* list as resolved.                                                       *)
OobieryAssumption ==
  /\ DOMAIN Lists \subseteq Urls /\ Listed \subseteq Urls
  /\ \A u \in Urls : "list" \in Web[u] => u \in DOMAIN Lists
  /\ \A u \in DOMAIN Lists : Web[u] \cap Resolving = {}

(* A URL that was asked for is in a table or has its result, over answers, *)
(* retries and restarts, unless no client could be made for it.            *)
NothingLost ==
  \A u \in asked : u \in oobis \cup coobi \cup eoobi \cup moobi \cup gone \/ roobi[u] # "none"

(* A list counts as resolved only if each URL it lists was resolved        *)
(* (processMOOBIs), over every order of their answers.                     *)
ListResolved ==
  \A u \in moobi : roobi[u] = "resolved" => \A v \in Lists[u] : roobi[v] = "resolved"

(* A list is resolved by its URLs alone.                                   *)
ListsOpened == \A u \in DOMAIN Lists : roobi[u] = "resolved" => u \in moobi
OobieryInv == TypeOK /\ NothingLost /\ ListResolved /\ ListsOpened

(* Every URL that somebody asked for gets a result, but one that the host  *)
(* never has, one that nothing fetches, a list for another identifier, and *)
(* a list of one of these.                                                 *)
Hopeless(u) == u \in Malformed \cup Unreachable \/ "missing" \in Web[u] \/ u \in stuck
AllResolved ==
  \A u \in asked :
    \/ roobi[u] # "none" \/ Hopeless(u)
    \/ u \in moobi /\ \E v \in Lists[u] : Hopeless(v)
Resolves == []<>AllResolved
=============================================================================
