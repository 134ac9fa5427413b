------------------------------ MODULE Watching ------------------------------
(* A controller asks the witnesses and watchers of an identifier for its   *)
(* key state and its log, waits for them (app/querying.py), and judges     *)
(* what they report against its own log (app/watching.py, local/watch.py). *)
(* The asked side escrows a query it cannot answer yet.                    *)
EXTENDS Integers, SequencesExt, FiniteSets

CONSTANTS
  KeyEvents,   \* events of the watched identifier: name -> its sequence number
  Sources,     \* its witnesses and watchers
  WatchWorlds, \* [task, log, branch, has, toad, want, others,
               \* expires, orders]: what the controller does and starts with, the log each source
               \* comes to have and how much of it at first, the threshold of watchers
               \* or 0, the event it waits for, the queries and OOBIs of other
               \* tasks, a bound on the queries that time out, and the
               \* replies [wit, add, date] that add or cut a watcher
  None

(* An event stands in a log at its number; the threshold is of watchers.   *)
Events == DOMAIN KeyEvents
Placed(log) == log \in Seq(Events) /\ \A i \in DOMAIN log : KeyEvents[log[i]] = i - 1
WatchingAssumption ==
  /\ IsFiniteSet(Sources) /\ None \notin Events /\ \A e \in Events : KeyEvents[e] \in Nat
  /\ \A x \in WatchWorlds :
       /\ Placed(x.log) /\ x.has \in Nat /\ x.toad \in Nat
       /\ x.task = "watch" => x.toad = 0
       /\ \A w \in Sources : Placed(x.branch[w]) /\ x.has <= Len(x.branch[w])

VARIABLES
  world,
  known, full,  \* events a source has accepted, and those fully witnessed there
  qnfs,         \* queries escrowed at a source
  queries, notices, replays,   \* messages under way
  klog,         \* the controller's copy of the log
  knas, ksns,   \* the event of each source's notice, and the events with a record
  cues,         \* keyStateSaved cues
  stage,        \* what the controller's task does
  want,         \* the sequence number it waits for
  heard,        \* the log that was replayed to it last
  pending,      \* witnesses `local watch` has still to ask
  states,       \* differences it has read
  verdict,      \* what was concluded from them
  wwas,         \* the date of the reply accepted last for a watcher, or 0
  asked, expired
srcVars == <<known, full>>
netVars == <<queries, notices, replays>>
logVars == <<klog, heard>>
ksnVars == <<knas, ksns, cues>>
taskVars == <<stage, want, pending, states, verdict, wwas>>
vars == <<world, srcVars, qnfs, netVars, logVars, ksnVars, taskVars, asked, expired>>

sn(e) == KeyEvents[e]
KnownBy(w) == SubSeq(world.branch[w], 1, known[w])
FullBy(w) == SubSeq(world.branch[w], 1, full[w])
Query(w, r, n) == [to |-> w, r |-> r, n |-> n]

-----------------------------------------------------------------------------
(* The asked side: processQuery answers, or the query waits in qnfs.       *)
Found(q) ==
  LET w == q.to
  IN /\ known[w] > 0
     /\ CASE q.r = "logs" -> known[w] > q.n /\ full[w] = known[w]
          [] q.r = "anchor" -> known[w] > q.n
          [] q.r = "ksn" -> full[w] = known[w]
Respond(qs) ==
  /\ notices' = notices \cup {[from |-> q.to, event |-> Last(KnownBy(q.to))] : q \in {x \in qs : x.r = "ksn"}}
  /\ replays' = replays \cup {FullBy(q.to) : q \in {x \in qs : x.r # "ksn"}}
escrowQueryNotFoundEvent(q) == qnfs' = qnfs \cup {q}
processQuery(q) ==
  /\ q \in queries /\ queries' = queries \ {q}
  /\ \/ Found(q) /\ Respond({q}) /\ UNCHANGED qnfs
     \/ ~Found(q) /\ escrowQueryNotFoundEvent(q) /\ UNCHANGED <<notices, replays>>
  /\ UNCHANGED <<world, srcVars, logVars, ksnVars, taskVars, asked, expired>>
processQueryNotFound(w) ==
  LET found == {q \in qnfs : q.to = w /\ Found(q)}
  IN /\ found # {} /\ Respond(found) /\ qnfs' = qnfs \ found
     /\ UNCHANGED <<world, srcVars, queries, logVars, ksnVars, taskVars, asked, expired>>
Expire(q) ==
  /\ expired < world.expires /\ q \in qnfs
  /\ qnfs' = qnfs \ {q} /\ expired' = expired + 1
  /\ UNCHANGED <<world, srcVars, netVars, logVars, ksnVars, taskVars, asked>>
Learn(w) ==
  /\ known[w] < Len(world.branch[w]) /\ known' = [known EXCEPT ![w] = @ + 1]
  /\ UNCHANGED <<world, full, qnfs, netVars, logVars, ksnVars, taskVars, asked, expired>>
Witness(w) ==
  /\ full[w] < known[w] /\ full' = [full EXCEPT ![w] = @ + 1]
  /\ UNCHANGED <<world, known, qnfs, netVars, logVars, ksnVars, taskVars, asked, expired>>

-----------------------------------------------------------------------------
(* What comes back.  A notice behind the log, or against it, is refused.   *)
processReplay(told) ==
  /\ told \in replays /\ replays' = replays \ {told}
  /\ klog' = (IF IsPrefix(klog, told) THEN told ELSE klog) /\ heard' = told
  /\ UNCHANGED <<world, srcVars, qnfs, queries, notices, ksnVars, taskVars, asked, expired>>
Stale(e) == sn(e) < Len(klog) - 1
Mismatch(e) == sn(e) < Len(klog) /\ klog[sn(e) + 1] # e
processReplyKeyStateNotice(m) ==
  /\ m \in notices /\ notices' = notices \ {m}
  /\ IF Stale(m.event) \/ Mismatch(m.event) THEN UNCHANGED ksnVars
     ELSE /\ knas' = [knas EXCEPT ![m.from] = m.event]
          /\ ksns' = ksns \cup {m.event}
          /\ cues' = Append(cues, m.event)
  /\ UNCHANGED <<world, srcVars, qnfs, queries, replays, logVars, taskVars, asked, expired>>

-----------------------------------------------------------------------------
(* What a source reports, against the log, and the conclusion.             *)
Tip == Len(klog) - 1
diffState(w, e) ==
  [wit |-> w, dig |-> e,
   state |-> CASE sn(e) = Tip /\ e = klog[Tip + 1] -> "even"
               [] sn(e) = Tip /\ e # klog[Tip + 1] -> "duplicitous"
               [] sn(e) < Tip -> "behind"
               [] OTHER -> "ahead"]
In(found, s) == {x \in found : x.state = s}
Digs(found) == {x.dig : x \in found}
NoVerdict == [kin |-> "none", states |-> {}]
Verdict(kin, found) == [kin |-> kin, states |-> found]
Judge(found, toad) ==
  LET dups == In(found, "duplicitous")
      ahds == In(found, "ahead")
      bhds == In(found, "behind")
  IN CASE dups # {} -> Verdict("duplicitous", dups)
       [] dups = {} /\ Cardinality(Digs(ahds)) > 1 -> Verdict("duplicitous", ahds)
       [] dups = {} /\ Cardinality(Digs(ahds)) = 1 ->
            IF Cardinality(ahds) >= toad THEN Verdict("update", ahds) ELSE NoVerdict
       [] dups = {} /\ ahds = {} /\ bhds # {} -> Verdict("lagging", bhds)
       [] OTHER -> Verdict("consistent", found)

(* A query goes to one endpoint, chosen at random; it is dropped when the  *)
(* identifier is unknown (a caller that names a witness has its log).      *)
msgDo(ends, r, n) ==
  IF klog # <<>>
  THEN \E w \in ends : queries' = queries \cup {Query(w, r, n)}
  ELSE UNCHANGED queries
Ask(r, n, ends, next) ==
  /\ msgDo(ends, r, n) /\ want' = n /\ stage' = next
  /\ UNCHANGED <<world, srcVars, qnfs, notices, replays, logVars, asked, expired>>
KeyStateNoticer ==
  /\ world.task = "noticer" /\ stage = "start"
  /\ Ask("ksn", 0, Sources, "notice") /\ UNCHANGED <<ksnVars, pending, states, verdict, wwas>>
(* The first notice decides: the log is asked for, or there is no need;    *)
(* a second one while the log is awaited ends the task with an error.      *)
NoticeSaved ==
  /\ stage \in {"notice", "log"} /\ world.task = "noticer" /\ cues # <<>> /\ klog # <<>>
  /\ cues' = Tail(cues)
  /\ \/ /\ stage = "notice" /\ Tip < sn(Head(cues))
        /\ msgDo(Sources, "logs", 0) /\ want' = sn(Head(cues)) /\ stage' = "log"
     \/ stage = "log" /\ Tip < sn(Head(cues)) /\ stage' = "raised" /\ UNCHANGED <<queries, want>>
     \/ Tip >= sn(Head(cues)) /\ stage' = "done" /\ UNCHANGED <<queries, want>>
  /\ UNCHANGED <<world, srcVars, qnfs, notices, replays, logVars, knas, ksns, pending, states, verdict, wwas, asked, expired>>
Finish(next) ==
  /\ stage' = next
  /\ UNCHANGED <<world, srcVars, qnfs, netVars, logVars, ksnVars, want, pending, states, wwas, asked, expired>>
LogQuerier == stage = "log" /\ Tip >= want /\ Finish("done") /\ UNCHANGED verdict
(* Nothing is asked for an unknown identifier: the querier waits until its *)
(* log comes by another way, and asks if the event is not in it.           *)
Querier(task) ==
  /\ world.task = task /\ stage = "start" /\ klog # <<>>
  /\ \/ Tip >= world.want /\ Finish("done") /\ UNCHANGED verdict
     \/ Tip < world.want /\ Ask(task, world.want, Sources, "log")
        /\ UNCHANGED <<ksnVars, pending, states, verdict, wwas>>
SeqNoQuerier == Querier("logs")
AnchorQuerier == Querier("anchor")

(* Watchers are added and cut by replies of the controller, of which the   *)
(* one with the latest date counts.                                        *)
processReplyAddWatched(o) ==
  /\ o \in world.orders /\ o.date > wwas[o.wit]
  /\ wwas' = [wwas EXCEPT ![o.wit] = o.date]
  /\ UNCHANGED <<world, srcVars, qnfs, netVars, logVars, ksnVars, stage, want, pending, states, verdict, asked, expired>>
Enabled(w) == \A o \in world.orders : o.wit = w /\ o.date = wwas[w] => o.add

(* `watcher adjudicate`: what the watchers have reported is judged once,   *)
(* and an update is fetched from one of those that report it.              *)
Observed == {w \in Sources : Enabled(w)}
Reported == {w \in Sources : knas[w] # None}
toad == IF world.toad = 0 THEN Cardinality(Observed) ELSE world.toad
adjudicate ==
  LET heardOf == Observed \cap Reported
      judged == Judge({diffState(w, knas[w]) : w \in heardOf}, toad)
  IN /\ world.task \in {"adjudicate", "watch"} /\ klog # <<>>
     /\ stage = IF world.task = "watch" THEN "watched" ELSE "start"
     /\ IF toad > Cardinality(Observed) \/ \E w \in heardOf : knas[w] \notin ksns
        THEN Finish("raised") /\ UNCHANGED verdict
        ELSE /\ verdict' = judged
             /\ CASE judged.kin = "update" ->
                       LET n == sn(CHOOSE e \in Digs(judged.states) : TRUE)
                       IN /\ Ask("logs", n, {x.wit : x \in judged.states}, "log")
                          /\ UNCHANGED <<ksnVars, pending, states, wwas>>
                  [] judged.kin = "lagging" -> Finish("raised")
                  [] judged.kin = "none" -> Finish("hung")
                  [] OTHER -> Finish("done")

(* `local watch` asks one witness after another, each time forgetting the  *)
(* notice it had from it, and judges what was answered in time.            *)
WatchAsk ==
  LET w == Head(pending)
  IN /\ world.task = "watch" /\ stage = "start" /\ pending # <<>> /\ klog # <<>>
     /\ knas' = [knas EXCEPT ![w] = None]
     /\ ksns' = ksns \ {knas[w]}
     /\ Ask("ksn", 0, {w}, "notice") /\ UNCHANGED <<cues, pending, states, verdict, wwas>>
WatchRead ==
  LET w == Head(pending)
  IN /\ world.task = "watch" /\ stage = "notice" /\ pending # <<>>
     /\ \/ knas[w] # None /\ states' = states \cup {diffState(w, knas[w])}
        \/ knas[w] = None /\ UNCHANGED states
     /\ pending' = Tail(pending) /\ stage' = "start"
     /\ UNCHANGED <<world, srcVars, qnfs, netVars, logVars, ksnVars, want, verdict, wwas, asked, expired>>
watchDo ==
  /\ world.task = "watch" /\ stage = "start" /\ pending = <<>>
  /\ verdict' = Judge(states, 1) /\ Finish("watched")

(* Another task of the controller asks for the key state, or the log, or   *)
(* resolves an OOBI, which a source answers with its whole log (OOBIEnd).  *)
AskOther(w) ==
  /\ asked < Len(world.others) /\ klog # <<>> /\ asked' = asked + 1
  /\ world.others[asked'] # "oobi"
  /\ queries' = queries \cup {Query(w, world.others[asked'], 0)}
  /\ UNCHANGED <<world, srcVars, qnfs, notices, replays, logVars, ksnVars, taskVars, expired>>
ResolveOther(w) ==
  /\ asked < Len(world.others) /\ asked' = asked + 1 /\ world.others[asked'] = "oobi"
  /\ known[w] > 0 /\ full[w] = known[w]
  /\ replays' = replays \cup {FullBy(w)}
  /\ UNCHANGED <<world, srcVars, qnfs, queries, notices, logVars, ksnVars, taskVars, expired>>

-----------------------------------------------------------------------------
Init ==
  /\ world \in WatchWorlds
  /\ known = [w \in Sources |-> world.has] /\ full = known /\ qnfs = {}
  /\ queries = {} /\ notices = {} /\ replays = {}
  /\ klog = world.log /\ heard = <<None>>
  /\ knas = [w \in Sources |-> None] /\ ksns = {} /\ cues = <<>>
  /\ stage = "start" /\ want = 0 /\ pending = SetToSeq(Sources) /\ states = {}
  /\ verdict = NoVerdict /\ wwas = [w \in Sources |-> 0] /\ asked = 0 /\ expired = 0
Idle == queries = {} /\ notices = {} /\ replays = {} /\ UNCHANGED vars
Messages ==
  \/ \E q \in queries : processQuery(q)
  \/ \E m \in notices : processReplyKeyStateNotice(m)
  \/ \E told \in replays : processReplay(told)
  \/ \E w \in Sources : processQueryNotFound(w) \/ Learn(w) \/ Witness(w)
Tasks ==
  \/ KeyStateNoticer \/ NoticeSaved \/ LogQuerier \/ SeqNoQuerier \/ AnchorQuerier
  \/ adjudicate \/ WatchAsk \/ WatchRead \/ watchDo
Next ==
  \/ Messages \/ Tasks
  \/ \E w \in Sources : AskOther(w) \/ ResolveOther(w)
  \/ \E q \in qnfs : Expire(q)
  \/ \E o \in world.orders : processReplyAddWatched(o)
  \/ Idle
Steady == Messages \/ Tasks
Spec == Init /\ [][Next]_vars /\ WF_vars(Steady)

-----------------------------------------------------------------------------
(* A source's notice is kept under its own name: it is a state the source  *)
(* has been in, fully witnessed (updateKeyState); what the copy of the log *)
(* has gained came from one source.                                        *)
NoticesOwn ==
  /\ \A w \in Reported : knas[w] \in ToSet(FullBy(w))
  /\ klog # world.log => \E w \in Sources : IsPrefix(klog, FullBy(w))

(* An update is fetched only when a threshold of sources agrees on it.     *)
UpdateAgreed ==
  verdict.kin = "update" =>
    \E e \in Digs(verdict.states) :
      /\ Digs(verdict.states) = {e}
      /\ Cardinality({w \in Sources : e \in ToSet(FullBy(w))}) >= Cardinality(verdict.states)
      /\ Cardinality(verdict.states) >= world.toad

(* Duplicity is reported when two logs differ at one place, or, which the  *)
(* code takes for it, when watchers ahead are at different places.         *)
Apart(e, f) == sn(e) = sn(f) /\ e # f
DuplicityReal ==
  verdict.kin = "duplicitous" =>
    \/ \E x \in verdict.states : \E e \in ToSet(klog) \cup Digs(verdict.states) : Apart(e, x.dig)
    \/ \A x \in verdict.states : x.state = "ahead"

(* What these rest on: a notice or a replay is of what its source had; a   *)
(* difference that was read names its source's event, and a duplicitous    *)
(* one stays against the log; and a verdict is of such differences.        *)
Has(w, e) == e \in ToSet(FullBy(w))
Told(log) == \E w \in Sources : \E n \in 0..full[w] : log = SubSeq(world.branch[w], 1, n)
Diff(x) ==
  /\ x \in [wit : Sources, dig : Events, state : {"even", "duplicitous", "behind", "ahead"}]
  /\ Has(x.wit, x.dig)
  /\ x.state = "duplicitous" => \E e \in ToSet(klog) : Apart(e, x.dig)
TypeOK ==
  /\ world \in WatchWorlds
  /\ known \in [Sources -> Nat] /\ full \in [Sources -> Nat]
  /\ \A w \in Sources : full[w] <= known[w] /\ known[w] <= Len(world.branch[w])
  /\ \A q \in queries \cup qnfs : q.to \in Sources
  /\ notices \subseteq [from : Sources, event : Events]
  /\ knas \in [Sources -> Events \cup {None}] /\ pending \in Seq(Sources)
  /\ IsFiniteSet(states) /\ IsFiniteSet(verdict.states)
ReportsOwn ==
  /\ \A m \in notices : Has(m.from, m.event)
  /\ \A w \in Sources : knas[w] # None => Has(w, knas[w])
  /\ \A told \in replays : Told(told)
  /\ Placed(klog) /\ (klog = world.log \/ Told(klog))
VerdictFounded ==
  /\ \A x \in states \cup verdict.states : Diff(x)
  /\ verdict.kin = "update" =>
       /\ Cardinality(Digs(verdict.states)) = 1 /\ Cardinality(verdict.states) >= world.toad
       /\ \A x \in verdict.states : x.state = "ahead"
  /\ verdict.kin = "duplicitous" =>
       verdict.states # {} /\ \E s \in {"duplicitous", "ahead"} : \A x \in verdict.states : x.state = s
WatchingInv == TypeOK /\ ReportsOwn /\ VerdictFounded

(* While sources have one log and no query times out, a task gets what it  *)
(* waits for, or one of the ways it is left waiting has happened: the      *)
(* notice's query was dropped, a log came that was too short, a second     *)
(* notice came.  A querier waits while the identifier is unknown, and gets *)
(* its event once the log has come.                                        *)
OneLog == \A w, v \in Sources : world.branch[w] = world.branch[v]
Dropped == world.task = "noticer" /\ world.log = <<>>
Unknown == world.task \in {"logs", "anchor"} /\ klog = <<>>
Short == heard # <<None>> /\ Len(heard) <= want
Finished ==
  \/ stage \in {"done", "raised", "hung", "watched"}
  \/ ~OneLog \/ expired > 0 \/ Dropped \/ Unknown \/ Short
TasksFinish == []<>Finished
=============================================================================
