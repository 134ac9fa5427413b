------------------------------ MODULE Joining ------------------------------
(* Members of one group and their commands: a member proposes an event of  *)
(* the group (multisig incept, interact, rotate, ends add, vc registry     *)
(* incept, vc create, vc revoke) and the others join it (multisig join),   *)
(* app/grouping.py and GroupHab of app/habbing.py between them.  A command *)
(* that waits for its event answers no other proposal.                     *)
EXTENDS Integers, Sequences, FiniteSets, SequencesExt

CONSTANTS
  Members,  \* the members in the order of the group's keys
  Needed,   \* how many of them must sign, now and of the prior commitment
  Worlds,   \* what each member knows and the proposals that are to be made
  None

Approving == {"icp", "ixn", "rot", "rpy"}  \* commands that add their own proposal to the Multiplexor
Anchored == {"vcp", "iss", "rev"}
All == ToSet(Members)
Routes == {"icp", "ixn", "rot", "rpy"} \cup Anchored
(* The log that the members of a world have before its proposals.          *)
JoiningAssumption ==
  /\ Members \in Seq(All) /\ Needed \in Nat \ {0} /\ None \notin Routes
  /\ \A w \in Worlds :
       /\ w = [seen |-> w.seen, has |-> w.has, orders |-> w.orders, log |-> w.log,
                lone |-> w.lone, aborts |-> w.aborts]
       /\ w.log \in Seq(ToSet(w.log)) /\ w.aborts \in Nat
       /\ \A o \in w.orders : o.by \in All /\ o.route \in Routes

VARIABLES
  world,   \* seen: the rotations each member knows of; has: who has the schema
           \* or the credential; orders: proposals; log; aborts: how many
  logs,    \* the log of the group at each member
  held,    \* db.sigs: signatures its Kevery holds
  maids,   \* proposals its Multiplexor stored, and from whom
  notes,   \* notices that wait to be joined
  posted,    \* proposals on their way to it
  busy,    \* the event its command waits for
  joining, \* its command is multisig join, with the first notice
  dead,    \* its command was ended by an error
  aborts
vars == <<world, logs, held, maids, notes, posted, busy, joining, dead, aborts>>

Nothing == [route |-> None, at |-> 0, keys |-> <<>>, data |-> None]
Event(route, at, keys, data) == [route |-> route, at |-> at, keys |-> keys, data |-> data]
Idling(m) == busy[m] = Nothing /\ m \notin dead
Signs(m, e) == <<e, m>> \in held[m]
Tip(m) == Len(logs[m])
EventAt(m, n) == IF n < Tip(m) THEN logs[m][n + 1] ELSE Nothing

-----------------------------------------------------------------------------
(* What a member makes.                                                    *)

(* The keys of the others are those this member knows of.                  *)
extractMerfersMigers(m) == [i \in DOMAIN Members |-> world.seen[m][Members[i]]]
makeGroupHab(m, data) == Event("icp", 0, extractMerfersMigers(m), data)
interact(m, data) == Event("ixn", Tip(m), <<>>, data)
rotate(m, data) == Event("rot", Tip(m), extractMerfersMigers(m), data)
anchor(m, route, data) == Event(route, Tip(m), <<>>, data)
reply(data) == Event("rpy", 0, <<>>, data)  \* has no place in the log
(* One that a member re-makes has its own view, one that it signs has the  *)
(* view of who proposed it.                                                *)
Made(m, route, data) ==
  CASE route = "icp" -> makeGroupHab(m, data)
    [] route = "rot" -> rotate(m, data)
    [] route = "ixn" -> interact(m, data)
    [] route = "rpy" -> reply(data)
    [] OTHER -> anchor(m, route, data)

(* GroupHab.sign: by the latest own key in the event; in a rotation also   *)
(* by the key that was committed to, the one of the member's first         *)
(* rotation, if the event has it.                                          *)
Index(m) == CHOOSE i \in DOMAIN Members : Members[i] = m
fetchLatestContribTo(m, e) == e.keys[Index(m)]
Exposes(m, e) == fetchLatestContribTo(m, e) = 1
Enough(e, signers) ==
  /\ Cardinality(signers) >= Needed
  /\ e.route = "rot" => Cardinality({m \in signers : Exposes(m, e)}) >= Needed
Signers(m, e) == {s \in All : <<e, s>> \in held[m]}

(* The member signs e, tells the others of the event `told`, and approves  *)
(* it: Multiplexor.add replays what others sent of it before.              *)
Replays(m, e) == {<<e, s>> : s \in {s \in All : <<e, s>> \in maids[m]}}
Say(m, e, told, approve, more) ==
  /\ held' = [held EXCEPT ![m] = @ \cup {<<e, m>>} \cup more
                \cup IF approve THEN Replays(m, told) ELSE {}]
  /\ maids' = IF approve THEN [maids EXCEPT ![m] = @ \cup {<<told, m>>}] ELSE maids
  /\ posted' = [s \in All |-> IF s = m THEN posted[s] ELSE posted[s] \cup {<<told, m>>}]
  /\ busy' = [busy EXCEPT ![m] = e]

-----------------------------------------------------------------------------
(* A command that proposes.                                                *)

Named(m) == Tip(m) > 0 \/ \E x \in held[m] : x[2] = m  \* the name of the group is in use
Propose(o) ==
  LET m == o.by
      e == Made(m, o.route, o.data)
  IN /\ o \in world.orders /\ Idling(m)
     /\ o.route = "icp" => ~Named(m)
     /\ o.route # "icp" => Tip(m) > 0
     /\ world' = [world EXCEPT !.orders = @ \ {o}]
     /\ Say(m, e, e, o.route \in Approving, {})
     /\ UNCHANGED <<logs, notes, joining, dead, aborts>>

(* Multiplexor.validate and add for what another member sent.              *)
validate(m, e) == e.route \in {"icp", "rot"} \/ Named(m)
Approved(m, e) == <<e, m>> \in maids[m]
Receive(m, x) ==
  LET e == x[1] IN
  /\ x \in posted[m]
  /\ posted' = [posted EXCEPT ![m] = @ \ {x}]
  /\ IF ~validate(m, e) THEN UNCHANGED <<held, maids, notes>>
     ELSE /\ maids' = [maids EXCEPT ![m] = @ \cup {x}]
          /\ IF Approved(m, e)
             THEN held' = [held EXCEPT ![m] = @ \cup {x}] /\ UNCHANGED notes
             ELSE notes' = [notes EXCEPT ![m] = Append(@, x)] /\ UNCHANGED held
  /\ UNCHANGED <<world, logs, busy, joining, dead, aborts>>

(* Slip: the keys a rotation was committed to need not be exposed.         *)
AcceptableByAny(m, e) ==
  e.route # "rpy" /\ e.at = Tip(m) /\ Signs(m, e) /\ Cardinality(Signers(m, e)) >= Needed

(* Kevery accepts what enough members signed (module Kevery).              *)
Acceptable(m, e) ==
  e.route # "rpy" /\ e.at = Tip(m) /\ Signs(m, e) /\ Enough(e, Signers(m, e))
Accept(m, e) ==
  /\ Acceptable(m, e)
  /\ logs' = [logs EXCEPT ![m] = Append(@, e)]
  /\ UNCHANGED <<world, held, maids, notes, posted, busy, joining, dead, aborts>>

-----------------------------------------------------------------------------
(* multisig join: the first notice, one handler for each route.            *)

Note(m, route) == Idling(m) /\ notes[m] # <<>> /\ Head(notes[m])[1].route = route
Proposed(m) == Head(notes[m])[1]
Drop(m) ==  \* not done, and the user deletes the notice
  notes' = [notes EXCEPT ![m] = Tail(@)] /\ UNCHANGED <<held, maids, posted, busy, joining, dead>>
Die(m) ==  \* an error the handler does not catch
  dead' = dead \cup {m} /\ UNCHANGED <<held, maids, notes, posted, busy, joining>>
Joins(m) == UNCHANGED <<world, logs, aborts>>
Waits(m) == joining' = joining \cup {m} /\ UNCHANGED <<notes, dead>>
incept(m) ==
  /\ Note(m, "icp") /\ Joins(m)
  /\ LET e == makeGroupHab(m, Proposed(m).data) IN
     IF Named(m) THEN Drop(m)
     ELSE Say(m, e, e, TRUE, {}) /\ Waits(m)
(* Makes its own event at the end of its own log, and tells of the one it  *)
(* has at the place of the proposal.                                       *)
joinInteract(m) ==
  /\ Note(m, "ixn") /\ Joins(m)
  /\ LET e == interact(m, Proposed(m).data)
         n == Proposed(m).at
         told == IF n = Tip(m) THEN e ELSE EventAt(m, n)
     IN IF n > Tip(m)  \* signed, but there is nothing to tell of
        THEN /\ dead' = dead \cup {m}
             /\ held' = [held EXCEPT ![m] = @ \cup {<<e, m>>}]
             /\ UNCHANGED <<maids, notes, posted, busy, joining>>
        ELSE Say(m, e, told, TRUE, {}) /\ Waits(m)
(* GroupHab.rotate with the proposed event: it must fit the log.           *)
joinRotate(m) ==
  /\ Note(m, "rot") /\ Joins(m)
  /\ LET e == Proposed(m) IN
     IF e.at = Tip(m) \/ EventAt(m, e.at) = e
     THEN Say(m, e, e, TRUE, {}) /\ Waits(m)
     ELSE Die(m)
(* A reply, or the event that seals what happens to a registry or to a     *)
(* credential: parsed as it came, signed, and parsed again; the            *)
(* Multiplexor is told of neither.                                         *)
Endorse(m, route) ==
  /\ Note(m, route) /\ Joins(m)
  /\ Say(m, Proposed(m), Proposed(m), FALSE, {Head(notes[m])}) /\ Waits(m)
rpy(m) == Endorse(m, "rpy")
Repeated(m) == EventAt(m, Proposed(m).at) = Proposed(m)
Refuses(m, route) == Note(m, route) /\ Joins(m)
(* Proposed again, after it was accepted, it is refused as duplicitous.    *)
Sealed(m, route) ==
  \/ Refuses(m, route) /\ Repeated(m) /\ Die(m)
  \/ Endorse(m, route) /\ ~Repeated(m)
vcp(m) == Sealed(m, "vcp")
iss(m) == IF m \in world.has THEN Sealed(m, "iss") ELSE Refuses(m, "iss") /\ Die(m)
rev(m) == IF m \in world.has THEN Sealed(m, "rev") ELSE Refuses(m, "rev") /\ Drop(m)

(* The wait of startCounselor is for an event at the place (module Groups),*)
(* that of a registry or a credential for the very event, that of a reply  *)
(* for enough endorsements.                                                *)
Finished(m, e) ==
  CASE e.route = "rpy" -> Enough(e, Signers(m, e))
    [] e.route \in Anchored -> EventAt(m, e.at) = e
    [] OTHER -> Tip(m) > e.at
startCounselor(m) ==
  /\ busy[m] # Nothing /\ Finished(m, busy[m])
  /\ busy' = [busy EXCEPT ![m] = Nothing] /\ joining' = joining \ {m}
  /\ notes' = IF m \in joining THEN [notes EXCEPT ![m] = Tail(@)] ELSE notes
  /\ UNCHANGED <<world, logs, held, maids, posted, dead, aborts>>
(* The user interrupts a command, or runs one again after an error.        *)
Abort(m) ==
  /\ aborts < world.aborts /\ ~Idling(m)
  /\ busy' = [busy EXCEPT ![m] = Nothing] /\ dead' = dead \ {m} /\ aborts' = aborts + 1
  /\ joining' = joining \ {m}
  /\ UNCHANGED <<world, logs, held, maids, notes, posted>>
Idle == UNCHANGED vars

-----------------------------------------------------------------------------
Init ==
  /\ world \in Worlds
  /\ logs = [m \in All |-> world.log]
  /\ held = [m \in All |-> {}] /\ maids = [m \in All |-> {}]
  /\ notes = [m \in All |-> <<>>] /\ posted = [m \in All |-> {}]
  /\ busy = [m \in All |-> Nothing] /\ joining = {} /\ dead = {} /\ aborts = 0
joinDo(m) ==
  incept(m) \/ joinInteract(m) \/ joinRotate(m) \/ rpy(m) \/ vcp(m) \/ iss(m) \/ rev(m)
Works(m) ==
  \/ joinDo(m) \/ startCounselor(m)
  \/ \E x \in posted[m] : Receive(m, x)
  \/ \E x \in held[m] : Accept(m, x[1])
Working == (\E m \in All : Works(m)) \/ \E o \in world.orders : Propose(o)
Next == Working \/ (\E m \in All : Abort(m)) \/ Idle
Spec == Init /\ [][Next]_vars /\ WF_vars(Working)

-----------------------------------------------------------------------------
TypeOK ==
  /\ \A m \in All :
       /\ \A x \in held[m] \cup maids[m] \cup posted[m] : x[1].at \in Nat /\ x[2] \in All
       /\ m \in joining => busy[m] # Nothing /\ notes[m] # <<>>
  /\ dead \subseteq All /\ aborts \in 0..world.aborts

(* What the next two rest on: a signature that a member has, or that is on *)
(* its way to it, is one that its author made, for a place after the log   *)
(* that all began with.                                                    *)
Start == Len(world.log)
Genuine(x) ==
  /\ x[2] \in All /\ <<x[1], x[2]>> \in held[x[2]] /\ x[1].route \in Routes /\ x[1].at \in Nat
  /\ x[1].route # "rpy" => x[1].at >= Start
SignaturesHeld ==
  \A m \in All : \A x \in held[m] \cup maids[m] \cup posted[m] \cup ToSet(notes[m]) : Genuine(x)
LogsHeld ==
  \A m \in All :
    /\ Tip(m) >= Start /\ \A n \in 1..Start : logs[m][n] = world.log[n]
    /\ \A n \in Start + 1..Tip(m) : logs[m][n].at = n - 1 /\ logs[m][n].route # "rpy"
WorldHeld ==
  \E w \in Worlds :
    /\ world = [seen |-> w.seen, has |-> w.has, orders |-> world.orders, log |-> w.log,
                 lone |-> w.lone, aborts |-> w.aborts]
    /\ world.orders \subseteq w.orders
TablesHeld ==
  /\ held = [m \in All |-> held[m]] /\ maids = [m \in All |-> maids[m]]
  /\ notes = [m \in All |-> notes[m]] /\ posted = [m \in All |-> posted[m]]
  /\ logs = [m \in All |-> logs[m]] /\ busy = [m \in All |-> busy[m]]
  /\ \A m \in All : logs[m] \in Seq(ToSet(logs[m])) /\ notes[m] \in Seq(ToSet(notes[m]))

(* The logs of two members have the same event at a place, unless a member *)
(* signed two events for it (GroupHab.sign).                               *)
SignedBy(m) == {x[1] : x \in {x \in held[m] : x[2] = m}}
Twice(m, n) == \E e, f \in SignedBy(m) : e # f /\ e.at = n /\ f.at = n /\ "rpy" \notin {e.route, f.route}
LogsAgree ==
  \A a, b \in All : \A n \in 1..Tip(a) :
    n <= Tip(b) /\ logs[a][n] # logs[b][n] => \E m \in All : Twice(m, n - 1)

(* An event in a member's log was signed by that member and by as many as  *)
(* it needs, of their own accord (Multiplexor.add).                        *)
MembersAgreed ==
  \A m \in All : \A n \in Len(world.log) + 1..Tip(m) :
    /\ logs[m][n] \in SignedBy(m)
    /\ Enough(logs[m][n], {s \in All : logs[m][n] \in SignedBy(s)})

JoiningInv == TypeOK /\ WorldHeld /\ TablesHeld /\ SignaturesHeld /\ LogsHeld /\ MembersAgreed

(* When no message and no notice is left to act on, a member waits for an  *)
(* inception, interaction or rotation only if too few proposed or joined   *)
(* that one, or it exposes too few of the committed keys: members wait for *)
(* each other because they do not agree, and for no other reason.          *)
Quiet == \A m \in All :
  /\ posted[m] = {} /\ ~(Idling(m) /\ notes[m] # <<>>) /\ m \notin dead
  /\ \A x \in held[m] : ~Acceptable(m, x[1])
StuckApart ==
  Quiet => \A m \in All :
    busy[m].route \in {"icp", "ixn", "rot"} /\ ~Finished(m, busy[m])
      => Cardinality({s \in All : Approved(s, busy[m])}) < Needed \/ ~Enough(busy[m], All)

(* One proposal, nobody interrupts, and everyone knows the same of the     *)
(* others: it is in the log of everyone.                                   *)
SameViews == \A a, b \in All : world.seen[a] = world.seen[b]
Logged(m) == Tip(m) > Len(world.log)
AllLogged == SameViews /\ world.lone => \A m \in All : Logged(m)
=============================================================================
