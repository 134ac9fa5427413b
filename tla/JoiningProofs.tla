---------------------------- MODULE JoiningProofs ----------------------------
(***************************************************************************)
(* Proofs about Joining for any members, threshold and proposals: what a   *)
(* member logs was signed by that member and by enough others of their own *)
(* accord; and for a threshold above half of the members, logs that differ *)
(* at a place show a member that signed two events for it.  Then proofs    *)
(* about five modules that work beside it, each over an instance: no URL   *)
(* is lost and no list resolved too early (Oobiery), no delegation counts  *)
(* as complete before its receipts and its published seal (Anchorer), no   *)
(* group event before its acceptance and its seal (Groups), every witness  *)
(* gets the receipts of the others (Witnessing), and what is concluded of  *)
(* watchers is what they had (Watching).                                   *)
(***************************************************************************)
EXTENDS Joining, SequenceFacts

-----------------------------------------------------------------------------
(* Signers                                                                 *)

(* There are finitely many members.                                        *)
LEMMA MembersFinite == ASSUME JoiningAssumption PROVE IsFiniteSet(All)
<1>1. Members \in Seq(All)
  BY DEF JoiningAssumption
<1>2. IsFiniteSet(1..Len(Members)) /\ Len(Members) \in Nat
  BY <1>1, FS_Interval
<1>3. Members \in Surjection(1..Len(Members), All)
  BY <1>1 DEF All, ToSet, Surjection, Range
<1> QED BY <1>2, <1>3, FS_Surjection

(* More signers are enough when fewer are.                                 *)
LEMMA EnoughGrows ==
  ASSUME JoiningAssumption, NEW e, NEW S, NEW T, S \subseteq T, T \subseteq All, Enough(e, S)
  PROVE  Enough(e, T)
<1> DEFINE X(U) == {m \in U : Exposes(m, e)}
<1>1. IsFiniteSet(T) /\ IsFiniteSet(X(T)) /\ X(S) \subseteq X(T)
  BY MembersFinite, FS_Subset
<1>2. /\ Cardinality(S) <= Cardinality(T) /\ Cardinality(S) \in Nat /\ Cardinality(T) \in Nat
      /\ Cardinality(X(S)) <= Cardinality(X(T)) /\ Cardinality(X(S)) \in Nat /\ Cardinality(X(T)) \in Nat
  BY <1>1, FS_Subset, FS_CardinalityType
<1>3. Needed \in Nat
  BY DEF JoiningAssumption
<1> HIDE DEF X
<1>4. /\ Cardinality(T) >= Needed
      /\ e.route = "rot" => Cardinality(X(T)) >= Needed
  BY <1>2, <1>3 DEF Enough, X
<1> QED BY <1>4 DEF Enough, X

(* Who a member holds signatures of signed.                                *)
LEMMA SignersSigned ==
  ASSUME SignaturesHeld, NEW m \in All, NEW e
  PROVE  Signers(m, e) \subseteq {s \in All : e \in SignedBy(s)}
<1> SUFFICES ASSUME NEW s \in All, <<e, s>> \in held[m] PROVE e \in SignedBy(s)
  BY DEF Signers
<1>1. <<e, s>> \in held[s]
  BY DEF SignaturesHeld, Genuine
<1> QED BY <1>1 DEF SignedBy

(* A step that signs nothing leaves who signed what.                       *)
LEMMA SameSigners ==
  ASSUME \A s \in All : SignedBy(s)' = SignedBy(s)
  PROVE  MembersAgreed' <=>
           \A m \in All : \A n \in Len(world'.log) + 1..Len(logs'[m]) :
             /\ logs'[m][n] \in SignedBy(m)
             /\ Enough(logs'[m][n], {s \in All : logs'[m][n] \in SignedBy(s)})
<1>1. \A x : {s \in All : x \in SignedBy(s)'} = {s \in All : x \in SignedBy(s)}
  OBVIOUS
<1> QED BY <1>1 DEF MembersAgreed, Tip, Enough, Exposes, fetchLatestContribTo, Index

-----------------------------------------------------------------------------
(* Steps that sign                                                         *)

(* What is kept by a step that loses no signature and leaves the logs.     *)
SignaturesGrow == \A s \in All : held[s] \subseteq held'[s]
SameLogs == UNCHANGED <<logs, aborts>> /\ world'.log = world.log /\ world'.aborts = world.aborts

(* More signatures, with the same logs, take nothing from what the logs    *)
(* rest on.                                                                *)
LEMMA LogsKept ==
  ASSUME JoiningAssumption, JoiningInv, SignaturesGrow, SameLogs
  PROVE  LogsHeld' /\ MembersAgreed' /\ (\A x : Genuine(x) => Genuine(x)')
<1>1. ASSUME NEW s \in All PROVE SignedBy(s) \subseteq SignedBy(s)'
  BY DEF SignedBy, SignaturesGrow
<1>2. LogsHeld'
  BY DEF JoiningInv, LogsHeld, SameLogs, Start, Tip
<1>3. MembersAgreed'
  <2> SUFFICES ASSUME NEW m \in All, NEW n \in Len(world'.log) + 1..Len(logs'[m])
               PROVE  /\ logs'[m][n] \in SignedBy(m)'
                      /\ Enough(logs'[m][n], {s \in All : logs'[m][n] \in SignedBy(s)'})
    BY DEF MembersAgreed, Tip, Enough, Exposes, fetchLatestContribTo, Index
  <2> DEFINE e == logs[m][n]
  <2>1. n \in Len(world.log) + 1..Tip(m) /\ logs'[m][n] = e
    BY DEF SameLogs, Tip
  <2>2. e \in SignedBy(m) /\ Enough(e, {s \in All : e \in SignedBy(s)})
    BY <2>1 DEF JoiningInv, MembersAgreed
  <2>3. {s \in All : e \in SignedBy(s)} \subseteq {s \in All : e \in SignedBy(s)'}
    BY <1>1
  <2> HIDE DEF e
  <2> QED BY <1>1, <2>1, <2>2, <2>3, EnoughGrows
<1>4. ASSUME NEW x, Genuine(x) PROVE Genuine(x)'
  BY <1>4 DEF Genuine, SignaturesGrow, SameLogs, Start
<1> QED BY <1>2, <1>3, <1>4

(* What a member tells of is what it signs now, or a logged event that it  *)
(* signed before.                                                          *)
Fitting(e) == e.route \in Routes /\ e.at \in Nat /\ (e.route # "rpy" => e.at >= Start)
(* A member that signs its event and tells the others keeps what is said   *)
(* of signatures and logs (Multiplexor.add).                               *)
LEMMA SayInv ==
  ASSUME JoiningAssumption, JoiningInv, NEW m \in All, NEW e, NEW told, NEW approve \in BOOLEAN,
         NEW more, Fitting(e), Fitting(told), told = e \/ <<told, m>> \in held[m],
         \A x \in more : Genuine(x), Say(m, e, told, approve, more), SameLogs, UNCHANGED notes
  PROVE  /\ SignaturesHeld' /\ LogsHeld' /\ MembersAgreed'
         /\ held' = [s \in All |-> held'[s]] /\ maids' = [s \in All |-> maids'[s]]
         /\ posted' = [s \in All |-> posted'[s]] /\ busy' = [s \in All |-> busy'[s]]
         /\ busy'[m] # Nothing /\ \A s \in All : s # m => busy'[s] = busy[s]
<1> DEFINE new == held[m] \cup {<<e, m>>} \cup more \cup (IF approve THEN Replays(m, told) ELSE {})
<1>1. /\ held = [s \in All |-> held[s]] /\ maids = [s \in All |-> maids[s]]
      /\ posted = [s \in All |-> posted[s]] /\ busy = [s \in All |-> busy[s]]
  BY DEF JoiningInv, TablesHeld
<1>2. /\ held' = [held EXCEPT ![m] = new]
      /\ maids' = IF approve THEN [maids EXCEPT ![m] = @ \cup {<<told, m>>}] ELSE maids
      /\ posted' = [s \in All |-> IF s = m THEN posted[s] ELSE posted[s] \cup {<<told, m>>}]
      /\ busy' = [busy EXCEPT ![m] = e]
  BY DEF Say
<1>3. held'[m] = new /\ \A s \in All : s # m => held'[s] = held[s]
  BY <1>1, <1>2
<1>4. SignaturesGrow
  BY <1>3 DEF SignaturesGrow
<1>5. LogsHeld' /\ MembersAgreed' /\ (\A x : Genuine(x) => Genuine(x)')
  BY <1>4, LogsKept
<1>6. Genuine(<<e, m>>)' /\ Genuine(<<told, m>>)'
  <2>1. <<e, m>> \in held'[m] /\ <<told, m>> \in held'[m]
    BY <1>3
  <2> QED BY <2>1 DEF Genuine, Fitting, SameLogs, Start
<1>7. ASSUME NEW s \in All, NEW x \in held'[s] PROVE Genuine(x)'
  <2>1. CASE x \in held[s] \cup more
    BY <2>1, <1>5 DEF JoiningInv, SignaturesHeld
  <2>2. CASE x = <<e, m>>
    BY <2>2, <1>6
  <2>3. CASE x \in Replays(m, told)
    <3>1. PICK y \in All : x = <<told, y>> /\ x \in maids[m]
      BY <2>3 DEF Replays
    <3> QED BY <3>1, <1>5 DEF JoiningInv, SignaturesHeld
  <2> QED BY <1>3, <1>7, <2>1, <2>2, <2>3
<1>8. ASSUME NEW s \in All, NEW x \in maids'[s] \cup posted'[s] \cup ToSet(notes'[s]) PROVE Genuine(x)'
  <2>1. x \in maids[s] \cup posted[s] \cup ToSet(notes[s]) \/ x = <<told, m>>
    BY <1>1, <1>2, <1>8
  <2> QED BY <2>1, <1>5, <1>6 DEF JoiningInv, SignaturesHeld
<1>9. SignaturesHeld'
  BY <1>7, <1>8 DEF SignaturesHeld
<1>10. busy'[m] # Nothing
  BY <1>1, <1>2 DEF Fitting, Nothing, JoiningAssumption
<1>11. /\ held' = [s \in All |-> held'[s]] /\ maids' = [s \in All |-> maids'[s]]
       /\ posted' = [s \in All |-> posted'[s]] /\ busy' = [s \in All |-> busy'[s]]
       /\ \A s \in All : s # m => busy'[s] = busy[s]
  BY <1>1, <1>2
<1> QED BY <1>5, <1>9, <1>10, <1>11

(* What the invariant says of the orders of the users and of where the     *)
(* logs start.                                                             *)
LEMMA WorldFacts ==
  ASSUME JoiningAssumption, JoiningInv
  PROVE  /\ Start \in Nat /\ \A m \in All : Tip(m) \in Nat /\ Tip(m) >= Start
         /\ \A o \in world.orders : o.by \in All /\ o.route \in Routes
<1>1. PICK w \in Worlds : /\ world = [seen |-> w.seen, has |-> w.has, orders |-> world.orders, log |-> w.log,
                                      lone |-> w.lone, aborts |-> w.aborts]
                          /\ world.orders \subseteq w.orders
  BY DEF JoiningInv, WorldHeld
<1>2. w.log \in Seq(ToSet(w.log)) /\ \A o \in w.orders : o.by \in All /\ o.route \in Routes
  BY DEF JoiningAssumption
<1>3. world.log = w.log
  BY <1>1
<1>4. Start \in Nat
  BY <1>2, <1>3 DEF Start
<1>5. ASSUME NEW m \in All PROVE Tip(m) \in Nat /\ Tip(m) >= Start
  <2>1. logs[m] \in Seq(ToSet(logs[m]))
    BY DEF JoiningInv, TablesHeld
  <2> QED BY <2>1 DEF JoiningInv, LogsHeld, Tip
<1> QED BY <1>1, <1>2, <1>4, <1>5

(* An order that is carried out leaves the others.                         *)
LEMMA WorldKept ==
  ASSUME JoiningInv, world' = world \/ \E o : world' = [world EXCEPT !.orders = @ \ {o}]
  PROVE  WorldHeld' /\ world'.log = world.log /\ world'.aborts = world.aborts
<1>1. PICK w \in Worlds : /\ world = [seen |-> w.seen, has |-> w.has, orders |-> world.orders, log |-> w.log,
                                      lone |-> w.lone, aborts |-> w.aborts]
                          /\ world.orders \subseteq w.orders
  BY DEF JoiningInv, WorldHeld
<1>2. CASE world' = world
  BY <1>2 DEF JoiningInv, WorldHeld
<1>3. ASSUME NEW o, world' = [world EXCEPT !.orders = @ \ {o}]
      PROVE  WorldHeld' /\ world'.log = world.log /\ world'.aborts = world.aborts
  <2> DEFINE X == world.orders \ {o}
  <2>1. world' = [seen |-> w.seen, has |-> w.has, orders |-> X, log |-> w.log,
                  lone |-> w.lone, aborts |-> w.aborts]
    BY <1>1, <1>3
  <2>2. X \subseteq w.orders
    BY <1>1
  <2> HIDE DEF X
  <2>3. world'.orders = X /\ world'.log = w.log /\ world'.aborts = w.aborts
    BY <2>1
  <2>4. world.log = w.log /\ world.aborts = w.aborts
    BY <1>1
  <2> QED BY <2>1, <2>2, <2>3, <2>4 DEF WorldHeld
<1> QED BY <1>2, <1>3

(* A step that says something, after which the member waits.               *)
Said(m, e, told, approve, more) ==
  /\ Fitting(e) /\ Fitting(told) /\ (told = e \/ <<told, m>> \in held[m])
  /\ \A x \in more : Genuine(x)
  /\ Say(m, e, told, approve, more) /\ UNCHANGED <<logs, aborts, notes, dead>>
  /\ world' = world \/ \E o : world' = [world EXCEPT !.orders = @ \ {o}]
  /\ \/ joining' = joining /\ busy[m] = Nothing
     \/ joining' = joining \cup {m} /\ notes[m] # <<>>
(* A member that signs an event and tells the others of one it made or was *)
(* told keeps the invariant.                                               *)
LEMMA SaidInv ==
  ASSUME JoiningAssumption, JoiningInv, NEW m \in All, NEW e, NEW told, NEW approve \in BOOLEAN,
         NEW more, Said(m, e, told, approve, more)
  PROVE  JoiningInv'
<1> USE DEF Said
<1>1. WorldHeld' /\ SameLogs
  BY WorldKept DEF SameLogs
<1>2. /\ SignaturesHeld' /\ LogsHeld' /\ MembersAgreed'
      /\ held' = [s \in All |-> held'[s]] /\ maids' = [s \in All |-> maids'[s]]
      /\ posted' = [s \in All |-> posted'[s]] /\ busy' = [s \in All |-> busy'[s]]
      /\ busy'[m] # Nothing /\ \A s \in All : s # m => busy'[s] = busy[s]
  BY <1>1, SayInv
<1>3. TablesHeld'
  BY <1>2 DEF JoiningInv, TablesHeld
<1>4. ASSUME NEW s \in All, s \in joining' PROVE busy'[s] # Nothing /\ notes'[s] # <<>>
  BY <1>2, <1>4 DEF JoiningInv, TypeOK
<1>5. TypeOK'
  BY <1>1, <1>2, <1>4 DEF JoiningInv, TypeOK, SignaturesHeld, Genuine, SameLogs
<1> QED BY <1>1, <1>2, <1>3, <1>5 DEF JoiningInv

(* What a member makes is for a place after the log all began with.        *)
LEMMA MadeFits ==
  ASSUME JoiningAssumption, JoiningInv, NEW m \in All, NEW route \in Routes, NEW data,
         route = "icp" => ~Named(m)
  PROVE  Fitting(Made(m, route, data))
<1>1. Tip(m) \in Nat /\ Tip(m) >= Start /\ Start \in Nat
  BY WorldFacts
<1>2. CASE route = "icp"
  <2>1. Tip(m) = 0 /\ Start = 0
    BY <1>1, <1>2 DEF Named
  <2> QED BY <1>2, <2>1 DEF Made, makeGroupHab, Event, Fitting
<1>3. CASE route = "rot"
  BY <1>1, <1>3 DEF Made, rotate, Event, Fitting
<1>4. CASE route = "ixn"
  BY <1>1, <1>4 DEF Made, interact, Event, Fitting
<1>5. CASE route = "rpy"
  BY <1>1, <1>5 DEF Made, reply, Event, Fitting
<1>6. CASE route \in Anchored
  BY <1>1, <1>6 DEF Made, anchor, Event, Fitting, Anchored
<1> QED BY <1>2, <1>3, <1>4, <1>5, <1>6 DEF Routes

(* A proposal keeps the invariant.                                         *)
LEMMA ProposeInv ==
  ASSUME JoiningAssumption, JoiningInv, NEW o \in world.orders, Propose(o)
  PROVE  JoiningInv'
<1> DEFINE m == o.by
           e == Made(m, o.route, o.data)
<1>1. m \in All /\ o.route \in Routes
  BY WorldFacts
<1>2. /\ Say(m, e, e, o.route \in Approving, {}) /\ UNCHANGED <<logs, notes, joining, dead, aborts>>
      /\ world' = [world EXCEPT !.orders = @ \ {o}] /\ busy[m] = Nothing
      /\ o.route = "icp" => ~Named(m)
  BY DEF Propose, Idling
<1>3. Fitting(e)
  BY <1>1, <1>2, MadeFits
<1> DEFINE approve == o.route \in Approving
<1>4. approve \in BOOLEAN
  OBVIOUS
<1>5. Said(m, e, e, approve, {})
  <2> HIDE DEF e, m
  <2> QED BY <1>2, <1>3 DEF Said
<1> HIDE DEF e, m, approve
<1> QED BY <1>1, <1>4, <1>5, SaidInv

(* The notice that a command joins.                                        *)
LEMMA NoteFacts ==
  ASSUME JoiningAssumption, JoiningInv, NEW m \in All, NEW route, Note(m, route)
  PROVE  /\ Fitting(Proposed(m)) /\ Genuine(Head(notes[m])) /\ Proposed(m).route = route
         /\ notes[m] # <<>> /\ busy[m] = Nothing /\ notes[m] \in Seq(ToSet(notes[m])) /\ m \notin joining
<1>1. notes[m] # <<>> /\ busy[m] = Nothing /\ notes[m] \in Seq(ToSet(notes[m]))
  BY DEF Note, Idling, JoiningInv, TablesHeld
<1>2. Head(notes[m]) \in ToSet(notes[m])
  BY <1>1, TailOwn
<1>3. Genuine(Head(notes[m]))
  BY <1>2 DEF JoiningInv, SignaturesHeld
<1>4. Fitting(Proposed(m)) /\ Proposed(m).route = route
  BY <1>3 DEF Genuine, Fitting, Proposed, Note
<1>5. m \notin joining
  BY <1>1 DEF JoiningInv, TypeOK
<1> QED BY <1>1, <1>3, <1>4, <1>5

(* Steps that sign nothing and leave the logs.                             *)
LEMMA QuietInv ==
  ASSUME JoiningAssumption, JoiningInv, UNCHANGED <<world, logs, aborts, held, maids, posted, busy>>,
         notes' = [s \in All |-> notes'[s]], joining' = joining, dead' \subseteq All,
         \A s \in All : /\ notes'[s] \in Seq(ToSet(notes'[s])) /\ ToSet(notes'[s]) \subseteq ToSet(notes[s])
                        /\ s \in joining => notes'[s] # <<>>
  PROVE  JoiningInv'
<1>1. LogsHeld' /\ MembersAgreed' /\ (\A x : Genuine(x) => Genuine(x)')
  BY LogsKept DEF SignaturesGrow, SameLogs
<1>2. SignaturesHeld'
  BY <1>1 DEF JoiningInv, SignaturesHeld
<1>3. TablesHeld' /\ WorldHeld'
  BY DEF JoiningInv, TablesHeld, WorldHeld
<1>4. TypeOK'
  BY <1>2 DEF JoiningInv, TypeOK
<1> QED BY <1>1, <1>2, <1>3, <1>4 DEF JoiningInv

(* A notice the user deletes changes nothing the invariant is about.       *)
LEMMA DropInv ==
  ASSUME JoiningAssumption, JoiningInv, NEW m \in All, NEW route, Note(m, route), Joins(m), Drop(m)
  PROVE  JoiningInv'
<1>1. notes[m] # <<>> /\ notes[m] \in Seq(ToSet(notes[m])) /\ m \notin joining
  BY NoteFacts
<1>2. notes = [s \in All |-> notes[s]] /\ notes' = [notes EXCEPT ![m] = Tail(notes[m])]
  BY DEF JoiningInv, TablesHeld, Drop
<1>3. \A s \in All : notes'[s] = IF s = m THEN Tail(notes[m]) ELSE notes[s]
  BY <1>2
<1>4. Tail(notes[m]) \in Seq(ToSet(Tail(notes[m]))) /\ ToSet(Tail(notes[m])) \subseteq ToSet(notes[m])
  BY <1>1, TailOwn
<1>5. notes' = [s \in All |-> notes'[s]]
  BY <1>2
<1>6. \A s \in All : /\ notes'[s] \in Seq(ToSet(notes'[s])) /\ ToSet(notes'[s]) \subseteq ToSet(notes[s])
                     /\ s \in joining => notes'[s] # <<>>
  BY <1>1, <1>3, <1>4 DEF JoiningInv, TablesHeld, TypeOK
<1>7. dead' \subseteq All /\ joining' = joining /\ UNCHANGED <<world, logs, aborts, held, maids, posted, busy>>
  BY DEF Drop, Joins, JoiningInv, TypeOK
<1> QED BY <1>5, <1>6, <1>7, QuietInv

(* So does an error that ends the command.                                 *)
LEMMA DieInv ==
  ASSUME JoiningAssumption, JoiningInv, NEW m \in All, Joins(m), Die(m)
  PROVE  JoiningInv'
BY QuietInv DEF Die, Joins, JoiningInv, TablesHeld, TypeOK

-----------------------------------------------------------------------------
(* multisig join                                                           *)

(* Joining the inception of a group.                                       *)
LEMMA InceptInv ==
  ASSUME JoiningAssumption, JoiningInv, NEW m \in All, incept(m)
  PROVE  JoiningInv'
<1> DEFINE e == makeGroupHab(m, Proposed(m).data)
<1>1. Note(m, "icp") /\ Joins(m)
  BY DEF incept
<1>2. CASE Named(m)
  BY <1>1, <1>2, DropInv DEF incept
<1>3. CASE ~Named(m)
  <2>1. Say(m, e, e, TRUE, {}) /\ Waits(m)
    BY <1>3 DEF incept
  <2>2. e = Made(m, "icp", Proposed(m).data)
    BY DEF Made
  <2>3. Fitting(e)
    BY <1>3, <2>2, MadeFits DEF Routes
  <2>4. notes[m] # <<>>
    BY <1>1, NoteFacts
  <2> HIDE DEF e
  <2>5. Said(m, e, e, TRUE, {})
    BY <1>1, <2>1, <2>3, <2>4 DEF Said, Joins, Waits
  <2> QED BY <2>5, SaidInv
<1> QED BY <1>2, <1>3

(* An event of the log after that which all began with was signed by the   *)
(* member.                                                                 *)
LEMMA LoggedFits ==
  ASSUME JoiningAssumption, JoiningInv, NEW m \in All, NEW n \in Nat, n >= Start, n < Tip(m)
  PROVE  /\ EventAt(m, n) = logs[m][n + 1] /\ Fitting(EventAt(m, n)) /\ <<EventAt(m, n), m>> \in held[m]
<1> DEFINE e == logs[m][n + 1]
<1>1. n + 1 \in Start + 1..Tip(m) /\ EventAt(m, n) = e
  BY WorldFacts DEF EventAt
<1>2. e \in SignedBy(m)
  BY <1>1 DEF JoiningInv, MembersAgreed, Start
<1>3. PICK x \in held[m] : x[2] = m /\ x[1] = e
  BY <1>2 DEF SignedBy
<1>4. <<e, m>> \in held[m] /\ Fitting(e)
  BY <1>3 DEF JoiningInv, SignaturesHeld, Genuine, Fitting
<1> QED BY <1>1, <1>4

(* A command that signs and ends with an error before it says anything.    *)
LEMMA SignedInv ==
  ASSUME JoiningAssumption, JoiningInv, NEW m \in All, NEW e, Fitting(e), dead' = dead \cup {m},
         held' = [held EXCEPT ![m] = @ \cup {<<e, m>>}],
         UNCHANGED <<maids, notes, posted, busy, joining, world, logs, aborts>>
  PROVE  JoiningInv'
<1>1. held = [s \in All |-> held[s]]
  BY DEF JoiningInv, TablesHeld
<1>2. \A s \in All : held'[s] = IF s = m THEN held[m] \cup {<<e, m>>} ELSE held[s]
  BY <1>1
<1>3. LogsHeld' /\ MembersAgreed' /\ (\A x : Genuine(x) => Genuine(x)')
  BY <1>2, LogsKept DEF SignaturesGrow, SameLogs
<1>4. Genuine(<<e, m>>)'
  BY <1>2 DEF Genuine, Fitting, Start
<1>5. SignaturesHeld'
  BY <1>2, <1>3, <1>4 DEF JoiningInv, SignaturesHeld
<1>6. TablesHeld' /\ WorldHeld'
  <2>1. held' = [s \in All |-> held'[s]]
    BY <1>1
  <2> QED BY <2>1 DEF JoiningInv, TablesHeld, WorldHeld
<1>7. TypeOK'
  <2>1. \A s \in All : \A x \in held'[s] \cup maids'[s] \cup posted'[s] : x[1].at \in Nat /\ x[2] \in All
    BY <1>5 DEF SignaturesHeld, Genuine
  <2> QED BY <2>1 DEF JoiningInv, TypeOK
<1> QED BY <1>3, <1>5, <1>6, <1>7 DEF JoiningInv

(* Joining an interaction event.                                           *)
LEMMA InteractInv ==
  ASSUME JoiningAssumption, JoiningInv, NEW m \in All, joinInteract(m)
  PROVE  JoiningInv'
<1> DEFINE e == interact(m, Proposed(m).data)
           n == Proposed(m).at
           told == IF n = Tip(m) THEN e ELSE EventAt(m, n)
<1>1. Note(m, "ixn") /\ Joins(m)
  BY DEF joinInteract
<1>2. n \in Nat /\ n >= Start /\ notes[m] # <<>> /\ m \notin joining
  BY <1>1, NoteFacts DEF Fitting
<1>3. Fitting(e)
  <2>1. e = Made(m, "ixn", Proposed(m).data)
    BY DEF Made
  <2> QED BY <2>1, MadeFits DEF Routes
<1>4. CASE n > Tip(m)
  <2>1. /\ dead' = dead \cup {m} /\ held' = [held EXCEPT ![m] = @ \cup {<<e, m>>}]
        /\ UNCHANGED <<maids, notes, posted, busy, joining, world, logs, aborts>>
    BY <1>1, <1>4 DEF joinInteract, Joins
  <2> HIDE DEF e
  <2> QED BY <1>3, <2>1, SignedInv
<1>5. CASE n <= Tip(m)
  <2>1. ~(n > Tip(m)) /\ Tip(m) \in Nat
    BY <1>2, <1>5, WorldFacts
  <2>2. Say(m, e, told, TRUE, {}) /\ Waits(m)
    BY <2>1 DEF joinInteract
  <2>3. Fitting(told) /\ (told = e \/ <<told, m>> \in held[m])
    <3>1. CASE n = Tip(m)
      BY <1>3, <3>1
    <3>2. CASE n # Tip(m)
      <4>1. n < Tip(m)
        BY <1>2, <1>5, <2>1, <3>2
      <4>2. Fitting(EventAt(m, n)) /\ <<EventAt(m, n), m>> \in held[m]
        BY <1>2, <4>1, LoggedFits
      <4> QED BY <3>2, <4>2
    <3> QED BY <3>1, <3>2
  <2> HIDE DEF e, told, n
  <2>4. Said(m, e, told, TRUE, {})
    BY <1>1, <1>2, <1>3, <2>2, <2>3 DEF Said, Joins, Waits
  <2> QED BY <2>4, SaidInv
<1> QED BY <1>2, <1>4, <1>5, WorldFacts

(* Joining a rotation.                                                     *)
LEMMA RotateInv ==
  ASSUME JoiningAssumption, JoiningInv, NEW m \in All, joinRotate(m)
  PROVE  JoiningInv'
<1> DEFINE e == Proposed(m)
<1>1. Note(m, "rot") /\ Joins(m) /\ (Die(m) \/ (Say(m, e, e, TRUE, {}) /\ Waits(m)))
  BY DEF joinRotate
<1>2. Fitting(e) /\ notes[m] # <<>>
  BY <1>1, NoteFacts
<1>3. CASE Die(m)
  BY <1>1, <1>3, DieInv
<1>4. CASE Say(m, e, e, TRUE, {}) /\ Waits(m)
  <2> HIDE DEF e
  <2>1. Said(m, e, e, TRUE, {})
    BY <1>1, <1>2, <1>4 DEF Said, Joins, Waits
  <2> QED BY <2>1, SaidInv
<1> QED BY <1>1, <1>3, <1>4

(* Joining the events of a registry.                                       *)
LEMMA EndorseInv ==
  ASSUME JoiningAssumption, JoiningInv, NEW m \in All, NEW route, Endorse(m, route)
  PROVE  JoiningInv'
<1> DEFINE e == Proposed(m)
           x == Head(notes[m])
<1>1. Note(m, route) /\ Joins(m) /\ Say(m, e, e, FALSE, {x}) /\ Waits(m)
  BY DEF Endorse
<1>2. Fitting(e) /\ notes[m] # <<>> /\ Genuine(x)
  BY <1>1, NoteFacts
<1> HIDE DEF e, x
<1>3. Said(m, e, e, FALSE, {x})
  BY <1>1, <1>2 DEF Said, Joins, Waits
<1> QED BY <1>3, SaidInv

(* Every notice the command handles keeps the invariant.                   *)
LEMMA JoinInv ==
  ASSUME JoiningAssumption, JoiningInv, NEW m \in All, joinDo(m)
  PROVE  JoiningInv'
<1>1. ASSUME NEW route, Sealed(m, route) PROVE JoiningInv'
  BY <1>1, DieInv, EndorseInv DEF Sealed, Refuses
<1>2. ASSUME iss(m) PROVE JoiningInv'
  BY <1>1, <1>2, DieInv DEF iss, Refuses
<1>3. ASSUME rev(m) PROVE JoiningInv'
  BY <1>1, <1>3, DropInv DEF rev, Refuses
<1> QED BY <1>1, <1>2, <1>3, InceptInv, InteractInv, RotateInv, EndorseInv DEF joinDo, rpy, vcp

-----------------------------------------------------------------------------
(* The other steps                                                         *)

(* A message that comes, once or again, keeps the invariant.               *)
LEMMA ReceiveInv ==
  ASSUME JoiningAssumption, JoiningInv, NEW m \in All, NEW x \in posted[m], Receive(m, x)
  PROVE  JoiningInv'
<1>1. /\ posted' = [posted EXCEPT ![m] = @ \ {x}]
      /\ UNCHANGED <<world, logs, busy, joining, dead, aborts>>
      /\ maids' = maids \/ maids' = [maids EXCEPT ![m] = @ \cup {x}]
      /\ held' = held \/ held' = [held EXCEPT ![m] = @ \cup {x}]
      /\ notes' = notes \/ notes' = [notes EXCEPT ![m] = Append(notes[m], x)]
  BY DEF Receive
<1>2. /\ held = [s \in All |-> held[s]] /\ maids = [s \in All |-> maids[s]]
      /\ posted = [s \in All |-> posted[s]] /\ notes = [s \in All |-> notes[s]]
      /\ \A s \in All : notes[s] \in Seq(ToSet(notes[s]))
  BY DEF JoiningInv, TablesHeld
<1>3. \A s \in All : held[s] \subseteq held'[s] /\ held'[s] \subseteq held[s] \cup (IF s = m THEN {x} ELSE {})
  BY <1>1, <1>2
<1>4. \A s \in All : maids'[s] \subseteq maids[s] \cup (IF s = m THEN {x} ELSE {}) /\ posted'[s] \subseteq posted[s]
  BY <1>1, <1>2
<1>5. ASSUME NEW s \in All
      PROVE  /\ notes'[s] \in Seq(ToSet(notes'[s]))
             /\ ToSet(notes'[s]) \subseteq ToSet(notes[s]) \cup (IF s = m THEN {x} ELSE {})
             /\ notes[s] # <<>> => notes'[s] # <<>>
  <2>1. CASE notes'[s] = notes[s]
    BY <1>2, <2>1
  <2>2. CASE s = m /\ notes'[s] = Append(notes[s], x)
    <3>1. /\ Append(notes[s], x) \in Seq(ToSet(Append(notes[s], x)))
          /\ ToSet(Append(notes[s], x)) = ToSet(notes[s]) \cup {x}
      BY <1>2, AppendOwn
    <3>2. Append(notes[s], x) # <<>>
      <4>1. Len(Append(notes[s], x)) = Len(notes[s]) + 1 /\ Len(notes[s]) \in Nat
        BY <1>2, AppendOwn
      <4>2. Len(<<>>) = 0
        OBVIOUS
      <4> QED BY <4>1, <4>2
    <3> QED BY <2>2, <3>1, <3>2
  <2> QED BY <1>1, <1>2, <2>1, <2>2
<1>6. Genuine(x)
  BY DEF JoiningInv, SignaturesHeld
<1>7. LogsHeld' /\ MembersAgreed' /\ (\A y : Genuine(y) => Genuine(y)')
  BY <1>1, <1>3, LogsKept DEF SignaturesGrow, SameLogs
<1>8. SignaturesHeld'
  <2> SUFFICES ASSUME NEW s \in All, NEW y \in held'[s] \cup maids'[s] \cup posted'[s] \cup ToSet(notes'[s])
               PROVE  Genuine(y)'
    BY DEF SignaturesHeld
  <2>1. y = x \/ y \in held[s] \cup maids[s] \cup posted[s] \cup ToSet(notes[s])
    BY <1>3, <1>4, <1>5
  <2> QED BY <1>6, <1>7, <2>1 DEF JoiningInv, SignaturesHeld
<1>9. TablesHeld'
  <2>1. /\ held' = [s \in All |-> held'[s]] /\ maids' = [s \in All |-> maids'[s]]
        /\ posted' = [s \in All |-> posted'[s]] /\ notes' = [s \in All |-> notes'[s]]
    BY <1>1, <1>2
  <2> QED BY <1>1, <1>5, <2>1 DEF JoiningInv, TablesHeld
<1>10. WorldHeld'
  BY <1>1 DEF JoiningInv, WorldHeld
<1>11. TypeOK'
  BY <1>1, <1>5, <1>8 DEF JoiningInv, TypeOK, SignaturesHeld, Genuine
<1> QED BY <1>7, <1>8, <1>9, <1>10, <1>11 DEF JoiningInv

(* An event is accepted with enough signatures, which its own signers      *)
(* made.                                                                   *)
LEMMA AcceptInv ==
  ASSUME JoiningAssumption, JoiningInv, NEW m \in All, NEW x \in held[m], Accept(m, x[1])
  PROVE  JoiningInv'
<1> DEFINE e == x[1]
<1>1. /\ Acceptable(m, e) /\ logs' = [logs EXCEPT ![m] = Append(logs[m], e)]
      /\ UNCHANGED <<world, held, maids, notes, posted, busy, joining, dead, aborts>>
  BY DEF Accept
<1>2. /\ logs = [s \in All |-> logs[s]] /\ \A s \in All : logs[s] \in Seq(ToSet(logs[s]))
      /\ Start \in Nat /\ \A s \in All : Tip(s) \in Nat /\ Tip(s) >= Start
  BY WorldFacts DEF JoiningInv, TablesHeld
<1>3. /\ logs'[m] \in Seq(ToSet(logs'[m])) /\ Len(logs'[m]) = Tip(m) + 1 /\ logs'[m][Tip(m) + 1] = e
      /\ \A n \in 1..Tip(m) : logs'[m][n] = logs[m][n]
      /\ \A s \in All : s # m => logs'[s] = logs[s]
  <2>1. logs'[m] = Append(logs[m], e) /\ \A s \in All : s # m => logs'[s] = logs[s]
    BY <1>1, <1>2
  <2> HIDE DEF e
  <2> QED BY <1>2, <2>1, AppendOwn DEF Tip
<1>4. SignaturesHeld'
  BY <1>1 DEF JoiningInv, SignaturesHeld, Genuine, Start
<1>5. WorldHeld'
  BY <1>1 DEF JoiningInv, WorldHeld
<1>6. TablesHeld'
  <2>1. logs' = [s \in All |-> logs'[s]]
    BY <1>1, <1>2
  <2>2. \A s \in All : logs'[s] \in Seq(ToSet(logs'[s]))
    BY <1>2, <1>3
  <2> QED BY <1>1, <2>1, <2>2 DEF JoiningInv, TablesHeld
<1>7. TypeOK'
  BY <1>1 DEF JoiningInv, TypeOK
<1>8. e.at = Tip(m) /\ e.route # "rpy" /\ <<e, m>> \in held[m] /\ Enough(e, Signers(m, e))
  BY <1>1 DEF Acceptable, Signs
(* A place of a log after the step is one before or the new one.           *)
<1>9. ASSUME NEW s \in All, NEW n \in 1..Len(logs'[s])
      PROVE  \/ n \in 1..Tip(s) /\ logs'[s][n] = logs[s][n]
             \/ s = m /\ n = Tip(m) + 1 /\ logs'[s][n] = e
  <2>1. CASE s = m
    BY <1>2, <1>3, <2>1
  <2>2. CASE s # m
    BY <1>2, <1>3, <2>2 DEF Tip
  <2> QED BY <2>1, <2>2
<1>10. \A s \in All : Len(logs'[s]) \in Nat /\ Len(logs'[s]) >= Tip(s)
  BY <1>2, <1>3 DEF Tip
<1>11. LogsHeld'
  <2> SUFFICES ASSUME NEW s \in All
               PROVE  /\ Len(logs'[s]) >= Start /\ \A n \in 1..Start : logs'[s][n] = world.log[n]
                      /\ \A n \in Start + 1..Len(logs'[s]) : logs'[s][n].at = n - 1 /\ logs'[s][n].route # "rpy"
    BY <1>1 DEF LogsHeld, Tip, Start
  <2>1. Len(logs'[s]) >= Start /\ Tip(s) \in Nat /\ Tip(s) >= Start
    BY <1>2, <1>10
  <2>2. ASSUME NEW n \in 1..Start PROVE logs'[s][n] = world.log[n]
    <3>1. n \in 1..Tip(s)
      BY <1>2, <2>1
    <3>2. logs'[s][n] = logs[s][n]
      BY <1>3, <3>1
    <3> QED BY <3>2 DEF JoiningInv, LogsHeld
  <2>3. ASSUME NEW n \in Start + 1..Len(logs'[s]) PROVE logs'[s][n].at = n - 1 /\ logs'[s][n].route # "rpy"
    <3>1. n \in 1..Len(logs'[s]) /\ n \in Nat
      BY <1>2, <1>10
    <3>2. CASE n \in 1..Tip(s) /\ logs'[s][n] = logs[s][n]
      <4>1. n \in Start + 1..Tip(s)
        BY <1>2, <1>10, <3>2
      <4> QED BY <3>2, <4>1 DEF JoiningInv, LogsHeld
    <3>3. CASE s = m /\ n = Tip(m) + 1 /\ logs'[s][n] = e
      BY <1>2, <1>8, <3>3
    <3> HIDE DEF e
    <3> QED BY <1>9, <3>1, <3>2, <3>3
  <2> QED BY <2>1, <2>2, <2>3
<1>12. MembersAgreed'
  <2> SUFFICES ASSUME NEW s \in All, NEW n \in Start + 1..Len(logs'[s])
               PROVE  /\ logs'[s][n] \in SignedBy(s)
                      /\ Enough(logs'[s][n], {r \in All : logs'[s][n] \in SignedBy(r)})
    <3>1. \A r \in All : SignedBy(r)' = SignedBy(r)
      BY <1>1 DEF SignedBy
    <3> QED BY <1>1, <3>1, SameSigners DEF Start
  <2>1. n \in 1..Len(logs'[s]) /\ n \in Nat
    BY <1>2, <1>10
  <2>2. CASE n \in 1..Tip(s) /\ logs'[s][n] = logs[s][n]
    <3>1. n \in Len(world.log) + 1..Tip(s)
      BY <1>2, <1>10, <2>2 DEF Start
    <3> QED BY <2>2, <3>1 DEF JoiningInv, MembersAgreed
  <2>3. CASE s = m /\ n = Tip(m) + 1 /\ logs'[s][n] = e
    <3>1. e \in SignedBy(m)
      BY <1>8 DEF SignedBy
    <3>2. Signers(m, e) \subseteq {r \in All : e \in SignedBy(r)}
      BY SignersSigned DEF JoiningInv
    <3>3. Enough(e, {r \in All : e \in SignedBy(r)})
      <4> HIDE DEF e
      <4> QED BY <1>8, <3>2, EnoughGrows
    <3> QED BY <2>3, <3>1, <3>3
  <2> HIDE DEF e
  <2> QED BY <1>9, <2>1, <2>2, <2>3
<1> QED BY <1>4, <1>5, <1>6, <1>7, <1>11, <1>12 DEF JoiningInv

(* The end of a wait, an abort or a restart of a command keeps the         *)
(* invariant.                                                              *)
LEMMA CounselorInv ==
  ASSUME JoiningAssumption, JoiningInv, NEW m \in All,
         UNCHANGED <<world, logs, held, maids, posted>>,
         busy' = [busy EXCEPT ![m] = Nothing], joining' = joining \ {m}, dead' \subseteq dead,
         aborts' \in 0..world.aborts,
         notes' = notes \/ (m \in joining /\ notes' = [notes EXCEPT ![m] = Tail(@)])
  PROVE  JoiningInv'
<1>1. busy = [s \in All |-> busy[s]] /\ notes = [s \in All |-> notes[s]]
      /\ \A s \in All : notes[s] \in Seq(ToSet(notes[s]))
  BY DEF JoiningInv, TablesHeld
<1>2. \A s \in All : s # m => busy'[s] = busy[s] /\ notes'[s] = notes[s]
  BY <1>1
<1>3. notes'[m] \in Seq(ToSet(notes'[m])) /\ ToSet(notes'[m]) \subseteq ToSet(notes[m])
  <2>1. CASE notes' = notes
    BY <1>1, <2>1
  <2>2. CASE m \in joining /\ notes' = [notes EXCEPT ![m] = Tail(@)]
    <3>1. notes[m] # <<>> /\ notes'[m] = Tail(notes[m])
      BY <1>1, <2>2 DEF JoiningInv, TypeOK
    <3> QED BY <1>1, <3>1, TailOwn
  <2> QED BY <2>1, <2>2
<1>4. LogsHeld' /\ MembersAgreed'
  <2>1. LogsHeld'
    BY DEF JoiningInv, LogsHeld, Tip, Start
  <2>2. \A s \in All : SignedBy(s)' = SignedBy(s)
    BY DEF SignedBy
  <2>3. MembersAgreed'
    <3>1. \A s \in All : \A n \in Len(world'.log) + 1..Len(logs'[s]) :
            /\ logs'[s][n] \in SignedBy(s)
            /\ Enough(logs'[s][n], {r \in All : logs'[s][n] \in SignedBy(r)})
      <4>1. world' = world /\ logs' = logs
        OBVIOUS
      <4>2. MembersAgreed
        BY DEF JoiningInv
      <4> QED BY <4>1, <4>2 DEF MembersAgreed, Tip
    <3> QED BY <2>2, <3>1, SameSigners
  <2> QED BY <2>1, <2>3
<1>5. SignaturesHeld'
  <2>1. \A s \in All : ToSet(notes'[s]) \subseteq ToSet(notes[s])
    BY <1>2, <1>3
  <2>2. \A x : Genuine(x) => Genuine(x)'
    BY DEF Genuine, Start
  <2> QED BY <2>1, <2>2 DEF JoiningInv, SignaturesHeld
<1>6. WorldHeld'
  BY DEF JoiningInv, WorldHeld
<1>7. TablesHeld'
  <2>1. busy' = [s \in All |-> busy'[s]] /\ notes' = [s \in All |-> notes'[s]]
    BY <1>1
  <2> QED BY <1>1, <1>2, <1>3, <2>1 DEF JoiningInv, TablesHeld
<1>8. TypeOK'
  <2>1. \A s \in All : s \in joining' => busy'[s] # Nothing /\ notes'[s] # <<>>
    BY <1>2 DEF JoiningInv, TypeOK
  <2> QED BY <2>1 DEF JoiningInv, TypeOK
<1> QED BY <1>4, <1>5, <1>6, <1>7, <1>8 DEF JoiningInv

(* The invariant holds at the start.                                       *)
LEMMA InitInv == ASSUME JoiningAssumption, Init PROVE JoiningInv
<1> USE DEF Init
<1>1. PICK w \in Worlds : world = w
  OBVIOUS
<1>2. /\ w = [seen |-> w.seen, has |-> w.has, orders |-> w.orders, log |-> w.log,
              lone |-> w.lone, aborts |-> w.aborts]
      /\ w.log \in Seq(ToSet(w.log)) /\ w.aborts \in Nat
  BY DEF JoiningAssumption
<1>3. WorldHeld
  BY <1>1, <1>2 DEF WorldHeld
<1>4. \A m \in All : logs[m] = world.log /\ held[m] = {} /\ maids[m] = {} /\ posted[m] = {} /\ notes[m] = <<>>
  OBVIOUS
<1>5. TypeOK
  BY <1>1, <1>2, <1>4 DEF TypeOK
<1>6. TablesHeld
  <2>1. <<>> \in Seq(ToSet(<<>>))
    OBVIOUS
  <2>2. \A m \in All : logs[m] \in Seq(ToSet(logs[m])) /\ notes[m] \in Seq(ToSet(notes[m]))
    BY <1>1, <1>2, <1>4, <2>1
  <2> QED BY <2>2 DEF TablesHeld
<1>7. SignaturesHeld
  BY <1>4 DEF SignaturesHeld, ToSet
<1>8. Start \in Nat /\ \A m \in All : Tip(m) = Start
  BY <1>1, <1>2, <1>4 DEF Start, Tip
<1>9. LogsHeld /\ MembersAgreed
  BY <1>4, <1>8 DEF LogsHeld, MembersAgreed, Start
<1> QED BY <1>3, <1>5, <1>6, <1>7, <1>9 DEF JoiningInv

(* Every step keeps the invariant.                                         *)
LEMMA NextInv == ASSUME JoiningAssumption, JoiningInv, [Next]_vars PROVE JoiningInv'
<1>1. ASSUME UNCHANGED vars PROVE JoiningInv'
  <2>1. \A s \in All : notes'[s] \in Seq(ToSet(notes'[s])) /\ (s \in joining => notes'[s] # <<>>)
    BY <1>1 DEF vars, JoiningInv, TablesHeld, TypeOK
  <2> QED BY <1>1, <2>1, QuietInv DEF vars, JoiningInv, TablesHeld, TypeOK
<1>2. ASSUME NEW m \in All, startCounselor(m) PROVE JoiningInv'
  BY <1>2, CounselorInv DEF startCounselor, JoiningInv, TypeOK
<1>3. ASSUME NEW m \in All, Abort(m) PROVE JoiningInv'
  <2>1. world.aborts \in Nat
    BY DEF JoiningInv, WorldHeld, JoiningAssumption
  <2>2. aborts' \in 0..world.aborts
    BY <1>3, <2>1 DEF Abort, JoiningInv, TypeOK
  <2> QED BY <1>3, <2>2, CounselorInv DEF Abort
<1>4. ASSUME NEW m \in All, Works(m) PROVE JoiningInv'
  BY <1>2, <1>4, JoinInv, ReceiveInv, AcceptInv DEF Works
<1> QED BY <1>1, <1>3, <1>4, ProposeInv DEF Next, Working, Idle

-----------------------------------------------------------------------------
(* What holds of every execution                                           *)

(* What a member holds of another was signed by that other, what is logged *)
(* was signed by enough, and every variable keeps its type                 *)
(* (Multiplexor.add, MultisigNotificationHandler, JoinDoer).               *)
THEOREM JoiningInvariant == ASSUME JoiningAssumption PROVE Spec => []JoiningInv
<1>1. Init => JoiningInv
  BY InitInv
<1>2. JoiningInv /\ [Next]_vars => JoiningInv'
  BY NextInv
<1> QED BY <1>1, <1>2, PTL DEF Spec

(* What a member has in its log was signed by that member and by as many   *)
(* as the threshold asks, each by its own command (Multiplexor.add,        *)
(* GroupHab.sign).                                                         *)
THEOREM LoggedIsAgreed == ASSUME JoiningAssumption PROVE Spec => []MembersAgreed
<1>1. JoiningInv => MembersAgreed
  BY DEF JoiningInv
<1> QED BY <1>1, JoiningInvariant, PTL

(* With a threshold above half of the members, two members that log        *)
(* different events at one place show a member that signed both.           *)
THEOREM LogsAreOne ==
  ASSUME JoiningAssumption, 2 * Needed > Cardinality(All)
  PROVE  Spec => []LogsAgree
<1>1. ASSUME JoiningInv PROVE LogsAgree
  <2> SUFFICES ASSUME NEW a \in All, NEW b \in All, NEW n \in 1..Tip(a), n <= Tip(b),
                      logs[a][n] # logs[b][n]
               PROVE  \E m \in All : Twice(m, n - 1)
    BY DEF LogsAgree
  <2> DEFINE e == logs[a][n]
             f == logs[b][n]
             E == {s \in All : e \in SignedBy(s)}
             F == {s \in All : f \in SignedBy(s)}
  <2>1. Start \in Nat /\ Tip(a) \in Nat /\ Tip(b) \in Nat /\ n \in Nat
    BY <1>1, WorldFacts
  <2>2. n \in Start + 1..Tip(a) /\ n \in Start + 1..Tip(b)
    <3>1. n \notin 1..Start
      BY <1>1 DEF JoiningInv, LogsHeld
    <3> QED BY <2>1, <3>1
  <2>3. /\ e.at = n - 1 /\ f.at = n - 1 /\ e.route # "rpy" /\ f.route # "rpy"
    BY <1>1, <2>2 DEF JoiningInv, LogsHeld
  <2>4. Cardinality(E) >= Needed /\ Cardinality(F) >= Needed
    BY <1>1, <2>2 DEF JoiningInv, MembersAgreed, Enough, Start
  <2>5. IsFiniteSet(All) /\ E \subseteq All /\ F \subseteq All
    BY MembersFinite
  <2>6. Cardinality(E) + Cardinality(F) > Cardinality(All)
    <3>1. Cardinality(E) \in Nat /\ Cardinality(F) \in Nat /\ Cardinality(All) \in Nat /\ Needed \in Nat
      BY <2>5, FS_Subset, FS_CardinalityType DEF JoiningAssumption
    <3> HIDE DEF E, F
    <3> QED BY <2>4, <3>1
  <2>7. E \cap F # {}
    <3> HIDE DEF E, F
    <3> QED BY <2>5, <2>6, FS_MajoritiesIntersect
  <2>8. PICK m \in All : e \in SignedBy(m) /\ f \in SignedBy(m)
    BY <2>7
  <2> QED BY <2>3, <2>8 DEF Twice
<1> QED BY <1>1, JoiningInvariant, PTL

(* Every reachable state has its types.                                    *)
THEOREM TypeCorrect == ASSUME JoiningAssumption PROVE Spec => []TypeOK
<1>1. JoiningInv => TypeOK
  BY DEF JoiningInv
<1> QED BY <1>1, JoiningInvariant, PTL

-----------------------------------------------------------------------------
(* OOBI resolution, for any URLs, answers and lists, over the variables of *)
(* module Oobiery.                                                         *)
CONSTANTS Web, Lists, Malformed, Unreachable, MaxAsked, MaxRestarts
VARIABLES oobis, coobi, eoobi, moobi, roobi, clients, stuck, gone, asked, restarts
Oob == INSTANCE Oobiery

(* What a URL came to is recorded once (roobi.put).                        *)
LEMMA ResolvedTwice ==
  ASSUME Oob!OobieryAssumption, Oob!TypeOK, NEW u \in Oob!Urls, NEW r \in {"resolved", "failed"}
  PROVE  /\ Oob!Put(u, r) \in [Oob!Urls -> {"none", "resolved", "failed"}]
         /\ \A v \in Oob!Urls : roobi[v] # "none" => Oob!Put(u, r)[v] = roobi[v]
         /\ \A v \in Oob!Urls \ {u} : Oob!Put(u, r)[v] = roobi[v]
         /\ Oob!Put(u, r)[u] = IF roobi[u] = "none" THEN r ELSE roobi[u]
  BY DEF Oob!Put, Oob!TypeOK

(* A client that has no answer, or had it processed.                       *)
LEMMA NoAnswer == {"none", "open", "spent"} \cap Oob!Answers = {}
  BY DEF Oob!Answers, Oob!Resolving, Oob!Failing

(* Resolve and force to resolve.                                           *)
LEMMA ResolveKeeps ==
  ASSUME Oob!OobieryAssumption, Oob!OobieryInv, NEW u \in Oob!Urls, Oob!Resolve(u) \/ Oob!ForceResolve(u)
  PROVE  Oob!OobieryInv'
<1>1. Oob!TypeOK'
  BY DEF Oob!OobieryInv, Oob!TypeOK, Oob!Resolve, Oob!ForceResolve
<1>2. Oob!NothingLost'
  BY DEF Oob!OobieryInv, Oob!TypeOK, Oob!NothingLost, Oob!Resolve, Oob!ForceResolve
<1>3. Oob!ListResolved'
  <2>1. u \notin Oob!Listed
    BY DEF Oob!Resolve, Oob!ForceResolve
  <2>2. \A v \in Oob!Urls \ {u} : roobi'[v] = roobi[v]
    BY DEF Oob!OobieryInv, Oob!TypeOK, Oob!Resolve, Oob!ForceResolve
  <2>3. roobi'[u] = roobi[u] \/ roobi'[u] = "none"
    BY DEF Oob!OobieryInv, Oob!TypeOK, Oob!Resolve, Oob!ForceResolve
  <2>4. \A w \in DOMAIN Lists : Lists[w] \subseteq Oob!Urls \ {u}
    BY <2>1 DEF Oob!Listed, Oob!OobieryAssumption
  <2>5. moobi' = moobi /\ moobi \subseteq DOMAIN Lists /\ DOMAIN Lists \subseteq Oob!Urls
    BY DEF Oob!OobieryInv, Oob!TypeOK, Oob!Resolve, Oob!ForceResolve, Oob!OobieryAssumption
  <2> QED
    BY <2>2, <2>3, <2>4, <2>5 DEF Oob!OobieryInv, Oob!ListResolved
<1>4. Oob!ListsOpened'
  BY DEF Oob!OobieryInv, Oob!TypeOK, Oob!ListsOpened, Oob!Resolve, Oob!ForceResolve, Oob!OobieryAssumption
<1> QED
  BY <1>1, <1>2, <1>3, <1>4 DEF Oob!OobieryInv

(* A turn of the loops, or an answer.                                      *)
LEMMA TurnKeeps ==
  ASSUME Oob!OobieryAssumption, Oob!OobieryInv, NEW u \in Oob!Urls, Oob!Turn(u)
  PROVE  Oob!OobieryInv'
<1>a. Oob!OobieryAssumption /\ Oob!TypeOK /\ Oob!NothingLost /\ Oob!ListResolved /\ Oob!ListsOpened
  BY DEF Oob!OobieryInv
<1>1. CASE Oob!processOobis(u)
  <2>1. Oob!TypeOK'
    BY <1>1, <1>a, NoAnswer DEF Oob!TypeOK, Oob!processOobis, Oob!request
  <2>2. Oob!NothingLost'
    BY <1>1, <1>a, NoAnswer DEF Oob!TypeOK, Oob!NothingLost, Oob!processOobis, Oob!request
  <2>3. Oob!ListResolved' /\ Oob!ListsOpened'
    BY <1>1, <1>a DEF Oob!ListResolved, Oob!ListsOpened, Oob!processOobis
  <2> QED
    BY <2>1, <2>2, <2>3 DEF Oob!OobieryInv
<1>2. CASE Oob!processClients(u)
  <2>1. CASE Oob!request(u) /\ u \notin Unreachable /\ UNCHANGED <<eoobi, moobi, roobi, asked>>
    <3>1. Oob!TypeOK'
      BY <1>2, <2>1, <1>a, NoAnswer DEF Oob!TypeOK, Oob!request, Oob!processClients
    <3>2. Oob!NothingLost'
      BY <2>1, <1>a, NoAnswer DEF Oob!TypeOK, Oob!NothingLost, Oob!request
    <3>3. Oob!ListResolved' /\ Oob!ListsOpened'
      BY <2>1, <1>a DEF Oob!ListResolved, Oob!ListsOpened
    <3> QED
      BY <3>1, <3>2, <3>3 DEF Oob!OobieryInv
  <2>2. CASE clients[u] = "missing" /\ coobi' = coobi \ {u} /\ eoobi' = eoobi \cup {u}
             /\ clients' = [clients EXCEPT ![u] = "spent"]
             /\ UNCHANGED <<oobis, moobi, roobi, stuck, gone, asked>>
    <3>1. Oob!TypeOK'
      BY <2>2, <1>2, <1>a, NoAnswer DEF Oob!TypeOK, Oob!processClients, Oob!Answers
    <3>2. Oob!NothingLost'
      BY <2>2, <1>a DEF Oob!TypeOK, Oob!NothingLost
    <3>3. Oob!ListResolved' /\ Oob!ListsOpened'
      BY <2>2, <1>a DEF Oob!ListResolved, Oob!ListsOpened
    <3> QED
      BY <3>1, <3>2, <3>3 DEF Oob!OobieryInv
  <2>3. CASE clients[u] \in Oob!Resolving \cup Oob!Failing /\ coobi' = coobi \ {u}
             /\ clients' = [clients EXCEPT ![u] = "spent"]
             /\ roobi' = Oob!Put(u, IF clients[u] \in Oob!Resolving THEN "resolved" ELSE "failed")
             /\ UNCHANGED <<oobis, eoobi, moobi, stuck, gone, asked>>
    <3> DEFINE r == IF clients[u] \in Oob!Resolving THEN "resolved" ELSE "failed"
    <3>1. /\ roobi' \in [Oob!Urls -> {"none", "resolved", "failed"}]
          /\ \A v \in Oob!Urls : roobi[v] # "none" => roobi'[v] = roobi[v]
          /\ \A v \in Oob!Urls \ {u} : roobi'[v] = roobi[v]
          /\ roobi'[u] = IF roobi[u] = "none" THEN r ELSE roobi[u]
      BY <1>a, <2>3, ResolvedTwice
    <3>2. u \in coobi /\ u \in asked /\ clients[u] # "spent" /\ clients[u] \in Web[u]
      BY <1>2, <1>a, <2>3, NoAnswer DEF Oob!processClients, Oob!TypeOK, Oob!Answers
    <3>3. Oob!TypeOK'
      BY <1>a, <2>3, <3>1, <3>2, NoAnswer DEF Oob!TypeOK
    <3>4. Oob!NothingLost'
      BY <1>a, <2>3, <3>1 DEF Oob!TypeOK, Oob!NothingLost
    <3>5. u \in DOMAIN Lists => r = "failed"
      BY <1>a, <3>2 DEF Oob!OobieryAssumption
    <3>6. Oob!ListsOpened'
      BY <1>a, <2>3, <3>1, <3>5 DEF Oob!ListsOpened, Oob!OobieryAssumption
    <3>7. Oob!ListResolved'
      <4> SUFFICES ASSUME NEW w \in moobi, roobi'[w] = "resolved", NEW v \in Lists[w]
                   PROVE  roobi'[v] = "resolved"
        BY <2>3 DEF Oob!ListResolved
      <4>1. w \in DOMAIN Lists /\ w \in Oob!Urls /\ v \in Oob!Urls
        BY <1>a DEF Oob!TypeOK, Oob!OobieryAssumption, Oob!Listed
      <4>2. roobi[w] = "resolved"
        BY <3>1, <3>5, <4>1
      <4> QED
        BY <1>a, <3>1, <4>1, <4>2 DEF Oob!ListResolved
    <3> QED
      BY <3>3, <3>4, <3>6, <3>7 DEF Oob!OobieryInv
  <2>4. CASE clients[u] \in {"list", "wrongList"} /\ clients' = [clients EXCEPT ![u] = "spent"]
             /\ Oob!processMultiOobiRpy(u) /\ UNCHANGED eoobi
    <3>1. /\ u \in coobi /\ u \in asked /\ clients[u] # "spent"
          /\ clients[u] = "list" => u \in DOMAIN Lists /\ Lists[u] \subseteq Oob!Urls
      BY <1>2, <1>a, <2>4, NoAnswer DEF Oob!processClients, Oob!TypeOK, Oob!OobieryAssumption, Oob!Listed
    <3>2. CASE clients[u] = "list"
      <4>1. /\ oobis' = oobis \cup Lists[u] /\ asked' = asked \cup Lists[u]
            /\ coobi' = coobi \ {u} /\ moobi' = moobi \cup {u}
            /\ UNCHANGED <<eoobi, roobi, stuck, gone>>
        BY <2>4, <3>2 DEF Oob!processMultiOobiRpy
      <4>2. Oob!TypeOK'
        BY <1>a, <2>4, <3>1, <3>2, <4>1, NoAnswer DEF Oob!TypeOK
      <4>3. Oob!NothingLost'
        BY <1>a, <4>1 DEF Oob!TypeOK, Oob!NothingLost
      <4>4. Oob!ListResolved' /\ Oob!ListsOpened'
        BY <1>a, <3>1, <3>2, <4>1 DEF Oob!ListResolved, Oob!ListsOpened
      <4> QED
        BY <4>2, <4>3, <4>4 DEF Oob!OobieryInv
    <3>3. CASE clients[u] # "list"
      <4>1. /\ stuck' = stuck \cup {u} /\ UNCHANGED <<oobis, asked, coobi, eoobi, moobi, roobi, gone>>
        BY <2>4, <3>3 DEF Oob!processMultiOobiRpy
      <4>2. Oob!TypeOK'
        BY <1>a, <2>4, <3>1, <4>1, NoAnswer DEF Oob!TypeOK
      <4> QED
        BY <1>a, <4>1, <4>2 DEF Oob!OobieryInv, Oob!NothingLost, Oob!ListResolved, Oob!ListsOpened
    <3> QED
      BY <3>2, <3>3
  <2> QED
    BY <1>2, <2>1, <2>2, <2>3, <2>4 DEF Oob!processClients
<1>3. CASE Oob!processRetries(u)
  <2>1. Oob!TypeOK'
    BY <1>3, <1>a, NoAnswer DEF Oob!TypeOK, Oob!processRetries
  <2>2. Oob!NothingLost'
    BY <1>3, <1>a DEF Oob!TypeOK, Oob!NothingLost, Oob!processRetries
  <2>3. Oob!ListResolved' /\ Oob!ListsOpened'
    BY <1>3, <1>a DEF Oob!TypeOK, Oob!ListResolved, Oob!ListsOpened, Oob!processRetries
  <2> QED
    BY <2>1, <2>2, <2>3 DEF Oob!OobieryInv
<1>4. CASE Oob!processMOOBIs(u)
  <2> DEFINE r == IF \E v \in Lists[u] : roobi[v] = "failed" THEN "failed" ELSE "resolved"
  <2>1. /\ u \in moobi /\ roobi' = Oob!Put(u, r) /\ coobi' = coobi \ {u} /\ stuck' = stuck \ {u}
        /\ \A v \in Lists[u] : roobi[v] # "none"
        /\ UNCHANGED <<oobis, eoobi, moobi, clients, gone, asked>>
    BY <1>4 DEF Oob!processMOOBIs
  <2>2. /\ roobi' \in [Oob!Urls -> {"none", "resolved", "failed"}]
        /\ \A v \in Oob!Urls : roobi[v] # "none" => roobi'[v] = roobi[v]
        /\ \A v \in Oob!Urls \ {u} : roobi'[v] = roobi[v]
        /\ roobi'[u] = IF roobi[u] = "none" THEN r ELSE roobi[u]
    BY <1>a, <2>1, ResolvedTwice
  <2>3. u \in asked /\ Lists[u] \subseteq Oob!Urls
    BY <1>a, <2>1 DEF Oob!TypeOK, Oob!OobieryAssumption, Oob!Listed
  <2>4. Oob!TypeOK'
    BY <1>a, <2>1, <2>2, <2>3 DEF Oob!TypeOK
  <2>5. Oob!NothingLost'
    BY <1>a, <2>1, <2>2, <2>3 DEF Oob!TypeOK, Oob!NothingLost
  <2>6. Oob!ListsOpened'
    BY <1>a, <2>1, <2>2 DEF Oob!ListsOpened, Oob!OobieryAssumption
  <2>7. Oob!ListResolved'
    <3> SUFFICES ASSUME NEW w \in moobi, roobi'[w] = "resolved", NEW v \in Lists[w]
                 PROVE  roobi'[v] = "resolved"
      BY <2>1 DEF Oob!ListResolved
    <3>1. w \in Oob!Urls /\ v \in Oob!Urls
      BY <1>a DEF Oob!TypeOK, Oob!OobieryAssumption, Oob!Listed
    <3>2. roobi[v] = "resolved"
      <4>1. CASE roobi[w] = "resolved"
        BY <1>a, <4>1 DEF Oob!ListResolved
      <4>2. CASE roobi[w] # "resolved"
        <5>1. w = u /\ r = "resolved"
          BY <2>2, <3>1, <4>2
        <5>2. roobi[v] # "failed" /\ roobi[v] # "none"
          BY <2>1, <5>1
        <5> QED
          BY <1>a, <3>1, <5>2 DEF Oob!TypeOK
      <4> QED
        BY <4>1, <4>2
    <3> QED
      BY <2>2, <3>1, <3>2
  <2> QED
    BY <2>4, <2>5, <2>6, <2>7 DEF Oob!OobieryInv
<1>5. CASE \E a \in Oob!Answers : Oob!Answer(u, a)
  <2>1. Oob!TypeOK'
    BY <1>5, <1>a, NoAnswer DEF Oob!TypeOK, Oob!Answer, Oob!tables
  <2>2. Oob!NothingLost'
    BY <1>5, <1>a DEF Oob!TypeOK, Oob!NothingLost, Oob!Answer, Oob!tables
  <2>3. Oob!ListResolved' /\ Oob!ListsOpened'
    BY <1>5, <1>a DEF Oob!TypeOK, Oob!ListResolved, Oob!ListsOpened, Oob!Answer, Oob!tables
  <2> QED
    BY <2>1, <2>2, <2>3 DEF Oob!OobieryInv
<1> QED
  BY <1>1, <1>2, <1>3, <1>4, <1>5 DEF Oob!Turn

(* A restart clears what is in memory only.                                *)
LEMMA OobieryOtherKeeps ==
  ASSUME Oob!OobieryAssumption, Oob!OobieryInv, Oob!Restart \/ UNCHANGED Oob!vars
  PROVE  Oob!OobieryInv'
<1>1. UNCHANGED Oob!tables /\ UNCHANGED <<gone, asked>>
  BY DEF Oob!Restart, Oob!vars
<1>2. Oob!TypeOK'
  BY <1>1, NoAnswer DEF Oob!OobieryInv, Oob!TypeOK, Oob!Restart, Oob!vars, Oob!tables
<1> QED
  BY <1>1, <1>2 DEF Oob!OobieryInv, Oob!NothingLost, Oob!ListResolved, Oob!ListsOpened, Oob!tables

(* The types, the URLs that are kept and the lists that are open hold at   *)
(* every step of Oobiery.                                                  *)
THEOREM OobieryInvariant ==
  ASSUME Oob!OobieryAssumption
  PROVE  Oob!Spec => []Oob!OobieryInv
<1>1. Oob!Init => Oob!OobieryInv
  <2> SUFFICES ASSUME Oob!Init PROVE Oob!OobieryInv
    OBVIOUS
  <2>1. Oob!TypeOK
    BY NoAnswer DEF Oob!Init, Oob!TypeOK
  <2> QED
    BY <2>1 DEF Oob!Init, Oob!OobieryInv, Oob!NothingLost, Oob!ListResolved, Oob!ListsOpened,
                Oob!OobieryAssumption
<1>2. Oob!OobieryInv /\ [Oob!Next]_(Oob!vars) => Oob!OobieryInv'
  BY ResolveKeeps, TurnKeeps, OobieryOtherKeeps DEF Oob!Next, Oob!Idle
<1> QED
  BY <1>1, <1>2, PTL DEF Oob!Spec

(* No URL that was asked for is lost, over answers, retries and restarts,  *)
(* and a list counts as resolved only if each URL it lists was.            *)
THEOREM ListsAndUrlsSound ==
  ASSUME Oob!OobieryAssumption
  PROVE  Oob!Spec => [](Oob!NothingLost /\ Oob!ListResolved)
<1>1. Oob!OobieryInv => Oob!NothingLost /\ Oob!ListResolved
  BY DEF Oob!OobieryInv
<1> QED
  BY <1>1, OobieryInvariant, PTL

-----------------------------------------------------------------------------
(* Delegation coordination, for any log of the delegate and any worlds,    *)
(* over the variables of module Anchorer.                                  *)
CONSTANTS OwnEvents, AnchorWorlds
VARIABLES setting, sn, dpwe, dune, dpub, cdel, aess, wigs, msgs, cues, publisher, sent, sealed,
          published, failed
Anc == INSTANCE Anchorer WITH Worlds <- AnchorWorlds, world <- setting

(* The operators of its library are those of this module.                  *)
LEMMA AnchorerOperators ==
  /\ \A S : Anc!IsFiniteSet(S) <=> IsFiniteSet(S)
  /\ \A S : Anc!Cardinality(S) = Cardinality(S)
<1>1. \A S : Anc!IsFiniteSet(S) <=> IsFiniteSet(S)
  BY DEF Anc!IsFiniteSet, IsFiniteSet
<1>2. \A S : Anc!Cardinality(S) = Cardinality(S)
  BY DEF Anc!Cardinality, Cardinality
<1> QED
  BY <1>1, <1>2

(* As many receipts as there are witnesses are the receipts of all.        *)
LEMMA AllReceipts ==
  ASSUME Anc!AnchorerAssumption, Anc!TypeOK, NEW e \in Anc!Events, Anc!Witnessed(e)
  PROVE  wigs[e] = Anc!Wits
<1>1. wigs[e] \in SUBSET Anc!Wits /\ Anc!IsFiniteSet(Anc!Wits)
  BY DEF Anc!TypeOK, Anc!AnchorerAssumption, Anc!Wits
<1> QED
  BY <1>1, FS_Subset, AnchorerOperators DEF Anc!Witnessed

(* What concerns one event only, when no escrow or number changes.         *)
LEMMA TablesKept ==
  ASSUME Anc!AnchorerInv, Anc!TypeOK', UNCHANGED <<setting, sn, dpwe, dune, dpub, cdel>>,
         sealed \subseteq sealed', published \subseteq published',
         \A e \in Anc!Events : wigs[e] \subseteq wigs'[e],
         publisher' \in {"busy", "idle"} => publisher \in {"busy", "idle"},
         sent' = sent
  PROVE  Anc!AnchorerInv'
<1>1. Anc!Waiting' = Anc!Waiting /\ Anc!Wits' = Anc!Wits
  BY DEF Anc!Waiting, Anc!Wits
<1>2. \A e \in Anc!Events : wigs[e] = Anc!Wits => wigs'[e] = Anc!Wits
  BY <1>1 DEF Anc!TypeOK
<1>3. Anc!OnePlace'
  BY <1>1 DEF Anc!AnchorerInv, Anc!OnePlace
<1>4. Anc!CompletedSealed'
  BY <1>1, <1>2 DEF Anc!AnchorerInv, Anc!CompletedSealed
<1>5. Anc!SentReceipted'
  BY <1>1, <1>2 DEF Anc!AnchorerInv, Anc!SentReceipted, Anc!TypeOK
<1>6. Anc!PublishedSealed'
  BY DEF Anc!AnchorerInv, Anc!PublishedSealed
<1> QED
  BY <1>3, <1>4, <1>5, <1>6 DEF Anc!AnchorerInv

(* The next event of the delegate (Anchorer.delegation).                   *)
LEMMA MakeKeeps ==
  ASSUME Anc!AnchorerAssumption, Anc!AnchorerInv, NEW e \in Anc!Events, Anc!Make(e)
  PROVE  Anc!AnchorerInv'
<1>1. /\ Anc!Sn(e) = sn + 1 /\ sn' = Anc!Sn(e) /\ Anc!Sn(e) \in Nat /\ sn \in Int
      /\ UNCHANGED <<setting, dune, dpub, cdel, aess, wigs, cues, sent, sealed, published>>
      /\ \A d \in Anc!Events : Anc!Sn(d) \in Nat /\ (Anc!Sn(d) = Anc!Sn(e) => d = e)
  BY DEF Anc!Make, Anc!AnchorerInv, Anc!TypeOK, Anc!AnchorerAssumption, Anc!outside
<1>2. e \notin Anc!Waiting /\ cdel[Anc!Sn(e)] = None
  BY <1>1 DEF Anc!AnchorerInv, Anc!TypeOK, Anc!AnchorerAssumption
<1>3. /\ dpwe' = IF Anc!Delegated(e) THEN dpwe \cup {e} ELSE dpwe
      /\ msgs' = IF Anc!Delegated(e) THEN Append(msgs, e) ELSE msgs
      /\ publisher' = IF Anc!Delegated(e) THEN "new" ELSE publisher
  BY DEF Anc!Make
<1>4. Anc!Waiting' = IF Anc!Delegated(e) THEN Anc!Waiting \cup {e} ELSE Anc!Waiting
  BY <1>1, <1>3 DEF Anc!Waiting
<1>5. Anc!TypeOK'
  <2>1. msgs' \in Seq(Anc!Events)
    BY <1>3 DEF Anc!AnchorerInv, Anc!TypeOK
  <2>2. \A d \in Anc!Waiting' : Anc!Delegated(d) /\ Anc!Sn(d) <= sn'
    BY <1>1, <1>4 DEF Anc!AnchorerInv, Anc!TypeOK, Anc!Waiting
  <2>3. \A n \in DOMAIN cdel :
          cdel[n] \in {None} \cup {d \in Anc!Events : Anc!Sn(d) = n /\ Anc!Delegated(d) /\ n <= sn'}
    <3> SUFFICES ASSUME NEW n \in DOMAIN cdel, cdel[n] # None
                 PROVE  cdel[n] \in {d \in Anc!Events : Anc!Sn(d) = n /\ Anc!Delegated(d) /\ n <= sn'}
      OBVIOUS
    <3>1. cdel[n] \in {d \in Anc!Events : Anc!Sn(d) = n /\ Anc!Delegated(d) /\ n <= sn} /\ n \in Nat
      BY <1>1 DEF Anc!AnchorerInv, Anc!TypeOK
    <3> QED
      BY <1>1, <3>1
  <2>4. failed' = failed
    BY DEF Anc!Make
  <2> QED
    BY <1>1, <1>3, <2>1, <2>2, <2>3, <2>4 DEF Anc!AnchorerInv, Anc!TypeOK, Anc!Wits
<1>6. Anc!OnePlace'
  <2>1. \A d \in Anc!Events : Anc!Sn(d) <= sn' => Anc!Sn(d) <= sn \/ d = e
    BY <1>1
  <2>2. dpwe' \cap dune' = {} /\ dune' \cap dpub' = {} /\ dpwe' \cap dpub' = {}
    BY <1>1, <1>2, <1>3 DEF Anc!AnchorerInv, Anc!OnePlace, Anc!Waiting
  <2>3. None # e
    BY DEF Anc!AnchorerAssumption
  <2> QED
    BY <1>1, <1>2, <1>4, <2>1, <2>2, <2>3 DEF Anc!AnchorerInv, Anc!OnePlace
<1>7. Anc!CompletedSealed' /\ Anc!SentReceipted'
  BY <1>1 DEF Anc!AnchorerInv, Anc!CompletedSealed, Anc!SentReceipted, Anc!Wits
<1>8. Anc!PublishedSealed'
  BY <1>1, <1>3 DEF Anc!AnchorerInv, Anc!PublishedSealed
<1> QED
  BY <1>5, <1>6, <1>7, <1>8 DEF Anc!AnchorerInv

(* The pass over events that wait for receipts sends only what every       *)
(* witness receipted.                                                      *)
LEMMA PartialWitnessKeeps ==
  ASSUME Anc!AnchorerAssumption, Anc!AnchorerInv, NEW e \in Anc!Events, Anc!processPartialWitnessEscrow(e)
  PROVE  Anc!AnchorerInv'
<1>1. wigs[e] = Anc!Wits /\ e \in dpwe
  BY AllReceipts DEF Anc!AnchorerInv, Anc!processPartialWitnessEscrow
<1>2. CASE setting.proxied
  <2>1. /\ sent' = sent \cup {e} /\ dpwe' = dpwe \ {e} /\ dune' = dune \cup {e} /\ failed' = failed
        /\ UNCHANGED <<setting, sn, dpub, cdel, aess, wigs, msgs, cues, publisher, sealed, published>>
    BY <1>2 DEF Anc!processPartialWitnessEscrow
  <2>2. Anc!Waiting' = Anc!Waiting
    BY <1>1, <2>1 DEF Anc!Waiting
  <2>3. Anc!TypeOK'
    BY <2>1, <2>2 DEF Anc!AnchorerInv, Anc!TypeOK, Anc!Wits
  <2>4. Anc!OnePlace'
    BY <1>1, <2>1, <2>2 DEF Anc!AnchorerInv, Anc!OnePlace
  <2>5. Anc!CompletedSealed' /\ Anc!SentReceipted' /\ Anc!PublishedSealed'
    BY <1>1, <2>1 DEF Anc!AnchorerInv, Anc!CompletedSealed, Anc!SentReceipted, Anc!PublishedSealed, Anc!Wits
  <2> QED
    BY <2>3, <2>4, <2>5 DEF Anc!AnchorerInv
<1>3. CASE ~setting.proxied
  <2>1. failed' = TRUE /\ UNCHANGED <<setting, sn, dpwe, dune, dpub, cdel, aess, wigs, msgs, cues, publisher,
                                      sent, sealed, published>>
    BY <1>3 DEF Anc!processPartialWitnessEscrow
  <2>2. Anc!TypeOK'
    BY <2>1 DEF Anc!AnchorerInv, Anc!TypeOK, Anc!Wits, Anc!Waiting
  <2> QED
    BY <2>1, <2>2, TablesKept
<1> QED
  BY <1>2, <1>3

(* The pass over events that wait for the seal publishes only what is      *)
(* sealed.                                                                 *)
LEMMA UnanchoredKeeps ==
  ASSUME Anc!AnchorerAssumption, Anc!AnchorerInv, NEW e \in Anc!Events, Anc!processUnanchoredEscrow(e)
  PROVE  Anc!AnchorerInv'
<1>1. /\ e \in dune /\ e \in sealed /\ aess' = aess \cup {Anc!Tip}
      /\ dpub' = dpub \cup {e} /\ dune' = dune \ {e}
      /\ UNCHANGED <<setting, sn, dpwe, cdel, wigs, msgs, cues, sent, sealed, failed>>
  BY DEF Anc!processUnanchoredEscrow
<1>2. \/ publisher = "none" /\ UNCHANGED <<publisher, published>>
      \/ publisher' = "busy" /\ published' = published \cup sealed
  BY DEF Anc!processUnanchoredEscrow, Anc!publishDelegator
<1>3. Anc!Tip \in Anc!Events
  <2>1. Anc!Sn(e) <= sn /\ Anc!Sn(e) \in Nat /\ sn \in {-1} \cup {Anc!Sn(d) : d \in Anc!Events}
    BY <1>1 DEF Anc!AnchorerInv, Anc!TypeOK, Anc!AnchorerAssumption, Anc!Waiting
  <2>2. \E d \in Anc!Events : Anc!Sn(d) = sn
    BY <2>1
  <2> QED
    BY <2>2 DEF Anc!Tip
<1>4. Anc!Waiting' = Anc!Waiting
  BY <1>1 DEF Anc!Waiting
<1>5. published \subseteq published' /\ published' \subseteq sealed'
  BY <1>1, <1>2 DEF Anc!AnchorerInv, Anc!TypeOK
<1>6. Anc!TypeOK'
  BY <1>1, <1>2, <1>3, <1>4, <1>5 DEF Anc!AnchorerInv, Anc!TypeOK, Anc!Wits
<1>7. Anc!OnePlace'
  BY <1>1, <1>4 DEF Anc!AnchorerInv, Anc!OnePlace
<1>8. Anc!CompletedSealed' /\ Anc!SentReceipted'
  BY <1>1, <1>5 DEF Anc!AnchorerInv, Anc!CompletedSealed, Anc!SentReceipted, Anc!Wits
<1>9. Anc!PublishedSealed'
  BY <1>1, <1>2 DEF Anc!AnchorerInv, Anc!PublishedSealed
<1> QED
  BY <1>6, <1>7, <1>8, <1>9 DEF Anc!AnchorerInv

(* The pass over events whose seal is published completes each once.       *)
LEMMA PublicationKeeps ==
  ASSUME Anc!AnchorerAssumption, Anc!AnchorerInv, NEW e \in Anc!Events, Anc!processWitnessPublication(e)
  PROVE  Anc!AnchorerInv'
<1>1. e \in dpub /\ UNCHANGED <<setting, sn, dpwe, dune, aess, wigs, msgs, cues, sent, sealed, published>>
  BY DEF Anc!processWitnessPublication, Anc!outside
<1>2. CASE publisher = "idle"
  <2>1. publisher' = "none" /\ dpub' = dpub \ {e} /\ failed' = failed
    BY <1>2 DEF Anc!processWitnessPublication
  <2>2. e \in Anc!Waiting /\ Anc!Sn(e) <= sn /\ Anc!Delegated(e) /\ Anc!Sn(e) \in DOMAIN cdel
    BY <1>1 DEF Anc!AnchorerInv, Anc!TypeOK, Anc!Waiting
  <2>3. cdel[Anc!Sn(e)] # e
    BY <2>2 DEF Anc!AnchorerInv, Anc!OnePlace
  <2>4. cdel[Anc!Sn(e)] = None
    BY <2>2, <2>3 DEF Anc!AnchorerInv, Anc!TypeOK, Anc!AnchorerAssumption
  <2>5. cdel' = [cdel EXCEPT ![Anc!Sn(e)] = e]
    BY <1>2, <2>4 DEF Anc!processWitnessPublication
  <2>6. e \in sealed \cap published /\ wigs[e] = Anc!Wits
    BY <1>1, <1>2 DEF Anc!AnchorerInv, Anc!PublishedSealed, Anc!SentReceipted
  <2>7. \A d \in Anc!Events :
          Anc!Sn(d) \in DOMAIN cdel /\ (d # e => cdel'[Anc!Sn(d)] = cdel[Anc!Sn(d)]) /\ cdel'[Anc!Sn(e)] = e
    BY <2>2, <2>5 DEF Anc!AnchorerInv, Anc!TypeOK, Anc!AnchorerAssumption
  <2>8. Anc!Waiting' = Anc!Waiting \ {e}
    BY <1>1, <2>1 DEF Anc!Waiting, Anc!AnchorerInv, Anc!OnePlace
  <2>9. Anc!TypeOK'
    BY <1>1, <2>1, <2>2, <2>5, <2>8 DEF Anc!AnchorerInv, Anc!TypeOK, Anc!Wits
  <2>10. Anc!OnePlace'
    BY <1>1, <2>1, <2>2, <2>7, <2>8 DEF Anc!AnchorerInv, Anc!OnePlace
  <2>11. Anc!CompletedSealed'
    BY <1>1, <2>6, <2>7 DEF Anc!AnchorerInv, Anc!CompletedSealed, Anc!Wits
  <2>12. Anc!SentReceipted' /\ Anc!PublishedSealed'
    BY <1>1, <2>1 DEF Anc!AnchorerInv, Anc!SentReceipted, Anc!PublishedSealed, Anc!Wits
  <2> QED
    BY <2>9, <2>10, <2>11, <2>12 DEF Anc!AnchorerInv
<1>3. CASE publisher # "idle"
  <2>1. failed' = TRUE /\ UNCHANGED <<publisher, dpub, cdel>>
    BY <1>3 DEF Anc!processWitnessPublication
  <2>2. Anc!TypeOK'
    BY <1>1, <2>1 DEF Anc!AnchorerInv, Anc!TypeOK, Anc!Wits, Anc!Waiting
  <2> QED
    BY <1>1, <2>1, <2>2, TablesKept
<1> QED
  BY <1>2, <1>3

(* Receipts, the publisher, a restart.                                     *)
LEMMA AnchorerOtherKeeps ==
  ASSUME Anc!AnchorerAssumption, Anc!AnchorerInv,
         \/ Anc!Receipt \/ Anc!PublisherDone \/ Anc!Restart \/ UNCHANGED Anc!vars
         \/ \E e \in Anc!Events, w \in Anc!Wits : Anc!ReceiptLate(e, w)
  PROVE  Anc!AnchorerInv'
<1>1. CASE Anc!Receipt
  <2>1. PICK got \in SUBSET Anc!Wits : wigs' = [wigs EXCEPT ![Head(msgs)] = @ \cup got]
    BY <1>1 DEF Anc!Receipt
  <2>2. Head(msgs) \in Anc!Events /\ Tail(msgs) \in Seq(Anc!Events)
    BY <1>1 DEF Anc!Receipt, Anc!AnchorerInv, Anc!TypeOK
  <2>3. wigs' \in [Anc!Events -> SUBSET Anc!Wits] /\ \A e \in Anc!Events : wigs[e] \subseteq wigs'[e]
    BY <2>1, <2>2 DEF Anc!AnchorerInv, Anc!TypeOK
  <2>4. Anc!TypeOK'
    BY <1>1, <2>2, <2>3 DEF Anc!Receipt, Anc!AnchorerInv, Anc!TypeOK, Anc!outside, Anc!Waiting, Anc!Wits
  <2> QED
    BY <1>1, <2>3, <2>4, TablesKept DEF Anc!Receipt, Anc!outside
<1>2. CASE Anc!PublisherDone
  <2>1. Anc!TypeOK'
    BY <1>2 DEF Anc!PublisherDone, Anc!AnchorerInv, Anc!TypeOK, Anc!outside, Anc!db, Anc!Waiting, Anc!Wits
  <2> QED
    BY <1>2, <2>1, TablesKept DEF Anc!PublisherDone, Anc!outside, Anc!db
<1>3. CASE Anc!Restart
  <2>1. msgs' \in Seq(Anc!Events) /\ cues' = {} /\ publisher' = "none" /\ failed' = FALSE
        /\ UNCHANGED <<setting, sn, dpwe, dune, dpub, cdel, aess, wigs, sent, sealed, published>>
    BY <1>3 DEF Anc!Restart, Anc!outside, Anc!db
  <2>2. Anc!TypeOK'
    BY <2>1 DEF Anc!AnchorerInv, Anc!TypeOK, Anc!Waiting, Anc!Wits
  <2> QED
    BY <2>1, <2>2, TablesKept
<1>4. ASSUME NEW e \in Anc!Events, NEW w \in Anc!Wits, Anc!ReceiptLate(e, w) PROVE Anc!AnchorerInv'
  <2>1. wigs' \in [Anc!Events -> SUBSET Anc!Wits] /\ \A d \in Anc!Events : wigs[d] \subseteq wigs'[d]
    BY <1>4 DEF Anc!AnchorerInv, Anc!TypeOK, Anc!ReceiptLate
  <2>2. Anc!TypeOK'
    BY <1>4, <2>1 DEF Anc!ReceiptLate, Anc!AnchorerInv, Anc!TypeOK, Anc!outside, Anc!memory, Anc!Waiting,
                      Anc!Wits
  <2> QED
    BY <1>4, <2>1, <2>2, TablesKept DEF Anc!ReceiptLate, Anc!outside, Anc!memory
<1>5. CASE UNCHANGED Anc!vars
  <2>1. Anc!TypeOK'
    BY <1>5 DEF Anc!vars, Anc!AnchorerInv, Anc!TypeOK, Anc!outside, Anc!memory, Anc!db, Anc!Waiting, Anc!Wits
  <2> QED
    BY <1>5, <2>1, TablesKept DEF Anc!vars, Anc!outside, Anc!db, Anc!memory
<1> QED
  BY <1>1, <1>2, <1>3, <1>4, <1>5

(* The delegator seals what was sent to it.                                *)
LEMMA SealsKeeps ==
  ASSUME Anc!AnchorerAssumption, Anc!AnchorerInv, NEW e \in Anc!Events, Anc!DelegatorSeals(e)
  PROVE  Anc!AnchorerInv'
<1>1. Anc!TypeOK'
  BY DEF Anc!DelegatorSeals, Anc!AnchorerInv, Anc!TypeOK, Anc!db, Anc!memory, Anc!Waiting, Anc!Wits
<1> QED
  BY <1>1, TablesKept DEF Anc!DelegatorSeals, Anc!db, Anc!memory

(* The types and the four parts of the invariant hold at every step of     *)
(* Anchorer.                                                               *)
THEOREM AnchorerInvariant ==
  ASSUME Anc!AnchorerAssumption
  PROVE  Anc!Spec => []Anc!AnchorerInv
<1>1. Anc!Init => Anc!AnchorerInv
  <2> SUFFICES ASSUME Anc!Init PROVE Anc!AnchorerInv
    OBVIOUS
  <2>1. \A e \in Anc!Events : Anc!Sn(e) \in Nat /\ e # None /\ cdel[Anc!Sn(e)] = None
    BY DEF Anc!Init, Anc!AnchorerAssumption
  <2>2. msgs \in Seq(Anc!Events) /\ wigs \in [Anc!Events -> SUBSET Anc!Wits] /\ Anc!Waiting = {} /\ sn = -1
    BY DEF Anc!Init, Anc!Waiting
  <2>3. /\ DOMAIN cdel = {Anc!Sn(e) : e \in Anc!Events}
        /\ \A n \in DOMAIN cdel : cdel[n] = None
    BY DEF Anc!Init
  <2>4. Anc!TypeOK
    BY <2>2, <2>3 DEF Anc!Init, Anc!TypeOK
  <2>5. Anc!OnePlace
    BY <2>1, <2>2 DEF Anc!Init, Anc!OnePlace
  <2>6. Anc!CompletedSealed
    BY <2>1 DEF Anc!CompletedSealed
  <2>7. Anc!SentReceipted /\ Anc!PublishedSealed
    BY DEF Anc!Init, Anc!SentReceipted, Anc!PublishedSealed
  <2> QED
    BY <2>4, <2>5, <2>6, <2>7 DEF Anc!AnchorerInv
<1>2. Anc!AnchorerInv /\ [Anc!Next]_(Anc!vars) => Anc!AnchorerInv'
  BY MakeKeeps, SealsKeeps, PartialWitnessKeeps, UnanchoredKeeps, PublicationKeeps, AnchorerOtherKeeps
     DEF Anc!Next, Anc!Loops, Anc!Idle
<1> QED
  BY <1>1, <1>2, PTL DEF Anc!Spec

(* No pass of the loops loses or doubles a delegated event, and none       *)
(* counts as complete before its receipts, its seal and the publication of *)
(* that seal, over restarts and any number of delegations under way.       *)
THEOREM DelegationsCompleteSealed ==
  ASSUME Anc!AnchorerAssumption
  PROVE  Anc!Spec => [](Anc!OnePlace /\ Anc!CompletedSealed)
<1>1. Anc!AnchorerInv => Anc!OnePlace /\ Anc!CompletedSealed
  BY DEF Anc!AnchorerInv
<1> QED
  BY <1>1, AnchorerInvariant, PTL

-----------------------------------------------------------------------------
(* Group coordination, for any group, threshold, proposals and witnesses,  *)
(* over the variables of module Groups.                                    *)
CONSTANTS GroupEvents, GroupMembers, Threshold, GroupWorlds
VARIABLES senders, replayed, sigs, kel, gpse, gdee, gpwe, cgms, requests, delegating, anchored, approved
Grp == INSTANCE Groups WITH Members <- GroupMembers, Worlds <- GroupWorlds, world <- setting

(* The operators of its library are those of this module.                  *)
LEMMA GroupOperators ==
  /\ \A S : Grp!IsFiniteSet(S) <=> IsFiniteSet(S)
  /\ \A S : Grp!Cardinality(S) = Cardinality(S)
  /\ \A s : Grp!ToSet(s) = ToSet(s)
<1>1. \A S : Grp!IsFiniteSet(S) <=> IsFiniteSet(S)
  BY DEF Grp!IsFiniteSet, IsFiniteSet
<1>2. \A S : Grp!Cardinality(S) = Cardinality(S)
  BY DEF Grp!Cardinality, Cardinality
<1>3. \A s : Grp!ToSet(s) = ToSet(s)
  BY DEF Grp!ToSet, ToSet
<1> QED
  BY <1>1, <1>2, <1>3

(* An accepted event is the one at its number.                             *)
LEMMA AcceptedIsAt ==
  ASSUME Grp!GroupsAssumption, Grp!TypeOK, NEW e \in Grp!Accepted
  PROVE  e \in Grp!Events /\ Grp!AcceptedAt(Grp!Sn(e)) = e
<1>1. PICK n \in DOMAIN kel : kel[n] = e
  BY DEF Grp!Accepted, Grp!ToSet
<1>2. kel[n] \in Grp!Events /\ Grp!Sn(kel[n]) = n
  BY DEF Grp!TypeOK
<1> QED
  BY <1>1, <1>2 DEF Grp!AcceptedAt

(* What is at a number was accepted.                                       *)
LEMMA AtIsAccepted ==
  ASSUME Grp!TypeOK, NEW n \in Nat, Grp!AcceptedAt(n) # None
  PROVE  /\ Grp!AcceptedAt(n) \in Grp!Accepted /\ Grp!Sn(Grp!AcceptedAt(n)) = n
         /\ Grp!AcceptedAt(n) = kel[n] /\ kel # <<>>
<1>1. n \in DOMAIN kel
  BY DEF Grp!AcceptedAt
<1> QED
  BY <1>1 DEF Grp!AcceptedAt, Grp!Accepted, Grp!ToSet, Grp!TypeOK

(* The latest event was accepted.                                          *)
LEMMA TipAccepted ==
  ASSUME Grp!TypeOK, kel # <<>>
  PROVE  Grp!Tip \in Grp!Accepted /\ Grp!Tip \in Grp!Events /\ Grp!Sn(Grp!Tip) = Len(kel)
<1>1. Len(kel) \in DOMAIN kel /\ Grp!Last(kel) = kel[Len(kel)]
  BY DEF Grp!TypeOK, Grp!Last
<1> QED
  BY <1>1 DEF Grp!Tip, Grp!Accepted, Grp!ToSet, Grp!TypeOK

(* An event that has the receipts of every witness was accepted.           *)
LEMMA WitnessedAccepted ==
  ASSUME Grp!GroupsAssumption, Grp!TypeOK, Grp!Grounded, Grp!Wits # {}, NEW e \in Grp!Events, Grp!Witnessed(e)
  PROVE  e \in Grp!Accepted
<1>1. Grp!IsFiniteSet(Grp!Wits) /\ Grp!Cardinality(wigs[e]) = Grp!Cardinality(Grp!Wits)
  BY DEF Grp!TypeOK, Grp!GroupsAssumption, Grp!Wits, Grp!Witnessed
<1>2. Grp!Cardinality(Grp!Wits) # 0
  BY <1>1, FS_EmptySet, GroupOperators
<1>3. wigs[e] # {}
  BY <1>1, <1>2, FS_EmptySet, GroupOperators
<1> QED
  BY <1>3 DEF Grp!Grounded

(* The log grows by an event of the next number.                           *)
LEMMA AcceptKeeps ==
  ASSUME Grp!GroupsAssumption, Grp!GroupsInv, NEW e \in Grp!Events, NEW who \in SUBSET Grp!ToSet(GroupMembers),
         e \in setting.proposed, Grp!Sn(e) = Len(kel) + 1, kel' = Append(kel, e), Grp!Signed(e, who),
         UNCHANGED <<setting, senders, replayed, Grp!tables, wigs, Grp!outside, approved, restarts>>
  PROVE  Grp!GroupsInv'
<1>1. /\ sigs' \in [Grp!Events -> SUBSET Grp!ToSet(GroupMembers)]
      /\ \A d \in Grp!Events : d # e => sigs'[d] = sigs[d]
  BY DEF Grp!GroupsInv, Grp!TypeOK, Grp!Signed
<1>2. /\ kel' \in Seq(Grp!Events) /\ Len(kel') = Len(kel) + 1 /\ DOMAIN kel' = DOMAIN kel \cup {Len(kel) + 1}
      /\ \A n \in DOMAIN kel : kel'[n] = kel[n]
      /\ kel'[Len(kel) + 1] = e
  BY DEF Grp!GroupsInv, Grp!TypeOK
<1>3. Grp!Accepted' = Grp!Accepted \cup {e}
  BY AppendToSet, GroupOperators DEF Grp!GroupsInv, Grp!TypeOK, Grp!Accepted
<1>4. Grp!Tip' = e
  BY <1>2 DEF Grp!Tip, Grp!Last
<1>5. e \notin Grp!Accepted
  <2>1. \A n \in DOMAIN kel : n # Len(kel) + 1
    BY DEF Grp!GroupsInv, Grp!TypeOK
  <2> QED
    BY <2>1 DEF Grp!GroupsInv, Grp!TypeOK, Grp!Accepted, Grp!ToSet
<1>6. \A n : Grp!AcceptedAt(n) # None => Grp!AcceptedAt(n)' = Grp!AcceptedAt(n)
  BY <1>2 DEF Grp!AcceptedAt
<1>7. Grp!TypeOK'
  <2>1. \A n \in DOMAIN kel' : Grp!Sn(kel'[n]) = n
    BY <1>2 DEF Grp!GroupsInv, Grp!TypeOK
  <2> QED
    BY <1>1, <1>2, <2>1 DEF Grp!GroupsInv, Grp!TypeOK, Grp!tables, Grp!me, Grp!Wits
<1>8. Grp!ProposalsReplayed'
  BY DEF Grp!GroupsInv, Grp!ProposalsReplayed, Grp!me
<1>9. Grp!Grounded'
  BY <1>1, <1>3 DEF Grp!GroupsInv, Grp!Grounded, Grp!outside
<1>10. Grp!Apart' = Grp!Apart /\ Grp!Wits' = Grp!Wits
  BY DEF Grp!Apart, Grp!Wits
<1>11. ASSUME Grp!Apart, NEW d \in gpwe, Grp!Delegated(d), d = e PROVE FALSE
  BY <1>5, <1>11 DEF Grp!GroupsInv, Grp!Followed
<1>12. Grp!Followed'
  BY <1>3, <1>4, <1>10, <1>11 DEF Grp!GroupsInv, Grp!Followed, Grp!tables
<1>13. Grp!CompletedAccepted'
  <2> SUFFICES ASSUME Grp!Wits # {}, Grp!Apart, NEW n \in DOMAIN cgms, cgms[n] # None
               PROVE  /\ Grp!AcceptedAt(n)' = cgms[n]
                      /\ Grp!Delegated(cgms[n]) /\ Grp!Tip' = cgms[n] => cgms[n] \in approved
    BY <1>10 DEF Grp!CompletedAccepted, Grp!tables
  <2>1. Grp!AcceptedAt(n) = cgms[n]
    BY DEF Grp!GroupsInv, Grp!CompletedAccepted
  <2>2. n \in Nat
    BY FS_CardinalityType, GroupOperators DEF Grp!GroupsInv, Grp!TypeOK
  <2>3. cgms[n] \in Grp!Accepted
    BY <2>1, <2>2, AtIsAccepted DEF Grp!GroupsInv
  <2> QED
    BY <1>4, <1>5, <1>6, <2>1, <2>3
<1> QED
  BY <1>7, <1>8, <1>9, <1>12, <1>13 DEF Grp!GroupsInv

(* Proposals.                                                              *)
LEMMA ProposeKeeps ==
  ASSUME Grp!GroupsAssumption, Grp!GroupsInv, NEW e \in Grp!Events,
         Grp!Propose(e) \/ \E m \in Grp!ToSet(GroupMembers) : Grp!Receive(e, m)
  PROVE  Grp!GroupsInv'
<1>1. /\ e \in setting.proposed /\ Grp!me \in Grp!ToSet(GroupMembers)
      /\ UNCHANGED <<setting, kel, gdee, gpwe, cgms, wigs, requests, cues, delegating, anchored, approved>>
  BY DEF Grp!Propose, Grp!Receive, Grp!outside, Grp!tables, Grp!GroupsInv, Grp!TypeOK,
         Grp!GroupsAssumption, Grp!me
<1>2. PICK who \in SUBSET Grp!ToSet(GroupMembers) : Grp!Signed(e, who)
  BY <1>1 DEF Grp!Propose, Grp!Receive, Grp!GroupsInv, Grp!TypeOK
<1>3. /\ sigs' \in [Grp!Events -> SUBSET Grp!ToSet(GroupMembers)]
      /\ \A d \in Grp!Events : d # e => sigs'[d] = sigs[d]
  BY <1>2 DEF Grp!GroupsInv, Grp!TypeOK, Grp!Signed
<1>4. /\ senders' \in [Grp!Events -> SUBSET Grp!ToSet(GroupMembers)]
      /\ \A d \in Grp!Events : senders[d] \subseteq senders'[d] /\ (d # e => senders'[d] = senders[d])
      /\ gpse' = gpse \/ (gpse' = gpse \cup {e} /\ Grp!me \in senders'[e])
  <2> DEFINE A(m) == senders' = [senders EXCEPT ![e] = @ \cup {m}]
  <2>1. senders \in [Grp!Events -> SUBSET Grp!ToSet(GroupMembers)]
    BY DEF Grp!GroupsInv, Grp!TypeOK
  <2>2. CASE Grp!Propose(e)
    <3>1. A(Grp!me) /\ gpse' = gpse \cup {e}
      BY <2>2 DEF Grp!Propose
    <3> QED
      BY <1>1, <2>1, <3>1
  <2>3. ASSUME NEW m \in Grp!ToSet(GroupMembers), Grp!Receive(e, m)
        PROVE  /\ senders' \in [Grp!Events -> SUBSET Grp!ToSet(GroupMembers)]
               /\ \A d \in Grp!Events : senders[d] \subseteq senders'[d] /\ (d # e => senders'[d] = senders[d])
               /\ gpse' = gpse
    <3>1. A(m) /\ gpse' = gpse
      BY <2>3 DEF Grp!Receive, Grp!tables
    <3> QED
      BY <2>1, <3>1
  <2> QED
    BY <2>2, <2>3
<1>5. Grp!ProposalsReplayed' /\ replayed' \subseteq Grp!Events \X Grp!ToSet(GroupMembers)
  <2>1. CASE Grp!Propose(e)
    <3>1. /\ Grp!me \notin senders[e] /\ senders'[e] = senders[e] \cup {Grp!me}
          /\ replayed' = replayed \cup {<<e, m>> : m \in senders[e]}
      BY <2>1 DEF Grp!Propose, Grp!GroupsInv, Grp!TypeOK
    <3>2. replayed' = {p \in Grp!Events \X Grp!ToSet(GroupMembers) : p[2] # Grp!me /\ {p[2],
    Grp!me} \subseteq senders'[p[1]]}
      <4>1. ASSUME NEW d \in Grp!Events, NEW m \in Grp!ToSet(GroupMembers)
            PROVE  <<d, m>> \in replayed' <=> (m # Grp!me /\ {m, Grp!me} \subseteq senders'[d])
        <5>1. <<d, m>> \in replayed <=> (m # Grp!me /\ {m, Grp!me} \subseteq senders[d])
          BY DEF Grp!GroupsInv, Grp!ProposalsReplayed
        <5>2. CASE d = e
          BY <3>1, <5>1, <5>2
        <5>3. CASE d # e
          BY <1>4, <3>1, <5>1, <5>3
        <5> QED
          BY <5>2, <5>3
      <4>2. replayed' \subseteq Grp!Events \X Grp!ToSet(GroupMembers)
        BY <3>1 DEF Grp!GroupsInv, Grp!TypeOK
      <4> QED
        BY <4>1, <4>2
    <3> QED
      BY <1>1, <3>2 DEF Grp!ProposalsReplayed, Grp!me
  <2>2. ASSUME NEW m \in Grp!ToSet(GroupMembers), Grp!Receive(e, m)
        PROVE  Grp!ProposalsReplayed' /\ replayed' \subseteq Grp!Events \X Grp!ToSet(GroupMembers)
    <3>1. /\ m # Grp!me /\ m \notin senders[e] /\ senders'[e] = senders[e] \cup {m}
          /\ replayed' = IF Grp!me \in senders[e] THEN replayed \cup {<<e, m>>} ELSE replayed
      BY <2>2 DEF Grp!Receive, Grp!GroupsInv, Grp!TypeOK
    <3>2. replayed' = {p \in Grp!Events \X Grp!ToSet(GroupMembers) : p[2] # Grp!me /\ {p[2],
    Grp!me} \subseteq senders'[p[1]]}
      <4>1. ASSUME NEW d \in Grp!Events, NEW q \in Grp!ToSet(GroupMembers)
            PROVE  <<d, q>> \in replayed' <=> (q # Grp!me /\ {q, Grp!me} \subseteq senders'[d])
        <5>1. <<d, q>> \in replayed <=> (q # Grp!me /\ {q, Grp!me} \subseteq senders[d])
          BY DEF Grp!GroupsInv, Grp!ProposalsReplayed
        <5>2. CASE d = e
          BY <3>1, <5>1, <5>2
        <5>3. CASE d # e
          BY <1>4, <3>1, <5>1, <5>3
        <5> QED
          BY <5>2, <5>3
      <4>2. replayed' \subseteq Grp!Events \X Grp!ToSet(GroupMembers)
        BY <3>1 DEF Grp!GroupsInv, Grp!TypeOK
      <4> QED
        BY <4>1, <4>2
    <3> QED
      BY <1>1, <3>2 DEF Grp!ProposalsReplayed, Grp!me
  <2> QED
    BY <2>1, <2>2
<1>6. Grp!TypeOK'
  <2>1. Grp!me' = Grp!me /\ Grp!Wits' = Grp!Wits
    BY <1>1 DEF Grp!me, Grp!Wits
  <2>2. ASSUME NEW d \in gpse' \cup gdee' \cup gpwe' PROVE d \in setting.proposed /\ Grp!me \in senders'[d]
    <3>1. CASE d \in gpse \cup gdee \cup gpwe
      <4>1. d \in setting.proposed /\ Grp!me \in senders[d] /\ d \in Grp!Events
        BY <3>1 DEF Grp!GroupsInv, Grp!TypeOK, Grp!GroupsAssumption
      <4> QED
        BY <1>4, <4>1
    <3>2. CASE d = e /\ Grp!me \in senders'[e]
      BY <1>1, <3>2
    <3> QED
      BY <1>1, <1>4, <3>1, <3>2
  <2> QED
    BY <1>1, <1>3, <1>4, <1>5, <2>1, <2>2 DEF Grp!GroupsInv, Grp!TypeOK
<1>7. Grp!Grounded'
  BY <1>1, <1>3 DEF Grp!GroupsInv, Grp!Grounded, Grp!Accepted
<1>8. Grp!Followed' /\ Grp!CompletedAccepted'
  BY <1>1 DEF Grp!GroupsInv, Grp!Followed, Grp!CompletedAccepted, Grp!Apart, Grp!Wits, Grp!Tip,
              Grp!Accepted, Grp!AcceptedAt
<1> QED
  BY <1>5, <1>6, <1>7, <1>8 DEF Grp!GroupsInv

(* What the escrow of partial signatures serves was accepted in its place. *)
LEMMA SignableAccepted ==
  ASSUME Grp!GroupsAssumption, Grp!TypeOK, Grp!Grounded, NEW e \in Grp!Signable
  PROVE  /\ e \in setting.proposed /\ Grp!AcceptedAt(Grp!Sn(e)) \in Grp!Accepted /\ kel # <<>>
         /\ (\A c, d \in setting.proposed : Grp!Sn(c) = Grp!Sn(d) => c = d) => e \in Grp!Accepted
<1>1. e \in setting.proposed /\ e \in Grp!Events /\ Grp!AcceptedAt(Grp!Sn(e)) # None /\ Grp!Sn(e) \in Nat
  BY DEF Grp!Signable, Grp!TypeOK, Grp!GroupsAssumption
<1>2. Grp!AcceptedAt(Grp!Sn(e)) \in Grp!Accepted /\ Grp!Sn(Grp!AcceptedAt(Grp!Sn(e))) = Grp!Sn(e) /\ kel # <<>>
  BY <1>1, AtIsAccepted
<1> QED
  BY <1>1, <1>2 DEF Grp!Grounded

(* The pass over what the local member started                             *)
(* (processPartialSignedEscrow).                                           *)
LEMMA SignedEscrowKeeps ==
  ASSUME Grp!GroupsAssumption, Grp!GroupsInv, Grp!processPartialSignedEscrow
  PROVE  Grp!GroupsInv'
<1> DEFINE elected == {e \in Grp!Signable : Grp!Elected(Grp!AcceptedAt(Grp!Sn(e)))}
           chosen == {Grp!AcceptedAt(Grp!Sn(e)) : e \in elected}
<1>1. /\ gpse' \subseteq gpse
      /\ UNCHANGED <<setting, senders, replayed, sigs, kel, cgms, wigs, cues, anchored, approved>>
  BY DEF Grp!processPartialSignedEscrow, Grp!Served, Grp!log
<1>2. \/ /\ Grp!Delegated(Grp!Tip) /\ gdee' = gdee \cup Grp!Signable /\ gpwe' = gpwe
         /\ delegating' = delegating \cup chosen /\ requests' = requests
      \/ /\ ~Grp!Delegated(Grp!Tip) /\ gpwe' = gpwe \cup Grp!Signable /\ gdee' = gdee
         /\ requests' = requests \cup chosen /\ delegating' = delegating
  BY DEF Grp!processPartialSignedEscrow
<1>3. chosen \subseteq Grp!Accepted
  BY SignableAccepted DEF Grp!GroupsInv
<1> HIDE DEF chosen
<1>4. Grp!Signable \subseteq gpse /\ gpse \subseteq setting.proposed
  BY DEF Grp!Signable, Grp!GroupsInv, Grp!TypeOK
<1>5. Grp!TypeOK'
  BY <1>1, <1>2, <1>4 DEF Grp!GroupsInv, Grp!TypeOK, Grp!me, Grp!Wits
<1>6. Grp!ProposalsReplayed'
  BY <1>1 DEF Grp!GroupsInv, Grp!ProposalsReplayed, Grp!me
<1>7. Grp!Grounded'
  BY <1>1, <1>2, <1>3 DEF Grp!GroupsInv, Grp!Grounded, Grp!Accepted
<1>8. Grp!CompletedAccepted' /\ Grp!Apart' = Grp!Apart /\ Grp!Accepted' = Grp!Accepted /\ Grp!Tip' = Grp!Tip
  BY <1>1 DEF Grp!GroupsInv, Grp!CompletedAccepted, Grp!Apart, Grp!Wits, Grp!Tip, Grp!Accepted, Grp!AcceptedAt
<1>9. Grp!Followed'
  <2> SUFFICES ASSUME Grp!Apart
               PROVE  /\ (\A e \in setting.proposed : ~Grp!Delegated(e)) => gdee' = {}
                      /\ (\E e \in setting.proposed : Grp!Delegated(e)) => gdee' \cup gpwe' \subseteq Grp!Accepted
                      /\ \A e \in gpwe' : Grp!Delegated(e) /\ Grp!Tip = e => e \in approved
    BY <1>1, <1>8 DEF Grp!Followed
  <2>1. Grp!Signable # {}
    BY DEF Grp!processPartialSignedEscrow
  <2>2. kel # <<>> /\ Grp!Tip \in setting.proposed
    BY <2>1, SignableAccepted, TipAccepted DEF Grp!GroupsInv, Grp!Grounded
  <2>3. (\E e \in setting.proposed : Grp!Delegated(e)) => Grp!Signable \subseteq Grp!Accepted
    BY SignableAccepted DEF Grp!Apart, Grp!GroupsInv
  <2> QED
    BY <1>2, <2>2, <2>3 DEF Grp!GroupsInv, Grp!Followed
<1> QED
  BY <1>5, <1>6, <1>7, <1>8, <1>9 DEF Grp!GroupsInv

(* What completes is of the served events.                                 *)
LEMMA CompleteFacts ==
  ASSUME Grp!GroupsAssumption, Grp!TypeOK, NEW S \in SUBSET Grp!Events, Grp!Complete(S)
  PROVE  /\ DOMAIN cgms' = DOMAIN cgms
         /\ \A n \in DOMAIN cgms : \/ cgms'[n] = cgms[n]
                                   \/ cgms[n] = None /\ cgms'[n] \in S /\ Grp!Sn(cgms'[n]) = n
<1>1. DOMAIN cgms' = DOMAIN cgms
  BY DEF Grp!Complete
<1>2. ASSUME NEW n \in DOMAIN cgms, cgms'[n] # cgms[n]
      PROVE  cgms[n] = None /\ cgms'[n] \in S /\ Grp!Sn(cgms'[n]) = n
  <2>1. cgms[n] = None /\ \E e \in S : Grp!Sn(e) = n
    BY <1>2 DEF Grp!Complete
  <2>2. cgms'[n] = CHOOSE e \in S : Grp!Sn(e) = n
    BY <2>1 DEF Grp!Complete
  <2> QED
    BY <2>1, <2>2
<1> QED
  BY <1>1, <1>2

(* The passes over what waits for the delegator and for witnesses.         *)
LEMMA PassKeeps ==
  ASSUME Grp!GroupsAssumption, Grp!GroupsInv, NEW S \in SUBSET (gdee \cup gpwe), Grp!Complete(S),
         gdee' \subseteq gdee, gpwe' \subseteq gpwe \cup (gdee \cap approved),
         UNCHANGED <<setting, Grp!log, gpse, wigs, Grp!outside, approved, restarts>>,
         ASSUME Grp!Wits # {}, Grp!Apart, NEW e \in S
         PROVE  e \in Grp!Accepted /\ (Grp!Delegated(e) /\ Grp!Tip = e => e \in approved)
  PROVE  Grp!GroupsInv'
<1>1. S \in SUBSET Grp!Events
  BY DEF Grp!GroupsInv, Grp!TypeOK, Grp!GroupsAssumption
<1>2. /\ DOMAIN cgms' = DOMAIN cgms
      /\ \A n \in DOMAIN cgms : \/ cgms'[n] = cgms[n]
                                \/ cgms[n] = None /\ cgms'[n] \in S /\ Grp!Sn(cgms'[n]) = n
  BY <1>1, CompleteFacts DEF Grp!GroupsInv
<1>3. UNCHANGED <<setting, senders, replayed, sigs, kel, gpse, wigs, requests, cues, delegating, anchored,
approved>>
  BY DEF Grp!log, Grp!outside
<1>4. Grp!TypeOK'
  <2>1. \A n \in DOMAIN cgms' : cgms'[n] \in {None} \cup {e \in Grp!Events : Grp!Sn(e) = n}
    BY <1>1, <1>2 DEF Grp!GroupsInv, Grp!TypeOK
  <2> QED
    BY <1>2, <1>3, <2>1 DEF Grp!GroupsInv, Grp!TypeOK, Grp!me, Grp!Wits
<1>5. Grp!ProposalsReplayed'
  BY <1>3 DEF Grp!GroupsInv, Grp!ProposalsReplayed, Grp!me
<1>6. Grp!Grounded'
  BY <1>3 DEF Grp!GroupsInv, Grp!Grounded, Grp!Accepted
<1>7. /\ Grp!Apart' = Grp!Apart /\ Grp!Accepted' = Grp!Accepted /\ Grp!Tip' = Grp!Tip
      /\ Grp!Wits' = Grp!Wits /\ \A n : Grp!AcceptedAt(n)' = Grp!AcceptedAt(n)
  BY <1>3 DEF Grp!Apart, Grp!Wits, Grp!Tip, Grp!Accepted, Grp!AcceptedAt
<1>8. Grp!Followed'
  BY <1>3, <1>7 DEF Grp!GroupsInv, Grp!Followed
<1>9. Grp!CompletedAccepted'
  <2> SUFFICES ASSUME Grp!Wits # {}, Grp!Apart, NEW n \in DOMAIN cgms, cgms'[n] # None
               PROVE  /\ Grp!AcceptedAt(n) = cgms'[n]
                      /\ Grp!Delegated(cgms'[n]) /\ Grp!Tip = cgms'[n] => cgms'[n] \in approved
    BY <1>2, <1>3, <1>7 DEF Grp!CompletedAccepted
  <2>1. CASE cgms'[n] = cgms[n]
    BY <2>1 DEF Grp!GroupsInv, Grp!CompletedAccepted
  <2>2. CASE cgms'[n] \in S /\ Grp!Sn(cgms'[n]) = n
    BY <2>2, AcceptedIsAt DEF Grp!GroupsInv
  <2> QED
    BY <1>2, <2>1, <2>2
<1> QED
  BY <1>4, <1>5, <1>6, <1>8, <1>9 DEF Grp!GroupsInv

(* The pass over what waits for the delegator (processDelegateEscrow).     *)
LEMMA DelegateEscrowKeeps ==
  ASSUME Grp!GroupsAssumption, Grp!GroupsInv, Grp!processDelegateEscrow
  PROVE  Grp!GroupsInv'
<1>1. /\ gdee' = {} /\ Grp!Complete(Grp!DelegatedFirst) /\ gpwe' = gpwe \cup Grp!DelegatedOther
      /\ UNCHANGED <<setting, Grp!log, gpse, wigs, Grp!outside, approved, restarts>>
  BY DEF Grp!processDelegateEscrow
<1>2. Grp!DelegatedFirst \in SUBSET (gdee \cup gpwe) /\ Grp!DelegatedOther \subseteq gdee \cap approved
  BY DEF Grp!DelegatedFirst, Grp!DelegatedOther
<1>3. ASSUME Grp!Apart, NEW e \in Grp!DelegatedFirst
      PROVE  e \in Grp!Accepted /\ (Grp!Delegated(e) /\ Grp!Tip = e => e \in approved)
  <2>1. e \in gdee /\ Grp!Tip \in anchored
    BY DEF Grp!DelegatedFirst
  <2>2. e \in Grp!Accepted
    BY <1>3, <2>1 DEF Grp!GroupsInv, Grp!Followed
  <2> QED
    BY <2>1, <2>2 DEF Grp!GroupsInv, Grp!Grounded
<1> HIDE DEF Grp!GroupsInv
<1> QED
  BY <1>1, <1>2, <1>3, PassKeeps

(* The pass over what waits for witnesses (processPartialWitnessEscrow).   *)
LEMMA WitnessEscrowKeeps ==
  ASSUME Grp!GroupsAssumption, Grp!GroupsInv, Grp!processPartialWitnessEscrow
  PROVE  Grp!GroupsInv'
<1> DEFINE done == {e \in gpwe : Grp!Witnessed(e)}
<1>1. /\ gpwe' \subseteq gpwe /\ Grp!Complete(done) /\ gdee' = gdee
      /\ UNCHANGED <<setting, Grp!log, gpse, wigs, Grp!outside, approved, restarts>>
  BY DEF Grp!processPartialWitnessEscrow, Grp!Served
<1>2. done \in SUBSET (gdee \cup gpwe)
  OBVIOUS
<1>3. ASSUME Grp!Wits # {}, Grp!Apart, NEW e \in done
      PROVE  e \in Grp!Accepted /\ (Grp!Delegated(e) /\ Grp!Tip = e => e \in approved)
  <2>1. e \in Grp!Events /\ e \in gpwe /\ Grp!Witnessed(e)
    BY DEF Grp!GroupsInv, Grp!TypeOK, Grp!GroupsAssumption
  <2>2. e \in Grp!Accepted
    BY <1>3, <2>1, WitnessedAccepted DEF Grp!GroupsInv
  <2> QED
    BY <1>3, <2>1, <2>2 DEF Grp!GroupsInv, Grp!Followed
<1> HIDE DEF done, Grp!GroupsInv
<1> QED
  BY <1>1, <1>2, <1>3, PassKeeps

(* Receipts, the delegator, a restart.                                     *)
LEMMA OutsideKeeps ==
  ASSUME Grp!GroupsAssumption, Grp!GroupsInv,
         \/ \E e \in Grp!Events : Grp!Receipt(e) \/ Grp!GetReceipts(e) \/ Grp!DelegatorSeals(e) \/ Grp!AnchorerDone(e)
         \/ Grp!Restart \/ UNCHANGED Grp!vars
  PROVE  Grp!GroupsInv'
<1>1. UNCHANGED <<setting, senders, replayed, sigs, kel, gpse, gdee, gpwe, cgms>> /\ approved \subseteq approved'
  BY DEF Grp!Receipt, Grp!GetReceipts, Grp!DelegatorSeals, Grp!AnchorerDone, Grp!Restart, Grp!vars,
         Grp!log, Grp!tables
<1>2. wigs' = wigs \/ \E e \in Grp!Accepted : e \in Grp!Events /\ wigs' = [wigs EXCEPT ![e] = Grp!Wits]
  BY DEF Grp!Receipt, Grp!GetReceipts, Grp!DelegatorSeals, Grp!AnchorerDone, Grp!Restart, Grp!vars,
         Grp!log, Grp!tables, Grp!GroupsInv, Grp!Grounded
<1>3. /\ requests' \cup cues' \cup delegating' \cup anchored' \cup approved' \subseteq Grp!Accepted
      /\ anchored' \subseteq approved'
  <2>1. CASE Grp!Restart \/ UNCHANGED Grp!vars
    BY <2>1 DEF Grp!Restart, Grp!vars, Grp!outside, Grp!GroupsInv, Grp!Grounded
  <2>2. ASSUME NEW e \in Grp!Events,
  Grp!Receipt(e) \/ Grp!GetReceipts(e) \/ Grp!DelegatorSeals(e) \/ Grp!AnchorerDone(e)
        PROVE  /\ requests' \cup cues' \cup delegating' \cup anchored' \cup approved' \subseteq Grp!Accepted
               /\ anchored' \subseteq approved'
    BY <2>2 DEF Grp!Receipt, Grp!GetReceipts, Grp!DelegatorSeals, Grp!AnchorerDone, Grp!outside,
                Grp!GroupsInv, Grp!Grounded
  <2> QED
    BY <2>1, <2>2
<1>4. /\ Grp!Apart' = Grp!Apart /\ Grp!Accepted' = Grp!Accepted /\ Grp!Tip' = Grp!Tip
      /\ Grp!Wits' = Grp!Wits /\ \A n : Grp!AcceptedAt(n)' = Grp!AcceptedAt(n)
  BY <1>1 DEF Grp!Apart, Grp!Wits, Grp!Tip, Grp!Accepted, Grp!AcceptedAt
<1>5. Grp!TypeOK'
  BY <1>1, <1>2 DEF Grp!GroupsInv, Grp!TypeOK, Grp!me, Grp!Wits
<1>6. Grp!Grounded'
  BY <1>1, <1>2, <1>3, <1>4 DEF Grp!GroupsInv, Grp!Grounded, Grp!TypeOK
<1>7. Grp!ProposalsReplayed'
  BY <1>1 DEF Grp!GroupsInv, Grp!ProposalsReplayed, Grp!me
<1>8. Grp!Followed'
  BY <1>1, <1>4 DEF Grp!GroupsInv, Grp!Followed
<1>9. Grp!CompletedAccepted'
  BY <1>1, <1>4 DEF Grp!GroupsInv, Grp!CompletedAccepted
<1> QED
  BY <1>5, <1>6, <1>7, <1>8, <1>9 DEF Grp!GroupsInv

(* Acceptance, of what enough members signed or of a copy signed by others.*)
LEMMA AcceptanceKeeps ==
  ASSUME Grp!GroupsAssumption, Grp!GroupsInv, NEW e \in Grp!Events, Grp!Accept(e) \/ Grp!ReceiveSigned(e)
  PROVE  Grp!GroupsInv'
<1>1. CASE Grp!Accept(e)
  <2>1. ASSUME sigs[e] = {} PROVE FALSE
    <3>1. Grp!Cardinality(sigs[e]) = 0
      BY <2>1, FS_EmptySet, GroupOperators
    <3> QED
      BY <1>1, <3>1 DEF Grp!Accept, Grp!GroupsAssumption
  <2>2. e \in setting.proposed
    BY <2>1 DEF Grp!GroupsInv, Grp!Grounded
  <2>3. Grp!Signed(e, {})
    BY <1>1 DEF Grp!Accept, Grp!Signed, Grp!GroupsInv, Grp!TypeOK
  <2> QED
    BY <1>1, <2>2, <2>3, AcceptKeeps DEF Grp!Accept
<1>2. CASE Grp!ReceiveSigned(e)
  BY <1>2, AcceptKeeps DEF Grp!ReceiveSigned
<1> QED
  BY <1>1, <1>2

(* The types and the four parts of the invariant hold at every step of the *)
(* Multiplexor and the Counselor.                                          *)
THEOREM GroupsInvariant ==
  ASSUME Grp!GroupsAssumption
  PROVE  Grp!Spec => []Grp!GroupsInv
<1>1. Grp!Init => Grp!GroupsInv
  <2> SUFFICES ASSUME Grp!Init PROVE Grp!GroupsInv
    OBVIOUS
  <2>1. /\ kel = <<>> /\ kel \in Seq(Grp!Events) /\ Grp!Accepted = {}
        /\ sigs \in [Grp!Events -> SUBSET Grp!ToSet(GroupMembers)] /\ wigs \in [Grp!Events -> SUBSET Grp!Wits]
        /\ senders \in [Grp!Events -> SUBSET Grp!ToSet(GroupMembers)]
    BY DEF Grp!Init, Grp!Accepted, Grp!ToSet
  <2>2. Grp!TypeOK
    BY <2>1 DEF Grp!Init, Grp!TypeOK
  <2>3. Grp!ProposalsReplayed
    BY DEF Grp!Init, Grp!ProposalsReplayed
  <2>4. Grp!Grounded /\ Grp!Followed /\ Grp!CompletedAccepted
    BY <2>1 DEF Grp!Init, Grp!Grounded, Grp!Followed, Grp!CompletedAccepted
  <2> QED
    BY <2>2, <2>3, <2>4 DEF Grp!GroupsInv
<1>2. Grp!GroupsInv /\ [Grp!Next]_(Grp!vars) => Grp!GroupsInv'
  BY ProposeKeeps, AcceptanceKeeps, SignedEscrowKeeps, DelegateEscrowKeeps, WitnessEscrowKeeps, OutsideKeeps
     DEF Grp!Next, Grp!Loops, Grp!Idle
<1> QED
  BY <1>1, <1>2, PTL DEF Grp!Spec

(* What another member proposes is read as local exactly when the local    *)
(* member proposed it too, and what counts as completed was accepted and,  *)
(* when it is delegated and the latest, sealed.                            *)
THEOREM GroupEventsSound ==
  ASSUME Grp!GroupsAssumption
  PROVE  Grp!Spec => [](Grp!ProposalsReplayed /\ Grp!CompletedAccepted)
<1>1. Grp!GroupsInv => Grp!ProposalsReplayed /\ Grp!CompletedAccepted
  BY DEF Grp!GroupsInv
<1> QED
  BY <1>1, GroupsInvariant, PTL

-----------------------------------------------------------------------------
(* Witness communication, for any witnesses and any log of the controller, *)
(* over the variables of module Witnessing.                                *)
CONSTANTS Witnesses, WitnessWorlds
VARIABLES last, queue, task, finished, has, late, inbox, knows, mail
Wit == INSTANCE Witnessing WITH Worlds <- WitnessWorlds, world <- setting

(* The operators of its library are those of this module.                  *)
LEMMA WitnessingOperators ==
  /\ \A S : Wit!IsFiniteSet(S) <=> IsFiniteSet(S)
  /\ \A S : Wit!Cardinality(S) = Cardinality(S)
  /\ \A s : Wit!ToSet(s) = ToSet(s)
  /\ \A S : Wit!SetToSeq(S) = SetToSeq(S)
<1>1. \A S : Wit!IsFiniteSet(S) <=> IsFiniteSet(S)
  BY DEF Wit!IsFiniteSet, IsFiniteSet
<1>2. \A S : Wit!Cardinality(S) = Cardinality(S)
  BY DEF Wit!Cardinality, Cardinality
<1>3. \A s : Wit!ToSet(s) = ToSet(s)
  BY DEF Wit!ToSet, ToSet
<1>4. \A f : Wit!IsInjective(f) <=> IsInjective(f)
  BY DEF Wit!IsInjective, IsInjective
<1>5. \A S : Wit!SetToSeq(S) = SetToSeq(S)
  BY <1>2, <1>4 DEF Wit!SetToSeq, SetToSeq
<1> QED
  BY <1>1, <1>2, <1>3, <1>5
-----------------------------------------------------------------------------
(* The log and what is sent of it                                          *)

LEMMA EventsKnown ==
  ASSUME Wit!WitnessingAssumption, Wit!TypeOK
  PROVE  /\ Len(setting.log) \in Nat /\ last \in Nat /\ DOMAIN wigs = 1..Len(setting.log)
         /\ \A n \in 1..Len(setting.log) :
              Wit!Wits(n) \in Seq(Witnesses) /\ Wit!Event(n).adds \subseteq Witnesses /\
                  Wit!IsFiniteSet(Wit!Event(n).adds)
         /\ 1..last \subseteq 1..Len(setting.log)
<1> DEFINE Shape == [ilk : STRING, wits : Seq(Witnesses), adds : SUBSET Witnesses]
<1>1. setting.log \in Seq(Shape)
  BY DEF Wit!WitnessingAssumption, Wit!TypeOK
<1> HIDE DEF Shape
<1>2. Len(setting.log) \in Nat /\ DOMAIN setting.log = 1..Len(setting.log)
  BY <1>1, LenProperties
<1>3. \A n \in 1..Len(setting.log) : setting.log[n] \in Shape
  BY <1>1, <1>2
<1>4. \A n \in 1..Len(setting.log) : Wit!Wits(n) \in Seq(Witnesses) /\ Wit!Event(n).adds \subseteq Witnesses
  BY <1>3 DEF Wit!Wits, Wit!Event, Shape
<1>5. Wit!IsFiniteSet(Witnesses)
  BY DEF Wit!WitnessingAssumption
<1> QED
  BY <1>2, <1>4, <1>5, FS_Subset, WitnessingOperators DEF Wit!TypeOK

LEMMA LogIsSent ==
  ASSUME last \in Nat PROVE Wit!Log \in Seq(Wit!Item)
<1>1. Wit!Log \in [1..last -> Wit!Item]
  BY DEF Wit!Log, Wit!Item, Wit!EventItem
<1> QED
  BY <1>1, SeqDef

(* What is streamed to a witness waits behind what was.                    *)
LEMMA StreamAdds ==
  ASSUME Wit!TypeOK, NEW w \in Witnesses, NEW items \in Seq(Wit!Item), Wit!Stream(w, items)
  PROVE  /\ inbox' \in [Witnesses -> Seq(Wit!Item)]
         /\ \A v \in Witnesses : Wit!ToSet(inbox[v]) \subseteq Wit!ToSet(inbox'[v])
         /\ Wit!ToSet(items) \subseteq Wit!ToSet(inbox'[w])
<1>1. inbox[w] \in Seq(Wit!Item) /\ inbox'[w] = inbox[w] \o items
  BY DEF Wit!TypeOK, Wit!Stream
<1>2. inbox'[w] \in Seq(Wit!Item) /\ Wit!ToSet(inbox'[w]) = Wit!ToSet(inbox[w]) \cup Wit!ToSet(items)
  BY <1>1, BothParts, WitnessingOperators
<1> QED
  BY <1>2 DEF Wit!TypeOK, Wit!Stream

(* Receipts of a witness of the event are held once.                       *)
LEMMA ReceiptIsHeld ==
  ASSUME Wit!WitnessingAssumption, Wit!TypeOK, NEW n \in 1..last, NEW w \in Witnesses,
         wigs' = Wit!Receipted(n, w), setting' = setting
  PROVE  /\ wigs' \in [DOMAIN setting.log -> Seq(Witnesses)]
         /\ \A m \in DOMAIN wigs' :
              /\ Wit!ToSet(wigs'[m]) \subseteq Wit!ToSet(Wit!Wits(m)) /\
                  Wit!Cardinality(Wit!ToSet(wigs'[m])) = Len(wigs'[m])
              /\ Wit!ToSet(wigs[m]) \subseteq Wit!ToSet(wigs'[m])
         /\ w \in Wit!ToSet(Wit!Wits(n)) => w \in Wit!ToSet(wigs'[n])
<1>1. n \in DOMAIN wigs /\ wigs \in [DOMAIN setting.log -> Seq(Witnesses)] /\ wigs[n] \in Seq(Witnesses)
  BY EventsKnown DEF Wit!TypeOK
<1>2. CASE w \in Wit!ToSet(Wit!Wits(n)) \ Wit!ToSet(wigs[n])
  <2>1. wigs' = [wigs EXCEPT ![n] = Append(wigs[n], w)]
    BY <1>2 DEF Wit!Receipted
  <2>2. /\ Append(wigs[n], w) \in Seq(Witnesses) /\ Wit!ToSet(Append(wigs[n], w)) = Wit!ToSet(wigs[n]) \cup {w}
        /\ Len(Append(wigs[n], w)) = Len(wigs[n]) + 1
    BY <1>1, AppendToSet, WitnessingOperators
  <2>3. Wit!ToSet(wigs[n]) \subseteq Witnesses /\ Wit!IsFiniteSet(Wit!ToSet(wigs[n]))
    BY <1>1, ToSetIn, FS_Subset, WitnessingOperators DEF Wit!WitnessingAssumption
  <2>4. Wit!Cardinality(Wit!ToSet(wigs[n]) \cup {w}) = Wit!Cardinality(Wit!ToSet(wigs[n])) + 1
    BY <1>2, <2>3, FS_AddElement, WitnessingOperators
  <2>5. Wit!ToSet(wigs[n]) \subseteq Wit!ToSet(Wit!Wits(n)) /\ Wit!Cardinality(Wit!ToSet(wigs[n])) = Len(wigs[n])
    BY <1>1 DEF Wit!TypeOK
  <2>6. wigs'[n] = Append(wigs[n], w) /\ \A m \in DOMAIN wigs \ {n} : wigs'[m] = wigs[m]
    BY <2>1, <1>1
  <2>7. wigs' \in [DOMAIN setting.log -> Seq(Witnesses)]
    BY <2>1, <2>2, <1>1
  <2>8. Wit!ToSet(wigs'[n]) \subseteq Wit!ToSet(Wit!Wits(n)) /\ Wit!Cardinality(Wit!ToSet(wigs'[n])) = Len(wigs'[n])
        /\ Wit!ToSet(wigs[n]) \subseteq Wit!ToSet(wigs'[n]) /\ w \in Wit!ToSet(wigs'[n])
    BY <2>2, <2>4, <2>5, <2>6, <1>2
  <2> QED
    BY <2>6, <2>7, <2>8, <1>1 DEF Wit!TypeOK
<1>3. CASE w \notin Wit!ToSet(Wit!Wits(n)) \ Wit!ToSet(wigs[n])
  BY <1>3, <1>1 DEF Wit!Receipted, Wit!TypeOK
<1> QED
  BY <1>2, <1>3

(* A witness reads an event: it has it, or keeps it for later, or had it.  *)
LEMMA WitnessReads ==
  ASSUME Wit!TypeOK, last \in Nat, NEW w \in Witnesses, NEW n \in 1..last, Wit!Reads(w, n)
  PROVE  /\ has' \in [Witnesses -> 0..last] /\ late' \in [Witnesses -> SUBSET (1..last)]
         /\ \A v \in Witnesses : late'[v] \subseteq has'[v] + 1..last
<1>1. has \in [Witnesses -> 0..last] /\ late \in [Witnesses -> SUBSET (1..last)]
      /\ \A v \in Witnesses : late[v] \subseteq has[v] + 1..last
  BY DEF Wit!TypeOK
<1>2. has[w] \in 0..last /\ late[w] \subseteq has[w] + 1..last
  BY <1>1
<1>3. CASE has[w] = n - 1
  <2>1. has' = [has EXCEPT ![w] = n] /\ late' = [late EXCEPT ![w] = late[w] \ {n}]
    <3>1. ~(has[w] < n - 1)
      BY <1>3, <1>2
    <3> QED
      BY <1>3, <3>1 DEF Wit!Reads
  <2>2. late[w] \ {n} \subseteq n + 1..last
    BY <1>2, <1>3
  <2> QED
    BY <2>1, <2>2, <1>1
<1>4. CASE has[w] < n - 1
  <2>1. has' = has /\ late' = [late EXCEPT ![w] = late[w] \cup {n}]
    BY <1>4, <1>2 DEF Wit!Reads
  <2>2. late[w] \cup {n} \subseteq has[w] + 1..last
    BY <1>2, <1>4
  <2> QED
    BY <2>1, <2>2, <1>1
<1>5. CASE has[w] > n - 1
  <2>1. has' = has /\ late' = [late EXCEPT ![w] = late[w] \ {n}]
    <3>1. ~(has[w] < n - 1) /\ has[w] # n - 1
      BY <1>5, <1>2
    <3> QED
      BY <3>1 DEF Wit!Reads
  <2> QED
    BY <2>1, <1>1
<1> QED
  BY <1>3, <1>4, <1>5, <1>2

-----------------------------------------------------------------------------
(* Receipts on their way stay known                                        *)

(* Nothing that a witness knows or is being sent is forgotten.             *)
Remembers == \A w \in Witnesses : \A n, v : Wit!Sent(w, n, v) => Wit!Sent(w, n, v)'

LEMMA MoreIsSent ==
  ASSUME \A w \in Witnesses : Wit!ToSet(inbox[w]) \subseteq Wit!ToSet(inbox'[w]), UNCHANGED knows
  PROVE  Remembers
  BY DEF Remembers, Wit!Sent

(* What was sent of a task that does not change stays sent.                *)
LEMMA StaysSent ==
  ASSUME Wit!TypeOK, Wit!PropagatesAll, Remembers, UNCHANGED <<setting, task, finished>>,
         \A n \in 1..last : Wit!ToSet(wigs[n]) \subseteq Wit!ToSet(wigs'[n])
  PROVE  Wit!PropagatesAll'
<1> SUFFICES ASSUME setting.doer = "Receiptor" PROVE Wit!PropagatesAll'
  BY DEF Wit!PropagatesAll
<1>1. \A t \in finished : t.rcts \subseteq Witnesses
  BY DEF Wit!TypeOK
<1>2. (\A t \in finished : Wit!AllSent(t.n, t.rcts, t.rcts))'
  BY <1>1 DEF Wit!PropagatesAll, Remembers, Wit!AllSent
<1>3. task # Wit!NoTask => task.rcts \subseteq Witnesses /\ task.n \in 1..last
  BY DEF Wit!TypeOK, Wit!Tasks
<1>4. (task # Wit!NoTask => task.rcts \subseteq Wit!ToSet(wigs[task.n]))'
  BY <1>3 DEF Wit!PropagatesAll
<1>5. (task.step = "request" => Wit!ToSet(task.todo) \subseteq Wit!ToSet(Wit!Wits(task.n)))'
  BY DEF Wit!PropagatesAll, Wit!Wits, Wit!Event
<1>6. (task.step = "propagate" =>
         task.rcts \subseteq Wit!ToSet(task.got) /\ Wit!AllSent(task.n, task.rcts, task.rcts \ Wit!ToSet(task.todo)))'
  <2> SUFFICES ASSUME task.step = "propagate"
               PROVE  /\ task.rcts \subseteq Wit!ToSet(task.got)
                      /\ Wit!AllSent(task.n, task.rcts, task.rcts \ Wit!ToSet(task.todo))'
    OBVIOUS
  <2>1. task # Wit!NoTask
    BY DEF Wit!NoTask
  <2>2. task.rcts \subseteq Wit!ToSet(task.got) /\ Wit!AllSent(task.n, task.rcts, task.rcts \ Wit!ToSet(task.todo))
    BY DEF Wit!PropagatesAll
  <2>3. task.rcts \ Wit!ToSet(task.todo) \subseteq Witnesses
    BY <2>1, <1>3
  <2> QED
    BY <2>2, <2>3 DEF Remembers, Wit!AllSent
<1> QED
  BY <1>2, <1>4, <1>5, <1>6 DEF Wit!PropagatesAll

-----------------------------------------------------------------------------
(* The log and the witnesses                                               *)

LEMMA WitnessingInit == ASSUME Wit!WitnessingAssumption, Wit!Init PROVE Wit!WitnessingInv
<1>1. Len(setting.log) \in Nat /\ \A n \in DOMAIN setting.log : <<>> \in Seq(Witnesses)
  BY DEF Wit!WitnessingAssumption, Wit!Init
<1>2. wigs \in [DOMAIN setting.log -> Seq(Witnesses)] /\ \A n \in DOMAIN wigs : wigs[n] = <<>>
  BY <1>1 DEF Wit!Init
<1>3. Wit!ToSet(<<>>) = {} /\ Len(<<>>) = 0 /\ Wit!Cardinality({}) = 0
  BY FS_EmptySet, WitnessingOperators DEF Wit!ToSet
<1>4. Wit!TypeOK
  <2>1. queue \in Seq(1..last) /\ task \in Wit!Tasks \cup {Wit!NoTask} /\
            finished \subseteq [n : 1..last, rcts : SUBSET Witnesses]
    BY DEF Wit!Init
  <2>2. setting \in WitnessWorlds /\ last \in 0..Len(setting.log) /\ mail \subseteq (1..last) \X Witnesses
    BY <1>1 DEF Wit!Init
  <2>3. \A n \in DOMAIN wigs :
          Wit!ToSet(wigs[n]) \subseteq Wit!ToSet(Wit!Wits(n)) /\ Wit!Cardinality(Wit!ToSet(wigs[n])) = Len(wigs[n])
    BY <1>2, <1>3
  <2>4. inbox \in [Witnesses -> Seq(Wit!Item)] /\ knows \in [Witnesses -> SUBSET ((1..last) \X Witnesses)]
    BY DEF Wit!Init
  <2>5. /\ has \in [Witnesses -> 0..last] /\ late \in [Witnesses -> SUBSET (1..last)]
        /\ \A w \in Witnesses : late[w] \subseteq has[w] + 1..last
    BY DEF Wit!Init
  <2> QED
    BY <1>2, <2>1, <2>2, <2>3, <2>4, <2>5 DEF Wit!TypeOK
<1>5. Wit!PropagatesAll
  BY DEF Wit!PropagatesAll, Wit!Init, Wit!NoTask
<1> QED
  BY <1>4, <1>5 DEF Wit!WitnessingInv

LEMMA MakeWitnessedKeeps == ASSUME Wit!WitnessingAssumption, Wit!WitnessingInv, Wit!Make PROVE Wit!WitnessingInv'
<1>1. /\ Len(setting.log) \in Nat /\ last \in Nat /\ last' = last + 1 /\ last' \in 1..Len(setting.log)
      /\ 1..last \subseteq 1..last' /\ last' \in 1..last' /\ 0..last \subseteq 0..last'
      /\ Wit!TypeOK /\ Wit!PropagatesAll
  BY EventsKnown DEF Wit!WitnessingInv, Wit!Make
<1>2. Wit!Item \subseteq Wit!Item' /\ Seq(Wit!Item) \subseteq Seq(Wit!Item')
  <2>1. Wit!Item \subseteq Wit!Item'
    BY <1>1 DEF Wit!Item
  <2> QED
    BY <2>1, SeqMonotonic
<1>3. queue' \in Seq(1..last')
  <2>1. queue \in Seq(1..last')
    BY <1>1, SeqMonotonic DEF Wit!TypeOK
  <2> QED
    BY <1>1, <2>1 DEF Wit!Make
<1>4. Wit!Tasks \subseteq Wit!Tasks' /\
          [n : 1..last, rcts : SUBSET Witnesses] \subseteq [n : 1..last', rcts : SUBSET Witnesses]
  BY <1>1 DEF Wit!Tasks, Wit!Steps
<1>5. task' \in Wit!Tasks' \cup {Wit!NoTask} /\ finished' \subseteq [n : 1..last', rcts : SUBSET Witnesses]
  BY <1>4, <1>1 DEF Wit!TypeOK, Wit!Make
<1>6. /\ has' \in [Witnesses -> 0..last'] /\ late' \in [Witnesses -> SUBSET (1..last')]
      /\ \A w \in Witnesses : late'[w] \subseteq has'[w] + 1..last'
  <2>1. \A w \in Witnesses : has[w] \in 0..last /\ late[w] \subseteq has[w] + 1..last
    BY <1>1 DEF Wit!TypeOK
  <2>2. \A w \in Witnesses : has[w] + 1..last \subseteq has[w] + 1..last'
    BY <2>1, <1>1
  <2> QED
    BY <1>1, <2>1, <2>2 DEF Wit!TypeOK, Wit!Make, Wit!witness
<1>7. inbox' \in [Witnesses -> Seq(Wit!Item')] /\ knows' \in [Witnesses -> SUBSET ((1..last') \X Witnesses)]
  BY <1>1, <1>2 DEF Wit!TypeOK, Wit!Make, Wit!witness
<1>8. Wit!TypeOK'
  <2>1. setting' = setting /\ wigs' = wigs /\ mail' = mail
    BY DEF Wit!Make
  <2>2. setting' \in WitnessWorlds /\ last' \in 0..Len(setting'.log) /\ mail' \subseteq (1..last') \X Witnesses
    BY <1>1, <2>1 DEF Wit!TypeOK
  <2>3. /\ wigs' \in [DOMAIN setting'.log -> Seq(Witnesses)]
        /\ \A n \in DOMAIN wigs' :
             Wit!ToSet(wigs'[n]) \subseteq Wit!ToSet(Wit!Wits(n)') /\
                 Wit!Cardinality(Wit!ToSet(wigs'[n])) = Len(wigs'[n])
    BY <1>1, <2>1 DEF Wit!TypeOK, Wit!Wits, Wit!Event
  <2>4. Wit!NoTask' = Wit!NoTask
    BY DEF Wit!NoTask
  <2> QED
    BY <1>3, <1>5, <1>6, <1>7, <2>2, <2>3, <2>4 DEF Wit!TypeOK
<1>9. Remembers
  BY MoreIsSent DEF Wit!Make, Wit!witness
<1>10. Wit!PropagatesAll'
  BY <1>1, <1>9, StaysSent DEF Wit!Make
<1> QED
  BY <1>8, <1>10 DEF Wit!WitnessingInv

LEMMA ReadMailKeeps ==
  ASSUME Wit!WitnessingAssumption, Wit!WitnessingInv, NEW n, NEW w, Wit!ReadMail(n, w) PROVE Wit!WitnessingInv'
<1>1. Wit!TypeOK /\ Wit!PropagatesAll /\ n \in 1..last /\ w \in Witnesses /\ wigs' = Wit!Receipted(n, w) /\
          setting' = setting
  BY DEF Wit!WitnessingInv, Wit!TypeOK, Wit!ReadMail
<1>2. /\ wigs' \in [DOMAIN setting.log -> Seq(Witnesses)]
      /\ \A m \in DOMAIN wigs' :
           /\ Wit!ToSet(wigs'[m]) \subseteq Wit!ToSet(Wit!Wits(m)) /\
               Wit!Cardinality(Wit!ToSet(wigs'[m])) = Len(wigs'[m])
           /\ Wit!ToSet(wigs[m]) \subseteq Wit!ToSet(wigs'[m])
  BY <1>1, ReceiptIsHeld
<1>3. Wit!TypeOK'
  BY <1>1, <1>2 DEF Wit!TypeOK, Wit!ReadMail, Wit!doer, Wit!witness, Wit!Item, Wit!Tasks, Wit!Steps, Wit!Wits,
     Wit!Event
<1>4. Remembers
  BY MoreIsSent DEF Wit!ReadMail, Wit!witness
<1>5. \A m \in 1..last : m \in DOMAIN wigs'
  BY <1>1, <1>2, EventsKnown DEF Wit!TypeOK
<1>6. Wit!PropagatesAll'
  BY <1>1, <1>2, <1>4, <1>5, StaysSent DEF Wit!ReadMail, Wit!doer
<1> QED
  BY <1>3, <1>6 DEF Wit!WitnessingInv

(* A witness answers what it accepted.                                     *)
LEMMA Responded ==
  ASSUME Wit!WitnessingAssumption, Wit!TypeOK, NEW w \in Witnesses, NEW n \in 1..last, mail' = Wit!Responds(w, n)
  PROVE  mail' \subseteq (1..last) \X Witnesses
  BY DEF Wit!Responds, Wit!TypeOK

LEMMA ParseNextKeeps ==
  ASSUME Wit!WitnessingAssumption, Wit!WitnessingInv, NEW w \in Witnesses, Wit!ParseNext(w) PROVE Wit!WitnessingInv'
<1> DEFINE i == Head(inbox[w])
<1>1. Wit!TypeOK /\ Wit!PropagatesAll /\ inbox[w] \in Seq(Wit!Item) /\ inbox[w] # <<>> /\ last \in Nat
  BY EventsKnown DEF Wit!WitnessingInv, Wit!TypeOK, Wit!ParseNext
<1>2. Tail(inbox[w]) \in Seq(Wit!Item) /\ i \in Wit!Item /\ Wit!ToSet(inbox[w]) = {i} \cup Wit!ToSet(Tail(inbox[w]))
  BY <1>1, HeadAndRest, WitnessingOperators
<1>3. inbox' \in [Witnesses -> Seq(Wit!Item)] /\ inbox'[w] = Tail(inbox[w]) /\
          \A v \in Witnesses \ {w} : inbox'[v] = inbox[v]
  BY <1>1, <1>2 DEF Wit!ParseNext, Wit!TypeOK
<1>4. UNCHANGED <<setting, last, Wit!doer, wigs>>
  BY DEF Wit!ParseNext
<1>5. i.n \in 1..last /\ i.from \subseteq Witnesses
  BY <1>2 DEF Wit!Item
<1> HIDE DEF i
<1>6. CASE i.from = {}
  <2>1. Wit!Reads(w, i.n) /\ mail' = Wit!Responds(w, i.n) /\ UNCHANGED knows
    BY <1>6 DEF Wit!ParseNext, i
  <2>2. /\ has' \in [Witnesses -> 0..last] /\ late' \in [Witnesses -> SUBSET (1..last)]
        /\ \A v \in Witnesses : late'[v] \subseteq has'[v] + 1..last
    BY <2>1, <1>1, <1>5, WitnessReads
  <2>3. mail' \subseteq (1..last) \X Witnesses
    BY <2>1, <1>1, <1>5, Responded
  <2>4. Wit!TypeOK'
    BY <1>1, <1>3, <1>4, <2>1, <2>2, <2>3
       DEF Wit!TypeOK, Wit!doer, Wit!Item, Wit!Tasks, Wit!Steps, Wit!Wits, Wit!Event
  <2>5. Remembers
    BY <1>2, <1>3, <1>6, <2>1 DEF Remembers, Wit!Sent
  <2>6. Wit!PropagatesAll'
    BY <1>1, <1>4, <2>5, StaysSent DEF Wit!doer
  <2> QED
    BY <2>4, <2>6 DEF Wit!WitnessingInv
<1>7. CASE i.from # {}
  <2>1. knows' = [knows EXCEPT ![w] = knows[w] \cup {<<i.n, v>> : v \in i.from}] /\ UNCHANGED <<has, late, mail>>
    BY <1>7 DEF Wit!ParseNext, i
  <2>2. {<<i.n, v>> : v \in i.from} \subseteq (1..last) \X Witnesses
    BY <1>5
  <2>3. /\ knows' \in [Witnesses -> SUBSET ((1..last) \X Witnesses)]
        /\ knows'[w] = knows[w] \cup {<<i.n, v>> : v \in i.from}
        /\ \A v \in Witnesses \ {w} : knows'[v] = knows[v]
    BY <2>1, <2>2, <1>1 DEF Wit!TypeOK
  <2>4. Wit!TypeOK'
    BY <1>1, <1>3, <1>4, <2>1, <2>3 DEF Wit!TypeOK, Wit!doer, Wit!Item, Wit!Tasks, Wit!Steps, Wit!Wits, Wit!Event
  <2>5. Remembers
    BY <1>2, <1>3, <2>3 DEF Remembers, Wit!Sent
  <2>6. Wit!PropagatesAll'
    BY <1>1, <1>4, <2>5, StaysSent DEF Wit!doer
  <2> QED
    BY <2>4, <2>6 DEF Wit!WitnessingInv
<1> QED
  BY <1>6, <1>7

LEMMA UnescrowKeeps ==
  ASSUME Wit!WitnessingAssumption, Wit!WitnessingInv, NEW w \in Witnesses, Wit!Unescrow(w) PROVE Wit!WitnessingInv'
<1> DEFINE n == has[w] + 1
<1>1. Wit!TypeOK /\ Wit!PropagatesAll /\ last \in Nat /\ n \in late[w] /\ has[w] \in 0..last
      /\ late[w] \subseteq 1..last
  BY EventsKnown DEF Wit!WitnessingInv, Wit!TypeOK, Wit!Unescrow
<1>2. late' = [late EXCEPT ![w] = late[w] \ {n}] /\ has' = [has EXCEPT ![w] = n] /\ mail' = Wit!Responds(w, n)
      /\ UNCHANGED <<setting, last, Wit!doer, wigs, inbox, knows>>
  BY DEF Wit!Unescrow
<1>3. late[w] \ {n} \subseteq n + 1..last
  BY <1>1 DEF Wit!TypeOK
<1>4. n \in 1..last
  BY <1>1
<1> HIDE DEF n
<1>5. /\ has' \in [Witnesses -> 0..last] /\ late' \in [Witnesses -> SUBSET (1..last)]
      /\ \A v \in Witnesses : late'[v] \subseteq has'[v] + 1..last
  <2>1. n \in 0..last /\ late[w] \ {n} \subseteq 1..last
    BY <1>1, <1>4
  <2> QED
    BY <2>1, <1>1, <1>2, <1>3 DEF Wit!TypeOK
<1>6. mail' \subseteq (1..last) \X Witnesses
  BY <1>1, <1>2, <1>4, Responded
<1>7. Wit!TypeOK'
  BY <1>1, <1>2, <1>5, <1>6 DEF Wit!TypeOK, Wit!doer, Wit!Item, Wit!Tasks, Wit!Steps, Wit!Wits, Wit!Event
<1>8. Remembers
  BY <1>2, MoreIsSent
<1>9. Wit!PropagatesAll'
  BY <1>1, <1>2, <1>8, StaysSent DEF Wit!doer
<1> QED
  BY <1>7, <1>9 DEF Wit!WitnessingInv

-----------------------------------------------------------------------------
(* The doers                                                               *)

(* What a step of a doer that receives nothing leaves to be shown.         *)
LEMMA DoerTyped ==
  ASSUME Wit!TypeOK, UNCHANGED <<setting, last, wigs, has, late, knows, mail>>,
         queue' \in Seq(1..last), task' \in Wit!Tasks \cup {Wit!NoTask},
         finished' \subseteq [n : 1..last, rcts : SUBSET Witnesses], inbox' \in [Witnesses -> Seq(Wit!Item)]
  PROVE  Wit!TypeOK'
  BY DEF Wit!TypeOK, Wit!Item, Wit!Tasks, Wit!Steps, Wit!Wits, Wit!Event, Wit!NoTask

LEMMA TaskUnderWay ==
  ASSUME Wit!TypeOK, task.step \in Wit!Steps
  PROVE  /\ task \in Wit!Tasks /\ task # Wit!NoTask /\ task.n \in 1..last /\ task.todo \in Seq(Witnesses)
         /\ task.rcts \subseteq Witnesses /\ task.got \in Seq(Witnesses)
<1>1. Wit!NoTask.step \notin Wit!Steps
  BY DEF Wit!NoTask, Wit!Steps
<1> QED
  BY <1>1 DEF Wit!TypeOK, Wit!Tasks

LEMMA FirstInQueue ==
  ASSUME Wit!TypeOK, queue # <<>> PROVE Head(queue) \in 1..last /\ Tail(queue) \in Seq(1..last)
  BY HeadAndRest, WitnessingOperators DEF Wit!TypeOK

(* The exchanges of events that are done stay so.                          *)
LEMMA FinishedSent ==
  ASSUME Wit!TypeOK, Wit!PropagatesAll, Remembers, setting.doer = "Receiptor"
  PROVE  \A t \in finished : Wit!AllSent(t.n, t.rcts, t.rcts)'
<1>1. \A t \in finished : t.rcts \subseteq Witnesses
  BY DEF Wit!TypeOK
<1> QED
  BY <1>1 DEF Wit!PropagatesAll, Remembers, Wit!AllSent

LEMMA StartReceiptorKeeps ==
  ASSUME Wit!WitnessingAssumption, Wit!WitnessingInv, Wit!StartReceiptor PROVE Wit!WitnessingInv'
<1> DEFINE n == Head(queue)
           todo == IF Wit!Event(n).ilk = "rot" THEN Wit!SetToSeq(Wit!Event(n).adds) ELSE <<>>
<1>1. Wit!TypeOK /\ Wit!PropagatesAll /\ n \in 1..last /\ queue' = Tail(queue) /\ queue' \in Seq(1..last)
      /\ setting.doer = "Receiptor" /\ UNCHANGED <<setting, last, failed, wigs, Wit!witness, mail>>
  BY FirstInQueue DEF Wit!WitnessingInv, Wit!StartReceiptor, Wit!Sync
<1>2. IF Wit!Wits(n) = <<>>
      THEN finished' = finished \cup {[n |-> n, rcts |-> {}]} /\ task' = Wit!NoTask
      ELSE task' = Wit!Task(n, "catchup", todo) /\ finished' = finished
  BY DEF Wit!StartReceiptor
<1>3. todo \in Seq(Witnesses)
  <2>1. Wit!Event(n).adds \subseteq Witnesses /\ Wit!IsFiniteSet(Wit!Event(n).adds)
    BY <1>1, EventsKnown
  <2>2. Wit!SetToSeq(Wit!Event(n).adds) \in Seq(Wit!Event(n).adds)
    BY <2>1, InSomeOrder, WitnessingOperators
  <2>3. Wit!SetToSeq(Wit!Event(n).adds) \in Seq(Witnesses)
    BY <2>1, <2>2, SeqMonotonic
  <2> QED
    BY <2>3
<1> HIDE DEF n, todo
<1>4. Remembers
  BY <1>1, MoreIsSent DEF Wit!witness
<1>5. \A t \in finished : Wit!AllSent(t.n, t.rcts, t.rcts)'
  BY <1>1, <1>4, FinishedSent
<1>6. CASE Wit!Wits(n) = <<>>
  <2>1. finished' = finished \cup {[n |-> n, rcts |-> {}]} /\ task' = Wit!NoTask
    BY <1>2, <1>6
  <2>2. Wit!TypeOK'
    <3>1. [n |-> n, rcts |-> {}] \in [n : 1..last, rcts : SUBSET Witnesses]
      BY <1>1
    <3>2. /\ finished' \subseteq [n : 1..last, rcts : SUBSET Witnesses]
          /\ inbox' \in [Witnesses -> Seq(Wit!Item)]
      BY <3>1, <2>1, <1>1 DEF Wit!witness, Wit!TypeOK
    <3> QED
      BY <1>1, <2>1, <3>2, DoerTyped DEF Wit!witness
  <2>3. \A t : t = [n |-> n, rcts |-> {}] => Wit!AllSent(t.n, t.rcts, t.rcts)'
    BY DEF Wit!AllSent
  <2>4. (\A t \in finished : Wit!AllSent(t.n, t.rcts, t.rcts))'
    BY <2>1, <2>3, <1>5
  <2>5. Wit!PropagatesAll'
    BY <2>1, <2>4 DEF Wit!PropagatesAll, Wit!NoTask
  <2> QED
    BY <2>2, <2>5 DEF Wit!WitnessingInv
<1>7. CASE Wit!Wits(n) # <<>>
  <2>1. task' = Wit!Task(n, "catchup", todo) /\ finished' = finished
    BY <1>2, <1>7
  <2>2. task' \in Wit!Tasks /\ task'.rcts = {} /\ task'.step = "catchup"
    BY <2>1, <1>1, <1>3 DEF Wit!Task, Wit!Tasks, Wit!Steps
  <2>3. Wit!TypeOK'
    BY <1>1, <2>1, <2>2, DoerTyped DEF Wit!witness, Wit!TypeOK
  <2>4. (\A t \in finished : Wit!AllSent(t.n, t.rcts, t.rcts))'
    BY <2>1, <1>5
  <2>5. Wit!PropagatesAll'
    BY <2>2, <2>4 DEF Wit!PropagatesAll
  <2> QED
    BY <2>3, <2>5 DEF Wit!WitnessingInv
<1> QED
  BY <1>6, <1>7

LEMMA CatchupKeeps == ASSUME Wit!WitnessingAssumption, Wit!WitnessingInv, Wit!catchup PROVE Wit!WitnessingInv'
<1>1. Wit!TypeOK /\ Wit!PropagatesAll /\ last \in Nat /\ setting.doer = "Receiptor" /\ task.step = "catchup" /\
          task.todo # <<>>
      /\ UNCHANGED <<setting, last, queue, finished, wigs, has, late, knows, mail>>
  BY EventsKnown DEF Wit!WitnessingInv, Wit!catchup, Wit!Sync
<1>2. task \in Wit!Tasks /\ task.todo \in Seq(Witnesses)
  BY <1>1, TaskUnderWay DEF Wit!Steps
<1>3. Head(task.todo) \in Witnesses /\ Tail(task.todo) \in Seq(Witnesses)
  BY <1>1, <1>2, HeadAndRest, WitnessingOperators
<1>4. inbox' \in [Witnesses -> Seq(Wit!Item)] /\
          \A v \in Witnesses : Wit!ToSet(inbox[v]) \subseteq Wit!ToSet(inbox'[v])
  <2>1. CASE Wit!Stream(Head(task.todo), Wit!Log)
    BY <1>1, <1>3, <2>1, LogIsSent, StreamAdds
  <2>2. CASE inbox' = inbox
    BY <1>1, <2>2 DEF Wit!TypeOK
  <2> QED
    BY <2>1, <2>2 DEF Wit!catchup
<1>5. task' = task \/ task' = [task EXCEPT !.todo = Tail(task.todo)]
  BY DEF Wit!catchup
<1>6. task' \in Wit!Tasks /\ task'.step = "catchup" /\ task'.rcts = task.rcts /\ task'.n = task.n /\ task # Wit!NoTask
  <2>1. CASE task' = task
    BY <2>1, <1>1, <1>2, TaskUnderWay DEF Wit!Steps
  <2>2. CASE task' = [task EXCEPT !.todo = Tail(task.todo)]
    BY <2>2, <1>1, <1>2, <1>3, TaskUnderWay DEF Wit!Tasks, Wit!Steps
  <2> QED
    BY <2>1, <2>2, <1>5
<1>7. Wit!TypeOK'
  BY <1>1, <1>4, <1>6, DoerTyped DEF Wit!TypeOK
<1>8. Remembers
  BY <1>1, <1>4, MoreIsSent
<1>9. (\A t \in finished : Wit!AllSent(t.n, t.rcts, t.rcts))'
  BY <1>1, <1>8, FinishedSent
<1>10. Wit!PropagatesAll'
  BY <1>1, <1>6, <1>9 DEF Wit!PropagatesAll
<1> QED
  BY <1>7, <1>10 DEF Wit!WitnessingInv

LEMMA StartRequestsKeeps == ASSUME Wit!WitnessingAssumption, Wit!WitnessingInv, Wit!StartRequests
  PROVE Wit!WitnessingInv'
<1>1. Wit!TypeOK /\ Wit!PropagatesAll /\ setting.doer = "Receiptor" /\ task.step = "catchup"
      /\ task' = [task EXCEPT !.step = "request", !.todo = Wit!Wits(task.n)]
      /\ UNCHANGED <<setting, last, queue, finished, failed, wigs, Wit!witness, mail>>
  BY DEF Wit!WitnessingInv, Wit!StartRequests, Wit!Sync
<1>2. task \in Wit!Tasks /\ task # Wit!NoTask /\ task.n \in 1..last
  BY <1>1, TaskUnderWay DEF Wit!Steps
<1>3. Wit!Wits(task.n) \in Seq(Witnesses)
  BY <1>1, <1>2, EventsKnown
<1>4. /\ task' \in Wit!Tasks /\ task'.step = "request" /\ task'.rcts = task.rcts /\ task'.n = task.n
      /\ task'.todo = Wit!Wits(task.n)
  BY <1>1, <1>2, <1>3 DEF Wit!Tasks, Wit!Steps
<1>5. Wit!TypeOK'
  BY <1>1, <1>4, DoerTyped DEF Wit!TypeOK, Wit!witness
<1>6. (\A t \in finished : Wit!AllSent(t.n, t.rcts, t.rcts))'
  BY <1>1, MoreIsSent, FinishedSent DEF Wit!witness
<1>7. Wit!PropagatesAll'
  BY <1>1, <1>2, <1>4, <1>6 DEF Wit!PropagatesAll, Wit!Wits, Wit!Event
<1> QED
  BY <1>5, <1>7 DEF Wit!WitnessingInv

LEMMA RequestReceiptKeeps == ASSUME Wit!WitnessingAssumption, Wit!WitnessingInv, Wit!RequestReceipt
  PROVE Wit!WitnessingInv'
<1> DEFINE w == Head(task.todo)
           n == task.n
<1>1. Wit!TypeOK /\ Wit!PropagatesAll /\ last \in Nat /\ setting.doer = "Receiptor" /\ task.step = "request" /\
          task.todo # <<>>
      /\ UNCHANGED <<setting, last, queue, finished, failed, inbox, knows, mail>>
  BY EventsKnown DEF Wit!WitnessingInv, Wit!RequestReceipt, Wit!Sync
<1>2. task \in Wit!Tasks /\ task # Wit!NoTask /\ n \in 1..last /\ task.todo \in Seq(Witnesses) /\
          task.rcts \subseteq Witnesses
  BY <1>1, TaskUnderWay DEF Wit!Steps
<1>3. w \in Witnesses /\ Tail(task.todo) \in Seq(Witnesses) /\
          Wit!ToSet(task.todo) = {w} \cup Wit!ToSet(Tail(task.todo))
  BY <1>1, <1>2, HeadAndRest, WitnessingOperators
<1>4. task.rcts \subseteq Wit!ToSet(wigs[n]) /\ Wit!ToSet(task.todo) \subseteq Wit!ToSet(Wit!Wits(n))
  BY <1>1, <1>2 DEF Wit!PropagatesAll
<1>5. /\ has' \in [Witnesses -> 0..last] /\ late' \in [Witnesses -> SUBSET (1..last)]
      /\ \A v \in Witnesses : late'[v] \subseteq has'[v] + 1..last
  <2>1. CASE Wit!Reads(w, n)
    BY <1>1, <1>2, <1>3, <2>1, WitnessReads
  <2>2. CASE UNCHANGED <<has, late>>
    BY <1>1, <2>2 DEF Wit!TypeOK
  <2> QED
    BY <2>1, <2>2 DEF Wit!RequestReceipt
<1>6. \/ wigs' = Wit!Receipted(n, w) /\ task' = [task EXCEPT !.todo = Tail(task.todo), !.rcts = task.rcts \cup {w}]
      \/ wigs' = wigs /\ task' = [task EXCEPT !.todo = Tail(task.todo)]
  <2>1. CASE w \in setting.known /\ Wit!Answers(w)
    BY <2>1 DEF Wit!RequestReceipt
  <2>2. CASE w \in setting.known /\ ~Wit!Answers(w)
    <3>1. task' = [task EXCEPT !.todo = Tail(task.todo), !.rcts = task.rcts] /\ wigs' = wigs
      BY <2>2 DEF Wit!RequestReceipt
    <3> QED
      BY <3>1, <1>2 DEF Wit!Tasks
  <2>3. CASE w \notin setting.known
    BY <2>3 DEF Wit!RequestReceipt
  <2> QED
    BY <2>1, <2>2, <2>3
<1> HIDE DEF w, n
<1>7. /\ wigs' \in [DOMAIN setting.log -> Seq(Witnesses)]
      /\ \A m \in DOMAIN wigs' :
           /\ Wit!ToSet(wigs'[m]) \subseteq Wit!ToSet(Wit!Wits(m)) /\
               Wit!Cardinality(Wit!ToSet(wigs'[m])) = Len(wigs'[m])
           /\ Wit!ToSet(wigs[m]) \subseteq Wit!ToSet(wigs'[m])
      /\ task'.rcts \subseteq Wit!ToSet(wigs'[n]) /\ task'.rcts \subseteq Witnesses
      /\ task'.todo = Tail(task.todo) /\ task'.n = n /\ task'.step = "request" /\ task' \in Wit!Tasks
  <2>0. n = task.n /\ n \in DOMAIN wigs
    BY <1>1, <1>2, EventsKnown DEF n
  <2>1. CASE wigs' = Wit!Receipted(n, w) /\
            task' = [task EXCEPT !.todo = Tail(task.todo), !.rcts = task.rcts \cup {w}]
    <3>1. /\ wigs' \in [DOMAIN setting.log -> Seq(Witnesses)]
          /\ \A m \in DOMAIN wigs' :
               /\ Wit!ToSet(wigs'[m]) \subseteq Wit!ToSet(Wit!Wits(m)) /\
                   Wit!Cardinality(Wit!ToSet(wigs'[m])) = Len(wigs'[m])
               /\ Wit!ToSet(wigs[m]) \subseteq Wit!ToSet(wigs'[m])
          /\ w \in Wit!ToSet(wigs'[n])
      BY <1>1, <1>2, <1>3, <1>4, <2>1, ReceiptIsHeld
    <3>2. n \in DOMAIN wigs'
      BY <3>1, <2>0 DEF Wit!TypeOK, Wit!WitnessingInv
    <3>3. /\ task'.rcts = task.rcts \cup {w} /\ task'.todo = Tail(task.todo) /\ task'.n = task.n
          /\ task'.step = "request" /\ task' \in Wit!Tasks
      BY <2>1, <1>1, <1>2, <1>3 DEF Wit!Tasks
    <3> QED
      BY <3>1, <3>2, <3>3, <1>2, <1>3, <1>4, <2>0
  <2>2. CASE wigs' = wigs /\ task' = [task EXCEPT !.todo = Tail(task.todo)]
    <3>1. /\ task'.rcts = task.rcts /\ task'.todo = Tail(task.todo) /\ task'.n = task.n
          /\ task'.step = "request" /\ task' \in Wit!Tasks
      BY <2>2, <1>1, <1>2, <1>3 DEF Wit!Tasks
    <3> QED
      BY <3>1, <2>2, <1>1, <1>2, <1>4, <2>0 DEF Wit!TypeOK
  <2> QED
    BY <2>1, <2>2, <1>6
<1>8. Wit!TypeOK'
  BY <1>1, <1>5, <1>7 DEF Wit!TypeOK, Wit!Item, Wit!Tasks, Wit!Steps, Wit!Wits, Wit!Event
<1>9. (\A t \in finished : Wit!AllSent(t.n, t.rcts, t.rcts))'
  BY <1>1, MoreIsSent, FinishedSent
<1>10. Wit!PropagatesAll'
  <2>1. Wit!ToSet(task'.todo) \subseteq Wit!ToSet(Wit!Wits(n))
    BY <1>3, <1>4, <1>7
  <2> QED
    BY <2>1, <1>1, <1>7, <1>9 DEF Wit!PropagatesAll, Wit!Wits, Wit!Event
<1> QED
  BY <1>8, <1>10 DEF Wit!WitnessingInv

LEMMA StartPropagationKeeps ==
  ASSUME Wit!WitnessingAssumption, Wit!WitnessingInv, Wit!StartPropagation PROVE Wit!WitnessingInv'
<1>1. Wit!TypeOK /\ Wit!PropagatesAll /\ setting.doer = "Receiptor" /\ task.step = "request"
      /\ task' = [task EXCEPT !.step = "propagate", !.todo = Wit!SetToSeq(task.rcts), !.got = wigs[task.n]]
      /\ UNCHANGED <<setting, last, queue, finished, failed, wigs, Wit!witness, mail>>
  BY DEF Wit!WitnessingInv, Wit!StartPropagation, Wit!Sync
<1>2. task \in Wit!Tasks /\ task # Wit!NoTask /\ task.n \in 1..last /\ task.rcts \subseteq Witnesses
  BY <1>1, TaskUnderWay DEF Wit!Steps
<1>3. Wit!IsFiniteSet(task.rcts)
  BY <1>2, FS_Subset, WitnessingOperators DEF Wit!WitnessingAssumption
<1>4. Wit!SetToSeq(task.rcts) \in Seq(Witnesses) /\ Wit!ToSet(Wit!SetToSeq(task.rcts)) = task.rcts
  <2>1. Wit!SetToSeq(task.rcts) \in Seq(task.rcts) /\ Wit!ToSet(Wit!SetToSeq(task.rcts)) = task.rcts
    BY <1>3, InSomeOrder, WitnessingOperators
  <2> QED
    BY <2>1, <1>2, SeqMonotonic
<1>5. wigs[task.n] \in Seq(Witnesses)
  BY <1>1, <1>2, EventsKnown DEF Wit!TypeOK
<1>6. /\ task' \in Wit!Tasks /\ task'.step = "propagate" /\ task'.rcts = task.rcts /\ task'.n = task.n
      /\ task'.got = wigs[task.n] /\ Wit!ToSet(task'.todo) = task.rcts
  BY <1>1, <1>2, <1>4, <1>5 DEF Wit!Tasks, Wit!Steps
<1>7. Wit!TypeOK'
  BY <1>1, <1>6, DoerTyped DEF Wit!TypeOK, Wit!witness
<1>8. (\A t \in finished : Wit!AllSent(t.n, t.rcts, t.rcts))'
  BY <1>1, MoreIsSent, FinishedSent DEF Wit!witness
<1>9. task.rcts \subseteq Wit!ToSet(wigs[task.n])
  BY <1>1, <1>2 DEF Wit!PropagatesAll
<1>10. Wit!AllSent(task.n, task.rcts, task.rcts \ Wit!ToSet(task.todo))'
  BY <1>6 DEF Wit!AllSent
<1>11. Wit!PropagatesAll'
  BY <1>1, <1>6, <1>8, <1>9, <1>10 DEF Wit!PropagatesAll
<1> QED
  BY <1>7, <1>11 DEF Wit!WitnessingInv

LEMMA PropagateKeeps == ASSUME Wit!WitnessingAssumption, Wit!WitnessingInv, Wit!Propagate PROVE Wit!WitnessingInv'
<1> DEFINE w == Head(task.todo)
           n == task.n
           item == Wit!ReceiptsItem(n, Wit!Propagated(w))
<1>1. Wit!TypeOK /\ Wit!PropagatesAll /\ setting.doer = "Receiptor" /\ task.step = "propagate" /\ task.todo # <<>>
      /\ task' = [task EXCEPT !.todo = Tail(task.todo)]
      /\ UNCHANGED <<setting, last, queue, finished, failed, wigs, has, late, knows, mail>>
  BY DEF Wit!WitnessingInv, Wit!Propagate, Wit!Sync
<1>2. /\ task \in Wit!Tasks /\ task # Wit!NoTask /\ n \in 1..last /\ task.todo \in Seq(Witnesses)
      /\ task.rcts \subseteq Witnesses /\ task.got \in Seq(Witnesses)
  BY <1>1, TaskUnderWay DEF Wit!Steps
<1>3. w \in Witnesses /\ Tail(task.todo) \in Seq(Witnesses) /\
          Wit!ToSet(task.todo) = {w} \cup Wit!ToSet(Tail(task.todo))
  BY <1>1, <1>2, HeadAndRest, WitnessingOperators
<1>4. Wit!Propagated(w) = Wit!ToSet(task.got) \ {w} /\ item.n = n /\ item.from = Wit!Propagated(w) /\
          item \in Wit!Item
      /\ <<item>> \in Seq(Wit!Item) /\ item \in Wit!ToSet(<<item>>)
  <2>1. Wit!ToSet(task.got) \subseteq Witnesses
    BY <1>2, ToSetIn, WitnessingOperators
  <2>2. item \in Wit!Item
    BY <1>2, <2>1 DEF Wit!ReceiptsItem, Wit!Propagated, Wit!Item
  <2>3. 1 \in DOMAIN <<item>> /\ <<item>>[1] = item
    OBVIOUS
  <2> QED
    BY <2>2, <2>3 DEF Wit!ReceiptsItem, Wit!Propagated, Wit!ToSet
<1>5. IF Wit!Propagated(w) = {} THEN inbox' = inbox ELSE Wit!Stream(w, <<item>>)
  BY DEF Wit!Propagate
<1>6. task' \in Wit!Tasks /\ task'.step = "propagate" /\ task'.rcts = task.rcts /\ task'.n = n
      /\ task'.got = task.got /\ task'.todo = Tail(task.todo)
  BY <1>1, <1>2, <1>3 DEF Wit!Tasks
<1> HIDE DEF w, n, item
<1>7. /\ inbox' \in [Witnesses -> Seq(Wit!Item)] /\
          \A v \in Witnesses : Wit!ToSet(inbox[v]) \subseteq Wit!ToSet(inbox'[v])
      /\ Wit!Propagated(w) # {} => item \in Wit!ToSet(inbox'[w])
  <2>1. CASE Wit!Propagated(w) = {}
    BY <2>1, <1>1, <1>5 DEF Wit!TypeOK
  <2>2. CASE Wit!Propagated(w) # {}
    BY <2>2, <1>1, <1>3, <1>4, <1>5, StreamAdds
  <2> QED
    BY <2>1, <2>2
<1>8. Wit!TypeOK'
  BY <1>1, <1>6, <1>7, DoerTyped DEF Wit!TypeOK
<1>9. Remembers
  BY <1>1, <1>7, MoreIsSent
<1>10. (\A t \in finished : Wit!AllSent(t.n, t.rcts, t.rcts))'
  BY <1>1, <1>9, FinishedSent
<1>11. task.rcts \subseteq Wit!ToSet(task.got) /\ Wit!AllSent(n, task.rcts, task.rcts \ Wit!ToSet(task.todo))
  BY <1>1 DEF Wit!PropagatesAll, n
<1>12. ASSUME NEW u \in task.rcts \ Wit!ToSet(Tail(task.todo)), NEW v \in task.rcts \ {u}
       PROVE  Wit!Sent(u, n, v)'
  <2>1. CASE u \notin Wit!ToSet(task.todo)
    <3>1. Wit!Sent(u, n, v)
      BY <2>1, <1>11 DEF Wit!AllSent
    <3>2. <<n, v>> \in knows'[u] \/ \E i \in Wit!ToSet(inbox'[u]) : i.n = n /\ v \in i.from
      BY <3>1, <1>2, <1>9 DEF Remembers, Wit!Sent
    <3>3. n' = n
      BY <1>6 DEF n
    <3> QED
      BY <3>2, <3>3 DEF Wit!Sent
  <2>2. CASE u \in Wit!ToSet(task.todo)
    <3>1. u = w /\ v \in Wit!Propagated(w)
      BY <2>2, <1>3, <1>4, <1>11
    <3>2. item \in Wit!ToSet(inbox'[u]) /\ item.n = n /\ v \in item.from
      BY <3>1, <1>4, <1>7
    <3>3. n' = n
      BY <1>6 DEF n
    <3> QED
      BY <3>2, <3>3 DEF Wit!Sent
  <2> QED
    BY <2>1, <2>2
<1>13. Wit!AllSent(task.n, task.rcts, task.rcts \ Wit!ToSet(task.todo))'
  <2>1. task'.n = n /\ n' = n
    BY <1>6 DEF n
  <2> QED
    BY <2>1, <1>6, <1>12 DEF Wit!AllSent, Wit!Sent
<1>14. task.rcts \subseteq Wit!ToSet(wigs[task.n])
  BY <1>1, <1>2 DEF Wit!PropagatesAll
<1>15. Wit!PropagatesAll'
  BY <1>1, <1>6, <1>10, <1>11, <1>13, <1>14 DEF Wit!PropagatesAll, n
<1> QED
  BY <1>8, <1>15 DEF Wit!WitnessingInv

LEMMA FinishKeeps == ASSUME Wit!WitnessingAssumption, Wit!WitnessingInv, Wit!Finish PROVE Wit!WitnessingInv'
<1> DEFINE done == [n |-> task.n, rcts |-> task.rcts]
<1>1. Wit!TypeOK /\ Wit!PropagatesAll /\ setting.doer = "Receiptor" /\ task.step = "propagate" /\ task.todo = <<>>
      /\ finished' = finished \cup {done} /\ task' = Wit!NoTask
      /\ UNCHANGED <<setting, last, queue, failed, wigs, Wit!witness, mail>>
  BY DEF Wit!WitnessingInv, Wit!Finish, Wit!Sync
<1>2. task \in Wit!Tasks /\ task.n \in 1..last /\ task.rcts \subseteq Witnesses
  BY <1>1, TaskUnderWay DEF Wit!Steps
<1>3. done \in [n : 1..last, rcts : SUBSET Witnesses] /\ done.n = task.n /\ done.rcts = task.rcts
  BY <1>2
<1> HIDE DEF done
<1>4. Wit!TypeOK'
  <2>1. finished' \subseteq [n : 1..last, rcts : SUBSET Witnesses] /\ inbox' \in [Witnesses -> Seq(Wit!Item)]
    BY <1>1, <1>3 DEF Wit!TypeOK, Wit!witness
  <2> QED
    BY <1>1, <2>1, DoerTyped DEF Wit!TypeOK, Wit!witness
<1>5. Remembers
  BY <1>1, MoreIsSent DEF Wit!witness
<1>6. \A t \in finished : Wit!AllSent(t.n, t.rcts, t.rcts)'
  BY <1>1, <1>5, FinishedSent
<1>7. Wit!ToSet(task.todo) = {}
  BY <1>1 DEF Wit!ToSet
<1>8. Wit!AllSent(task.n, task.rcts, task.rcts)
  BY <1>1, <1>7 DEF Wit!PropagatesAll, Wit!AllSent
<1>9. \A t : t = done => Wit!AllSent(t.n, t.rcts, t.rcts)'
  BY <1>2, <1>3, <1>5, <1>8 DEF Wit!AllSent, Remembers
<1>10. (\A t \in finished : Wit!AllSent(t.n, t.rcts, t.rcts))'
  BY <1>1, <1>6, <1>9
<1>11. Wit!PropagatesAll'
  BY <1>1, <1>10 DEF Wit!PropagatesAll, Wit!NoTask
<1> QED
  BY <1>4, <1>11 DEF Wit!WitnessingInv

-----------------------------------------------------------------------------
(* The WitnessReceiptor                                                    *)

LEMMA StartWitnessReceiptorKeeps ==
  ASSUME Wit!WitnessingAssumption, Wit!WitnessingInv, Wit!StartWitnessReceiptor PROVE Wit!WitnessingInv'
<1> DEFINE n == Head(queue)
<1>1. Wit!TypeOK /\ n \in 1..last /\ queue' = Tail(queue) /\ queue' \in Seq(1..last) /\ task = Wit!NoTask
      /\ setting.doer = "WitnessReceiptor" /\ UNCHANGED <<setting, last, failed, wigs, Wit!witness, mail>>
  BY FirstInQueue DEF Wit!WitnessingInv, Wit!StartWitnessReceiptor, Wit!Async
<1>2. \/ UNCHANGED <<task, finished>>
      \/ finished' = finished \cup {[n |-> n, rcts |-> {}]} /\ UNCHANGED task
      \/ task' = Wit!Task(n, "send", Wit!Latest) /\ UNCHANGED finished
  BY DEF Wit!StartWitnessReceiptor
<1> HIDE DEF n
<1>3. Wit!Latest \in Seq(Witnesses)
  <2>1. last \in 1..last
    BY <1>1, EventsKnown
  <2> QED
    BY <1>1, <2>1, EventsKnown DEF Wit!Latest
<1>4. Wit!Task(n, "send", Wit!Latest) \in Wit!Tasks /\
          [n |-> n, rcts |-> {}] \in [n : 1..last, rcts : SUBSET Witnesses]
  BY <1>1, <1>3 DEF Wit!Task, Wit!Tasks, Wit!Steps
<1>5. task' \in Wit!Tasks \cup {Wit!NoTask} /\ finished' \subseteq [n : 1..last, rcts : SUBSET Witnesses]
      /\ inbox' \in [Witnesses -> Seq(Wit!Item)]
  BY <1>1, <1>2, <1>4 DEF Wit!TypeOK, Wit!witness
<1>6. Wit!TypeOK'
  BY <1>1, <1>5, DoerTyped DEF Wit!witness
<1>7. Wit!PropagatesAll'
  BY <1>1 DEF Wit!PropagatesAll
<1> QED
  BY <1>6, <1>7 DEF Wit!WitnessingInv

(* The rest of the steps of the WitnessReceiptor.                          *)
LEMMA AsyncKeeps ==
  ASSUME Wit!WitnessingAssumption, Wit!WitnessingInv,
         Wit!SendEvent \/ Wit!AllReceipts \/ Wit!ExchangeReceipts \/ Wit!FinishExchange
  PROVE  Wit!WitnessingInv'
<1>1. Wit!TypeOK /\ last \in Nat /\ task.step \in Wit!Steps /\ setting.doer = "WitnessReceiptor"
      /\ UNCHANGED <<setting, last, queue, wigs, has, late, knows, mail>>
  BY EventsKnown
     DEF Wit!WitnessingInv, Wit!SendEvent, Wit!AllReceipts, Wit!ExchangeReceipts, Wit!FinishExchange,
        Wit!Async, Wit!Steps, Wit!witness
<1>2. /\ task \in Wit!Tasks /\ task.n \in 1..last /\ task.todo \in Seq(Witnesses)
      /\ task.rcts \subseteq Witnesses /\ task.got \in Seq(Witnesses)
  BY <1>1, TaskUnderWay
<1>3. Wit!Latest \in Seq(Witnesses) /\ Wit!ToSet(Wit!Latest) \subseteq Witnesses
  <2>1. last \in 1..last
    BY <1>1, <1>2
  <2>2. Wit!Latest \in Seq(Witnesses)
    BY <1>1, <2>1, EventsKnown DEF Wit!Latest
  <2> QED
    BY <2>2, ToSetIn, WitnessingOperators
<1>4. wigs[task.n] \in Seq(Witnesses)
  BY <1>1, <1>2, EventsKnown DEF Wit!TypeOK
<1>5. queue' \in Seq(1..last)
  BY <1>1 DEF Wit!TypeOK
<1>6. task.todo # <<>> => Head(task.todo) \in Witnesses /\ Tail(task.todo) \in Seq(Witnesses)
  BY <1>2, HeadAndRest, WitnessingOperators
<1>7. task' \in Wit!Tasks \cup {Wit!NoTask}
  <2>1. CASE Wit!SendEvent
    BY <2>1, <1>2, <1>6 DEF Wit!SendEvent, Wit!Tasks
  <2>2. CASE Wit!ExchangeReceipts
    BY <2>2, <1>2, <1>6 DEF Wit!ExchangeReceipts, Wit!Tasks
  <2>3. CASE Wit!AllReceipts
    BY <2>3, <1>2, <1>3, <1>4 DEF Wit!AllReceipts, Wit!Tasks, Wit!Steps
  <2>4. CASE Wit!FinishExchange
    BY <2>4 DEF Wit!FinishExchange
  <2> QED
    BY <2>1, <2>2, <2>3, <2>4
<1>8. finished' \subseteq [n : 1..last, rcts : SUBSET Witnesses]
  <2>1. CASE Wit!FinishExchange
    <3>1. [n |-> task.n, rcts |-> Wit!ToSet(Wit!Latest)] \in [n : 1..last, rcts : SUBSET Witnesses]
      BY <1>2, <1>3
    <3> QED
      BY <2>1, <3>1, <1>1 DEF Wit!FinishExchange, Wit!TypeOK
  <2>2. CASE finished' = finished
    BY <2>2, <1>1 DEF Wit!TypeOK
  <2> QED
    BY <2>1, <2>2 DEF Wit!SendEvent, Wit!AllReceipts, Wit!ExchangeReceipts
<1>9. inbox' \in [Witnesses -> Seq(Wit!Item)]
  <2>1. CASE Wit!SendEvent
    <3>1. Wit!EventItem(task.n) \in Wit!Item /\ Wit!Log \in Seq(Wit!Item)
      BY <1>1, <1>2, LogIsSent DEF Wit!EventItem, Wit!Item
    <3>2. <<Wit!EventItem(task.n)>> \in Seq(Wit!Item) /\ <<>> \in Seq(Wit!Item)
      BY <3>1
    <3>3. PICK before \in {Wit!Log, <<>>} : Wit!Stream(Head(task.todo), before \o <<Wit!EventItem(task.n)>>)
      BY <2>1 DEF Wit!SendEvent
    <3>4. before \o <<Wit!EventItem(task.n)>> \in Seq(Wit!Item)
      BY <3>1, <3>2, BothParts, WitnessingOperators
    <3> QED
      BY <2>1, <3>3, <3>4, <1>1, <1>6, StreamAdds DEF Wit!SendEvent
  <2>2. CASE Wit!ExchangeReceipts
    <3> DEFINE w == Head(task.todo)
    <3>1. Wit!Others(w) \subseteq Witnesses
      BY <1>2 DEF Wit!Others
    <3>2. Wit!ReceiptsItem(task.n, Wit!Others(w)) \in Wit!Item
      BY <1>2, <3>1 DEF Wit!ReceiptsItem, Wit!Item
    <3>3. <<Wit!ReceiptsItem(task.n, Wit!Others(w))>> \in Seq(Wit!Item)
      BY <3>2
    <3>4. inbox' = inbox \/ Wit!Stream(w, <<Wit!ReceiptsItem(task.n, Wit!Others(w))>>)
      BY <2>2 DEF Wit!ExchangeReceipts
    <3>5. w \in Witnesses
      BY <2>2, <1>6 DEF Wit!ExchangeReceipts
    <3> HIDE DEF w
    <3>6. CASE inbox' = inbox
      BY <3>6, <1>1 DEF Wit!TypeOK
    <3>7. CASE Wit!Stream(w, <<Wit!ReceiptsItem(task.n, Wit!Others(w))>>)
      BY <3>7, <3>3, <3>5, <1>1, StreamAdds
    <3> QED
      BY <3>4, <3>6, <3>7
  <2>3. CASE inbox' = inbox
    BY <2>3, <1>1 DEF Wit!TypeOK
  <2> QED
    BY <2>1, <2>2, <2>3 DEF Wit!AllReceipts, Wit!FinishExchange, Wit!witness
<1>10. Wit!TypeOK'
  BY <1>1, <1>5, <1>7, <1>8, <1>9, DoerTyped
<1>11. Wit!PropagatesAll'
  BY <1>1 DEF Wit!PropagatesAll
<1> QED
  BY <1>10, <1>11 DEF Wit!WitnessingInv

-----------------------------------------------------------------------------
(* The theorems                                                            *)

LEMMA WitnessingStutter == ASSUME Wit!WitnessingInv, UNCHANGED Wit!vars PROVE Wit!WitnessingInv'
<1>1. Wit!TypeOK'
  BY DEF Wit!WitnessingInv, Wit!TypeOK, Wit!vars, Wit!doer, Wit!witness, Wit!Item, Wit!Tasks, Wit!Steps,
     Wit!Wits, Wit!Event, Wit!NoTask
<1>2. Remembers
  BY MoreIsSent DEF Wit!vars, Wit!witness
<1>3. Wit!PropagatesAll'
  BY <1>2, StaysSent DEF Wit!WitnessingInv, Wit!vars, Wit!doer, Wit!witness
<1> QED
  BY <1>1, <1>3 DEF Wit!WitnessingInv

(* A step of the controller's and of the witnesses' doers.                 *)
LEMMA WitnessingStep == ASSUME Wit!WitnessingAssumption, Wit!WitnessingInv, [Wit!Next]_(Wit!vars)
  PROVE Wit!WitnessingInv'
<1>1. CASE Wit!Make
  BY <1>1, MakeWitnessedKeeps
<1>2. CASE Wit!Doer
  BY <1>2, StartReceiptorKeeps, CatchupKeeps, StartRequestsKeeps, RequestReceiptKeeps,
     StartPropagationKeeps, PropagateKeeps, FinishKeeps, StartWitnessReceiptorKeeps, AsyncKeeps DEF Wit!Doer
<1>3. CASE Wit!Parsers
  BY <1>3, ParseNextKeeps, UnescrowKeeps, ReadMailKeeps DEF Wit!Parsers
<1>4. CASE Wit!Idle \/ UNCHANGED Wit!vars
  BY <1>4, WitnessingStutter DEF Wit!Idle
<1> QED
  BY <1>1, <1>2, <1>3, <1>4 DEF Wit!Next

(* The inductive invariant of witness communication: its type, and, for    *)
(* the Receiptor, which witnesses have been sent whose receipts.           *)
THEOREM WitnessingInvariant == ASSUME Wit!WitnessingAssumption PROVE Wit!Spec => []Wit!WitnessingInv
<1>1. Wit!Init => Wit!WitnessingInv
  BY WitnessingInit
<1>2. Wit!WitnessingInv /\ [Wit!Next]_(Wit!vars) => Wit!WitnessingInv'
  BY WitnessingStep
<1> QED
  BY <1>1, <1>2, PTL DEF Wit!Spec

(* When a Receiptor has finished with an event and what it sent was read,  *)
(* each witness that answered has the receipts of all the others that did, *)
(* whatever was cut, added, unknown or late (Receiptor.receipt).           *)
THEOREM AllReceiptsExchanged == ASSUME Wit!WitnessingAssumption PROVE Wit!Spec => []Wit!ReceiptsExchanged
<1>1. Wit!WitnessingInv => Wit!ReceiptsExchanged
  <2> SUFFICES ASSUME Wit!WitnessingInv, Wit!Quiet, setting.doer = "Receiptor", NEW t \in finished,
                      NEW w \in t.rcts, NEW v \in t.rcts \ {w}
               PROVE  <<t.n, v>> \in knows[w]
    BY DEF Wit!ReceiptsExchanged, Wit!Exchanged
  <2>1. Wit!Sent(w, t.n, v) /\ w \in Witnesses
    BY DEF Wit!WitnessingInv, Wit!PropagatesAll, Wit!AllSent, Wit!TypeOK
  <2>2. Wit!ToSet(inbox[w]) = {}
    BY <2>1 DEF Wit!Quiet, Wit!ToSet
  <2> QED
    BY <2>1, <2>2 DEF Wit!Sent
<1> QED
  BY <1>1, WitnessingInvariant, PTL

-----------------------------------------------------------------------------
(* Queries and watchers, for any sources and any logs of theirs, over the  *)
(* variables of module Watching.                                           *)
CONSTANTS KeyEvents, Sources, WatchWorlds
VARIABLES known, full, qnfs, queries, notices, replays, klog, heard, knas, ksns, stage, want,
          pending, states, verdict, wwas, expired
Wat == INSTANCE Watching WITH world <- setting

(* The operators of its library are those of this module.                  *)
LEMMA WatchingOperators ==
  /\ \A S : Wat!IsFiniteSet(S) <=> IsFiniteSet(S)
  /\ \A S : Wat!Cardinality(S) = Cardinality(S)
  /\ \A s : Wat!ToSet(s) = ToSet(s)
  /\ \A S : Wat!SetToSeq(S) = SetToSeq(S)
<1>1. \A S : Wat!IsFiniteSet(S) <=> IsFiniteSet(S)
  BY DEF Wat!IsFiniteSet, IsFiniteSet
<1>2. \A S : Wat!Cardinality(S) = Cardinality(S)
  BY DEF Wat!Cardinality, Cardinality
<1>3. \A s : Wat!ToSet(s) = ToSet(s)
  BY DEF Wat!ToSet, ToSet
<1>4. \A f : Wat!IsInjective(f) <=> IsInjective(f)
  BY DEF Wat!IsInjective, IsInjective
<1>5. \A S : Wat!SetToSeq(S) = SetToSeq(S)
  BY <1>2, <1>4 DEF Wat!SetToSeq, SetToSeq
<1> QED
  BY <1>1, <1>2, <1>3, <1>5
(* How much of its log a source has.                                       *)
LEMMA SourceLogs ==
  ASSUME Wat!WatchingAssumption, Wat!TypeOK, NEW w \in Sources
  PROVE  /\ Wat!Placed(setting.branch[w]) /\ Len(setting.branch[w]) \in Nat
         /\ known[w] \in 0..Len(setting.branch[w]) /\ full[w] \in 0..known[w] /\ full[w] \in 0..Len(setting.branch[w])
<1>1. Wat!Placed(setting.branch[w]) /\ full[w] \in Nat /\ known[w] \in Nat /\ full[w] <= known[w]
      /\ known[w] <= Len(setting.branch[w])
  BY DEF Wat!WatchingAssumption, Wat!TypeOK
<1>2. Len(setting.branch[w]) \in Nat
  BY <1>1, LenProperties DEF Wat!Placed
<1> QED
  BY <1>1, <1>2

(* The beginning of a log.                                                 *)
LEMMA Beginning ==
  ASSUME Wat!WatchingAssumption, NEW log, Wat!Placed(log), NEW n \in 0..Len(log)
  PROVE  /\ Wat!Placed(SubSeq(log, 1, n)) /\ Len(SubSeq(log, 1, n)) = n /\ n \in Nat
         /\ \A i \in 1..n : SubSeq(log, 1, n)[i] = log[i]
         /\ \A e : e \in Wat!ToSet(SubSeq(log, 1, n)) <=> \E i \in 1..n : e = log[i]
<1>1. log \in Seq(Wat!Events) /\ Len(log) \in Nat /\ DOMAIN log = 1..Len(log) /\ n \in Nat /\ n <= Len(log)
  BY LenProperties DEF Wat!Placed
<1>2. /\ SubSeq(log, 1, n) \in Seq(Wat!Events) /\ Len(SubSeq(log, 1, n)) = n
      /\ \A i \in 1..n : SubSeq(log, 1, n)[i] = log[i]
  BY <1>1
<1>3. DOMAIN SubSeq(log, 1, n) = 1..n
  BY <1>2, LenProperties
<1>4. \A i \in 1..n : i \in DOMAIN log
  BY <1>1
<1>5. Wat!Placed(SubSeq(log, 1, n))
  BY <1>2, <1>3, <1>4 DEF Wat!Placed
<1> QED
  BY <1>1, <1>2, <1>3, <1>5 DEF Wat!ToSet

(* What a source has, by number.                                           *)
LEMMA HasIt ==
  ASSUME Wat!WatchingAssumption, Wat!TypeOK, NEW w \in Sources, NEW e
  PROVE  Wat!Has(w, e) <=> \E i \in 1..full[w] : e = setting.branch[w][i]
  BY SourceLogs, Beginning DEF Wat!Has, Wat!FullBy

(* A source that learns or has witnessed more keeps what it had.           *)
Grows == setting' = setting /\ \A w \in Sources : full[w] <= full'[w]
LEMMA StillHas ==
  ASSUME Wat!WatchingAssumption, Wat!TypeOK, Wat!TypeOK', Grows, NEW w \in Sources, NEW e, Wat!Has(w, e)
  PROVE  Wat!Has(w, e)'
<1>1. PICK i \in 1..full[w] : e = setting.branch[w][i]
  BY HasIt
<1>2. full[w] \in Nat /\ full'[w] \in 0..Len(setting.branch[w]) /\ full[w] <= full'[w] /\ setting' = setting
      /\ Wat!Placed(setting.branch[w]) /\ Len(setting.branch[w]) \in Nat
  <2>1. full'[w] \in Nat /\ full'[w] <= known'[w] /\ known'[w] <= Len(setting'.branch[w]) /\ known'[w] \in Nat
    BY DEF Wat!TypeOK
  <2> QED
    BY <2>1, SourceLogs DEF Grows
<1>3. e \in Wat!ToSet(SubSeq(setting.branch[w], 1, full'[w]))
  BY <1>1, <1>2, Beginning
<1> QED
  BY <1>2, <1>3 DEF Wat!Has, Wat!FullBy

LEMMA StillTold ==
  ASSUME Wat!TypeOK, Wat!TypeOK', Grows, NEW log, Wat!Told(log)
  PROVE  Wat!Told(log)'
<1>0. PICK w \in Sources : \E n \in 0..full[w] : log = SubSeq(setting.branch[w], 1, n)
  BY DEF Wat!Told
<1>1. PICK n \in 0..full[w] : log = SubSeq(setting.branch[w], 1, n)
  BY <1>0
<1>2. n \in 0..full'[w] /\ setting' = setting
  BY <1>1 DEF Grows, Wat!TypeOK
<1> QED
  BY <1>1, <1>2 DEF Wat!Told

LEMMA ToldIsPlaced ==
  ASSUME Wat!WatchingAssumption, Wat!TypeOK, NEW log, Wat!Told(log)
  PROVE  Wat!Placed(log)
<1>0. PICK w \in Sources : \E n \in 0..full[w] : log = SubSeq(setting.branch[w], 1, n)
  BY DEF Wat!Told
<1>1. PICK n \in 0..full[w] : log = SubSeq(setting.branch[w], 1, n)
  BY <1>0
<1>2. n \in 0..Len(setting.branch[w]) /\ Wat!Placed(setting.branch[w])
  BY <1>1, SourceLogs
<1> QED
  BY <1>1, <1>2, Beginning

LEMMA StillDiffers ==
  ASSUME Wat!WatchingAssumption, Wat!TypeOK, Wat!TypeOK', Grows, Wat!ToSet(klog) \subseteq Wat!ToSet(klog'),
         NEW x, Wat!Diff(x)
  PROVE  Wat!Diff(x)'
<1>1. x.wit \in Sources
  BY DEF Wat!Diff
<1>2. Wat!Has(x.wit, x.dig)'
  BY <1>1, StillHas DEF Wat!Diff
<1>3. x.state = "duplicitous" => \E e \in Wat!ToSet(klog') : Wat!Apart(e, x.dig)
  BY DEF Wat!Diff
<1> QED
  BY <1>2, <1>3 DEF Wat!Diff, Wat!Apart

-----------------------------------------------------------------------------
(* What a step leaves alone                                                *)

LEMMA ReportsStay ==
  ASSUME Wat!WatchingAssumption, Wat!TypeOK, Wat!TypeOK', Wat!ReportsOwn, Grows,
         notices' \subseteq notices, replays' \subseteq replays, UNCHANGED klog,
         \A w \in Sources : knas'[w] # None => knas'[w] = knas[w]
  PROVE  Wat!ReportsOwn'
<1>1. (\A m \in notices : Wat!Has(m.from, m.event))'
  BY StillHas DEF Wat!ReportsOwn, Wat!TypeOK
<1>2. (\A w \in Sources : knas[w] # None => Wat!Has(w, knas[w]))'
  <2> SUFFICES ASSUME NEW w \in Sources, knas'[w] # None
               PROVE  Wat!Has(w, knas[w])'
    OBVIOUS
  <2>1. knas'[w] = knas[w] /\ Wat!Has(w, knas[w])
    BY DEF Wat!ReportsOwn
  <2>2. \A e : Wat!Has(w, e) => Wat!Has(w, e)'
    BY StillHas
  <2> QED
    BY <2>1, <2>2 DEF Wat!Has, Wat!FullBy
<1>3. (\A told \in replays : Wat!Told(told))'
  BY StillTold DEF Wat!ReportsOwn
<1>4. klog = setting.log \/ Wat!Told(klog)
  BY DEF Wat!ReportsOwn
<1>5. (klog = setting.log \/ Wat!Told(klog))'
  <2>1. CASE klog = setting.log
    BY <2>1 DEF Grows
  <2>2. CASE Wat!Told(klog)
    <3>1. \A log : Wat!Told(log) => Wat!Told(log)'
      BY StillTold
    <3> QED
      BY <2>2, <3>1 DEF Wat!Told
  <2> QED
    BY <2>1, <2>2, <1>4
<1>6. Wat!Placed(klog)'
  BY DEF Wat!ReportsOwn, Wat!Placed
<1> QED
  BY <1>1, <1>2, <1>3, <1>5, <1>6 DEF Wat!ReportsOwn

LEMMA VerdictStays ==
  ASSUME Wat!WatchingAssumption, Wat!TypeOK, Wat!TypeOK', Wat!VerdictFounded, Grows,
         Wat!ToSet(klog) \subseteq Wat!ToSet(klog'),
         UNCHANGED <<states, verdict>>
  PROVE  Wat!VerdictFounded'
<1>1. (\A x \in states \cup verdict.states : Wat!Diff(x))'
  BY StillDiffers DEF Wat!VerdictFounded
<1>2. setting' = setting
  BY DEF Grows
<1> QED
  BY <1>1, <1>2 DEF Wat!VerdictFounded, Wat!Digs

LEMMA FullSame == ASSUME Wat!TypeOK, UNCHANGED <<setting, full>> PROVE Grows
  BY DEF Wat!TypeOK, Grows

-----------------------------------------------------------------------------
(* Differences and what is concluded from them                             *)

LEMMA DiffIsRead ==
  ASSUME Wat!WatchingAssumption, Wat!TypeOK, Wat!ReportsOwn, NEW w \in Sources, knas[w] # None
  PROVE  Wat!Diff(Wat!diffState(w, knas[w]))
<1> DEFINE e == knas[w]
           x == Wat!diffState(w, e)
<1>1. e \in Wat!Events /\ Wat!Has(w, e) /\ Wat!sn(e) \in Nat
  BY DEF Wat!TypeOK, Wat!ReportsOwn, Wat!WatchingAssumption, Wat!sn
<1>2. klog \in Seq(Wat!Events) /\ Len(klog) \in Nat /\ DOMAIN klog = 1..Len(klog)
      /\ \A i \in 1..Len(klog) : Wat!sn(klog[i]) = i - 1
  BY LenProperties DEF Wat!ReportsOwn, Wat!Placed, Wat!sn
<1> HIDE DEF e
<1>3. x.wit = w /\ x.dig = e /\ x.state \in {"even", "duplicitous", "behind", "ahead"}
      /\ x \in [wit : Sources, dig : Wat!Events, state : {"even", "duplicitous", "behind", "ahead"}]
  BY <1>1 DEF Wat!diffState
<1>4. ASSUME x.state = "duplicitous" PROVE \E f \in Wat!ToSet(klog) : Wat!Apart(f, e)
  <2>1. Wat!sn(e) = Wat!Tip /\ e # klog[Wat!Tip + 1]
    BY <1>4 DEF Wat!diffState
  <2>2. Len(klog) \in 1..Len(klog) /\ Wat!Tip + 1 = Len(klog) /\ Wat!Tip = Len(klog) - 1
    BY <2>1, <1>1, <1>2 DEF Wat!Tip
  <2>3. klog[Len(klog)] \in Wat!ToSet(klog) /\ Wat!sn(klog[Len(klog)]) = Len(klog) - 1
    BY <2>2, <1>2 DEF Wat!ToSet
  <2> QED
    BY <2>1, <2>2, <2>3 DEF Wat!Apart
<1> HIDE DEF x
<1>5. Wat!Diff(x)
  BY <1>1, <1>3, <1>4 DEF Wat!Diff
<1> QED
  BY <1>5 DEF x, e

LEMMA JudgeFacts ==
  ASSUME NEW found, NEW toadAsked
  PROVE  LET r == Wat!Judge(found, toadAsked)
         IN  /\ r.states \subseteq found
             /\ r.kin = "update" =>
                  /\ Wat!Cardinality(Wat!Digs(r.states)) = 1 /\ Wat!Cardinality(r.states) >= toadAsked
                  /\ \A x \in r.states : x.state = "ahead"
             /\ r.kin = "duplicitous" =>
                  r.states # {} /\ \E s \in {"duplicitous", "ahead"} : \A x \in r.states : x.state = s
<1> DEFINE dups == Wat!In(found, "duplicitous")
           ahds == Wat!In(found, "ahead")
           bhds == Wat!In(found, "behind")
           r == Wat!Judge(found, toadAsked)
<1>1. /\ dups \subseteq found /\ ahds \subseteq found /\ bhds \subseteq found
      /\ \A x \in dups : x.state = "duplicitous"
      /\ \A x \in ahds : x.state = "ahead"
  BY DEF Wat!In
<1>2. Wat!Cardinality(Wat!Digs({})) = 0
  BY FS_EmptySet, WatchingOperators DEF Wat!Digs
<1>3. \/ dups # {} /\ r = Wat!Verdict("duplicitous", dups)
      \/ dups = {} /\ Wat!Cardinality(Wat!Digs(ahds)) > 1 /\ r = Wat!Verdict("duplicitous", ahds)
      \/ dups = {} /\ Wat!Cardinality(Wat!Digs(ahds)) = 1 /\ Wat!Cardinality(ahds) >= toadAsked /\
          r = Wat!Verdict("update", ahds)
      \/ r = Wat!NoVerdict
      \/ r = Wat!Verdict("lagging", bhds)
      \/ r = Wat!Verdict("consistent", found)
  <2>1. CASE dups # {}
    BY <2>1 DEF Wat!Judge
  <2>2. CASE dups = {} /\ Wat!Cardinality(Wat!Digs(ahds)) > 1
    <3>1. ~(Wat!Cardinality(Wat!Digs(ahds)) = 1) /\ ahds # {}
      BY <2>2, <1>2
    <3> QED
      BY <2>2, <3>1 DEF Wat!Judge
  <2>3. CASE dups = {} /\ Wat!Cardinality(Wat!Digs(ahds)) = 1
    <3>1. ~(Wat!Cardinality(Wat!Digs(ahds)) > 1) /\ ahds # {}
      BY <2>3, <1>2
    <3> QED
      BY <2>3, <3>1 DEF Wat!Judge
  <2>4. CASE dups = {} /\ ~(Wat!Cardinality(Wat!Digs(ahds)) > 1) /\ ~(Wat!Cardinality(Wat!Digs(ahds)) = 1)
    <3>1. CASE ahds = {} /\ bhds # {}
      BY <2>4, <3>1 DEF Wat!Judge
    <3>2. CASE ~(ahds = {} /\ bhds # {})
      BY <2>4, <3>2 DEF Wat!Judge
    <3> QED
      BY <3>1, <3>2
  <2> QED
    BY <2>1, <2>2, <2>3, <2>4
<1>4. Wat!Cardinality(Wat!Digs(ahds)) > 1 => ahds # {}
  BY <1>2
<1> HIDE DEF dups, ahds, bhds, r
<1>5. /\ r.states \subseteq found
      /\ r.kin = "update" =>
           /\ Wat!Cardinality(Wat!Digs(r.states)) = 1 /\ Wat!Cardinality(r.states) >= toadAsked
           /\ \A x \in r.states : x.state = "ahead"
      /\ r.kin = "duplicitous" =>
           r.states # {} /\ \E s \in {"duplicitous", "ahead"} : \A x \in r.states : x.state = s
  <2>1. CASE dups # {} /\ r = Wat!Verdict("duplicitous", dups)
    BY <2>1, <1>1 DEF Wat!Verdict
  <2>2. CASE dups = {} /\ Wat!Cardinality(Wat!Digs(ahds)) > 1 /\ r = Wat!Verdict("duplicitous", ahds)
    BY <2>2, <1>1, <1>4 DEF Wat!Verdict
  <2>3. CASE dups = {} /\ Wat!Cardinality(Wat!Digs(ahds)) = 1 /\ Wat!Cardinality(ahds) >= toadAsked /\
            r = Wat!Verdict("update", ahds)
    <3>1. r.states = ahds /\ r.kin = "update"
      BY <2>3 DEF Wat!Verdict
    <3> QED
      BY <2>3, <3>1, <1>1
  <2>4. CASE r = Wat!NoVerdict \/ r = Wat!Verdict("lagging", bhds) \/ r = Wat!Verdict("consistent", found)
    BY <2>4, <1>1 DEF Wat!Verdict, Wat!NoVerdict
  <2> QED
    BY <2>1, <2>2, <2>3, <2>4, <1>3
<1> QED
  BY <1>5 DEF r

-----------------------------------------------------------------------------
(* The asked side                                                          *)

(* What is answered is what the source has.                                *)
LEMMA AnswersOwn ==
  ASSUME Wat!WatchingAssumption, Wat!TypeOK, Wat!ReportsOwn, NEW qs, Wat!Respond(qs),
         \A q \in qs : q.to \in Sources /\ Wat!Found(q), UNCHANGED <<setting, known, full>>
  PROVE  /\ notices' \subseteq [from : Sources, event : Wat!Events]
         /\ (\A m \in notices : Wat!Has(m.from, m.event))'
         /\ (\A told \in replays : Wat!Told(told))'
<1>1. Grows
  BY DEF Grows, Wat!TypeOK
<1>2. ASSUME NEW q \in qs, q.r = "ksn"
      PROVE  Wat!Last(Wat!KnownBy(q.to)) \in Wat!Events /\ Wat!Has(q.to, Wat!Last(Wat!KnownBy(q.to)))
  <2> DEFINE w == q.to
  <2>1. w \in Sources /\ known[w] > 0 /\ full[w] = known[w]
    BY <1>2 DEF Wat!Found
  <2> HIDE DEF w
  <2>2. known[w] \in 0..Len(setting.branch[w]) /\ Wat!Placed(setting.branch[w]) /\ known[w] \in 1..known[w]
        /\ Len(setting.branch[w]) \in Nat
    BY <2>1, SourceLogs
  <2>3. /\ Len(Wat!KnownBy(w)) = known[w] /\ Wat!KnownBy(w)[known[w]] = setting.branch[w][known[w]]
        /\ setting.branch[w][known[w]] \in Wat!Events
    <3>1. known[w] \in DOMAIN setting.branch[w] /\ setting.branch[w] \in Seq(Wat!Events)
      BY <2>2, LenProperties DEF Wat!Placed
    <3> QED
      BY <2>2, <3>1, Beginning DEF Wat!KnownBy
  <2>4. Wat!Has(w, Wat!Last(Wat!KnownBy(w)))
    BY <2>1, <2>2, <2>3, HasIt DEF Wat!Last
  <2> QED
    BY <2>3, <2>4 DEF Wat!Last, w
<1>3. ASSUME NEW m \in notices' PROVE m \in [from : Sources, event : Wat!Events] /\ Wat!Has(m.from, m.event)
  <2>1. CASE m \in notices
    BY <2>1 DEF Wat!TypeOK, Wat!ReportsOwn
  <2>2. CASE m \notin notices
    <3>1. PICK q \in qs : q.r = "ksn" /\ m = [from |-> q.to, event |-> Wat!Last(Wat!KnownBy(q.to))]
      BY <2>2 DEF Wat!Respond
    <3> QED
      BY <3>1, <1>2
  <2> QED
    BY <2>1, <2>2
<1>4. ASSUME NEW told \in replays' PROVE Wat!Told(told)
  <2>1. CASE told \in replays
    BY <2>1 DEF Wat!ReportsOwn
  <2>2. CASE told \notin replays
    <3>1. PICK q \in qs : told = Wat!FullBy(q.to)
      BY <2>2 DEF Wat!Respond
    <3>2. q.to \in Sources /\ full[q.to] \in 0..full[q.to]
      BY <3>1, SourceLogs
    <3> QED
      BY <3>1, <3>2 DEF Wat!Told, Wat!FullBy
  <2> QED
    BY <2>1, <2>2
<1>5. /\ \A w, e : Wat!Has(w, e)' = Wat!Has(w, e)
      /\ \A log : Wat!Told(log)' = Wat!Told(log)
  BY DEF Wat!Has, Wat!FullBy, Wat!Told
<1> QED
  BY <1>3, <1>4, <1>5
-----------------------------------------------------------------------------
(* Steps                                                                   *)

LEMMA WatchingInit == ASSUME Wat!WatchingAssumption, Wat!Init PROVE Wat!WatchingInv
<1>1. setting \in WatchWorlds /\ setting.has \in Nat /\ Wat!Placed(setting.log)
      /\ \A w \in Sources : Wat!Placed(setting.branch[w]) /\ setting.has <= Len(setting.branch[w])
  BY DEF Wat!WatchingAssumption, Wat!Init
<1>2. Wat!SetToSeq(Sources) \in Seq(Sources)
  BY InSomeOrder, WatchingOperators DEF Wat!WatchingAssumption
<1>3. Wat!TypeOK
  BY <1>1, <1>2, FS_EmptySet, WatchingOperators DEF Wat!TypeOK, Wat!Init, Wat!NoVerdict
<1>4. Wat!ReportsOwn
  BY <1>1 DEF Wat!ReportsOwn, Wat!Init
<1>5. Wat!VerdictFounded
  BY DEF Wat!VerdictFounded, Wat!Init, Wat!NoVerdict
<1> QED
  BY <1>3, <1>4, <1>5 DEF Wat!WatchingInv

LEMMA AskedKeeps ==
  ASSUME Wat!WatchingAssumption, Wat!WatchingInv,
         (\E q \in queries : Wat!processQuery(q)) \/ (\E w \in Sources : Wat!processQueryNotFound(w))
  PROVE  Wat!WatchingInv'
<1>1. PICK qs \in SUBSET (queries \cup qnfs) :
        /\ Wat!Respond(qs) \/ UNCHANGED <<notices, replays>>
        /\ \A q \in qs : Wat!Found(q)
        /\ queries' \cup qnfs' \subseteq queries \cup qnfs
        /\ UNCHANGED <<setting, Wat!srcVars, Wat!logVars, Wat!ksnVars, Wat!taskVars, asked, expired>>
  <2>1. CASE \E q \in queries : Wat!processQuery(q)
    <3>1. PICK q \in queries : Wat!processQuery(q)
      BY <2>1
    <3>a. /\ queries' = queries \ {q} /\ {q} \in SUBSET (queries \cup qnfs) /\ {} \in SUBSET (queries \cup qnfs)
          /\ UNCHANGED <<setting, Wat!srcVars, Wat!logVars, Wat!ksnVars, Wat!taskVars, asked, expired>>
      BY <3>1 DEF Wat!processQuery
    <3>2. CASE Wat!Found(q) /\ Wat!Respond({q}) /\ UNCHANGED qnfs
      <4>1. queries' \cup qnfs' \subseteq queries \cup qnfs /\ \A x \in {q} : Wat!Found(x)
        BY <3>a, <3>2
      <4> QED
        BY <3>a, <3>2, <4>1
    <3>3. CASE ~Wat!Found(q) /\ Wat!escrowQueryNotFoundEvent(q) /\ UNCHANGED <<notices, replays>>
      <4>1. queries' \cup qnfs' \subseteq queries \cup qnfs /\ \A x \in {} : Wat!Found(x)
        BY <3>a, <3>3 DEF Wat!escrowQueryNotFoundEvent
      <4> QED
        BY <3>a, <3>3, <4>1
    <3> QED
      BY <3>1, <3>2, <3>3 DEF Wat!processQuery
  <2>2. CASE \E w \in Sources : Wat!processQueryNotFound(w)
    <3>1. PICK w \in Sources : Wat!processQueryNotFound(w)
      BY <2>2
    <3> DEFINE found == {q \in qnfs : q.to = w /\ Wat!Found(q)}
    <3>2. /\ Wat!Respond(found) /\ qnfs' = qnfs \ found /\ found \subseteq qnfs /\ \A q \in found : Wat!Found(q)
          /\ queries' = queries /\
              UNCHANGED <<setting, Wat!srcVars, Wat!logVars, Wat!ksnVars, Wat!taskVars, asked, expired>>
      BY <3>1 DEF Wat!processQueryNotFound
    <3> HIDE DEF found
    <3>3. found \in SUBSET (queries \cup qnfs) /\ queries' \cup qnfs' \subseteq queries \cup qnfs
      BY <3>2
    <3> QED
      BY <3>2, <3>3
  <2> QED
    BY <2>1, <2>2
<1>2. Wat!TypeOK /\ Wat!ReportsOwn /\ Wat!VerdictFounded /\ \A q \in qs : q.to \in Sources
  BY DEF Wat!WatchingInv, Wat!TypeOK
<1>3. /\ notices' \subseteq [from : Sources, event : Wat!Events]
      /\ (\A m \in notices : Wat!Has(m.from, m.event))'
      /\ (\A told \in replays : Wat!Told(told))'
  <2>1. CASE Wat!Respond(qs)
    BY <1>1, <1>2, <2>1, AnswersOwn DEF Wat!srcVars
  <2>2. CASE UNCHANGED <<notices, replays>>
    BY <1>1, <1>2, <2>2 DEF Wat!TypeOK, Wat!ReportsOwn, Wat!Has, Wat!FullBy, Wat!Told, Wat!srcVars
  <2> QED
    BY <2>1, <2>2, <1>1
<1>4. Wat!TypeOK'
  BY <1>1, <1>2, <1>3 DEF Wat!TypeOK, Wat!srcVars, Wat!ksnVars, Wat!taskVars
<1>5. Grows
  BY <1>1, <1>2, FullSame DEF Wat!srcVars
<1>6. Wat!ReportsOwn'
  BY <1>1, <1>2, <1>3
     DEF Wat!ReportsOwn, Wat!Has, Wat!FullBy, Wat!Told, Wat!Placed, Wat!srcVars, Wat!ksnVars, Wat!logVars
<1>7. Wat!VerdictFounded'
  BY <1>1, <1>2, <1>4, <1>5, VerdictStays DEF Wat!taskVars, Wat!logVars
<1> QED
  BY <1>4, <1>6, <1>7 DEF Wat!WatchingInv

LEMMA SourceKeeps ==
  ASSUME Wat!WatchingAssumption, Wat!WatchingInv, NEW w \in Sources, Wat!Learn(w) \/ Wat!Witness(w)
  PROVE Wat!WatchingInv'
<1>1. Wat!TypeOK /\ Wat!ReportsOwn /\ Wat!VerdictFounded
  BY DEF Wat!WatchingInv
<1>2. /\ known[w] \in Nat /\ full[w] \in Nat /\ Len(setting.branch[w]) \in Nat
      /\ \A v \in Sources : full[v] \in Nat /\ known[v] \in Nat
  BY <1>1, SourceLogs DEF Wat!TypeOK
<1>3. /\ UNCHANGED <<setting, qnfs, Wat!netVars, Wat!logVars, Wat!ksnVars, Wat!taskVars>>
      /\ known' \in [Sources -> Nat] /\ full' \in [Sources -> Nat]
      /\ \A v \in Sources : full'[v] <= known'[v] /\ known'[v] <= Len(setting.branch[v]) /\ full[v] <= full'[v]
  <2>1. CASE Wat!Learn(w)
    BY <2>1, <1>1, <1>2 DEF Wat!Learn, Wat!TypeOK
  <2>2. CASE Wat!Witness(w)
    BY <2>2, <1>1, <1>2 DEF Wat!Witness, Wat!TypeOK
  <2> QED
    BY <2>1, <2>2
<1>4. Wat!TypeOK'
  BY <1>1, <1>3 DEF Wat!TypeOK, Wat!netVars, Wat!ksnVars, Wat!taskVars
<1>5. Grows
  BY <1>3 DEF Grows
<1>6. Wat!ReportsOwn'
  BY <1>1, <1>3, <1>4, <1>5, ReportsStay DEF Wat!netVars, Wat!logVars, Wat!ksnVars
<1>7. Wat!VerdictFounded'
  BY <1>1, <1>3, <1>4, <1>5, VerdictStays DEF Wat!logVars, Wat!taskVars
<1> QED
  BY <1>4, <1>6, <1>7 DEF Wat!WatchingInv

(* A replay that carries on from the log takes its place.                  *)
LEMMA ReplayKeeps ==
  ASSUME Wat!WatchingAssumption, Wat!WatchingInv, NEW told, Wat!processReplay(told) PROVE Wat!WatchingInv'
<1>1. Wat!TypeOK /\ Wat!ReportsOwn /\ Wat!VerdictFounded /\ told \in replays /\ replays' = replays \ {told}
      /\ klog' = (IF Wat!IsPrefix(klog, told) THEN told ELSE klog)
      /\ UNCHANGED <<setting, Wat!srcVars, qnfs, queries, notices, Wat!ksnVars, Wat!taskVars, asked, expired>>
  BY DEF Wat!WatchingInv, Wat!processReplay
<1>2. Wat!Told(told) /\ Wat!Placed(told) /\ Wat!Placed(klog)
  BY <1>1, ToldIsPlaced DEF Wat!ReportsOwn
<1>3. Wat!TypeOK'
  BY <1>1 DEF Wat!TypeOK, Wat!srcVars, Wat!ksnVars, Wat!taskVars
<1>4. Grows
  BY <1>1, FullSame DEF Wat!srcVars
<1>5. Wat!IsPrefix(klog, told) => Wat!ToSet(klog) \subseteq Wat!ToSet(told)
  <2> SUFFICES ASSUME Wat!IsPrefix(klog, told), NEW i \in DOMAIN klog PROVE klog[i] \in Wat!ToSet(told)
    BY DEF Wat!ToSet
  <2>1. klog \in Seq(Wat!Events) /\ told \in Seq(Wat!Events) /\ Len(klog) \in Nat /\ Len(told) \in Nat
        /\ DOMAIN klog = 1..Len(klog) /\ DOMAIN told = 1..Len(told) /\ Len(klog) <= Len(told)
    BY <1>2, LenProperties DEF Wat!Placed, Wat!IsPrefix
  <2>2. Len(klog) \in 0..Len(klog) /\ Len(klog) \in 0..Len(told)
    BY <2>1
  <2>3. SubSeq(klog, 1, Len(klog))[i] = klog[i] /\ SubSeq(told, 1, Len(klog))[i] = told[i]
    BY <1>2, <2>1, <2>2, Beginning
  <2>4. klog[i] = told[i] /\ i \in DOMAIN told
    BY <2>1, <2>3 DEF Wat!IsPrefix
  <2> QED
    BY <2>4 DEF Wat!ToSet
<1>6. Wat!ToSet(klog) \subseteq Wat!ToSet(klog')
  BY <1>1, <1>5
<1>7. /\ \A w, e : Wat!Has(w, e)' = Wat!Has(w, e)
      /\ \A log : Wat!Told(log)' = Wat!Told(log)
  BY <1>1 DEF Wat!Has, Wat!FullBy, Wat!Told, Wat!srcVars
<1>8. Wat!Placed(klog)' /\ (klog = setting.log \/ Wat!Told(klog))'
  <2>1. klog' = told \/ klog' = klog
    BY <1>1
  <2>2. Wat!Placed(klog') /\ (klog' = setting.log \/ Wat!Told(klog'))
    BY <1>2, <1>1, <2>1 DEF Wat!ReportsOwn
  <2> QED
    BY <2>2, <1>1 DEF Wat!Placed, Wat!Told, Wat!srcVars
<1>9. Wat!ReportsOwn'
  BY <1>1, <1>7, <1>8 DEF Wat!ReportsOwn, Wat!ksnVars, Wat!Has, Wat!FullBy, Wat!srcVars
<1>10. Wat!VerdictFounded'
  BY <1>1, <1>3, <1>4, <1>6, VerdictStays DEF Wat!taskVars
<1> QED
  BY <1>3, <1>9, <1>10 DEF Wat!WatchingInv

(* A notice that is not behind the log is kept under its source.           *)
LEMMA NoticeKeeps ==
  ASSUME Wat!WatchingAssumption, Wat!WatchingInv, NEW m, Wat!processReplyKeyStateNotice(m) PROVE Wat!WatchingInv'
<1>1. /\ Wat!TypeOK /\ Wat!ReportsOwn /\ Wat!VerdictFounded /\ m \in notices /\ notices' = notices \ {m}
      /\ UNCHANGED <<setting, Wat!srcVars, qnfs, queries, replays, Wat!logVars, Wat!taskVars, asked, expired>>
      /\ knas' = knas \/ knas' = [knas EXCEPT ![m.from] = m.event]
  BY DEF Wat!WatchingInv, Wat!processReplyKeyStateNotice, Wat!ksnVars
<1>2. m.from \in Sources /\ m.event \in Wat!Events /\ Wat!Has(m.from, m.event)
  BY <1>1 DEF Wat!TypeOK, Wat!ReportsOwn
<1>3. Wat!TypeOK'
  BY <1>1, <1>2 DEF Wat!TypeOK, Wat!srcVars, Wat!taskVars
<1>4. /\ \A w, e : Wat!Has(w, e)' = Wat!Has(w, e)
      /\ \A log : Wat!Told(log)' = Wat!Told(log)
  BY <1>1 DEF Wat!Has, Wat!FullBy, Wat!Told, Wat!srcVars
<1>5. \A w \in Sources : knas'[w] # None => Wat!Has(w, knas'[w])
  BY <1>1, <1>2 DEF Wat!TypeOK, Wat!ReportsOwn
<1>6. (\A w \in Sources : knas[w] # None => Wat!Has(w, knas[w]))'
  BY <1>1, <1>5 DEF Wat!Has, Wat!FullBy, Wat!srcVars
<1>7. Wat!ReportsOwn'
  BY <1>1, <1>4, <1>6 DEF Wat!ReportsOwn, Wat!logVars, Wat!Placed, Wat!Has, Wat!FullBy, Wat!Told, Wat!srcVars
<1>8. Grows
  BY <1>1, FullSame DEF Wat!srcVars
<1>9. Wat!VerdictFounded'
  BY <1>1, <1>3, <1>8, VerdictStays DEF Wat!taskVars, Wat!logVars
<1> QED
  BY <1>3, <1>7, <1>9 DEF Wat!WatchingInv

(* What a task that only asks leaves to be shown.                          *)
LEMMA AskingKeeps ==
  ASSUME Wat!WatchingAssumption, Wat!WatchingInv,
         UNCHANGED <<setting, known, full, notices, replays, klog, pending, states, verdict>>,
         \A q \in queries' \cup qnfs' : q.to \in Sources,
         knas' \in [Sources -> Wat!Events \cup {None}],
         \A w \in Sources : knas'[w] # None => knas'[w] = knas[w]
  PROVE  Wat!WatchingInv'
<1>1. Wat!TypeOK'
  BY DEF Wat!WatchingInv, Wat!TypeOK
<1>2. Grows
  BY FullSame DEF Wat!WatchingInv
<1>3. Wat!ReportsOwn'
  BY <1>1, <1>2, ReportsStay DEF Wat!WatchingInv
<1>4. Wat!VerdictFounded'
  BY <1>1, <1>2, VerdictStays DEF Wat!WatchingInv
<1> QED
  BY <1>1, <1>3, <1>4 DEF Wat!WatchingInv

(* A query goes to a source.                                               *)
LEMMA AskedSources ==
  ASSUME Wat!WatchingInv, NEW ends, ends \subseteq Sources, NEW r, NEW n, Wat!msgDo(ends, r, n), UNCHANGED qnfs
  PROVE  \A q \in queries' \cup qnfs' : q.to \in Sources
  BY DEF Wat!WatchingInv, Wat!TypeOK, Wat!msgDo, Wat!Query

LEMMA TasksKeep ==
  ASSUME Wat!WatchingAssumption, Wat!WatchingInv,
         \/ Wat!KeyStateNoticer \/ Wat!NoticeSaved \/ Wat!LogQuerier \/ Wat!SeqNoQuerier \/ Wat!AnchorQuerier
         \/ (\E w \in Sources : Wat!AskOther(w)) \/ (\E q \in qnfs : Wat!Expire(q))
         \/ (\E o \in setting.orders : Wat!processReplyAddWatched(o))
  PROVE  Wat!WatchingInv'
<1>1. UNCHANGED <<setting, known, full, notices, replays, klog, pending, states, verdict, knas>>
  BY DEF Wat!KeyStateNoticer, Wat!NoticeSaved, Wat!LogQuerier, Wat!SeqNoQuerier, Wat!AnchorQuerier,
     Wat!Querier, Wat!Ask, Wat!Finish, Wat!AskOther,
         Wat!Expire, Wat!processReplyAddWatched, Wat!srcVars, Wat!netVars, Wat!logVars, Wat!ksnVars, Wat!taskVars
<1>2. \A q \in queries' \cup qnfs' : q.to \in Sources
  <2>1. CASE (\E r, n : Wat!msgDo(Sources, r, n)) /\ UNCHANGED qnfs
    BY <2>1, AskedSources
  <2>2. CASE queries' = queries /\ qnfs' \subseteq qnfs
    BY <2>2 DEF Wat!WatchingInv, Wat!TypeOK
  <2>3. CASE \E w \in Sources : Wat!AskOther(w)
    BY <2>3 DEF Wat!WatchingInv, Wat!TypeOK, Wat!AskOther, Wat!Query
  <2>4. CASE Wat!KeyStateNoticer
    BY <2>1, <2>4 DEF Wat!KeyStateNoticer, Wat!Ask
  <2>7. ASSUME NEW route, Wat!Querier(route) PROVE \A q \in queries' \cup qnfs' : q.to \in Sources
    <3>1. \/ queries' = queries /\ qnfs' = qnfs
          \/ Wat!msgDo(Sources, route, setting.want) /\ UNCHANGED qnfs
      BY <2>7 DEF Wat!Querier, Wat!Ask, Wat!Finish, Wat!netVars
    <3> QED
      BY <2>1, <2>2, <3>1
  <2>5. CASE Wat!NoticeSaved
    BY <2>1, <2>2, <2>5 DEF Wat!NoticeSaved
  <2>6. CASE Wat!LogQuerier \/ (\E q \in qnfs : Wat!Expire(q)) \/ (\E o \in setting.orders : Wat!processReplyAddWatched(o))
    BY <2>2, <2>6 DEF Wat!LogQuerier, Wat!Finish, Wat!Expire, Wat!processReplyAddWatched, Wat!netVars
  <2> QED
    BY <2>3, <2>4, <2>5, <2>6, <2>7 DEF Wat!SeqNoQuerier, Wat!AnchorQuerier
<1> QED
  BY <1>1, <1>2, AskingKeeps DEF Wat!WatchingInv, Wat!TypeOK

(* A source that resolves an OOBI replays what it has.                     *)
LEMMA OtherResolves ==
  ASSUME Wat!WatchingAssumption, Wat!WatchingInv, NEW w \in Sources, Wat!ResolveOther(w)
  PROVE  Wat!WatchingInv'
<1>1. /\ Wat!TypeOK /\ Wat!ReportsOwn /\ Wat!VerdictFounded
      /\ replays' = replays \cup {Wat!FullBy(w)}
      /\ UNCHANGED <<setting, known, full, qnfs, queries, notices, klog, knas, pending, states, verdict>>
  BY DEF Wat!WatchingInv, Wat!ResolveOther, Wat!srcVars, Wat!logVars, Wat!ksnVars, Wat!taskVars
<1>2. Wat!Told(Wat!FullBy(w))
  <2>1. full[w] \in 0..full[w]
    BY <1>1, SourceLogs
  <2> QED
    BY <2>1 DEF Wat!Told, Wat!FullBy
<1>3. Wat!TypeOK'
  BY <1>1 DEF Wat!TypeOK
<1>4. Grows
  BY <1>1, FullSame
<1>5. /\ \A v, e : Wat!Has(v, e)' = Wat!Has(v, e)
      /\ \A log : Wat!Told(log)' = Wat!Told(log)
  BY <1>1 DEF Wat!Has, Wat!FullBy, Wat!Told
<1>6. Wat!ReportsOwn'
  <2>1. \A told \in replays' : Wat!Told(told)
    BY <1>1, <1>2 DEF Wat!ReportsOwn
  <2> QED
    BY <1>1, <1>5, <2>1 DEF Wat!ReportsOwn, Wat!Has, Wat!FullBy, Wat!Told, Wat!Placed
<1>7. Wat!VerdictFounded'
  BY <1>1, <1>3, <1>4, VerdictStays
<1> QED
  BY <1>3, <1>6, <1>7 DEF Wat!WatchingInv

LEMMA WatchAskKeeps == ASSUME Wat!WatchingAssumption, Wat!WatchingInv, Wat!WatchAsk PROVE Wat!WatchingInv'
<1> DEFINE w == Head(pending)
<1>1. /\ w \in Sources /\ knas' = [knas EXCEPT ![w] = None] /\ Wat!msgDo({w}, "ksn", 0)
      /\ UNCHANGED <<setting, known, full, qnfs, notices, replays, klog, pending, states, verdict>>
  BY HeadAndRest, WatchingOperators DEF Wat!WatchAsk, Wat!Ask, Wat!WatchingInv, Wat!TypeOK, Wat!srcVars, Wat!logVars
<1>2. \A q \in queries' \cup qnfs' : q.to \in Sources
  BY <1>1, AskedSources
<1>3. knas' \in [Sources -> Wat!Events \cup {None}] /\ \A v \in Sources : knas'[v] # None => knas'[v] = knas[v]
  BY <1>1 DEF Wat!WatchingInv, Wat!TypeOK
<1> QED
  BY <1>1, <1>2, <1>3, AskingKeeps

(* What a witness reported is read once.                                   *)
LEMMA WatchReadKeeps == ASSUME Wat!WatchingAssumption, Wat!WatchingInv, Wat!WatchRead PROVE Wat!WatchingInv'
<1> DEFINE w == Head(pending)
<1>1. /\ Wat!TypeOK /\ Wat!ReportsOwn /\ Wat!VerdictFounded /\ w \in Sources /\ Tail(pending) \in Seq(Sources)
      /\ pending' = Tail(pending)
      /\ UNCHANGED <<setting, Wat!srcVars, qnfs, Wat!netVars, Wat!logVars, Wat!ksnVars, want, verdict, wwas,
          asked, expired>>
      /\ states' = states \/ (knas[w] # None /\ states' = states \cup {Wat!diffState(w, knas[w])})
  BY HeadAndRest, WatchingOperators DEF Wat!WatchingInv, Wat!WatchRead, Wat!TypeOK
<1> HIDE DEF w
<1>2. Wat!IsFiniteSet(states') /\ \A x \in states' : Wat!Diff(x)
  <2>1. CASE states' = states
    BY <2>1, <1>1 DEF Wat!TypeOK, Wat!VerdictFounded
  <2>2. CASE knas[w] # None /\ states' = states \cup {Wat!diffState(w, knas[w])}
    <3>1. Wat!IsFiniteSet(states) /\ Wat!Diff(Wat!diffState(w, knas[w])) /\ \A x \in states : Wat!Diff(x)
      BY <2>2, <1>1, DiffIsRead DEF Wat!TypeOK, Wat!VerdictFounded
    <3>2. Wat!IsFiniteSet(states \cup {Wat!diffState(w, knas[w])})
      BY <3>1, FS_AddElement, WatchingOperators
    <3> QED
      BY <2>2, <3>1, <3>2
  <2> QED
    BY <2>1, <2>2, <1>1
<1>3. Wat!TypeOK'
  BY <1>1, <1>2 DEF Wat!TypeOK, Wat!srcVars, Wat!netVars, Wat!ksnVars
<1>4. Grows
  BY <1>1, FullSame DEF Wat!srcVars
<1>5. Wat!ReportsOwn'
  BY <1>1, <1>3, <1>4, ReportsStay DEF Wat!netVars, Wat!logVars, Wat!ksnVars
<1>6. \A x : Wat!Diff(x)' = Wat!Diff(x)
  BY <1>1 DEF Wat!Diff, Wat!Has, Wat!FullBy, Wat!Apart, Wat!srcVars, Wat!logVars
<1>7. Wat!VerdictFounded'
  BY <1>1, <1>2, <1>6
     DEF Wat!VerdictFounded, Wat!Digs, Wat!Diff, Wat!Has, Wat!FullBy, Wat!Apart, Wat!srcVars, Wat!logVars
<1> QED
  BY <1>3, <1>5, <1>7 DEF Wat!WatchingInv

(* A conclusion drawn from differences that were read.                     *)
LEMMA ConclusionKeeps ==
  ASSUME Wat!WatchingAssumption, Wat!WatchingInv, NEW found, NEW n \in Nat, verdict' = Wat!Judge(found, n),
         Wat!IsFiniteSet(found), \A x \in found : Wat!Diff(x), n >= setting.toad,
         UNCHANGED <<setting, known, full, notices, replays, klog, knas, pending, states>>,
         \A q \in queries' \cup qnfs' : q.to \in Sources
  PROVE  Wat!WatchingInv'
<1> DEFINE r == Wat!Judge(found, n)
<1>1. /\ r.states \subseteq found
      /\ r.kin = "update" =>
           /\ Wat!Cardinality(Wat!Digs(r.states)) = 1 /\ Wat!Cardinality(r.states) >= n
           /\ \A x \in r.states : x.state = "ahead"
      /\ r.kin = "duplicitous" =>
           r.states # {} /\ \E s \in {"duplicitous", "ahead"} : \A x \in r.states : x.state = s
  BY JudgeFacts
<1>2. verdict' = r
  OBVIOUS
<1> HIDE DEF r
<1>3. Wat!TypeOK /\ Wat!ReportsOwn /\ Wat!VerdictFounded /\ setting.toad \in Nat
  BY DEF Wat!WatchingInv, Wat!TypeOK, Wat!WatchingAssumption
<1>4. Wat!IsFiniteSet(r.states) /\ Wat!Cardinality(r.states) \in Nat
  BY <1>1, FS_Subset, FS_CardinalityType, WatchingOperators
<1>5. Wat!TypeOK'
  BY <1>2, <1>3, <1>4 DEF Wat!TypeOK
<1>6. Grows
  BY <1>3, FullSame
<1>7. Wat!ReportsOwn'
  BY <1>3, <1>5, <1>6, ReportsStay
<1>8. \A x \in states \cup r.states : Wat!Diff(x)
  BY <1>1, <1>3 DEF Wat!VerdictFounded
<1>9. (\A x \in states \cup verdict.states : Wat!Diff(x))'
  <2>1. \A x : Wat!Diff(x)' = Wat!Diff(x)
    BY DEF Wat!Diff, Wat!Has, Wat!FullBy, Wat!Apart
  <2> QED
    BY <2>1, <1>2, <1>8
<1>10. r.kin = "update" => Wat!Cardinality(r.states) >= setting.toad
  BY <1>1, <1>3, <1>4
<1>11. Wat!VerdictFounded'
  BY <1>1, <1>2, <1>9, <1>10 DEF Wat!VerdictFounded, Wat!Digs
<1> QED
  BY <1>5, <1>7, <1>11 DEF Wat!WatchingInv

LEMMA WatchDoKeeps == ASSUME Wat!WatchingAssumption, Wat!WatchingInv, Wat!watchDo PROVE Wat!WatchingInv'
<1>1. /\ verdict' = Wat!Judge(states, 1) /\ setting.toad = 0
      /\ UNCHANGED <<setting, known, full, notices, replays, klog, knas, pending, states, queries, qnfs>>
  BY DEF Wat!watchDo, Wat!Finish, Wat!WatchingInv, Wat!TypeOK, Wat!WatchingAssumption, Wat!srcVars,
     Wat!netVars, Wat!logVars, Wat!ksnVars
<1>2. Wat!IsFiniteSet(states) /\ (\A x \in states : Wat!Diff(x)) /\ \A q \in queries' \cup qnfs' : q.to \in Sources
  BY <1>1 DEF Wat!WatchingInv, Wat!TypeOK, Wat!VerdictFounded
<1>3. 1 \in Nat /\ 1 >= setting.toad
  BY <1>1
<1> QED
  BY <1>1, <1>2, <1>3, ConclusionKeeps

(* The verdict on what the watchers have reported.                         *)
LEMMA AdjudicateKeeps == ASSUME Wat!WatchingAssumption, Wat!WatchingInv, Wat!adjudicate PROVE Wat!WatchingInv'
<1> DEFINE heardOf == Wat!Observed \cap Wat!Reported
           found == {Wat!diffState(w, knas[w]) : w \in heardOf}
           judged == Wat!Judge(found, Wat!toad)
<1>1. Wat!TypeOK /\ Wat!ReportsOwn /\ Wat!VerdictFounded /\ setting.toad \in Nat
  BY DEF Wat!WatchingInv, Wat!TypeOK, Wat!WatchingAssumption
<1>2. heardOf \subseteq Sources /\ Wat!IsFiniteSet(heardOf) /\ Wat!IsFiniteSet(Wat!Observed)
  BY FS_Subset, WatchingOperators DEF Wat!Observed, Wat!Reported, Wat!WatchingAssumption
<1>3. \A x \in found : Wat!Diff(x)
  BY <1>1, DiffIsRead DEF Wat!Reported, Wat!Observed
<1>4. Wat!IsFiniteSet(found)
  <2> DEFINE f == [w \in heardOf |-> Wat!diffState(w, knas[w])]
  <2>1. f \in Surjection(heardOf, found)
    BY DEF Surjection, Range
  <2> QED
    BY <2>1, <1>2, FS_Surjection, WatchingOperators
<1>5. Wat!toad \in Nat /\ Wat!toad >= setting.toad
  BY <1>1, <1>2, FS_CardinalityType, WatchingOperators DEF Wat!toad
<1>6. \/ Wat!Finish("raised") /\ UNCHANGED verdict
      \/ /\ verdict' = judged
         /\ \/ \E n : /\ Wat!Ask("logs", n, {x.wit : x \in judged.states}, "log")
                      /\ UNCHANGED <<Wat!ksnVars, pending, states, wwas>>
            \/ \E next : Wat!Finish(next)
  BY DEF Wat!adjudicate
<1>7. judged.states \subseteq found
  BY JudgeFacts
<1> HIDE DEF heardOf, found, judged
<1>8. CASE Wat!Finish("raised") /\ UNCHANGED verdict
  <2>1. UNCHANGED <<setting, known, full, notices, replays, klog, knas, pending, states, verdict, queries, qnfs>>
    BY <1>8 DEF Wat!Finish, Wat!srcVars, Wat!netVars, Wat!logVars, Wat!ksnVars
  <2>2. knas' \in [Sources -> Wat!Events \cup {None}] /\ \A q \in queries' \cup qnfs' : q.to \in Sources
    BY <2>1, <1>1 DEF Wat!TypeOK
  <2> QED
    BY <2>1, <2>2, AskingKeeps
<1>9. ASSUME verdict' = judged, NEW n, Wat!Ask("logs", n, {x.wit : x \in judged.states}, "log"),
             UNCHANGED <<Wat!ksnVars, pending, states, wwas>>
      PROVE  Wat!WatchingInv'
  <2>1. /\ UNCHANGED <<setting, known, full, notices, replays, klog, knas, pending, states, qnfs>>
        /\ Wat!msgDo({x.wit : x \in judged.states}, "logs", n)
    BY <1>9 DEF Wat!Ask, Wat!srcVars, Wat!logVars, Wat!ksnVars
  <2>2. {x.wit : x \in judged.states} \subseteq Sources
    BY <1>3, <1>7 DEF Wat!Diff
  <2>3. \A q \in queries' \cup qnfs' : q.to \in Sources
    BY <2>1, <2>2, AskedSources
  <2>4. verdict' = Wat!Judge(found, Wat!toad)
    BY <1>9 DEF judged
  <2>5. \A m \in Nat : m = Wat!toad => Wat!WatchingInv'
    BY <2>1, <2>3, <2>4, <1>3, <1>4, <1>5, ConclusionKeeps
  <2> QED
    BY <2>5, <1>5
<1>10. ASSUME verdict' = judged, NEW next, Wat!Finish(next)
       PROVE  Wat!WatchingInv'
  <2>1. UNCHANGED <<setting, known, full, notices, replays, klog, knas, pending, states, queries, qnfs>>
    BY <1>10 DEF Wat!Finish, Wat!srcVars, Wat!netVars, Wat!logVars, Wat!ksnVars
  <2>2. \A q \in queries' \cup qnfs' : q.to \in Sources
    BY <2>1, <1>1 DEF Wat!TypeOK
  <2>3. verdict' = Wat!Judge(found, Wat!toad)
    BY <1>10 DEF judged
  <2>4. \A m \in Nat : m = Wat!toad => Wat!WatchingInv'
    BY <2>1, <2>2, <2>3, <1>3, <1>4, <1>5, ConclusionKeeps
  <2> QED
    BY <2>4, <1>5
<1> QED
  BY <1>6, <1>8, <1>9, <1>10

-----------------------------------------------------------------------------
(* The theorems                                                            *)

LEMMA WatchingStutter == ASSUME Wat!WatchingAssumption, Wat!WatchingInv, UNCHANGED Wat!vars PROVE Wat!WatchingInv'
<1>1. UNCHANGED <<setting, known, full, notices, replays, klog, knas, pending, states, verdict, queries, qnfs>>
  BY DEF Wat!vars, Wat!srcVars, Wat!netVars, Wat!logVars, Wat!ksnVars, Wat!taskVars
<1>2. knas' \in [Sources -> Wat!Events \cup {None}] /\ \A q \in queries' \cup qnfs' : q.to \in Sources
  BY <1>1 DEF Wat!WatchingInv, Wat!TypeOK
<1> QED
  BY <1>1, <1>2, AskingKeeps

LEMMA WatchingStep == ASSUME Wat!WatchingAssumption, Wat!WatchingInv, [Wat!Next]_(Wat!vars) PROVE Wat!WatchingInv'
<1>1. CASE Wat!Messages
  BY <1>1, AskedKeeps, SourceKeeps, ReplayKeeps, NoticeKeeps DEF Wat!Messages
<1>2. CASE Wat!Tasks \/ (\E w \in Sources : Wat!AskOther(w)) \/ (\E q \in qnfs : Wat!Expire(q))
           \/ (\E o \in setting.orders : Wat!processReplyAddWatched(o))
  BY <1>2, TasksKeep, WatchAskKeeps, WatchReadKeeps, WatchDoKeeps, AdjudicateKeeps DEF Wat!Tasks
<1>3. CASE \E w \in Sources : Wat!ResolveOther(w)
  BY <1>3, OtherResolves
<1>4. CASE Wat!Idle \/ UNCHANGED Wat!vars
  BY <1>4, WatchingStutter DEF Wat!Idle
<1> QED
  BY <1>1, <1>2, <1>3, <1>4 DEF Wat!Next

(* The inductive invariant of queries and watchers: notices and replays    *)
(* are of what their source had, and a verdict is of what was reported.    *)
THEOREM WatchingInvariant == ASSUME Wat!WatchingAssumption PROVE Wat!Spec => []Wat!WatchingInv
<1>1. Wat!Init => Wat!WatchingInv
  BY WatchingInit
<1>2. Wat!WatchingInv /\ [Wat!Next]_(Wat!vars) => Wat!WatchingInv'
  BY WatchingStep
<1> QED
  BY <1>1, <1>2, PTL DEF Wat!Spec

(* A part of a log is a beginning of a longer part.                        *)
LEMMA PartsAgree ==
  ASSUME Wat!WatchingAssumption, NEW log, Wat!Placed(log), NEW n \in 0..Len(log), NEW k \in 0..n
  PROVE  Wat!IsPrefix(SubSeq(log, 1, k), SubSeq(log, 1, n))
<1>0. Len(log) \in Nat /\ log \in Seq(Wat!Events)
  BY LenProperties DEF Wat!Placed
<1>1. k \in 0..Len(log) /\ k \in Nat /\ n \in Nat /\ k <= n
  BY <1>0
<1> DEFINE s == SubSeq(log, 1, k)
           t == SubSeq(log, 1, n)
<1>2. /\ Wat!Placed(s) /\ Len(s) = k /\ Wat!Placed(t) /\ Len(t) = n
      /\ \A i \in 1..k : s[i] = log[i]
      /\ \A i \in 1..n : t[i] = log[i]
  BY <1>1, Beginning
<1> HIDE DEF s, t
<1>3. k \in 0..Len(s) /\ k \in 0..Len(t)
  BY <1>1, <1>2
<1>4. /\ SubSeq(s, 1, k) \in Seq(Wat!Events) /\ Len(SubSeq(s, 1, k)) = k /\ \A i \in 1..k : SubSeq(s, 1, k)[i] = s[i]
      /\ SubSeq(t, 1, k) \in Seq(Wat!Events) /\ Len(SubSeq(t, 1, k)) = k /\ \A i \in 1..k : SubSeq(t, 1, k)[i] = t[i]
  BY <1>2, <1>3, Beginning DEF Wat!Placed
<1>5. \A i \in 1..k : i \in 1..n
  BY <1>1
<1>6. SubSeq(s, 1, k) = SubSeq(t, 1, k)
  BY <1>1, <1>2, <1>4, <1>5, SeqEqual
<1> QED
  BY <1>1, <1>2, <1>6 DEF Wat!IsPrefix, s, t

(* The key state a source is taken to have is one it had, fully witnessed; *)
(* an update is followed only when as many sources as asked for are ahead  *)
(* at one and the same event; and duplicity is found only where two events *)
(* stand at one place, or watchers ahead report different events.          *)
THEOREM VerdictsAreFounded ==
  ASSUME Wat!WatchingAssumption PROVE Wat!Spec => [](Wat!NoticesOwn /\ Wat!UpdateAgreed /\ Wat!DuplicityReal)
<1>1. Wat!WatchingInv => Wat!NoticesOwn
  <2> SUFFICES ASSUME Wat!WatchingInv PROVE Wat!NoticesOwn
    OBVIOUS
  <2>1. \A w \in Wat!Reported : knas[w] \in Wat!ToSet(Wat!FullBy(w))
    BY DEF Wat!WatchingInv, Wat!ReportsOwn, Wat!Has, Wat!Reported
  <2>2. ASSUME klog # setting.log PROVE \E w \in Sources : Wat!IsPrefix(klog, Wat!FullBy(w))
    <3>1. PICK w \in Sources : \E n \in 0..full[w] : klog = SubSeq(setting.branch[w], 1, n)
      BY <2>2 DEF Wat!WatchingInv, Wat!ReportsOwn, Wat!Told
    <3>2. PICK n \in 0..full[w] : klog = SubSeq(setting.branch[w], 1, n)
      BY <3>1
    <3>3. Wat!Placed(setting.branch[w]) /\ full[w] \in 0..Len(setting.branch[w])
      BY SourceLogs DEF Wat!WatchingInv
    <3> QED
      BY <3>2, <3>3, PartsAgree DEF Wat!FullBy
  <2> QED
    BY <2>1, <2>2 DEF Wat!NoticesOwn
<1>2. Wat!WatchingInv => Wat!UpdateAgreed
  <2> SUFFICES ASSUME Wat!WatchingInv, verdict.kin = "update" PROVE Wat!UpdateAgreed
    BY DEF Wat!UpdateAgreed
  <2> DEFINE found == verdict.states
  <2>1. /\ Wat!IsFiniteSet(found) /\ Wat!Cardinality(Wat!Digs(found)) = 1 /\ Wat!Cardinality(found) >= setting.toad
        /\ \A x \in found : x.state = "ahead" /\ Wat!Diff(x)
    BY DEF Wat!WatchingInv, Wat!TypeOK, Wat!VerdictFounded
  <2>2. Wat!IsFiniteSet(Wat!Digs(found))
    <3> DEFINE f == [x \in found |-> x.dig]
    <3>1. f \in Surjection(found, Wat!Digs(found))
      BY DEF Surjection, Range, Wat!Digs
    <3> QED
      BY <3>1, <2>1, FS_Surjection, WatchingOperators
  <2>3. PICK e : Wat!Digs(found) = {e}
    BY <2>1, <2>2, FS_Singleton, WatchingOperators
  <2> DEFINE ahead == {w \in Sources : e \in Wat!ToSet(Wat!FullBy(w))}
             f == [x \in found |-> x.wit]
  <2>4. \A x \in found : x.dig = e /\ x.wit \in ahead
                         /\ x \in [wit : Sources, dig : Wat!Events, state : {"even", "duplicitous", "behind",
                             "ahead"}]
    BY <2>1, <2>3 DEF Wat!Diff, Wat!Has, Wat!Digs
  <2>5. \A x, y \in found : x.wit = y.wit => x = y
    BY <2>1, <2>4
  <2>6. f \in Injection(found, ahead)
    BY <2>4, <2>5 DEF Injection, IsInjective
  <2>7. Wat!IsFiniteSet(ahead)
    BY FS_Subset, WatchingOperators DEF Wat!WatchingAssumption
  <2>8. Wat!Cardinality(found) <= Wat!Cardinality(ahead) /\ Wat!Cardinality(found) \in Nat /\
            Wat!Cardinality(ahead) \in Nat
    BY <2>1, <2>6, <2>7, FS_Injection, FS_CardinalityType, WatchingOperators
  <2> HIDE DEF ahead, found
  <2>9. Wat!Cardinality(ahead) >= Wat!Cardinality(found)
    BY <2>8
  <2> QED
    BY <2>1, <2>3, <2>9 DEF Wat!UpdateAgreed, ahead, found
<1>3. Wat!WatchingInv => Wat!DuplicityReal
  <2> SUFFICES ASSUME Wat!WatchingInv, verdict.kin = "duplicitous" PROVE Wat!DuplicityReal
    BY DEF Wat!DuplicityReal
  <2>1. verdict.states # {} /\ \A x \in verdict.states : Wat!Diff(x)
    BY DEF Wat!WatchingInv, Wat!VerdictFounded
  <2>2. PICK s \in {"duplicitous", "ahead"} : \A x \in verdict.states : x.state = s
    BY DEF Wat!WatchingInv, Wat!VerdictFounded
  <2>3. CASE s = "ahead"
    BY <2>2, <2>3 DEF Wat!DuplicityReal
  <2>4. CASE s = "duplicitous"
    <3>1. PICK x \in verdict.states : x.state = "duplicitous" /\ Wat!Diff(x)
      BY <2>1, <2>2, <2>4
    <3>2. \E e \in Wat!ToSet(klog) : Wat!Apart(e, x.dig)
      BY <3>1 DEF Wat!Diff
    <3> QED
      BY <3>2 DEF Wat!DuplicityReal
  <2> QED
    BY <2>2, <2>3, <2>4
<1> QED
  BY <1>1, <1>2, <1>3, WatchingInvariant, PTL
=============================================================================
