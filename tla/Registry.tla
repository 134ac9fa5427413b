------------------------------ MODULE Registry ------------------------------
(* Transaction event logs: vdr/eventing.py, Tevery.processEvent for the    *)
(* events of a registry (inception, rotation of its backers) and of its    *)
(* credentials (issuance, revocation, each simple or backed), Tever and    *)
(* the escrows of events that are out of order, not anchored yet in the    *)
(* issuer's key event log, or not yet receipted by enough backers.         *)
EXTENDS Integers, Sequences, FiniteSets, SequencesExt

CONSTANTS
  TelEvents,    \* a record for each transaction event, see EventType
  KelEvents,    \* the events of the issuer's key event log: sn, prior, seals
  Traffics,     \* a Tevery, local or not, with its messages and the events of the issuer's log
  Places,       \* the keys of the logs and escrows, in database order
  MaxSn,        \* bound on sequence numbers of the key event log
  MaxRestarts,  \* bound on restarts
  NoEvent       \* no event

Events == DOMAIN TelEvents
Ev == TelEvents
Anchors == DOMAIN KelEvents
Pres == {Places[i][1] : i \in DOMAIN Places}
(* For a registry event adds and cuts change the backers and ra is unused; *)
(* a backed credential event refers to the registry event ra.              *)
EventType ==
  [pre : Pres, reg : Pres, sn : Nat, ilk : {"vcp", "vrt", "iss", "rev", "bis", "brv"},
   prior : Events \cup {NoEvent}, ra : Events \cup {NoEvent},
   cuts : SUBSET STRING, adds : SUBSET STRING, toad : Nat]

MessageType ==
  [event : Events, anchor : Anchors \cup {NoEvent}, bigs : SUBSET STRING]
(* An inception or issuance has number 0 and no other event has            *)
(* (Number.validate); the log of a registry and that of a credential are   *)
(* apart, since their identifiers are digests.                             *)
RegistryAssumption ==
  /\ MaxSn \in Nat /\ MaxRestarts \in Nat /\ NoEvent \notin Events \cup Anchors
  /\ \A t \in Traffics :
       t.msgs \subseteq MessageType /\ t.kel \subseteq Anchors /\ t.local \in BOOLEAN
  /\ \A k \in Anchors : KelEvents[k].sn \in 0..MaxSn
  /\ \A e \in Events :
       /\ Ev[e] \in EventType /\ <<Ev[e].pre, Ev[e].sn>> \in {Places[i] : i \in DOMAIN Places}
       /\ Ev[e].sn = 0 <=> Ev[e].ilk \in {"vcp", "iss", "bis"}
       /\ Ev[e].ilk \in {"vcp", "vrt"} => Ev[e].pre = Ev[e].reg
       /\ \A d \in Events : Ev[d].pre = Ev[e].pre =>
            (Ev[d].ilk \in {"vcp", "vrt"} <=> Ev[e].ilk \in {"vcp", "vrt"})

VARIABLES
  traffic,   \* the Tevery, messages and issuer events of this behaviour
  kels,      \* db.kels of the issuer, oldest first at each sequence number
  tever,     \* reger.tevers: latest event, its number, the backers, Tever.local
  states,    \* reger.states: what a restart loads
  tels,      \* reger.tels: the event logs
  tvts,      \* reger.tvts: every event held
  ancs,      \* reger.ancs: the anchoring event each came with
  tibs,      \* reger.tibs: the backers whose receipt is held
  baks,      \* reger.baks: the backers at a registry event
  escrow,    \* oots and taes, in insertion order at each key
  twes,      \* partially witnessed events
  pass,      \* the escrow loop in progress and what is left of its snapshot
  restarts
vars == <<traffic, kels, tever, states, tels, tvts, ancs, tibs, baks, escrow, twes, pass, restarts>>

Pre(e) == Ev[e].pre
Sn(e) == Ev[e].sn
Key(e) == <<Pre(e), Sn(e)>>
Ilk(e) == Ev[e].ilk
OfRegistry(e) == Ilk(e) \in {"vcp", "vrt"}
NoTever == [said |-> NoEvent, sn |-> 0, baks |-> {}, local |-> FALSE]
Tev(e) == tever[Ev[e].reg]
Known(e) == Tev(e) # NoTever
(* TraitDex.NoBackers in the inception event's configuration.              *)
NoBackers(e) ==
  \E v \in Events : Ilk(v) = "vcp" /\ Pre(v) = Ev[e].reg /\ Ev[v].adds = {}
KelAt(n) == IF kels[n] = <<>> THEN NoEvent ELSE Last(kels[n])

-----------------------------------------------------------------------------
(* Tevery.processEvent: the place of an event                              *)

(* Tever.sn for a registry, Tever.vcSn for a credential.                   *)
NextSn(e) == IF OfRegistry(e) THEN Tev(e).sn + 1 ELSE Len(tels[Pre(e)])
OutOfOrder(e) == IF Known(e) THEN Ilk(e) # "vcp" /\ Sn(e) > NextSn(e) ELSE Ilk(e) # "vcp"
InOrder(e) == IF Known(e) THEN Ilk(e) # "vcp" /\ Sn(e) = NextSn(e) ELSE Ilk(e) = "vcp"
LikelyDuplicitous(e) == ~OutOfOrder(e) /\ ~InOrder(e)

(* A simple issuance or revocation needs no receipts.                      *)
Backers(e) ==
  CASE OfRegistry(e) -> (Tev(e).baks \ Ev[e].cuts) \cup Ev[e].adds
    [] Ilk(e) \in {"bis", "brv"} -> baks[Ev[e].ra]
    [] OTHER -> {}
Toad(e) == IF OfRegistry(e) THEN Ev[e].toad ELSE Ev[Ev[e].ra].toad
ToadFits(e) ==
  IF Backers(e) = {} THEN Toad(e) = 0 ELSE Toad(e) \in 1..Cardinality(Backers(e))
(* Tever.revoke: the prior event is the one held at the place before.      *)
Revokes(e) == Ev[e].prior = tels[Pre(e)][Sn(e)]
(* Tever.incept, rotate, issue, revoke and getBackerState.                 *)
ValidAnyPrior(e) ==  \* slip: the prior event of a revocation is not compared
  CASE Ilk(e) = "vcp" -> ToadFits(e)
    [] Ilk(e) = "vrt" -> /\ ~NoBackers(e) /\ Ev[e].prior = Tev(e).said
                         /\ Ev[e].cuts \subseteq Tev(e).baks /\ Ev[e].adds \cap Tev(e).baks = {}
                         /\ ToadFits(e)
    [] Ilk(e) \in {"iss", "rev"} -> NoBackers(e)
    [] OTHER -> ~NoBackers(e) /\ Ev[e].ra \in tvts
Valid(e) ==
  CASE Ilk(e) = "vcp" -> ToadFits(e)
    [] Ilk(e) = "vrt" -> /\ ~NoBackers(e) /\ Ev[e].prior = Tev(e).said
                         /\ Ev[e].cuts \subseteq Tev(e).baks /\ Ev[e].adds \cap Tev(e).baks = {}
                         /\ ToadFits(e)
    [] Ilk(e) = "iss" -> NoBackers(e)
    [] Ilk(e) = "rev" -> NoBackers(e) /\ Revokes(e)
    [] Ilk(e) = "bis" -> ~NoBackers(e) /\ Ev[e].ra \in tvts
    [] Ilk(e) = "brv" -> /\ ~NoBackers(e) /\ Ev[e].ra \in tvts
                         /\ Revokes(e)

(* Tever.verifyAnchor: the event named is the last at its sequence number  *)
(* and seals this event alone.                                             *)
AnchoredAt(e, a) == a # NoEvent /\ KelAt(KelEvents[a].sn) = a  \* slip: any seal
Anchored(e, a) ==
  a # NoEvent /\ KelAt(KelEvents[a].sn) = a /\ KelEvents[a].seals = <<e>>

(* Tever.local: that of the Tevery that took the inception of the registry *)
(* (Regery's is local, those of the hosts and the Verifier are not).       *)
LocalTever(e) == IF Ilk(e) = "vcp" THEN traffic.local ELSE Tev(e).local
(* Tever.valAnchorBigs: a local Tever asks for no receipts.  The other     *)
(* conditions of its guard say nothing: Tevery names the registry, and its *)
(* identifier is not a backer's.                                           *)
ManyBacked(e, bigs) ==  \* slip: the backers before the rotation
  Backers(e) # {} /\ ~LocalTever(e)
    => Cardinality(bigs \cap (Backers(e) \cup Tev(e).baks)) >= Toad(e)
FullyBacked(e, bigs) ==
  Backers(e) # {} /\ ~LocalTever(e) => Cardinality(bigs \cap Backers(e)) >= Toad(e)

-----------------------------------------------------------------------------
(* Outcomes.  from is the escrow whose loop retries the event.  A loop     *)
(* that is done with an event removes all that the escrow has at its key.  *)

Put(s, e) == IF e \in ToSet(s) THEN s ELSE Append(s, e)
Move(e, from, to) ==
  escrow' = [x \in {"oo", "al"} |->
    IF x = to THEN [escrow[x] EXCEPT ![Key(e)] = Put(@, e)]
    ELSE IF x = from THEN [escrow[x] EXCEPT ![Key(e)] = <<>>]
    ELSE escrow[x]]
(* ancs.put does not replace a couple that is there, tibs.pin does.        *)
HoldAnchor(e, a) == ancs' = [ancs EXCEPT ![e] = IF @ = NoEvent THEN a ELSE @]
HoldBigs(e, bigs) == tibs' = [tibs EXCEPT ![e] = IF bigs = {} THEN @ ELSE bigs]
HoldBacks(e) ==
  baks' = [baks EXCEPT ![e] = IF OfRegistry(e) /\ Backers(e) # {} THEN Backers(e) ELSE @]
Held(e) == tvts' = tvts \cup {e}
Elsewhere == UNCHANGED <<traffic, kels, restarts>>

(* Tevery.escrowOOEvent; the receipts that came with the event are not     *)
(* kept.  Without an anchor it fails after the event is written.           *)
HoldOutOfOrder(e, a, from) ==
  /\ Held(e) /\ HoldAnchor(e, a)
  /\ Move(e, from, IF a = NoEvent THEN "none" ELSE "oo")
  /\ UNCHANGED <<tever, states, tels, tibs, baks, twes>>
(* Tever.escrowALEvent                                                     *)
HoldAnchorless(e, a, bigs, from) ==
  /\ Held(e) /\ HoldAnchor(e, a)
  /\ HoldBigs(e, bigs \cap Backers(e))
  /\ HoldBacks(e)
  /\ Move(e, from, "al")
  /\ UNCHANGED <<tever, states, tels, twes>>
(* Tever.escrowPWEvent: no loop ever retries these.                        *)
HoldPartiallyWitnessed(e, a, bigs, from) ==
  /\ Held(e) /\ HoldAnchor(e, a) /\ HoldBigs(e, bigs \cap Backers(e))
  /\ twes' = twes \cup {e}
  /\ Move(e, from, "none")
  /\ UNCHANGED <<tever, states, tels, baks>>
Discard(e, from) ==
  /\ Move(e, from, "none")
  /\ UNCHANGED <<tever, states, tels, tvts, ancs, tibs, baks, twes>>

(* Tever.logEvent, Tever.update and rbdict.__setitem__: the state is       *)
(* pinned when the registry is added, and not again; the Tever reloaded    *)
(* from it is not local (rbdict.__getitem__).                             *)
Log(e, a, bigs, from) ==
  /\ Held(e) /\ HoldAnchor(e, a)
  /\ HoldBigs(e, bigs \cap Backers(e))
  /\ HoldBacks(e)
  /\ tels' = [tels EXCEPT ![Pre(e)] = IF Sn(e) < Len(@) THEN @ ELSE Append(@, e)]
  /\ tever' = [tever EXCEPT ![Pre(e)] =
       IF OfRegistry(e)
       THEN [said |-> e, sn |-> Sn(e), baks |-> Backers(e), local |-> LocalTever(e)] ELSE @]
  /\ states' = [states EXCEPT ![Pre(e)] =
       IF Ilk(e) = "vcp" THEN [tever'[Pre(e)] EXCEPT !.local = FALSE] ELSE @]
  /\ Move(e, from, "none")
  /\ UNCHANGED twes

processEvent(e, a, bigs, from) ==
  \/ OutOfOrder(e) /\ HoldOutOfOrder(e, a, from)
  \/ LikelyDuplicitous(e) /\ Discard(e, from)
  \/ InOrder(e) /\ ~Valid(e) /\ Discard(e, from)
  \/ InOrder(e) /\ Valid(e) /\ ~Anchored(e, a) /\ HoldAnchorless(e, a, bigs, from)
  \/ /\ InOrder(e) /\ Valid(e) /\ Anchored(e, a) /\ ~FullyBacked(e, bigs)
     /\ HoldPartiallyWitnessed(e, a, bigs, from)
  \/ InOrder(e) /\ Valid(e) /\ Anchored(e, a) /\ FullyBacked(e, bigs) /\ Log(e, a, bigs, from)

-----------------------------------------------------------------------------
(* The specification                                                       *)

NoEvents == [k \in ToSet(Places) |-> <<>>]
Idle == [loop |-> "idle", todo |-> NoEvents]
Init ==
  /\ traffic \in Traffics
  /\ kels = [n \in 0..MaxSn |-> <<>>]
  /\ tever = [p \in Pres |-> NoTever]
  /\ states = [p \in Pres |-> NoTever]
  /\ tels = [p \in Pres |-> <<>>]
  /\ tvts = {} /\ twes = {}
  /\ ancs = [e \in Events |-> NoEvent]
  /\ tibs = [e \in Events |-> {}] /\ baks = [e \in Events |-> {}]
  /\ escrow = [x \in {"oo", "al"} |-> NoEvents]
  /\ pass = Idle
  /\ restarts = 0

Receive(m) ==
  /\ pass = Idle
  /\ processEvent(m.event, m.anchor, m.bigs, "arrival")
  /\ Elsewhere /\ UNCHANGED pass

(* The issuer's log: the next event, or a recovery from a number on.       *)
Anchor(k) ==
  /\ pass = Idle
  /\ k \notin ToSet(kels[KelEvents[k].sn])
  /\ KelEvents[k].sn > 0 => KelAt(KelEvents[k].sn - 1) = KelEvents[k].prior
  /\ kels' = [kels EXCEPT ![KelEvents[k].sn] = Append(@, k)]
  /\ UNCHANGED <<traffic, tever, states, tels, tvts, ancs, tibs, baks, escrow, twes, pass, restarts>>

(* Tevery.processEscrows: first the anchorless, then the out of order      *)
(* events; each loop iterates over the escrow as it was when it began, in  *)
(* the order of its keys.                                                  *)
SnapshotAnchorless(x) == escrow["al"]  \* slip: the loop of events out of order is not run
Snapshot(x) == escrow[x]
StartLoop ==
  /\ pass.todo = NoEvents
  /\ pass' = CASE pass.loop = "idle" -> [loop |-> "al", todo |-> Snapshot("al")]
               [] pass.loop = "al" -> [loop |-> "oo", todo |-> Snapshot("oo")]
               [] pass.loop = "oo" -> Idle
  /\ UNCHANGED <<traffic, kels, tever, states, tels, tvts, ancs, tibs, baks, escrow, twes, restarts>>
(* An anchorless event without any anchor is left where it is.             *)
RetryHead(k) ==
  /\ LET e == Head(pass.todo[k]) IN
       IF ancs[e] = NoEvent
       THEN UNCHANGED <<tever, states, tels, tvts, ancs, tibs, baks, escrow, twes>>
       ELSE processEvent(e, ancs[e], tibs[e], pass.loop)
  /\ pass' = [pass EXCEPT !.todo[k] = Tail(@)]
  /\ Elsewhere
RetryItem ==
  \E i \in DOMAIN Places :
    /\ pass.todo[Places[i]] # <<>> /\ \A j \in 1..(i - 1) : pass.todo[Places[j]] = <<>>
    /\ RetryHead(Places[i])

(* Reger.tevers is a cache read through reger.states.                      *)
Restart ==
  /\ restarts < MaxRestarts
  /\ restarts' = restarts + 1
  /\ tever' = states /\ pass' = Idle
  /\ UNCHANGED <<traffic, kels, states, tels, tvts, ancs, tibs, baks, escrow, twes>>

Next ==
  \/ \E m \in traffic.msgs : Receive(m)
  \/ \E k \in traffic.kel : Anchor(k)
  \/ StartLoop \/ RetryItem \/ Restart

(* RegeryDoer.do runs the escrows on every turn.                           *)
Fairness == WF_vars(StartLoop) /\ WF_vars(RetryItem)
Spec == Init /\ [][Next]_vars /\ Fairness
-----------------------------------------------------------------------------
(* Properties                                                              *)

Accepted == UNION {ToSet(tels[p]) : p \in Pres}
TypeOK ==
  /\ traffic \in Traffics /\ restarts \in 0..MaxRestarts
  /\ \A p \in Pres : tels[p] \in Seq({e \in Events : Pre(e) = p})
  /\ \A p \in Pres : tever[p] = NoTever \/ tever[p].said \in Events
  /\ tvts \subseteq Events /\ twes \subseteq tvts /\ Accepted \subseteq tvts
  /\ ancs \in [Events -> Anchors \cup {NoEvent}]
  /\ \A x \in {"oo", "al"}, k \in ToSet(Places) :
       escrow[x][k] \in Seq({e \in tvts : Key(e) = k})

(* No transaction event is accepted before the issuer's log has an event   *)
(* that seals it, whatever anchors came with its copies                    *)
(* (Tever.verifyAnchor).                                                   *)
AcceptedAnchored ==
  \A e \in Accepted : \E n \in 0..MaxSn : \E k \in ToSet(kels[n]) : KelEvents[k].seals = <<e>>

(* Where the Tevery is not local, a registry event is accepted, and kept,  *)
(* with the receipts of as many of the backers it installs as its          *)
(* threshold asks, counted over a cut and an added backer (Tever.rotate,   *)
(* Tever.valAnchorBigs), until a restart.                                  *)
BackersAfter(p, n) ==
  {b \in UNION {Ev[tels[p][m]].adds : m \in 1..n} :
     \E m \in 1..n : b \in Ev[tels[p][m]].adds /\ \A k \in (m + 1)..n : b \notin Ev[tels[p][k]].cuts}
RegistryBacked ==
  restarts = 0 /\ ~traffic.local => \A p \in Pres : \A n \in DOMAIN tels[p] : LET e == tels[p][n] IN
    OfRegistry(e) /\ ~NoBackers(e) => Cardinality(tibs[e] \cap BackersAfter(p, n)) >= Ev[e].toad

(* A credential's log is its issuance and then revocations, each of the    *)
(* event before it; a registry's log is one chain (Tever.revoke, rotate),  *)
(* over restarts that load an earlier state.                               *)
Chained(p) ==
  \A n \in DOMAIN tels[p] : n > 1 => Ev[tels[p][n]].prior = tels[p][n - 1]
Placed == \A p \in Pres : \A n \in DOMAIN tels[p] : Sn(tels[p][n]) = n - 1
LogsChained == Placed /\ \A p \in Pres : Chained(p)

(* What they rest on: the state of a registry is that after the last event *)
(* of its log, and after a restart that of an event of the log.            *)
RegistryLog(p) == \E e \in Events : OfRegistry(e) /\ Pre(e) = p
StateType == [said : Events, sn : Nat, baks : SUBSET STRING, local : BOOLEAN] \cup {NoTever}
StatesHeld ==
  /\ tever \in [Pres -> StateType] /\ states \in [Pres -> StateType]
  /\ \A p \in Pres :
       /\ tever[p] # NoTever => RegistryLog(p) /\ tever[p].sn < Len(tels[p])
       /\ states[p] # NoTever => RegistryLog(p) /\ states[p].sn < Len(tels[p])
StatesCurrent ==
  restarts = 0 => \A p \in Pres :
    tever[p] = IF RegistryLog(p) /\ tels[p] # <<>>
               THEN [said |-> Last(tels[p]), sn |-> Len(tels[p]) - 1,
                     baks |-> BackersAfter(p, Len(tels[p])), local |-> traffic.local]
               ELSE NoTever
QueuesHeld ==
  /\ escrow \in [{"oo", "al"} -> [ToSet(Places) -> Seq(Events)]]
  /\ pass.todo \in [ToSet(Places) -> Seq(Events)]
  /\ pass = [loop |-> pass.loop, todo |-> pass.todo] /\ pass.loop \in {"idle", "al", "oo"}
TablesHeld ==
  /\ tels \in [Pres -> Seq(Events)] /\ kels \in [0..MaxSn -> Seq(Anchors)]
  /\ tibs \in [Events -> SUBSET STRING] /\ baks \in [Events -> SUBSET STRING]
(* A credential's log is a chain over restarts too; the log of a registry  *)
(* whose rotation is forgotten in a restart need not be.                   *)
ChainsHeld ==
  \A p \in Pres : restarts = 0 \/ ~RegistryLog(p) => Chained(p)
RegistryInv ==
  /\ TypeOK /\ TablesHeld /\ QueuesHeld /\ StatesHeld /\ StatesCurrent
  /\ Placed /\ ChainsHeld /\ AcceptedAnchored /\ RegistryBacked

(* A transaction event whose registry, prior event and anchor have come    *)
(* is accepted in the end, in whatever order they came and over restarts,  *)
(* if the anchor it first came with is the right one, no other event came  *)
(* for its place and its registry has no backers (the loops of Tevery).    *)
Supported(e) ==
  /\ e \in tvts /\ NoBackers(e) /\ Anchored(e, ancs[e])
  /\ Known(e) \/ Ilk(e) = "vcp"
  /\ Ev[e].prior = NoEvent \/ Ev[e].prior \in ToSet(tels[Pre(e)])
  /\ \A d \in tvts : Key(d) = Key(e) => d = e
AllAccepted == \A e \in Events : Supported(e) => e \in Accepted
EventsComplete == []<>AllAccepted
=============================================================================
