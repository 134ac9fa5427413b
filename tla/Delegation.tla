----------------------------- MODULE Delegation -----------------------------
(* The key event logs of a delegator and of its delegate, as one database  *)
(* holds them: core/eventing.py, Kevery.processEvent for inception,        *)
(* rotation and interaction events of both logs, Kever.validateDelegation  *)
(* and the escrows a delegated event goes through.  Signatures, witnesses  *)
(* and groups are the subject of Kevery; here an event comes fully signed  *)
(* and witnessed, or signed with keys that are not in force.               *)
EXTENDS Integers, Sequences, FiniteSets, SequencesExt

CONSTANTS
  KeyEvents,   \* a record for each event, see EventType
  Sent,        \* the messages that may come to each role, see MessageType
  Held,        \* the events each role starts with, a sequence for each log
  MaxSn,       \* bound on sequence numbers
  Timed,       \* the roles whose clock runs
  MaxStale,    \* bound on events whose escrow time runs out
  NoEvent      \* no event

Events == DOMAIN KeyEvents
Ev == KeyEvents
Pres == {"boss", "dele"}
NoSn == -1

(* under: the establishment events whose keys (of an interaction event) or *)
(* next keys (of a rotation) verify the event; seals: the events it seals. *)
EventType ==
  [pre : Pres, sn : 0..MaxSn, ilk : {"icp", "rot", "ixn", "dip", "drt"},
   prior : Events \cup {NoEvent}, under : SUBSET Events, seals : Seq(Events)]
(* sn: the source seal couple attached to the event, by its sequence       *)
(* number, the one part of it that is looked at.                           *)
MessageType == [event : Events, sn : 0..MaxSn \cup {NoSn}, local : BOOLEAN]
(* The delegator's own log is not delegated, and it seals delegated events. *)
ASSUME DelegationAssumption ==
  /\ \A e \in Events :
       /\ Ev[e] \in EventType
       /\ Ev[e].ilk \in {"icp", "dip"} => Ev[e].sn = 0
       /\ Ev[e].ilk = "icp" => Ev[e].pre = "boss"
       /\ Ev[e].ilk \in {"dip", "drt"} => Ev[e].pre = "dele"
       /\ \A s \in ToSet(Ev[e].seals) : Ev[s].ilk \in {"dip", "drt"}
  /\ \A r \in DOMAIN Sent : Sent[r] \subseteq MessageType

Escrows == {"oo", "ps", "pd", "del", "mf", "ld"}
Retried == {"oo", "ps", "pd", "del", "ld"}

VARIABLES
  role,    \* whose database it is: "delegator", "delegate" or another's
  kever,   \* kevers: latest event and latest establishment event of a log
  kels,    \* db.kels: what was accepted at a sequence number, in order
  fons,    \* db.fons: first seen events
  aess,    \* db.aess: the delegating event of an accepted event
  udes,    \* db.udes: the source seal couple of an escrowed event
  escrow,  \* the escrow tables
  source,  \* db.esrs
  stale    \* the events whose date is past the timeout
vars == <<role, kever, kels, fons, aess, udes, escrow, source, stale>>

-----------------------------------------------------------------------------
(* Logs                                                                    *)

Pre(e) == Ev[e].pre
Sn(e) == Ev[e].sn
Ilk(e) == Ev[e].ilk
Inceptive(e) == Ilk(e) \in {"icp", "dip"}
Delegated(e) == Ilk(e) \in {"dip", "drt"}
Known(p) == kever[p].said # NoEvent
TipSn(p) == Sn(kever[p].said)

(* What is held at first is an inception and the interaction events after  *)
(* it, with the events that seal what is delegated.                        *)
ASSUME HeldAssumption ==
  /\ MaxSn \in Nat /\ MaxStale \in Nat /\ NoEvent \notin Events
  /\ \A r \in DOMAIN Sent, p \in Pres :
       /\ Held[r][p] \in Seq({e \in Events : Pre(e) = p})
       /\ \A n \in DOMAIN Held[r][p] : LET e == Held[r][p][n] IN
            /\ Sn(e) = n - 1
            /\ IF n = 1 THEN Inceptive(e) ELSE Ilk(e) = "ixn" /\ Ev[e].prior = Held[r][p][n - 1]
            /\ Delegated(e) => \E b \in ToSet(Held[r]["boss"]) : e \in ToSet(Ev[b].seals)

LastAt(p, n) == IF kels[p][n] = <<>> THEN NoEvent ELSE Last(kels[p][n])
Seals(b, e) == b # NoEvent /\ e \in ToSet(Ev[b].seals)
SealIndex(b, e) == CHOOSE i \in DOMAIN Ev[b].seals : Ev[b].seals[i] = e

(* Baser.fetchLastSealingEventByEventSeal: the first sequence number whose *)
(* last event has the seal.                                                *)
SealingSns(e) == {n \in 0..MaxSn : Seals(LastAt("boss", n), e)}
LastSealing(e) ==
  IF SealingSns(e) = {} THEN NoEvent
  ELSE LastAt("boss", CHOOSE n \in SealingSns(e) : \A m \in SealingSns(e) : n <= m)

-----------------------------------------------------------------------------
(* Kever.update, Kever.rotate: the place of an event                       *)

OutOfOrder(e) ==
  IF Known(Pre(e)) THEN ~Inceptive(e) /\ Sn(e) > TipSn(Pre(e)) + 1
  ELSE ~Inceptive(e)
InOrder(e) ==
  IF Known(Pre(e))
  THEN /\ ~Inceptive(e)
       /\ \/ Sn(e) = TipSn(Pre(e)) + 1
          \/ Ilk(e) = "rot" /\ Sn(e) \in (Sn(kever[Pre(e)].est) + 1)..TipSn(Pre(e))
          \/ Ilk(e) = "drt" /\ Sn(e) \in Sn(kever[Pre(e)].est)..TipSn(Pre(e))
  ELSE Inceptive(e)
Duplicate(e) ==
  ~InOrder(e) /\ ~OutOfOrder(e) /\ LastAt(Pre(e), Sn(e)) = e
LikelyDuplicitous(e) ==
  ~InOrder(e) /\ ~OutOfOrder(e) /\ LastAt(Pre(e), Sn(e)) # e

FollowsAny(e) ==  \* slip: the prior digest is not compared at the tip
  Sn(e) > 0 /\ (Sn(e) = TipSn(Pre(e)) + 1 \/ Ev[e].prior = LastAt(Pre(e), Sn(e) - 1))
Follows(e) ==
  IF Sn(e) = TipSn(Pre(e)) + 1 THEN Ev[e].prior = kever[Pre(e)].said
  ELSE /\ Sn(e) > 0 /\ Ev[e].prior = LastAt(Pre(e), Sn(e) - 1)
       /\ Ilk(e) = "rot" => Ilk(kever[Pre(e)].said) = "ixn"
Valid(e) ==
  \/ Inceptive(e)
  \/ Ilk(e) = "ixn" /\ Follows(e) /\ kever[Pre(e)].est \in Ev[e].under
  \/ Ilk(e) \in {"rot", "drt"} /\ Follows(e)
     /\ (Delegated(kever[Pre(e)].est) => Ilk(e) = "drt")
(* Kever.exposeds with the digests of the latest establishment event.      *)
FullySigned(e) == Ilk(e) \in {"rot", "drt"} => kever[Pre(e)].est \in Ev[e].under

(* Kever.locallyOwned, locallyMembered and locallyWitnessed of the         *)
(* delegate, and locallyDelegated.                                         *)
Owned(e) == Pre(e) = (CASE role = "delegate" -> "dele" [] role = "delegator" -> "boss"
                        [] OTHER -> NoEvent)
LocallyDelegated(e) == role = "delegator" /\ Delegated(e)
OwnedMisfit(e, local) == ~local /\ Owned(e)  \* slip
Misfit(e, local) == ~local /\ (Owned(e) \/ LocallyDelegated(e))

-----------------------------------------------------------------------------
(* Outcomes.  from is the escrow the event is retried from, "arrival", or  *)
(* "confirm" when the delegator's controller approves it.                  *)

Move(e, from, to) ==
  escrow' = [x \in Escrows |->
    IF x = to THEN escrow[x] \cup {e}
    ELSE IF x = from \/ (x = "del" /\ from = "confirm") THEN escrow[x] \ {e}
    ELSE escrow[x]]
(* ConfirmDoer._addAuthorizerSeal                                          *)
Approved(e, from) ==
  IF from = "confirm" THEN [aess EXCEPT ![e] = kever["boss"].said] ELSE aess
Sourced(e, local) ==
  source' = [source EXCEPT ![e] = IF local \/ @ = "local" THEN "local" ELSE "remote"]
(* The escrow of partial delegations forgets the couple when the event     *)
(* leaves it, whatever became of the event.                                *)
Couple(e, from, to, sn) ==
  udes' = [udes EXCEPT ![e] =
    IF from = "pd" /\ to # "pd" THEN NoSn
    ELSE IF to = "pd" THEN sn
    ELSE IF from = "ps" /\ to = "kels" THEN NoSn
    ELSE IF to \in {"oo", "ps", "mf"} /\ @ = NoSn THEN sn ELSE @]

Hold(e, from, to, sn, local) ==
  /\ Move(e, from, to)
  /\ Couple(e, from, to, sn)
  /\ Sourced(e, local)
  /\ aess' = Approved(e, from)
  /\ UNCHANGED <<role, kever, kels, fons, stale>>

Discard(e, from) ==
  /\ Move(e, from, "none")
  /\ Couple(e, from, "none", NoSn)
  /\ aess' = Approved(e, from)
  /\ UNCHANGED <<role, kever, kels, fons, source, stale>>

(* Kever.logEvent and the new key state; by is the delegating event.       *)
Log(e, from, by, local) ==
  /\ kels' = [kels EXCEPT ![Pre(e)][Sn(e)] = IF e \in ToSet(@) THEN @ ELSE Append(@, e)]
  /\ fons' = fons \cup {e}
  /\ kever' = [kever EXCEPT ![Pre(e)] =
       [said |-> e, est |-> IF Ilk(e) = "ixn" THEN @.est ELSE e]]
  /\ aess' = [aess EXCEPT ![e] = IF by = NoEvent THEN @ ELSE by]
  /\ stale' = stale \ {e}
  /\ Move(e, from, "none")
  /\ Couple(e, from, "kels", NoSn)
  /\ Sourced(e, local)
  /\ UNCHANGED role

(* A duplicate: logEvent without first, which takes its default, local.    *)
LogDuplicate(e, from) ==
  /\ Sourced(e, TRUE)
  /\ Move(e, from, "kels")
  /\ Couple(e, from, "kels", NoSn)
  /\ aess' = Approved(e, from)
  /\ UNCHANGED <<role, kever, kels, fons, stale>>

-----------------------------------------------------------------------------
(* Kever.validateDelegation                                                *)

(* The delegating event: the one at the couple's sequence number if it has *)
(* the seal; without a couple, and only when eager, the one found by a     *)
(* walk through the delegator's log.                                       *)
DelegatingAt(e, sn, eager) ==  \* slip: the event named, sealing or not
  IF sn = NoSn THEN IF eager THEN LastSealing(e) ELSE NoEvent ELSE LastAt("boss", sn)
Delegating(e, sn, eager) ==
  IF sn = NoSn THEN IF eager THEN LastSealing(e) ELSE NoEvent
  ELSE IF Seals(LastAt("boss", sn), e) THEN LastAt("boss", sn) ELSE NoEvent
(* A couple that names no event yet is kept; one that names an event       *)
(* without the seal is forgotten.                                          *)
KeptCouple(sn) == IF sn # NoSn /\ LastAt("boss", sn) = NoEvent THEN sn ELSE NoSn

(* A rotation that supersedes more than the interaction event at the tip.  *)
Superseding(e) ==
  /\ Ilk(e) = "drt" /\ Sn(e) # TipSn("dele") + 1
  /\ ~(Sn(e) = TipSn("dele") /\ Ilk(kever["dele"].said) = "ixn")
(* The delegating event of the event at the tip, by db.aess alone.         *)
Original == aess[kever["dele"].said]
(* Only a delegating event at a later sequence number passes; the other    *)
(* rules stop at an attribute the event does not have.                     *)
NoEarlierDelegation(b) == Sn(b) >= Sn(Original)  \* slip
LaterDelegation(b) == Sn(b) > Sn(Original)

Missing(e, sn, local, eager, from) ==
  /\ Delegating(e, sn, eager) = NoEvent
  /\ Hold(e, from, "pd", KeptCouple(sn), local)
Supersede(e, b, local, eager, from) ==
  \/ Original = NoEvent /\ ~eager /\ Hold(e, from, "pd", Sn(b), local)
  \/ Original = NoEvent /\ eager /\ Discard(e, from)
  \/ Original # NoEvent /\ LaterDelegation(b) /\ Log(e, from, b, local)
  \/ Original # NoEvent /\ ~LaterDelegation(b) /\ Discard(e, from)

validateDelegation(e, sn, local, eager, from) ==
  IF role = "delegate" THEN Log(e, from, NoEvent, local)
  ELSE IF ~Known("boss") THEN Hold(e, from, "pd", sn, local)
  ELSE \/ sn = 0 /\ Discard(e, from)
       \/ sn # 0 /\ Missing(e, sn, local, eager, from)
       \/ /\ sn # 0 /\ Delegating(e, sn, eager) # NoEvent
          /\ IF Superseding(e)
             THEN Supersede(e, Delegating(e, sn, eager), local, eager, from)
             ELSE Log(e, from, Delegating(e, sn, eager), local)

-----------------------------------------------------------------------------
(* Kevery.processEvent                                                     *)

Accepting(e, local) == InOrder(e) /\ Valid(e) /\ ~Misfit(e, local)
processEvent(e, sn, local, eager, from) ==
  \/ OutOfOrder(e) /\ Hold(e, from, "oo", sn, local)
  \/ LikelyDuplicitous(e) /\ Hold(e, from, "ld", NoSn, TRUE)
  \/ Duplicate(e) /\ LogDuplicate(e, from)
  \/ InOrder(e) /\ ~Valid(e) /\ Discard(e, from)
  \/ InOrder(e) /\ Valid(e) /\ Misfit(e, local) /\ Hold(e, from, "mf", sn, local)
  \/ Accepting(e, local) /\ ~FullySigned(e) /\ Hold(e, from, "ps", sn, local)
  \/ Accepting(e, local) /\ FullySigned(e) /\ ~Delegated(e) /\ Log(e, from, NoEvent, local)
  \/ /\ Accepting(e, local) /\ FullySigned(e) /\ Delegated(e)
     /\ IF LocallyDelegated(e) /\ sn = NoSn THEN Hold(e, from, "del", sn, local)
        ELSE validateDelegation(e, sn, local, eager, from)

-----------------------------------------------------------------------------
(* The specification                                                       *)

Start(p) == Held[role][p]
Init ==
  /\ role \in DOMAIN Sent
  /\ kever = [p \in Pres |-> IF Start(p) = <<>> THEN [said |-> NoEvent, est |-> NoEvent]
       ELSE [said |-> Last(Start(p)), est |-> Start(p)[1]]]
  /\ kels = [p \in Pres |-> [n \in 0..MaxSn |->
       IF n < Len(Start(p)) THEN <<Start(p)[n + 1]>> ELSE <<>>]]
  /\ fons = UNION {ToSet(Start(p)) : p \in Pres}
  /\ aess = [e \in Events |-> IF e \in fons /\ Delegated(e)
       THEN CHOOSE b \in ToSet(Start("boss")) : Seals(b, e) ELSE NoEvent]
  /\ udes = [e \in Events |-> NoSn]
  /\ escrow = [x \in Escrows |-> {}]
  /\ source = [e \in Events |-> IF e \notin fons THEN "none"
       ELSE IF Misfit(e, FALSE) THEN "local" ELSE "remote"]
  /\ stale = {}

Receive(m) == processEvent(m.event, m.sn, m.local, FALSE, "arrival")

(* One item of an escrow loop.  The out of order and duplicitous loops do  *)
(* not pass the couple on, the loops of partial signatures and partial     *)
(* delegations are eager, that of the delegables waits for the approval.   *)
RetryAs(e, sn, eager, x) == processEvent(e, sn, source[e] = "local", eager, x)
RetryWaiting(x, e) ==  \* slip: partial delegations are not searched for
  /\ e \in escrow[x] /\ e \notin stale
  /\ \/ x \in {"oo", "ld"} /\ RetryAs(e, NoSn, FALSE, x)
     \/ x \in {"ps", "pd"} /\ RetryAs(e, udes[e], FALSE, x)
     \/ x = "del" /\ aess[e] # NoEvent /\ RetryAs(e, Sn(aess[e]), FALSE, x)
RetryEscrowed(x, e) ==
  /\ e \in escrow[x] /\ e \notin stale
  /\ \/ x \in {"oo", "ld"} /\ RetryAs(e, NoSn, FALSE, x)
     \/ x \in {"ps", "pd"} /\ RetryAs(e, udes[e], TRUE, x)
     \/ x = "del" /\ aess[e] # NoEvent /\ RetryAs(e, Sn(aess[e]), FALSE, x)
DropEscrowed(x, e) == e \in escrow[x] /\ e \in stale /\ Discard(e, x)

(* The delegator's controller approves e with an event that seals it, its  *)
(* latest (ConfirmDoer.confirmDo, _addAuthorizerSeal, _processEvent).      *)
Confirm(e) ==
  /\ role = "delegator" /\ e \in escrow["del"] /\ Seals(kever["boss"].said, e)
  /\ \/ LastAt("dele", Sn(e)) = e /\ Discard(e, "confirm")
     \/ LastAt("dele", Sn(e)) # e /\ processEvent(e, TipSn("boss"), TRUE, FALSE, "confirm")

Expire(e) ==
  /\ role \in Timed
  /\ source[e] # "none" /\ e \notin stale /\ Cardinality(stale) < MaxStale
  /\ stale' = stale \cup {e}
  /\ UNCHANGED <<role, kever, kels, fons, aess, udes, escrow, source>>

Next ==
  \/ \E m \in Sent[role] : Receive(m)
  \/ \E x \in Retried, e \in Events : RetryEscrowed(x, e) \/ DropEscrowed(x, e)
  \/ \E e \in Events : Confirm(e) \/ Expire(e)

(* Kevery.processEscrows reaches every item of its escrows on each turn;   *)
(* it is assumed of the escrows and roles the liveness properties name.    *)
(* The delegables are not among them: no host calls                        *)
(* processEscrowDelegables, so a retry of theirs may never come.           *)
Turn(x, e) == role \in Timed /\ (RetryEscrowed(x, e) \/ DropEscrowed(x, e))
Fairness ==
  /\ \A e \in Events : WF_vars(Turn("oo", e))
  /\ \A e \in {d \in Events : Delegated(d)} : WF_vars(Turn("pd", e))
Spec == Init /\ [][Next]_vars /\ Fairness
-----------------------------------------------------------------------------
(* Properties                                                              *)

TypeOK ==
  /\ role \in DOMAIN Sent
  /\ kever \in [Pres -> [said : Events \cup {NoEvent}, est : Events \cup {NoEvent}]]
  /\ \A p \in Pres, n \in 0..MaxSn : kels[p][n] \in Seq({e \in Events : Pre(e) = p /\ Sn(e) = n})
  /\ fons \subseteq Events
  /\ aess \in [Events -> Events \cup {NoEvent}]
  /\ udes \in [Events -> 0..MaxSn \cup {NoSn}]
  /\ escrow \in [Escrows -> SUBSET Events]
  /\ source \in [Events -> {"none", "remote", "local"}]
  /\ stale \subseteq Events /\ Cardinality(stale) <= MaxStale

(* Both logs stay one chain when the delegate's rotations supersede        *)
(* rotations and the delegator's supersede the events that seal them       *)
(* (Kever.rotate).                                                         *)
ChainsIntact ==
  \A p \in Pres : Known(p) =>
    /\ LastAt(p, TipSn(p)) = kever[p].said
    /\ \A n \in 1..TipSn(p) : Ev[LastAt(p, n)].prior = LastAt(p, n - 1)

(* Both logs are chains whose state is that of their last event.           *)
LogsSound == TypeOK /\ ChainsIntact

(* Whoever is not the delegate accepts a delegated event only with an      *)
(* event of the delegator that seals it and was accepted before, and       *)
(* records that event, whatever couples came with the messages             *)
(* (Kever.validateDelegation, db.aess).                                    *)
SealsRecorded ==
  role # "delegate" =>
    \A e \in fons : Delegated(e) => aess[e] \in fons /\ Seals(aess[e], e)

(* The delegator's controller is asked only about delegated events from    *)
(* local sources, and accepts no others (the misfit check of               *)
(* Kever.valSigsWigsDel).                                                  *)
DelegatorProtected ==
  role = "delegator" =>
    \A e \in fons \cup escrow["del"] : Delegated(e) => source[e] = "local"

(* A delegated rotation gives way only when it is the latest, and only to  *)
(* one whose delegating event is at a later sequence number, or is the     *)
(* same with a later seal, or is the rotation that superseded the other's  *)
(* delegating interaction event (rules A and B of                          *)
(* Kever.validateDelegation): rotations under it are final.                *)
EstOf(p) == kever[p].est
LaterSeal(b, new, a, old) ==
  \/ Sn(b) > Sn(a)
  \/ b = a /\ SealIndex(b, new) > SealIndex(a, old)
  \/ Sn(b) = Sn(a) /\ Ilk(b) = "rot" /\ Ilk(a) = "ixn"
RotationsGiveWay ==
  [][ /\ role # "delegate"
      /\ EstOf("dele") # NoEvent /\ EstOf("dele")' # EstOf("dele")
      /\ Sn(EstOf("dele")') <= Sn(EstOf("dele"))
      => /\ Sn(EstOf("dele")') = Sn(EstOf("dele"))
         /\ LaterSeal(aess'[EstOf("dele")'], EstOf("dele")', aess[EstOf("dele")], EstOf("dele"))
    ]_vars

(* What the properties of delegation rest on: the logs hold first seen     *)
(* events, the tip of a log is its latest establishment event or an        *)
(* interaction event after it, and a delegating event that was recorded    *)
(* was accepted and seals the delegated one.                               *)
LogsHeld ==
  /\ kels \in [Pres -> [0..MaxSn -> Seq(Events)]]
  /\ \A p \in Pres, n \in 0..MaxSn : ToSet(kels[p][n]) \subseteq fons
TipsEstablished ==
  \A p \in Pres :
    IF Known(p)
    THEN /\ kever[p].said \in fons /\ kever[p].est \in fons
         /\ Pre(kever[p].said) = p /\ Pre(kever[p].est) = p
         /\ Ilk(kever[p].est) # "ixn"
         /\ kever[p].said # kever[p].est =>
              Ilk(kever[p].said) = "ixn" /\ Sn(kever[p].est) < TipSn(p)
    ELSE kever[p].est = NoEvent /\ \A n \in 0..MaxSn : kels[p][n] = <<>>
SealsHeld ==
  \A e \in Events : aess[e] # NoEvent => aess[e] \in fons /\ Delegated(e) /\ Seals(aess[e], e)
DelegationInv ==
  /\ TypeOK /\ IsFiniteSet(stale)
  /\ LogsHeld /\ TipsEstablished /\ SealsHeld /\ SealsRecorded /\ DelegatorProtected

(* A log takes an event once.  The code does not see to it: a delegated    *)
(* rotation superseded by another at its place can supersede that one in   *)
(* its turn when the delegator seals it again, and stays where it was in   *)
(* the log (OnIoDupSuber.add), so the latest event is not the last there.  *)
Once ==
  [][\A p \in Pres : kever'[p].said # kever[p].said => kever'[p].said \notin fons]_vars

(* In a log without conflicts, a delegated event that came is accepted in  *)
(* the end once the events before it and the one that seals it are, in     *)
(* whatever order they came and whatever couple was attached, unless the   *)
(* couple names an event the delegator does not have.                      *)
Supported(e) ==
  /\ source[e] # "none" /\ e \notin stale
  /\ Delegated(e) => LastSealing(e) # NoEvent
  /\ e \in escrow["pd"] => KeptCouple(udes[e]) = NoSn
  /\ Inceptive(e) \/ Ev[e].prior \in fons
SupportedAccepted == role = "validator" => \A e \in Events : Supported(e) => e \in fons
DelegationCompletes == []<>SupportedAccepted

(* No event stays among the partial delegations for ever once its time ran *)
(* out (Kevery.processEscrowPartialDels).  Nothing promises that of the    *)
(* delegables, which wait for the delegator's controller (Confirm).        *)
DelegatedDrain == role \in Timed => []<>(escrow["pd"] \cap stale = {})

(* The delegating event of an event being accepted is in the delegator's   *)
(* current chain, neither superseded nor disputed ("Using getKeLast        *)
(* ensures delegating event has not already been superceded").             *)
CurrentChain == {LastAt("boss", n) : n \in 0..TipSn("boss")}
SealsCurrent ==
  [][ role # "delegate" =>
      \A e \in fons' \ fons : Delegated(e) => aess'[e] \in CurrentChain ]_vars

(* A rotation that supersedes the latest rotation, sealed later in the     *)
(* same delegating event, is not dropped: rule B2.                         *)
RuleB2(e) ==
  /\ kever["dele"].said # NoEvent
  /\ Superseding(e) /\ Sn(e) = TipSn("dele") /\ Original # NoEvent
  /\ Original = LastSealing(e)
  /\ SealIndex(Original, e) > SealIndex(Original, kever["dele"].said)
  /\ InOrder(e) /\ Valid(e) /\ FullySigned(e)
RecoveryHonoured ==
  [][ \A e \in escrow["pd"] \ escrow'["pd"] :
        RuleB2(e) /\ e \notin stale => e \in fons' ]_vars
=============================================================================
