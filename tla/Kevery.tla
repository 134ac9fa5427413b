------------------------------- MODULE Kevery -------------------------------
(***************************************************************************)
(* Validation of the key event log of one non-delegated identifier by one  *)
(* validator: keri.core.eventing.Kevery.processEvent, the Kever it keeps,  *)
(* and the escrows of events that cannot be accepted yet.                  *)
(*                                                                         *)
(* An event is named by its SAID, so that everything it says of itself is  *)
(* a constant (Ev).  A verified signature is the key that made it; a       *)
(* signature set may hold keys the event does not list, which stands for   *)
(* a signature that does not verify.  Thresholds count keys.               *)
(***************************************************************************)
EXTENDS Naturals, Sequences, FiniteSets, Functions

CONSTANTS
  KeyEvents,  \* what each event that exists for this identifier says, by SAID
  MaxSn,      \* largest sequence number of an event
  Keys,       \* signing keys, which also stand for their digests
  Wits,       \* witness prefixes
  Sent,       \* the messages that may arrive, any number of times
  Owned,      \* locallyOwned: the identifier is one of the local habs
  LocalKeys,  \* keys of the local member when it is a local group
  LocalWits,  \* local habs that are witnesses
  MaxStale,   \* bound: how many events may be older than the timeout
  NoEvent     \* no event

Ev == KeyEvents
Events == DOMAIN KeyEvents

EventType ==
  [sn : 0..MaxSn, ilk : {"icp", "rot", "ixn"}, prior : Events \cup {NoEvent},
   keys : SUBSET Keys, kt : Nat, next : SUBSET Keys, nt : Nat,
   cuts : SUBSET Wits, adds : SUBSET Wits, toad : Nat, estOnly : BOOLEAN]

MessageType ==
  [event : Events, sigs : SUBSET Keys, wigs : SUBSET Wits, local : BOOLEAN]

ASSUME EventsAssumption ==
  /\ NoEvent \notin Events
  /\ MaxSn \in Nat
  /\ Ev \in [Events -> EventType]
  /\ Sent \subseteq MessageType

ASSUME RolesAssumption ==
  /\ IsFiniteSet(Keys) /\ IsFiniteSet(Wits)
  /\ Owned \in BOOLEAN /\ LocalKeys \subseteq Keys /\ LocalWits \subseteq Wits
  /\ MaxStale \in Nat

Escrows == {"ooes", "pses", "pwes", "ldes", "misfits"}

(* The escrows Kevery.processEscrows goes through; the misfits are not.    *)
Retried == Escrows \ {"misfits"}

VARIABLES
  kever,   \* said: latest event, est: latest establishment event, wits
  kels,    \* db.kels: accepted events at each sn, in insertion order
  fels,    \* db.fels: accepted events in first seen order
  sigs,    \* db.sigs: controller signatures held for each event
  wigs,    \* db.wigs: witness signatures held for each event
  backers, \* db.wits: witness list recorded with each accepted event
  source,  \* db.esrs: "local", "remote", or "none" when never stored
  stale,   \* events whose db.dtss is older than the escrow timeout
  escrow   \* the events in each escrow

vars == <<kever, kels, fels, sigs, wigs, backers, source, stale, escrow>>

-----------------------------------------------------------------------------
(* Reading the logs                                                        *)

Sn(e) == Ev[e].sn
Establishing(e) == Ev[e].ilk \in {"icp", "rot"}
Rotation(e) == Ev[e].ilk = "rot"

Accepted == kever.said # NoEvent
TipSn == Sn(kever.said)
EstSnAtInception == 0  \* slip: the latest establishment never recorded
EstSn == Sn(kever.est)

(* db.kels.getLast: the event accepted last at sn n.                       *)
FirstAt(n) == kels[n][1]  \* slip: the event accepted first
LastAt(n) == kels[n][Len(kels[n])]
IsLastAt(e, n) == kels[n] # <<>> /\ LastAt(n) = e

(* Kevery.fetchEstEvent: the establishment event in force at sn n, going   *)
(* back over the events accepted last.                                     *)
EstEvent(n) ==
  LastAt(CHOOSE m \in 0..n :
           /\ Establishing(LastAt(m))
           /\ \A j \in (m + 1)..n : ~Establishing(LastAt(j)))

(* Kevery.fetchWitnessState: the witnesses recorded with the establishment *)
(* event met first going back over every event accepted up to sn n.        *)
WitnessState(n) ==
  LET m == CHOOSE m \in 0..n :
             /\ \E e \in Range(kels[m]) : Establishing(e)
             /\ \A j \in (m + 1)..n : \A e \in Range(kels[j]) : ~Establishing(e)
      i == CHOOSE i \in DOMAIN kels[m] :
             /\ Establishing(kels[m][i])
             /\ \A j \in (i + 1)..Len(kels[m]) : ~Establishing(kels[m][j])
  IN  backers[kels[m][i]]

-----------------------------------------------------------------------------
(* Kever: the checks on an event against the key state                     *)

Member == LocalKeys # {}

Satisfies(S, threshold) == threshold > 0 /\ Cardinality(S) >= threshold

ToadInBounds(e, ws) ==
  IF ws = {} THEN Ev[e].toad = 0 ELSE Ev[e].toad \in 1..Cardinality(ws)

(* Kever.incept: at inception the adds are the initial witness list.       *)
ValidIncept(e) ==
  /\ Sn(e) = 0
  /\ Cardinality(Ev[e].keys) >= Ev[e].kt
  /\ ToadInBounds(e, Ev[e].adds)

(* Kever.deriveBacks: the witness list after rotation e.                   *)
Derived(e) ==
  IF TipSn >= Sn(e) THEN kever.wits ELSE (kever.wits \ Ev[e].cuts) \cup Ev[e].adds

ValidBacks(e) ==
  \/ TipSn >= Sn(e)
  \/ /\ Ev[e].cuts \subseteq kever.wits
     /\ Ev[e].adds \cap (Ev[e].cuts \cup kever.wits) = {}

(* Kever.rotate: in order after the latest event, or a recovery over       *)
(* interaction events whose prior is the event accepted last before it.    *)
ValidRotate(e) ==
  /\ Ev[kever.est].next # {}
  /\ \/ /\ Sn(e) = TipSn + 1
        /\ Ev[e].prior = kever.said
     \/ /\ EstSn < Sn(e) /\ Sn(e) <= TipSn
        /\ Ev[kever.said].ilk = "ixn"
        /\ IsLastAt(Ev[e].prior, Sn(e) - 1)
  /\ Cardinality(Ev[e].keys) >= Ev[e].kt
  /\ ValidBacks(e)
  /\ ToadInBounds(e, Derived(e))

(* Slip: the prior digest is not compared.                                 *)
ValidInteractAnyPrior(e) ==
  /\ Ev[kever.est].next # {}
  /\ ~Ev[LastAt(0)].estOnly
  /\ Sn(e) = TipSn + 1

(* Kever.update, interaction event.                                        *)
ValidInteract(e) ==
  /\ Ev[kever.est].next # {}
  /\ ~Ev[LastAt(0)].estOnly
  /\ Sn(e) = TipSn + 1
  /\ Ev[e].prior = kever.said

Valid(e) ==
  CASE Ev[e].ilk = "icp" -> ValidIncept(e)
    [] Ev[e].ilk = "rot" -> ValidRotate(e)
    [] Ev[e].ilk = "ixn" -> ValidInteract(e)

(* The event that gives the keys, signing threshold and toad e is held to. *)
Governor(e) == IF Establishing(e) THEN e ELSE kever.est

(* The witness list e is held to.                                          *)
WitsFor(e) ==
  CASE Ev[e].ilk = "icp" -> Ev[e].adds
    [] Ev[e].ilk = "rot" -> Derived(e)
    [] Ev[e].ilk = "ixn" -> kever.wits

(* Slip: the signatures of the local member are not set apart.             *)
VerifiedFromAnywhere(e, S, local) == S \cap Ev[Governor(e)].keys

(* Controller signatures that count: verified, and not made by the local   *)
(* member of a local group when the event came from elsewhere.             *)
Verified(e, S, local) ==
  (IF Member /\ ~local THEN S \ LocalKeys ELSE S) \cap Ev[Governor(e)].keys

(* Kever.locallyWitnessed falls back on the current list when given none.  *)
LocallyWitnessed(ws) ==
  LocalWits \cap (IF ws = {} THEN kever.wits ELSE ws) # {}

(* Slip: a signature that does not verify is enough.                       *)
AnySigned(e, S, local) == S # {}

(* Kever.valSigsWigsDel: at least one signature verifies, otherwise the    *)
(* event is dropped without a trace.  The key of the local group member    *)
(* must be among the keys, or looking it up fails.                         *)
MinimallySigned(e, S, local) ==
  /\ Member /\ ~local => LocalKeys \cap Ev[Governor(e)].keys # {}
  /\ Verified(e, S, local) # {}

OwnedMisfit(e, local) == ~local /\ Owned  \* slip: witnessed ones forgotten
Misfit(e, local) == ~local /\ (Owned \/ LocallyWitnessed(WitsFor(e)))

(* Slip: the prior next keys need not sign a rotation.                     *)
CurrentlySigned(e, S, local) ==
  Satisfies(Verified(e, S, local), Ev[Governor(e)].kt)

FullySigned(e, S, local) ==
  /\ Satisfies(Verified(e, S, local), Ev[Governor(e)].kt)
  /\ Rotation(e) =>  \* Kever.exposeds: prior next keys that signed
       Satisfies(Verified(e, S, local) \cap Ev[kever.est].next, Ev[kever.est].nt)

(* Slip: signatures are counted before they are verified.                  *)
CountedWitnessed(e, W) ==
  \/ WitsFor(e) = {} \/ Owned \/ Member \/ LocallyWitnessed(WitsFor(e))
  \/ Cardinality(W) >= Ev[Governor(e)].toad

FullyWitnessed(e, W) ==
  \/ WitsFor(e) = {} \/ Owned \/ Member \/ LocallyWitnessed(WitsFor(e))
  \/ Cardinality(W \cap WitsFor(e)) >= Ev[Governor(e)].toad

-----------------------------------------------------------------------------
(* Kevery.processEvent: where an event is sent                             *)

OutOfOrder(e) ==
  \/ ~Accepted /\ Ev[e].ilk # "icp"
  \/ Accepted /\ Ev[e].ilk # "icp" /\ Sn(e) > TipSn + 1

(* First inception, next event, or a superseding recovery rotation.        *)
InOrder(e) ==
  \/ ~Accepted /\ Ev[e].ilk = "icp"
  \/ Accepted /\ Ev[e].ilk # "icp" /\ Sn(e) = TipSn + 1
  \/ Accepted /\ Rotation(e) /\ EstSn < Sn(e) /\ Sn(e) <= TipSn

Late(e) ==
  /\ Accepted
  /\ \/ Ev[e].ilk = "icp" /\ Sn(e) = 0
     \/ Ev[e].ilk # "icp" /\ Sn(e) <= TipSn /\ ~InOrder(e)

Duplicate(e) ==
  /\ Late(e)
  /\ IF Ev[e].ilk = "icp" THEN EstEvent(0) = e ELSE IsLastAt(e, Sn(e))

LikelyDuplicitous(e) == Late(e) /\ ~Duplicate(e)

-----------------------------------------------------------------------------
(* Effects shared by the outcomes of processEvent                          *)

(* Attachments are merged into what is held for the event; the source is   *)
(* upgraded from remote to local and never back.                           *)
Store(e, S, W, local) ==
  /\ sigs' = [sigs EXCEPT ![e] = @ \cup S]
  /\ wigs' = [wigs EXCEPT ![e] = @ \cup W]
  /\ source' = [source EXCEPT ![e] =
                  IF local \/ @ = "local" THEN "local" ELSE "remote"]

(* An escrow handler keeps its event only when the event is sent back to   *)
(* the same escrow; "from" is "arrival" for an event off the wire.         *)
Move(e, from, to) ==
  escrow' = [x \in Escrows |->
               IF x = to THEN escrow[x] \cup {e}
               ELSE IF x = from THEN escrow[x] \ {e} ELSE escrow[x]]

LogsUnchanged == UNCHANGED <<kever, kels, fels, backers, stale>>

(* Slip: the prior digest is logged in place of the event's own.           *)
LogPrior(e) ==
  /\ fels' = Append(fels, Ev[e].prior)
  /\ kels' = [kels EXCEPT ![Sn(e)] = Append(@, e)]
  /\ backers' = [backers EXCEPT ![e] = WitsFor(e)]
  /\ kever' = [said |-> e, est |-> Governor(e), wits |-> WitsFor(e)]
  /\ stale' = stale \ {e}

(* Kever.logEvent, first seen, and the key state it leaves.                *)
Log(e) ==
  /\ fels' = Append(fels, e)
  /\ kels' = [kels EXCEPT ![Sn(e)] = IF e \in Range(@) THEN @ ELSE Append(@, e)]
  /\ backers' = IF Establishing(e) THEN [backers EXCEPT ![e] = WitsFor(e)]
                ELSE backers
  /\ kever' = IF Establishing(e)
              THEN [said |-> e, est |-> e, wits |-> WitsFor(e)]
              ELSE [kever EXCEPT !.said = e]
  /\ stale' = stale \ {e}

-----------------------------------------------------------------------------
(* Kevery.processEvent, one operator per outcome                           *)

HoldOutOfOrder(e, S, W, local, from) ==
  /\ Store(e, S, W, local)
  /\ Move(e, from, "ooes")
  /\ LogsUnchanged

(* The witness signatures are not kept, and the source becomes local.      *)
HoldLikelyDuplicitous(e, S, from) ==
  /\ Store(e, S, {}, TRUE)
  /\ Move(e, from, "ldes")
  /\ LogsUnchanged

(* Witness signatures are kept before they are verified.                   *)
HoldMisfit(e, S, W, local, from) ==
  /\ Misfit(e, local)
  /\ Store(e, Verified(e, S, local), W, local)
  /\ Move(e, from, "misfits")
  /\ LogsUnchanged

HoldPartiallySigned(e, S, W, local, from) ==
  /\ ~FullySigned(e, S, local)
  /\ Store(e, Verified(e, S, local), W \cap WitsFor(e), local)
  /\ Move(e, from, "pses")
  /\ LogsUnchanged

HoldPartiallyWitnessed(e, S, W, local, from) ==
  /\ FullySigned(e, S, local)
  /\ ~FullyWitnessed(e, W)
  /\ Store(e, Verified(e, S, local), W \cap WitsFor(e), local)
  /\ Move(e, from, "pwes")
  /\ LogsUnchanged

(* The source of an interaction event is logged as local.                  *)
Accept(e, S, W, local, from) ==
  /\ FullySigned(e, S, local)
  /\ FullyWitnessed(e, W)
  /\ Store(e, Verified(e, S, local), W \cap WitsFor(e),
           local \/ ~Establishing(e))
  /\ Move(e, from, "kels")
  /\ Log(e)

(* Kever.valSigsWigsDel, called by Kever.update or for a new Kever.        *)
valSigsWigs(e, S, W, local, from) ==
  \/ HoldMisfit(e, S, W, local, from)
  \/ /\ ~Misfit(e, local)
     /\ \/ HoldPartiallySigned(e, S, W, local, from)
        \/ HoldPartiallyWitnessed(e, S, W, local, from)
        \/ Accept(e, S, W, local, from)

(* Signatures that came late are added to those of an accepted event.      *)
LateSigs(e, S) == S \cap Ev[EstEvent(Sn(e))].keys
LateWigs(e, W) ==
  W \cap (IF Ev[e].ilk = "icp" THEN Ev[e].adds ELSE WitnessState(Sn(e)))

(* Slip: late signatures are logged as a first seen event.                 *)
LogDuplicateFirst(e, S, W, from) ==
  /\ LateSigs(e, S) # {} \/ LateWigs(e, W) # {}
  /\ Store(e, LateSigs(e, S), LateWigs(e, W), TRUE)
  /\ Move(e, from, "kels")
  /\ Log(e)

LogDuplicate(e, S, W, from) ==
  /\ LateSigs(e, S) # {} \/ LateWigs(e, W) # {}
  /\ Store(e, LateSigs(e, S), LateWigs(e, W), TRUE)
  /\ Move(e, from, "kels")
  /\ LogsUnchanged

(* Any other error, or a duplicate with nothing new: an escrow drops the   *)
(* event and a message leaves no trace.                                    *)
Discard(e, from) ==
  /\ Move(e, from, "none")
  /\ UNCHANGED <<sigs, wigs, source>>
  /\ LogsUnchanged

Checked(e, S, local) == Valid(e) /\ MinimallySigned(e, S, local)

processEvent(e, S, W, local, from) ==
  \/ OutOfOrder(e) /\ HoldOutOfOrder(e, S, W, local, from)
  \/ LikelyDuplicitous(e) /\ HoldLikelyDuplicitous(e, S, from)
  \/ InOrder(e) /\ Checked(e, S, local) /\ valSigsWigs(e, S, W, local, from)
  \/ InOrder(e) /\ ~Checked(e, S, local) /\ Discard(e, from)
  \/ Duplicate(e) /\ LogDuplicate(e, S, W, from)
  \/ Duplicate(e) /\ LateSigs(e, S) = {} /\ LateWigs(e, W) = {} /\ Discard(e, from)
  \/ ~(InOrder(e) \/ OutOfOrder(e) \/ Late(e)) /\ Discard(e, from)

-----------------------------------------------------------------------------
(* The specification                                                       *)

Init ==
  /\ kever = [said |-> NoEvent, est |-> NoEvent, wits |-> {}]
  /\ kels = [n \in 0..MaxSn |-> <<>>]
  /\ fels = <<>>
  /\ sigs = [e \in Events |-> {}]
  /\ wigs = [e \in Events |-> {}]
  /\ backers = [e \in Events |-> {}]
  /\ source = [e \in Events |-> "none"]
  /\ stale = {}
  /\ escrow = [x \in Escrows |-> {}]

(* A message off the wire.                                                 *)
Receive(m) == processEvent(m.event, m.sigs, m.wigs, m.local, "arrival")

(* One item of processEscrowOutOfOrders, PartialSigs, PartialWigs or       *)
(* Duplicitous: dropped when stale or unsigned, else processed again with  *)
(* every signature held.  The duplicitous escrow passes no witness         *)
(* signatures.                                                             *)

DropEscrowed(x, e) ==
  /\ e \in escrow[x]
  /\ e \in stale \/ sigs[e] = {}
  /\ Move(e, x, "none")
  /\ UNCHANGED <<sigs, wigs, source>>
  /\ LogsUnchanged

RetrySigsOnly(x, e) ==  \* slip: no escrow passes the witness signatures
  /\ e \in escrow[x]
  /\ e \notin stale /\ sigs[e] # {}
  /\ processEvent(e, sigs[e], {}, source[e] = "local", x)

RetryEscrowed(x, e) ==
  /\ e \in escrow[x]
  /\ e \notin stale /\ sigs[e] # {}
  /\ processEvent(e, sigs[e], IF x = "ldes" THEN {} ELSE wigs[e],
                  source[e] = "local", x)

(* The clock passes the timeout of e.                                      *)
Expire(e) ==
  /\ source[e] # "none"
  /\ e \notin stale /\ Cardinality(stale) < MaxStale
  /\ stale' = stale \cup {e}
  /\ UNCHANGED <<kever, kels, fels, sigs, wigs, backers, source, escrow>>

Next ==
  \/ \E m \in Sent : Receive(m)
  \/ \E x \in Retried, e \in Events : DropEscrowed(x, e) \/ RetryEscrowed(x, e)
  \/ \E e \in Events : Expire(e)

Spec == Init /\ [][Next]_vars

(* Kevery.escrowDo calls processEscrows forever, and each call reaches     *)
(* every item of every escrow in turn.                                     *)
Fairness ==
  \A x \in Retried, e \in Events : WF_vars(DropEscrowed(x, e) \/ RetryEscrowed(x, e))

FairSpec == Spec /\ Fairness

(* Time passes: every event held grows older than its timeout.             *)
TimedSpec == FairSpec /\ \A e \in Events : WF_vars(Expire(e))

-----------------------------------------------------------------------------
(* Properties                                                              *)

TypeOK ==
  /\ kever \in [said : Events \cup {NoEvent}, est : Events \cup {NoEvent},
                wits : SUBSET Wits]
  /\ kels \in [0..MaxSn -> Seq(Events)]
  /\ fels \in Seq(Events)
  /\ sigs \in [Events -> SUBSET Keys]
  /\ wigs \in [Events -> SUBSET Wits]
  /\ backers \in [Events -> SUBSET Wits]
  /\ source \in [Events -> {"none", "remote", "local"}]
  /\ stale \subseteq Events
  /\ escrow \in [Escrows -> SUBSET Events]

(* The events accepted last at sn 0, 1, .. up to the sn of the key state   *)
(* form one hash chain from the inception to the event of the key state,   *)
(* and the key state names the chain's latest establishment event, however *)
(* many times recovery has cut the chain back (kels.getLast, lastEst).     *)
ChainIntact ==
  Accepted =>
    /\ \A n \in 0..TipSn : kels[n] # <<>> /\ Sn(LastAt(n)) = n
    /\ \A n \in 1..TipSn : Ev[LastAt(n)].prior = LastAt(n - 1)
    /\ kever.said = LastAt(TipSn)
    /\ kever.est \in Events /\ EstSn <= TipSn
    /\ kever.est = LastAt(EstSn) /\ Establishing(kever.est)
    /\ \A n \in (EstSn + 1)..TipSn : ~Establishing(LastAt(n))

(* The first seen log and the key event log hold the same events, each     *)
(* once: an event superseded by a recovery, held in an escrow or received  *)
(* again never gets a second first seen number.                            *)
FirstSeenOnce ==
  /\ \A i, j \in DOMAIN fels : fels[i] = fels[j] => i = j
  /\ \A e \in Events : e \in Range(fels) <=> e \in Range(kels[Sn(e)])

(* A superseded event is not part of the chain, and stays out for good: it *)
(* is not above the latest establishment event, or its prior event is      *)
(* superseded too.  Together with the chain, this is why no event can be   *)
(* accepted twice.                                                         *)
LoggedEvent(e) == e \in Range(kels[Sn(e)])
Superseded(e) == LoggedEvent(e) /\ (Sn(e) > TipSn \/ LastAt(Sn(e)) # e)

SupersededForGood ==
  \A e \in Events :
    Superseded(e) =>
      \/ Sn(e) <= EstSn
      \/ /\ Ev[e].prior \in Events
         /\ Sn(e) = Sn(Ev[e].prior) + 1
         /\ Superseded(Ev[e].prior)

(* The inductive invariant: with it, each step keeps the chain and logs no *)
(* event a second time.                                                    *)
Positioned == \A n \in 0..MaxSn : \A e \in Range(kels[n]) : Sn(e) = n
NothingBefore == ~Accepted => fels = <<>> /\ \A n \in 0..MaxSn : kels[n] = <<>>
EstablishedBelow ==
  \A e \in Events : LoggedEvent(e) /\ Establishing(e) => Sn(e) <= EstSn

LogInv ==
  /\ ChainIntact
  /\ FirstSeenOnce
  /\ Positioned
  /\ NothingBefore
  /\ Accepted => EstablishedBelow /\ SupersededForGood

(* The accepted establishment events before e, which recovery never drops. *)
EstBefore(e) == {b \in Range(fels) : Establishing(b) /\ Sn(b) < Sn(e)}
PriorEst(e) == CHOOSE b \in EstBefore(e) : \A c \in EstBefore(e) : Sn(c) <= Sn(b)

(* What the database holds of an accepted rotation proves control again:   *)
(* enough of the keys it names signed, and enough of those that the        *)
(* establishment event before it in the chain had committed to.            *)
RotationsControlled ==
  \A e \in Range(fels) :
    /\ Establishing(e) => Satisfies(sigs[e] \cap Ev[e].keys, Ev[e].kt)
    /\ Rotation(e) => Satisfies(sigs[e] \cap Ev[e].keys \cap Ev[PriorEst(e)].next,
                                Ev[PriorEst(e)].nt)

(* The establishment event in force when the event at fn i was accepted.   *)
InForce(i) ==
  fels[CHOOSE j \in 1..i :
         Establishing(fels[j]) /\ \A k \in (j + 1)..i : ~Establishing(fels[k])]

(* Every event in the log carries enough witness signatures for the toad   *)
(* and witness list in force when it was accepted, unless the validator is *)
(* the controller, a member of the group or one of the witnesses.          *)
AcceptedWitnessed ==
  Owned \/ Member \/ LocalWits # {} \/
  \A i \in DOMAIN fels :
    Cardinality(wigs[fels[i]] \cap backers[InForce(i)]) >= Ev[InForce(i)].toad

(* What these rest on: no two accepted establishment events are at one sn, *)
(* each rotation has one before it, one is in force at every first seen    *)
(* number, and the key state has the latest of them, with the witness list *)
(* recorded for it.                                                        *)
EstSingle ==
  \A b, c \in Range(fels) : Establishing(b) /\ Establishing(c) /\ Sn(b) = Sn(c) => b = c
PriorAccepted == \A e \in Range(fels) : Rotation(e) => PriorEst(e) \in Range(fels)
Governs(log, i, j) ==
  j \in 1..i /\ Establishing(log[j]) /\ \A k \in (j + 1)..i : ~Establishing(log[k])
Governed == \A i \in DOMAIN fels : \E j \in 1..i : Governs(fels, i, j)
WitsRecorded ==
  Accepted =>
    /\ \E j \in DOMAIN fels : Governs(fels, Len(fels), j) /\ fels[j] = kever.est
    /\ kever.wits = backers[kever.est]
    /\ kever.wits = {} => Ev[kever.est].toad = 0

ControlInv ==
  /\ EstSingle /\ PriorAccepted /\ Governed /\ WitsRecorded
  /\ RotationsControlled /\ AcceptedWitnessed

(* No step replaces or drops an establishment event of the chain.          *)
EstablishmentFinal ==
  [][\A n \in 0..MaxSn :
       Accepted /\ n <= TipSn /\ Establishing(LastAt(n))
         => n <= TipSn' /\ LastAt(n)' = LastAt(n)]_vars

(* An event held for missing signatures carries a signature made by one of *)
(* its own keys or by a key an accepted establishment event gives, so the  *)
(* signature escrows cannot be filled with unsigned events.                *)
EscrowsSigned ==
  \A e \in escrow["pses"] \cup escrow["pwes"] \cup escrow["misfits"] :
    \E b \in {e} \cup Range(fels) : Establishing(b) /\ sigs[e] \cap Ev[b].keys # {}

(* The validator implements a chain with first seen log: the abstract      *)
(* chain is read with kels.getLast.                                        *)
chain == IF Accepted THEN [i \in 1..(TipSn + 1) |-> LastAt(i - 1)] ELSE <<>>
Abstract == INSTANCE KEL WITH log <- fels
ImplementsKEL == Abstract!Spec

(* The witness list that the inception and rotations of the chain          *)
(* at(0), .., at(n) give.                                                  *)
WitsAlong(at(_), n) ==
  LET W[m \in 0..MaxSn] ==
        IF m = 0 THEN Ev[at(0)].adds
        ELSE IF Rotation(at(m))
             THEN (W[m - 1] \ Ev[at(m)].cuts) \cup Ev[at(m)].adds
             ELSE W[m - 1]
  IN  W[n]

(* Without conflicting events: the event with sn n, and whether the        *)
(* signatures held for it satisfy the establishment event that governs it  *)
(* and, for a rotation, the one before.                                    *)
EventAt(n) == CHOOSE e \in Events : Sn(e) = n
EstAt(n) == EventAt(CHOOSE m \in 0..n :
                      /\ Establishing(EventAt(m))
                      /\ \A j \in (m + 1)..n : ~Establishing(EventAt(j)))
Supported(n) ==
  LET g == EstAt(n)
  IN  /\ Satisfies(sigs[EventAt(n)] \cap Ev[g].keys, Ev[g].kt)
      /\ Rotation(EventAt(n)) =>
           Satisfies(sigs[EventAt(n)] \cap Ev[g].keys \cap Ev[EstAt(n - 1)].next,
                     Ev[EstAt(n - 1)].nt)
      /\ Cardinality(wigs[EventAt(n)] \cap WitsAlong(EventAt, n)) >= Ev[g].toad

(* When no two events conflict and nothing is stale: once every event up   *)
(* to some sn is held with enough signatures, all of them are accepted,    *)
(* in whatever order and in however many pieces they came.                 *)
SupportedAccepted ==
  \A e \in Events : (\A n \in 0..Sn(e) : Supported(n)) => e \in Range(fels)
ChainCompletes == []<>SupportedAccepted

(* No event stays in an escrow for ever.                                   *)
EscrowsDrain ==
  \A x \in Retried, e \in Events : e \in escrow[x] ~> e \notin escrow[x]

(* The witness list of the key state is the one the chain's inception and  *)
(* rotations give, so that two validators with the same chain agree on it. *)
WitsFollowChain == Accepted => kever.wits = WitsAlong(LastAt, TipSn)

(* An event of an identifier that is owned, or witnessed by a local hab,   *)
(* is accepted only when a local source gave it.                           *)
Given(e) == \E m \in Sent : m.event = e /\ m.local
Protected(i) == Owned \/ LocalWits \cap backers[InForce(i)] # {}
ProtectedFromLocal == \A i \in DOMAIN fels : Protected(i) => Given(fels[i])

(* A local group member's signature counts only when a local source gave   *)
(* it: an event accepted without one has enough signatures of others.      *)
OthersSigned(i) ==
  Satisfies((sigs[fels[i]] \cap Ev[InForce(i)].keys) \ LocalKeys, Ev[InForce(i)].kt)
MemberConsents ==
  Member =>
    \A i \in DOMAIN fels :
      \/ \E m \in Sent : m.event = fels[i] /\ m.local /\ m.sigs \cap LocalKeys # {}
      \/ OthersSigned(i)

(* What holds of sources whatever comes: the escrow of likely duplicitous  *)
(* events makes a remote event local, so that, after a recovery, the log   *)
(* of a protected identifier can take an event that no local source gave,  *)
(* or with too few of the other members' signatures, but only at a place   *)
(* where it has another event.                                             *)
Contested(e) == \E f \in Range(fels) : f # e /\ Sn(f) = Sn(e)
GivenOrContested ==
  \A i \in DOMAIN fels :
    Protected(i) \/ (Member /\ ~OthersSigned(i)) => Given(fels[i]) \/ Contested(fels[i])
SourcesInv ==
  /\ \A e \in Events : source[e] = "local" => Given(e) \/ Contested(e) \/ LoggedEvent(e)
  /\ GivenOrContested

(* A local source gives an event with the signature of the local member.   *)
LocalsSigned == Member => \A m \in Sent : m.local => m.sigs \cap LocalKeys # {}
=============================================================================
