------------------------------ MODULE Receipts ------------------------------
(***************************************************************************)
(* Receipts of the events of one identifier: Kevery.processReceipt, the    *)
(* receipts attached to a replayed event, and the three escrows of         *)
(* receipts that come before what they need.  A receipt is a signature on  *)
(* an event, made by                                                       *)
(*   "cig"  a nontransferable prefix, perhaps one of the witnesses,        *)
(*   "wig"  a witness, given by its place in the witness list, or          *)
(*   "tsg"  a transferable receiptor, under an establishment event of its  *)
(*          own log.                                                       *)
(*                                                                         *)
(* The events come from Kevery with all signatures but those of the        *)
(* witnesses, so that here they wait in the partially witnessed escrow or  *)
(* are accepted.  The sn of a receipt is that of the event it names.       *)
(***************************************************************************)
EXTENDS Naturals, Sequences, FiniteSets, SequencesExt

CONSTANTS
  KeyEvents,   \* what each event says, by SAID
  MaxSn,       \* largest sequence number of an event
  Wits,        \* witness prefixes
  Signers,     \* nontransferable prefixes that are not witnesses
  EstSns,      \* establishment events of transferable receiptors, with their sn
  Sent,        \* the receipts that may come, any number of times
  MaxStale,    \* bound: how many events may be older than the timeout
  NoEvent

Ev == KeyEvents
Events == DOMAIN KeyEvents
Ests == DOMAIN EstSns
Establishing(e) == Ev[e].ilk \in {"icp", "rot"}

(* The maps that take every event to the establishment event before it,    *)
(* going back along priors: there is one when every chain begins somewhere.*)
EstMaps ==
  {est \in [Events -> Events] :
     \A e \in Events : est[e] = IF Establishing(e) THEN e ELSE est[Ev[e].prior]}

(* "at" is the place in the witness list that a "wig" names, 0 for others. *)
ReceiptType ==
  [said : Events, kind : {"cig"}, by : Wits \cup Signers, at : {0}]
    \cup [said : Events, kind : {"wig"}, by : Wits, at : 1..Cardinality(Wits)]
    \cup [said : Events, kind : {"tsg"}, by : Ests, at : {0}]

(* Inception and deriveBacks refuse lists with duplicates.                 *)
ASSUME ReceiptsAssumption ==
  /\ NoEvent \notin Events /\ MaxSn \in Nat /\ MaxStale \in Nat
  /\ IsFiniteSet(Wits) /\ IsFiniteSet(Sent)
  /\ \A e \in Events :
       /\ Ev[e].sn \in 0..MaxSn /\ Ev[e].ilk \in {"icp", "rot", "ixn"}
       /\ Ev[e].prior \in Events \cup {NoEvent}
       /\ Ev[e].cuts \subseteq Wits /\ Ev[e].adds \in Seq(Wits) /\ Ev[e].toad \in Nat
       /\ IsInjective(Ev[e].adds) /\ (Ev[e].ilk = "icp" => Ev[e].sn = 0)
       /\ Ev[e].ilk = "ixn" => Ev[e].prior \in Events
  /\ EstMaps # {}
  /\ \A x \in Ests : EstSns[x] \in Nat
  /\ Sent \subseteq ReceiptType

VARIABLES
  kever,   \* said: latest event, est: latest establishment event, wits: a list
  kels,    \* db.kels: accepted events at each sn, in insertion order
  backers, \* db.wits: witness list recorded with each establishment event
  evts,    \* db.evts: events seen, accepted or not
  pwes,    \* partially witnessed events
  known,   \* establishment events accepted in the receiptors' logs
  wigs,    \* db.wigs: indexed witness signatures held for each event
  rcts,    \* db.rcts: receipts of other nontransferable prefixes
  vrcs,    \* db.vrcs: receipts of transferable receiptors, event by event
  ures,    \* escrow of "cig" receipts
  uwes,    \* escrow of "wig" receipts
  vres,    \* escrow of "tsg" receipts
  date,    \* db.dtss of each event: "none", "new", or "old" past the timeout
  rcvd     \* receipts that came, for the properties

log == <<kever, kels, backers, evts, pwes>>
held == <<wigs, rcts, vrcs>>
unverified == <<ures, uwes, vres>>
vars == <<log, known, held, unverified, date, rcvd>>

-----------------------------------------------------------------------------
(* Reading the logs                                                        *)

Sn(e) == Ev[e].sn
Accepted == kever.said # NoEvent
TipSn == Sn(kever.said)

LastAt(n) == kels[n][Len(kels[n])]
IsLastAt(e, n) == kels[n] # <<>> /\ LastAt(n) = e

(* Kevery.fetchWitnessState: the list recorded with the establishment      *)
(* event met first going back over every accepted event up to sn n.        *)
EstablishedAt(m) == \E i \in DOMAIN kels[m] : Establishing(kels[m][i])
LastEstablishing(m) ==
  kels[m][CHOOSE i \in DOMAIN kels[m] :
            /\ Establishing(kels[m][i])
            /\ \A j \in DOMAIN kels[m] : Establishing(kels[m][j]) => j <= i]
WitnessState(n) ==
  LET m == CHOOSE m \in 0..n : EstablishedAt(m) /\ \A j \in (m + 1)..n : ~EstablishedAt(j)
  IN  backers[LastEstablishing(m)]

(* The witness list after the cuts and adds of e.                          *)
Kept(list, cuts) ==
  LET kept[i \in 0..Len(list)] ==
        IF i = 0 THEN <<>>
        ELSE IF list[i] \in cuts THEN kept[i - 1] ELSE Append(kept[i - 1], list[i])
  IN  kept[Len(list)]
Changed(e, list) == Kept(list, Ev[e].cuts) \o Ev[e].adds

ValidBacks(e) ==
  /\ Ev[e].cuts \subseteq ToSet(kever.wits)
  /\ ToSet(Ev[e].adds) \cap (ToSet(kever.wits) \cup Ev[e].cuts) = {}

(* Kever.deriveBacks: a recovery rotation keeps the list.                  *)
WitsFor(e) ==
  IF Ev[e].ilk = "icp" THEN Ev[e].adds
  ELSE IF Ev[e].ilk = "ixn" \/ TipSn >= Sn(e) THEN kever.wits
  ELSE Changed(e, kever.wits)

(* The list _processEscrowFindUnver works out for an event in pwes.        *)
CurrentWits(e) ==  \* slip: the list before the rotation
  IF Ev[e].ilk = "icp" THEN Ev[e].adds ELSE kever.wits
UnverWits(e) ==
  CASE Ev[e].ilk = "icp" -> Ev[e].adds
    [] Ev[e].ilk = "rot" -> Changed(e, kever.wits)
    [] Ev[e].ilk = "ixn" -> kever.wits

(* An indexed signature verifies against a list that has its signer there. *)
Verifies(wig, list) == wig.at \in DOMAIN list /\ list[wig.at] = wig.by
Indexed(w, list) == [by |-> w, at |-> CHOOSE i \in DOMAIN list : list[i] = w]
Wig(r) == [by |-> r.by, at |-> r.at]

Governor(e) == IF Establishing(e) THEN e ELSE kever.est

(* Slip: an event that states no threshold is held to none.                *)
OwnToadWitnessed(e, W) ==
  WitsFor(e) = <<>> \/ Cardinality({w \in W : Verifies(w, WitsFor(e))}) >= Ev[e].toad
FullyWitnessed(e, W) ==
  \/ WitsFor(e) = <<>>
  \/ Cardinality({w \in W : Verifies(w, WitsFor(e))}) >= Ev[Governor(e)].toad

(* The event is valid after the key state, in order or as a recovery.      *)
Acceptable(e) ==
  \/ ~Accepted /\ Ev[e].ilk = "icp"
  \/ /\ Accepted /\ Ev[e].ilk # "icp"
     /\ Sn(e) = TipSn + 1 /\ Ev[e].prior = kever.said
     /\ Ev[e].ilk = "rot" => ValidBacks(e)
  \/ /\ Accepted /\ Ev[e].ilk = "rot" /\ Ev[kever.said].ilk = "ixn"
     /\ Sn(kever.est) < Sn(e) /\ Sn(e) <= TipSn
     /\ IsLastAt(Ev[e].prior, Sn(e) - 1)

-----------------------------------------------------------------------------
(* Events: Kever.valSigsWigsDel and processEscrowPartialWigs               *)

Init ==
  /\ kever = [said |-> NoEvent, est |-> NoEvent, wits |-> <<>>]
  /\ kels = [n \in 0..MaxSn |-> <<>>]
  /\ backers = [e \in Events |-> <<>>]
  /\ evts = {} /\ pwes = {} /\ known = {}
  /\ wigs = [e \in Events |-> {}]
  /\ rcts = [e \in Events |-> {}]
  /\ vrcs = [e \in Events |-> {}]
  /\ ures = {} /\ uwes = {} /\ vres = {}
  /\ date = [e \in Events |-> "none"]
  /\ rcvd = {}

Verified(e, W) == {w \in W : Verifies(w, WitsFor(e))}

(* db.dtss.put: a date that is there stays.                                *)
Put(e) == date' = [date EXCEPT ![e] = IF @ = "none" THEN "new" ELSE @]
Stale(e) == date[e] = "old"

Accept(e, W) ==
  /\ FullyWitnessed(e, W)
  /\ kels' = [kels EXCEPT ![Sn(e)] = Append(@, e)]
  /\ kever' = [said |-> e, est |-> Governor(e), wits |-> WitsFor(e)]
  /\ backers' = IF Establishing(e) THEN [backers EXCEPT ![e] = WitsFor(e)] ELSE backers
  /\ pwes' = pwes \ {e}
  /\ date' = [date EXCEPT ![e] = "new"]

HoldPartiallyWitnessed(e, W) ==
  /\ ~FullyWitnessed(e, W)
  /\ pwes' = pwes \cup {e}
  /\ Put(e)
  /\ UNCHANGED <<kever, kels, backers>>

(* An event that comes with some of its witness signatures.                *)
ReceiveEvent(e, W) ==
  /\ Acceptable(e)
  /\ Accept(e, W) \/ HoldPartiallyWitnessed(e, W)
  /\ evts' = evts \cup {e}
  /\ wigs' = [wigs EXCEPT ![e] = @ \cup Verified(e, W)]
  /\ UNCHANGED <<known, rcts, vrcs, unverified, rcvd>>

(* One item of processEscrowPartialWigs, with the signatures held for it.  *)
RetryPartialWigs(e) ==
  /\ e \in pwes
  /\ IF Stale(e) \/ ~Acceptable(e)
     THEN pwes' = pwes \ {e} /\ UNCHANGED <<kever, kels, backers, date>>
     ELSE Accept(e, wigs[e]) \/ HoldPartiallyWitnessed(e, wigs[e])
  /\ UNCHANGED <<evts, known, held, unverified, rcvd>>

(* An establishment event is accepted in a receiptor's log.                *)
LearnReceiptor(x) ==
  /\ \A y \in known : EstSns[y] # EstSns[x]
  /\ known' = known \cup {x}
  /\ UNCHANGED <<log, held, unverified, date, rcvd>>

(* The establishment event at its sn in the receiptor's log is x, another  *)
(* one, or none yet.                                                       *)
EstAtSn(x) == \E y \in known : EstSns[y] = EstSns[x]  \* slip: digest not compared
EstKnown(x) == x \in known
EstMissing(x) == \A y \in known : EstSns[y] # EstSns[x]

-----------------------------------------------------------------------------
(* Receipts off the wire: Kevery.processReceipt and, for receipts attached *)
(* to a replayed event, processAttachedReceiptCouples and SigGroups        *)

Hold(escrow, r) == escrow \cup {r}

EscrowCouples(r) ==  \* slip: indexed receipts are not held
  /\ kels[Sn(r.said)] = <<>>
  /\ ures' = IF r.kind = "cig" THEN Hold(ures, r) ELSE ures
  /\ vres' = IF r.kind = "tsg" THEN Hold(vres, r) ELSE vres
  /\ Put(r.said)
  /\ UNCHANGED <<uwes, held>>

EscrowReceipt(r) ==
  /\ kels[Sn(r.said)] = <<>>
  /\ ures' = IF r.kind = "cig" THEN Hold(ures, r) ELSE ures
  /\ uwes' = IF r.kind = "wig" THEN Hold(uwes, r) ELSE uwes
  /\ vres' = IF r.kind = "tsg" THEN Hold(vres, r) ELSE vres
  /\ Put(r.said)
  /\ UNCHANGED held

(* A receipt of a witness goes with the witness signatures.                *)
StoreCouple(r, list) ==
  IF r.by \in ToSet(list)
  THEN /\ wigs' = [wigs EXCEPT ![r.said] = @ \cup {Indexed(r.by, list)}]
       /\ UNCHANGED <<rcts, vrcs>>
  ELSE /\ rcts' = [rcts EXCEPT ![r.said] = @ \cup {r.by}]
       /\ UNCHANGED <<wigs, vrcs>>

StoreIndexed(r, list) ==
  /\ wigs' = IF Verifies(Wig(r), list)
             THEN [wigs EXCEPT ![r.said] = @ \cup {Wig(r)}] ELSE wigs
  /\ UNCHANGED <<rcts, vrcs>>

(* Kept for event e, with the event it signs.                              *)
StoreTransferable(r, e) ==
  /\ vrcs' = [vrcs EXCEPT ![e] = @ \cup {[est |-> r.by, said |-> r.said]}]
  /\ UNCHANGED <<wigs, rcts>>

(* An event has been accepted at the sn: the receipt is stored, for the    *)
(* event it names when that is in db.evts, accepted or not.  Otherwise it  *)
(* is an error.                                                            *)
VerifyReceipt(r) ==
  /\ kels[Sn(r.said)] # <<>>
  /\ r.said \in evts
  /\ CASE r.kind = "cig" -> StoreCouple(r, WitnessState(Sn(r.said)))
       [] r.kind = "wig" -> StoreIndexed(r, WitnessState(Sn(r.said)))
       [] r.kind = "tsg" /\ EstKnown(r.by) -> StoreTransferable(r, LastAt(Sn(r.said)))
       [] OTHER -> UNCHANGED held
  /\ vres' = IF r.kind = "tsg" /\ EstMissing(r.by) THEN Hold(vres, r) ELSE vres
  /\ UNCHANGED <<ures, uwes, date>>

LoseReceipt(r) ==
  /\ kels[Sn(r.said)] # <<>> /\ r.said \notin evts
  /\ UNCHANGED <<held, unverified, date>>

processReceipt(r) ==
  /\ EscrowReceipt(r) \/ VerifyReceipt(r) \/ LoseReceipt(r)
  /\ rcvd' = rcvd \cup {r}
  /\ UNCHANGED <<log, known>>

(* Receipts attached to an event that is accepted, or was before.  The     *)
(* prefix of a couple is looked for among Prefixer instances, and never    *)
(* found.                                                                  *)
processAttachedReceipt(r) ==
  /\ r.kind # "wig"
  /\ IsLastAt(r.said, Sn(r.said))
  /\ CASE r.kind = "cig" -> StoreCouple(r, <<>>)
       [] r.kind = "tsg" /\ EstKnown(r.by) -> StoreTransferable(r, r.said)
       [] OTHER -> UNCHANGED held
  /\ vres' = IF r.kind = "tsg" /\ EstMissing(r.by) THEN Hold(vres, r) ELSE vres
  /\ rcvd' = rcvd \cup {r}
  /\ UNCHANGED <<log, known, ures, uwes, date>>

-----------------------------------------------------------------------------
(* The receipt escrows                                                     *)

InPwes(r) == r.said \in pwes

(* In _processEscrowFindUnver: the changes of a rotation fit the list.     *)
Fits(e) == Ev[e].ilk = "rot" => ValidBacks(e)

(* processEscrowUnverNonTrans, one item: found in the partially witnessed  *)
(* escrow, or stored for the accepted event, or dropped; otherwise kept.   *)
FindCouple(r) ==
  /\ ~Stale(r.said) /\ InPwes(r) /\ Fits(r.said)
  /\ r.by \in ToSet(UnverWits(r.said))
  /\ StoreCouple(r, UnverWits(r.said))

(* The witness list is that of the latest key state.                       *)
StoreUnverCouple(r) ==
  /\ ~Stale(r.said)
  /\ ~(InPwes(r) /\ (~Fits(r.said) \/ r.by \in ToSet(UnverWits(r.said))))
  /\ IsLastAt(r.said, Sn(r.said))
  /\ StoreCouple(r, kever.wits)


DropCouple(r) ==
  /\ \/ Stale(r.said)
     \/ InPwes(r) /\ ~Fits(r.said)
     \/ /\ ~(InPwes(r) /\ r.by \in ToSet(UnverWits(r.said)))
        /\ kels[Sn(r.said)] # <<>> /\ ~IsLastAt(r.said, Sn(r.said))
  /\ UNCHANGED held

RetryUnverNonTrans(r) ==
  /\ r \in ures
  /\ FindCouple(r) \/ StoreUnverCouple(r) \/ DropCouple(r)
  /\ ures' = ures \ {r}
  /\ UNCHANGED <<log, known, uwes, vres, date, rcvd>>

(* processEscrowUnverWitness, one item: looks in the partially witnessed   *)
(* escrow only.                                                            *)
RetryUnverWitness(r) ==
  /\ r \in uwes
  /\ \/ ~Stale(r.said) /\ InPwes(r) /\ Fits(r.said)
        /\ StoreIndexed(r, UnverWits(r.said))
     \/ (Stale(r.said) \/ (InPwes(r) /\ ~Fits(r.said))) /\ UNCHANGED held
  /\ uwes' = uwes \ {r}
  /\ UNCHANGED <<log, known, ures, vres, date, rcvd>>

(* processEscrowUnverTrans, one item.                                      *)
UnverTransMismatch(r) ==
  /\ kels[Sn(r.said)] # <<>>
  /\ \/ ~IsLastAt(r.said, Sn(r.said))
     \/ ~EstKnown(r.by) /\ ~EstMissing(r.by)

RetryUnverTrans(r) ==
  /\ r \in vres
  /\ \/ /\ ~Stale(r.said) /\ IsLastAt(r.said, Sn(r.said)) /\ EstKnown(r.by)
        /\ StoreTransferable(r, r.said)
     \/ /\ Stale(r.said) \/ UnverTransMismatch(r)
        /\ UNCHANGED held
  /\ vres' = vres \ {r}
  /\ UNCHANGED <<log, known, ures, uwes, date, rcvd>>

(* The clock passes the timeout of the date kept with e.                   *)
Expire(e) ==
  /\ date[e] = "new"
  /\ Cardinality({f \in Events : Stale(f)}) < MaxStale
  /\ date' = [date EXCEPT ![e] = "old"]
  /\ UNCHANGED <<log, known, held, unverified, rcvd>>

Next ==
  \/ \E e \in Events :
       \/ \E W \in SUBSET {Wig(r) : r \in {s \in Sent : s.kind = "wig" /\ s.said = e}} :
            ReceiveEvent(e, W)
       \/ RetryPartialWigs(e)
       \/ Expire(e)
  \/ \E x \in Ests : LearnReceiptor(x)
  \/ \E r \in Sent : processReceipt(r) \/ processAttachedReceipt(r)
  \/ \E r \in Sent : RetryUnverNonTrans(r) \/ RetryUnverWitness(r) \/ RetryUnverTrans(r)

Spec == Init /\ [][Next]_vars

(* Every pass of processEscrows reaches every item of every escrow.        *)
Fairness ==
  /\ \A e \in Events : WF_vars(RetryPartialWigs(e))
  /\ \A r \in Sent :
       WF_vars(RetryUnverNonTrans(r) \/ RetryUnverWitness(r) \/ RetryUnverTrans(r))

FairSpec == Spec /\ Fairness

(* Time passes.                                                            *)
Clock == \A e \in Events : WF_vars(Expire(e))
TimedSpec == FairSpec /\ Clock

-----------------------------------------------------------------------------
(* Properties                                                              *)

WigType == [by : Wits, at : 1..Cardinality(Wits)]

TypeOK ==
  /\ kever.said \in Events \cup {NoEvent} /\ kever.est \in Events \cup {NoEvent}
  /\ kever.wits \in Seq(Wits)
  /\ kels \in [0..MaxSn -> Seq(Events)] /\ backers \in [Events -> Seq(Wits)]
  /\ evts \subseteq Events /\ pwes \subseteq evts /\ known \subseteq Ests
  /\ wigs \in [Events -> SUBSET WigType]
  /\ rcts \in [Events -> SUBSET (Wits \cup Signers)]
  /\ vrcs \in [Events -> SUBSET [est : Ests, said : Events]]
  /\ \A r \in ures : r.kind = "cig" /\ r \in Sent
  /\ \A r \in uwes : r.kind = "wig" /\ r \in Sent
  /\ \A r \in vres : r.kind = "tsg" /\ r \in Sent
  /\ date \in [Events -> {"none", "new", "old"}]
  /\ rcvd \subseteq Sent

Logged(e) == e \in ToSet(kels[Sn(e)])

(* The establishment event that e stands under, going back along priors.   *)
EstOf == CHOOSE est \in EstMaps : TRUE

(* Each accepted event has enough signatures of the witnesses listed for   *)
(* it, by whichever of the ways above and in whatever order they came.     *)
AcceptedWitnessed ==
  \A e \in Events :
    Logged(e) /\ backers[EstOf[e]] # <<>> =>
      Cardinality({w \in wigs[e] : Verifies(w, backers[EstOf[e]])}) >= Ev[EstOf[e]].toad

(* The signatures found for an event that waits for its witnesses are at   *)
(* the places the acceptance will look them up at (the list worked out in  *)
(* _processEscrowFindUnver is that of Kever.deriveBacks).                  *)
PendingVerify ==
  \A e \in pwes : Acceptable(e) => \A w \in wigs[e] : Verifies(w, WitsFor(e))

(* A receipt of a transferable receiptor is stored for an accepted event   *)
(* only, and under an establishment event of the receiptor's own log.      *)
VerifiedReceipts ==
  \A e \in Events : \A v \in vrcs[e] : Logged(e) /\ v.est \in known

(* What these rest on.  Events are logged at their sn; the latest          *)
(* establishment event is that of the latest event, its list is the one in *)
(* force, and none logged has a higher sn, so that no list that was        *)
(* recorded is ever replaced; no list names a witness twice.               *)
Placed == \A n \in 0..MaxSn : \A i \in DOMAIN kels[n] : Sn(kels[n][i]) = n
KeyStateHeld ==
  IF Accepted
  THEN /\ Logged(kever.said) /\ Logged(kever.est) /\ EstablishedAt(0)
       /\ EstOf[kever.said] = kever.est /\ Establishing(kever.est)
       /\ Sn(kever.est) <= TipSn
       /\ kever.wits = backers[kever.est]
  ELSE \A n \in 0..MaxSn : kels[n] = <<>>
EstsHeld ==
  \A e \in Events :
    Logged(e) => e \in evts /\ Logged(EstOf[e]) /\ Sn(EstOf[e]) <= Sn(kever.est)
ListsHeld == IsInjective(kever.wits) /\ \A e \in Events : IsInjective(backers[e])

ReceiptsInv ==
  TypeOK /\ Placed /\ KeyStateHeld /\ EstsHeld /\ ListsHeld /\ AcceptedWitnessed /\ VerifiedReceipts

(* When no events conflict and nothing is stale: an event that is there    *)
(* and whose witnesses' receipts have come, before it or after it, is      *)
(* accepted in the end.                                                    *)
Backed(e) == {r.by : r \in {s \in rcvd : /\ s.said = e
                                         /\ \/ s.kind = "cig" /\ s.by \in ToSet(WitsFor(e))
                                            \/ s.kind = "wig" /\ Verifies(Wig(s), WitsFor(e))}}
WitnessedLogged ==
  \A e \in evts : Cardinality(Backed(e)) >= Ev[Governor(e)].toad => Logged(e)
WitnessingCompletes == []<>WitnessedLogged

(* With the same proviso, every receipt with a nontransferable or          *)
(* transferable receiptor that came for an accepted event is stored.       *)
Stored(r) ==
  \/ r.kind = "cig" /\ (r.by \in rcts[r.said] \/ \E w \in wigs[r.said] : w.by = r.by)
  \/ r.kind = "wig" /\ Wig(r) \in wigs[r.said]
  \/ r.kind = "tsg" /\ [est |-> r.by, said |-> r.said] \in vrcs[r.said]

ReceiptsKept ==
  \A r \in rcvd :
    Logged(r.said) /\ r.kind # "wig" /\ (r.kind = "tsg" => EstKnown(r.by)) => Stored(r)
ReceiptsStored == []<>ReceiptsKept

(* No receipt stays in an escrow for ever when time passes.                *)
ReceiptsDrain ==
  \A r \in Sent : r \in ures \cup uwes \cup vres ~> r \notin ures \cup uwes \cup vres

(* A receipt is kept for the event it signs (Kevery.processReceipt).       *)
ReceiptsFiled == \A e \in Events : \A v \in vrcs[e] : v.said = e
=============================================================================
