------------------------------ MODULE Anchorer ------------------------------
(* Delegation coordination: app/delegating.py, at the delegate.  The       *)
(* Anchorer follows a delegated event from its witnesses to the delegator, *)
(* waits for the delegator's seal and publishes the delegator's log, and   *)
(* only then counts the delegation as complete.                            *)
EXTENDS Integers, Sequences, FiniteSets, SequencesExt

CONSTANTS
  OwnEvents,   \* the delegate's log, in order: a record with delegated for each
  Worlds,      \* the witnesses, and whether anyone can write to the delegator
  MaxRestarts,
  None

Events == DOMAIN OwnEvents
Sn(e) == OwnEvents[e].sn
Delegated(e) == OwnEvents[e].delegated

VARIABLES
  world,      \* the world of this behaviour
  sn,         \* sequence number of the delegate's latest event, -1 at first
  dpwe, dune, dpub,  \* the Anchorer's escrows
  cdel,       \* completed delegations by sequence number
  aess,       \* the events whose source seal is recorded
  wigs,       \* witnesses whose receipt is held
  msgs, cues, \* Receiptor: events to be receipted, and done
  publisher,  \* the WitnessPublisher of the identifier and how far it is
  sent,       \* events sent to the delegator
  sealed,     \* events the delegator's log seals, as known to the delegate
  published,  \* events whose seal went to the witnesses, in the delegator's log
  failed,     \* an error has ended the loops
  restarts
db == <<dpwe, dune, dpub, cdel, aess, wigs>>
memory == <<msgs, cues, publisher, failed>>
outside == <<sent, sealed, published>>
vars == <<world, sn, db, memory, outside, restarts>>

Wits == world.wits
Tip == CHOOSE e \in Events : Sn(e) = sn
Waiting == dpwe \cup dune \cup dpub

-----------------------------------------------------------------------------
(* The delegate makes its next event; a delegated one is given to          *)
(* Anchorer.delegation.                                                    *)
Make(e) ==
  /\ ~failed /\ Sn(e) = sn + 1 /\ sn' = Sn(e)
  /\ IF Delegated(e)
     THEN publisher' = "new" /\ msgs' = Append(msgs, e) /\ dpwe' = dpwe \cup {e}
     ELSE UNCHANGED <<publisher, msgs, dpwe>>
  /\ UNCHANGED <<world, dune, dpub, cdel, aess, wigs, cues, failed, outside, restarts>>
(* Receiptor.witDo and receipt: the witnesses are asked once (Witnessing). *)
Receipt ==
  /\ ~failed /\ msgs # <<>> /\ msgs' = Tail(msgs)
  /\ cues' = cues \cup {Head(msgs)}
  /\ \E got \in SUBSET Wits : wigs' = [wigs EXCEPT ![Head(msgs)] = @ \cup got]
  /\ UNCHANGED <<world, sn, dpwe, dune, dpub, cdel, aess, publisher, failed, outside, restarts>>
(* A receipt that comes by another way.                                    *)
ReceiptLate(e, w) ==
  /\ e \in dpwe /\ w \in Wits \ wigs[e]
  /\ wigs' = [wigs EXCEPT ![e] = @ \cup {w}]
  /\ UNCHANGED <<world, sn, dpwe, dune, dpub, cdel, aess, memory, outside, restarts>>

-----------------------------------------------------------------------------
(* Anchorer.processEscrows.                                                *)
WitnessedSome(e) == Wits # {} => wigs[e] # {} /\ e \in cues  \* slip: one receipt is enough
Witnessed(e) == Cardinality(wigs[e]) = Cardinality(Wits) /\ (Wits # {} => e \in cues)
processPartialWitnessEscrow(e) ==
  /\ ~failed /\ e \in dpwe /\ Witnessed(e)
  /\ IF world.proxied
     THEN /\ sent' = sent \cup {e}
          /\ dpwe' = dpwe \ {e} /\ dune' = dune \cup {e}
          /\ UNCHANGED failed
     ELSE failed' = TRUE /\ UNCHANGED <<sent, dpwe, dune>>
  /\ UNCHANGED <<world, sn, dpub, cdel, aess, wigs, msgs, cues, publisher, sealed, published, restarts>>
(* The whole log of the delegator is published, if there is a publisher.   *)
publishDelegator ==
  IF publisher = "none" THEN UNCHANGED <<publisher, published>>
  ELSE publisher' = "busy" /\ published' = published \cup sealed
(* The source seal is recorded for the delegate's latest event.            *)
processUnanchoredEscrow(e) ==
  /\ ~failed /\ e \in dune /\ e \in sealed
  /\ aess' = aess \cup {Tip}
  /\ publishDelegator
  /\ dpub' = dpub \cup {e} /\ dune' = dune \ {e}
  /\ UNCHANGED <<world, sn, dpwe, cdel, wigs, msgs, cues, sent, sealed, failed, restarts>>
(* An entry without a publisher is passed over.  A publisher that was not  *)
(* started is idle, and the scheduler refuses to remove it.                *)
processWitnessPublication(e) ==
  /\ ~failed /\ e \in dpub /\ publisher \in {"new", "idle"}
  /\ IF publisher = "idle"
     THEN /\ publisher' = "none" /\ dpub' = dpub \ {e} /\ UNCHANGED failed
          /\ cdel' = IF cdel[Sn(e)] = None THEN [cdel EXCEPT ![Sn(e)] = e] ELSE cdel
     ELSE failed' = TRUE /\ UNCHANGED <<publisher, dpub, cdel>>
  /\ UNCHANGED <<world, sn, dpwe, dune, aess, wigs, msgs, cues, outside, restarts>>
(* WitnessPublisher.sendDo has sent its messages to the witnesses.         *)
PublisherDone ==
  /\ ~failed /\ publisher = "busy" /\ publisher' = "idle"
  /\ UNCHANGED <<world, sn, db, msgs, cues, failed, outside, restarts>>

(* The delegator seals what was sent to it, and the delegate learns of it. *)
DelegatorSeals(e) ==
  /\ e \in sent /\ e \notin sealed /\ sealed' = sealed \cup {e}
  /\ UNCHANGED <<world, sn, db, memory, sent, published, restarts>>
(* Queues, publishers and a failure are of the process.                    *)
Restart ==
  /\ restarts < MaxRestarts /\ restarts' = restarts + 1
  /\ msgs' = <<>> /\ cues' = {} /\ publisher' = "none" /\ failed' = FALSE
  /\ UNCHANGED <<world, sn, db, outside>>
(* The loops find nothing to do.                                           *)
Idle == UNCHANGED vars

Init ==
  /\ world \in Worlds /\ sn = -1 /\ restarts = 0
  /\ dpwe = {} /\ dune = {} /\ dpub = {} /\ aess = {}
  /\ cdel = [n \in {Sn(e) : e \in Events} |-> None]
  /\ wigs = [e \in Events |-> {}]
  /\ msgs = <<>> /\ cues = {} /\ publisher = "none" /\ failed = FALSE
  /\ sent = {} /\ sealed = {} /\ published = {}

Loops ==
  \/ Receipt \/ PublisherDone
  \/ \E e \in Events : \/ processPartialWitnessEscrow(e) \/ processUnanchoredEscrow(e)
                       \/ processWitnessPublication(e)
Next ==
  \/ \E e \in Events : Make(e) \/ DelegatorSeals(e)
  \/ \E e \in Events, w \in Wits : ReceiptLate(e, w)
  \/ Loops \/ Restart \/ Idle
(* Every turn of the doers runs each loop; there are finitely many steps.  *)
Spec == Init /\ [][Next]_vars /\ WF_vars(Loops)
-----------------------------------------------------------------------------
(* Properties                                                              *)

TypeOK ==
  /\ world \in Worlds /\ sn \in {-1} \cup {Sn(e) : e \in Events}
  /\ dpwe \cup dune \cup dpub \cup aess \cup cues \cup sent \subseteq Events
  /\ sealed \subseteq sent /\ published \subseteq sealed /\ msgs \in Seq(Events)
  /\ \A e \in Waiting : Delegated(e) /\ Sn(e) <= sn
  /\ wigs \in [Events -> SUBSET Wits]
  /\ DOMAIN cdel = {Sn(e) : e \in Events}
  /\ \A n \in DOMAIN cdel : cdel[n] \in {None} \cup {e \in Events : Sn(e) = n /\ Delegated(e) /\ n <= sn}
  /\ publisher \in {"none", "new", "busy", "idle"} /\ failed \in BOOLEAN

(* A delegated event is in one escrow, or completed, or its delegation was *)
(* never begun: no pass of the loops loses or doubles it.                  *)
OnePlace ==
  /\ dpwe \cap dune = {} /\ dune \cap dpub = {} /\ dpwe \cap dpub = {}
  /\ \A e \in Events : Delegated(e) /\ Sn(e) <= sn => (e \in Waiting <=> cdel[Sn(e)] # e)

(* A delegation counts as complete only if the event had all its receipts, *)
(* the delegator sealed it and the witnesses were sent the delegator's log *)
(* with that seal (Anchorer.complete).                                     *)
CompletedSealed ==
  \A e \in Events : cdel[Sn(e)] = e => wigs[e] = Wits /\ e \in sealed \cap published

(* The events of a log are numbered.                                       *)
AnchorerAssumption ==
  /\ None \notin Events
  /\ \A e \in Events : Sn(e) \in Nat /\ Delegated(e) \in BOOLEAN
  /\ \A d, e \in Events : Sn(d) = Sn(e) => d = e
  /\ \A w \in Worlds : IsFiniteSet(w.wits) /\ w.proxied \in BOOLEAN

(* What goes to the delegator has all its receipts; what waits for its     *)
(* publication is sealed, and published once the publisher is at work.     *)
SentReceipted == \A e \in sent \cup dune \cup dpub : wigs[e] = Wits
PublishedSealed ==
  dpub \subseteq sealed /\ (publisher \in {"busy", "idle"} => dpub \subseteq published)
AnchorerInv == TypeOK /\ OnePlace /\ CompletedSealed /\ SentReceipted /\ PublishedSealed

(* A delegation whose event is receipted and sealed completes, if it is    *)
(* the only one, someone can write to the delegator and nothing restarts.  *)
Only(e) == {d \in Events : Delegated(d) /\ Sn(d) <= sn} = {e}
AllCompleted ==
  \A e \in Waiting :
    world.proxied /\ restarts = 0 /\ Only(e) =>
      e \in dune \ sealed \/ (e \in dpwe /\ wigs[e] # Wits)
AnchorerCompletes == []<>AllCompleted
=============================================================================
