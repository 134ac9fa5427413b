------------------------------- MODULE Groups -------------------------------
(* Group coordination: app/grouping.py, at one member of a group.  The     *)
(* Multiplexor holds back what other members propose until the local       *)
(* member proposes the same event; the Counselor follows an event the      *)
(* local member signed through signing, delegation and witnessing.         *)
EXTENDS Integers, Sequences, FiniteSets, FiniteSetsExt, SequencesExt

CONSTANTS
  GroupEvents,  \* a record for each event of the group: sn, delegated
  Members,      \* the members in the order of the group's keys
  Threshold,    \* how many signatures an event needs
  Worlds,       \* the local member, the witnesses, and the events that are proposed
  MaxRestarts,
  None

Events == DOMAIN GroupEvents
Sn(e) == GroupEvents[e].sn
Delegated(e) == GroupEvents[e].delegated

VARIABLES
  world,      \* the world of this behaviour
  senders,    \* maids and meids: whose proposal of each event is held
  replayed,   \* proposals of others that were parsed as if local
  sigs,       \* db.sigs: the members whose signature is held
  kel,        \* the group's log, after its inception
  gpse, gdee, gpwe,  \* the Counselor's escrows
  cgms,       \* completed events by sequence number
  wigs,       \* witnesses whose receipt is held
  requests,   \* Receiptor: events to be receipted, and done; Anchorer: events
  cues,       \* to be approved, and done
  delegating,
  anchored,
  approved,   \* events the delegator's log seals
  restarts
tables == <<gpse, gdee, gpwe, cgms>>
log == <<senders, replayed, sigs, kel>>
outside == <<requests, cues, delegating, anchored>>
vars == <<world, log, tables, wigs, outside, approved, restarts>>

me == world.me
Wits == world.wits
Index(m) == CHOOSE i \in DOMAIN Members : Members[i] = m
First == Index(me) = 1
Accepted == ToSet(kel)
AcceptedAt(n) == IF n \in DOMAIN kel THEN kel[n] ELSE None
Tip == IF kel = <<>> THEN None ELSE Last(kel)

-----------------------------------------------------------------------------
(* Proposals                                                               *)

Signed(e, who) == sigs' = [sigs EXCEPT ![e] = @ \cup who]
(* A local member's interact or rotate, Multiplexor.add for its own        *)
(* message, which replays what others proposed, and Counselor.start.       *)
Propose(e) ==
  /\ e \in world.proposed /\ me \notin senders[e] /\ Sn(e) = Len(kel) + 1
  /\ Signed(e, {me} \cup senders[e])
  /\ replayed' = replayed \cup {<<e, m>> : m \in senders[e]}
  /\ senders' = [senders EXCEPT ![e] = @ \cup {me}]
  /\ gpse' = gpse \cup {e}
  /\ UNCHANGED <<world, kel, gdee, gpwe, cgms, wigs, outside, approved, restarts>>
(* Multiplexor.add for the message of another member.                      *)
Receive(e, m) ==
  /\ e \in world.proposed /\ m # me /\ m \notin senders[e]
  /\ senders' = [senders EXCEPT ![e] = @ \cup {m}]
  /\ LET ours == me \in senders[e] IN
       /\ replayed' = IF ours THEN replayed \cup {<<e, m>>} ELSE replayed
       /\ Signed(e, IF ours THEN {m} ELSE {})
  /\ UNCHANGED <<world, kel, tables, wigs, outside, approved, restarts>>
(* Kevery accepts an event once enough members signed it (module Kevery),  *)
(* from proposals or from a copy that comes signed by others.              *)
Accept(e) ==
  /\ Sn(e) = Len(kel) + 1 /\ Cardinality(sigs[e]) >= Threshold
  /\ kel' = Append(kel, e)
  /\ UNCHANGED <<world, senders, replayed, sigs, tables, wigs, outside, approved, restarts>>
ReceiveSigned(e) ==
  /\ e \in world.proposed /\ Sn(e) = Len(kel) + 1
  /\ Signed(e, ToSet(Members) \ {me})
  /\ kel' = Append(kel, e)
  /\ UNCHANGED <<world, senders, replayed, tables, wigs, outside, approved, restarts>>

-----------------------------------------------------------------------------
(* Counselor.processEscrows.  Every table is keyed by the group alone, and *)
(* a removal takes every entry, also those its pass could not serve.       *)

Elected(e) == Index(me) = Min({Index(m) : m \in sigs[e]})
Served(table, S) == IF S = {} THEN table ELSE {}
(* What is served is what was started, even if another event was accepted. *)
Signable == {e \in gpse : AcceptedAt(Sn(e)) # None}
processPartialSignedEscrow ==
  /\ Signable # {}
  /\ gpse' = Served(gpse, Signable)
  /\ LET elected == {e \in Signable : Elected(AcceptedAt(Sn(e)))} IN
       IF Delegated(Tip)
       THEN /\ gdee' = gdee \cup Signable /\ UNCHANGED <<gpwe, requests>>
            /\ delegating' = delegating \cup {AcceptedAt(Sn(e)) : e \in elected}
       ELSE /\ gpwe' = gpwe \cup Signable /\ UNCHANGED <<gdee, delegating>>
            /\ requests' = requests \cup {AcceptedAt(Sn(e)) : e \in elected}
  /\ UNCHANGED <<world, log, cgms, wigs, cues, anchored, approved, restarts>>
Complete(S) ==
  cgms' = [n \in DOMAIN cgms |->
    IF cgms[n] = None /\ \E e \in S : Sn(e) = n THEN CHOOSE e \in S : Sn(e) = n ELSE cgms[n]]
(* The first member waits for the Anchorer, the others for the seal.       *)
DelegatedFirst == IF First /\ Tip \in anchored THEN gdee ELSE {}
DelegatedOther == IF First THEN {} ELSE gdee \cap approved
processDelegateEscrow ==
  /\ DelegatedFirst \cup DelegatedOther # {}
  /\ gdee' = {}
  /\ Complete(DelegatedFirst)
  /\ gpwe' = gpwe \cup DelegatedOther
  /\ UNCHANGED <<world, log, gpse, wigs, outside, approved, restarts>>
Witnessed(e) ==
  Cardinality(wigs[e]) = Cardinality(Wits) /\ (First /\ Wits # {} => \E f \in cues : Sn(f) = Sn(e))
processPartialWitnessEscrow ==
  LET done == {e \in gpwe : Witnessed(e)} IN
  /\ done # {}
  /\ gpwe' = Served(gpwe, done)
  /\ Complete(done)
  /\ UNCHANGED <<world, log, gpse, gdee, wigs, outside, approved, restarts>>

-----------------------------------------------------------------------------
(* Receiptor (module Issuance) for the elected member, its get queries for *)
(* the others, Anchorer (module Anchorer) and the delegator.               *)
Receipt(e) ==
  /\ e \in requests
  /\ requests' = requests \ {e} /\ cues' = cues \cup {e}
  /\ wigs' = [wigs EXCEPT ![e] = Wits]
  /\ UNCHANGED <<world, log, tables, delegating, anchored, approved, restarts>>
GetReceipts(e) ==
  /\ e \in gpwe \cap Accepted /\ ~First /\ ~Witnessed(e)
  /\ wigs' = [wigs EXCEPT ![e] = Wits]
  /\ UNCHANGED <<world, log, tables, outside, approved, restarts>>
DelegatorSeals(e) ==
  /\ Delegated(e) /\ e \in Accepted \ approved
  /\ approved' = approved \cup {e}
  /\ UNCHANGED <<world, log, tables, wigs, outside, restarts>>
AnchorerDone(e) ==
  /\ e \in delegating \cap approved
  /\ delegating' = delegating \ {e} /\ anchored' = anchored \cup {e}
  /\ UNCHANGED <<world, log, tables, wigs, requests, cues, approved, restarts>>
(* The queues of the Receiptor are in memory.                              *)
Restart ==
  /\ restarts < MaxRestarts /\ restarts' = restarts + 1
  /\ requests' = {} /\ cues' = {}
  /\ UNCHANGED <<world, log, tables, wigs, delegating, anchored, approved>>
(* The loops find nothing to do.                                           *)
Idle == UNCHANGED vars

Init ==
  /\ world \in Worlds /\ restarts = 0
  /\ senders = [e \in Events |-> {}] /\ replayed = {}
  /\ sigs = [e \in Events |-> {}] /\ kel = <<>>
  /\ gpse = {} /\ gdee = {} /\ gpwe = {}
  /\ cgms = [n \in 1..Cardinality(Events) |-> None]
  /\ wigs = [e \in Events |-> {}]
  /\ requests = {} /\ cues = {} /\ delegating = {} /\ anchored = {} /\ approved = {}

Loops ==
  \/ \E e \in Events : Accept(e) \/ Receipt(e) \/ GetReceipts(e) \/ AnchorerDone(e)
  \/ processPartialSignedEscrow \/ processDelegateEscrow \/ processPartialWitnessEscrow
Next ==
  \/ \E e \in Events : Propose(e) \/ ReceiveSigned(e) \/ DelegatorSeals(e)
  \/ \E e \in Events, m \in ToSet(Members) : Receive(e, m)
  \/ Loops \/ Restart \/ Idle
(* Every turn of the doers runs each loop; there are finitely many steps.  *)
Spec == Init /\ [][Next]_vars /\ WF_vars(Loops)
-----------------------------------------------------------------------------
(* Properties                                                              *)

TypeOK ==
  /\ world \in Worlds /\ kel \in Seq(Events) /\ replayed \subseteq Events \X ToSet(Members)
  /\ senders \in [Events -> SUBSET ToSet(Members)] /\ sigs \in [Events -> SUBSET ToSet(Members)]
  /\ wigs \in [Events -> SUBSET Wits]
  /\ \A n \in DOMAIN kel : Sn(kel[n]) = n
  /\ \A e \in gpse \cup gdee \cup gpwe : e \in world.proposed /\ me \in senders[e]
  /\ DOMAIN cgms = 1..Cardinality(Events)
  /\ \A n \in DOMAIN cgms : cgms[n] \in {None} \cup {e \in Events : Sn(e) = n}

(* What another member proposes is read as a local message if and only if  *)
(* the local member proposed the same event, whichever came first          *)
(* (Multiplexor.add).                                                      *)
ProposalsReplayed ==
  replayed = {p \in Events \X ToSet(Members) : p[2] # me /\ {p[2], me} \subseteq senders[p[1]]}

(* An event counts as completed only if it is the one in the group's log   *)
(* and, when it is delegated and the latest there, the delegator sealed    *)
(* it; for a group with witnesses, in which no two events are proposed for *)
(* one place while it has a delegated one (Counselor.complete).            *)
Apart ==
  \/ \A e \in world.proposed : ~Delegated(e)
  \/ \A d, e \in world.proposed : Sn(d) = Sn(e) => d = e
CompletedAccepted ==
  Wits # {} /\ Apart => \A n \in DOMAIN cgms : cgms[n] # None =>
    /\ AcceptedAt(n) = cgms[n]
    /\ Delegated(cgms[n]) /\ Tip = cgms[n] => cgms[n] \in approved

(* A group of which the local host is a member proposes events of its own. *)
GroupsAssumption ==
  /\ Threshold \in Nat \ {0} /\ None \notin Events
  /\ \A e \in Events : Sn(e) \in Nat \ {0} /\ Delegated(e) \in BOOLEAN
  /\ \A w \in Worlds : w.proposed \subseteq Events /\ w.me \in ToSet(Members) /\ IsFiniteSet(w.wits)

(* What was signed was proposed, what is accepted was signed, and what was *)
(* receipted or approved is accepted.                                      *)
Grounded ==
  /\ \A e \in Events : sigs[e] # {} => e \in world.proposed
  /\ Accepted \subseteq world.proposed
  /\ requests \cup cues \cup delegating \cup anchored \cup approved \subseteq Accepted
  /\ anchored \subseteq approved
  /\ \A e \in Events : wigs[e] # {} => e \in Accepted
(* What waits for the delegator or for witnesses, apart from conflicts.    *)
Followed ==
  Apart =>
    /\ (\A e \in world.proposed : ~Delegated(e)) => gdee = {}
    /\ (\E e \in world.proposed : Delegated(e)) => gdee \cup gpwe \subseteq Accepted
    /\ \A e \in gpwe : Delegated(e) /\ Tip = e => e \in approved
GroupsInv == TypeOK /\ ProposalsReplayed /\ Grounded /\ Followed /\ CompletedAccepted

(* The docstring of Counselor.complete, of every group.                    *)
CompletedIsAccepted == \A n \in DOMAIN cgms : cgms[n] # None => AcceptedAt(n) = cgms[n]

(* An event the local member started is completed once it is accepted,     *)
(* witnessed and, when delegated, sealed, if nothing else was started      *)
(* besides it, no other event followed and nothing restarted.              *)
Started == {e \in Events : me \in senders[e]}
Waiting(e) ==
  /\ Started = {e} /\ Tip = e /\ restarts = 0 /\ cgms[Sn(e)] # e
  /\ Delegated(e) => e \in approved
AllCompleted == \A e \in Events : ~Waiting(e)
GroupCompletes == []<>AllCompleted
=============================================================================
