------------------------------ MODULE Issuance ------------------------------
(* Issuing: vdr/credentialing.py, the Registrar that follows a transaction *)
(* event of a local registry from its anchoring to its publication, and    *)
(* the Credentialer that follows a credential until it is complete, with   *)
(* the queues of the Receiptor and the WitnessPublisher they wait for      *)
(* (app/agenting.py), which a restart empties.                             *)
EXTENDS Integers, Sequences, FiniteSets

CONSTANTS
  TelEvents,   \* a record for each event: pre, sn, ilk, the credential it issues
  Worlds,      \* whether the issuer is a group, the events it makes, and those it
               \* made before
  Witnesses,   \* the witnesses of the issuer at first
  Replacement, \* the witnesses after the issuer's rotation
  MaxRestarts,
  None

Events == DOMAIN TelEvents
Pre(e) == TelEvents[e].pre
Sn(e) == TelEvents[e].sn
Issued(e) == TelEvents[e].cred
Creds == {Issued(e) : e \in Events} \ {None}
IssueOf(c) == CHOOSE e \in Events : Issued(e) = c
Registry == CHOOSE e \in Events : TelEvents[e].ilk = "vcp"

VARIABLES
  world,     \* the world of this behaviour
  sn,        \* the issuer's latest sequence number
  anchorOf,  \* the sequence number at which an event is sealed, or proposed to be
  wits,      \* the issuer's witnesses, and those of each event of its log
  witsAt,
  wigs,      \* db.wigs: the witnesses whose receipt is held, by number
  cgms,      \* completed group events: the transaction event each seals
  ancs,      \* events with an anchor couple
  tels,      \* accepted transaction events
  tpwe, tmse, tede, ctel,  \* the Registrar's escrows and its completed events
  cmse, ccrd, saved,       \* the Credentialer's escrow and completed credentials
  msgs, rcues,             \* Receiptor: numbers to be receipted, and done
  posts, pcues,            \* WitnessPublisher: identifiers to be published, and done
  rotated, restarts
db == <<tels, ancs, tpwe, tmse, tede, ctel, cmse, ccrd, saved>>
memory == <<msgs, rcues, posts, pcues>>
issuer == <<sn, anchorOf, wits, witsAt, wigs, cgms>>
vars == <<world, issuer, db, memory, rotated, restarts>>
group == world.group
Created(e) == e \in world.made \/ anchorOf[e] # 0

-----------------------------------------------------------------------------
(* Registry.make, issue and revoke, the interaction event that seals the   *)
(* new event, Credentialer.issue and Registrar.incept, issue and revoke.   *)
Ready(e) ==
  \/ e = Registry
  \/ Registry \in tels /\ (Sn(e) = 0 \/ \E d \in tels : Pre(d) = Pre(e) /\ Sn(d) = 0)
Escrowed(e) == cmse' = IF Issued(e) = None THEN cmse ELSE cmse \cup {Issued(e)}
CreateSingle(e) ==
  /\ ~group /\ e \in world.makes /\ ~Created(e) /\ Ready(e)
  /\ sn' = sn + 1 /\ anchorOf' = [anchorOf EXCEPT ![e] = sn']
  /\ witsAt' = [witsAt EXCEPT ![sn'] = wits]
  /\ ancs' = ancs \cup {e}
  /\ msgs' = msgs \cup {sn'}
  /\ tpwe' = tpwe \cup {e}
  /\ Escrowed(e)
  /\ UNCHANGED <<world, wits, wigs, cgms, tels, tmse, tede, ctel, ccrd, saved, rcues, posts, pcues,
                 rotated, restarts>>
(* The proposals of a group wait for the other members: the next one may   *)
(* be for the same number.                                                 *)
CreateGroup(e) ==
  /\ group /\ e \in world.makes /\ ~Created(e) /\ Ready(e)
  /\ anchorOf' = [anchorOf EXCEPT ![e] = sn + 1]
  /\ tmse' = tmse \cup {e}
  /\ Escrowed(e)
  /\ UNCHANGED <<world, sn, wits, witsAt, wigs, cgms, tels, ancs, tpwe, tede, ctel, ccrd, saved,
                 memory, rotated, restarts>>
(* Counselor.complete for one of them (module Counselor).                  *)
CompleteGroup(e) ==
  /\ group /\ Created(e) /\ anchorOf[e] = sn + 1
  /\ sn' = sn + 1 /\ cgms' = [cgms EXCEPT ![sn'] = e]
  /\ UNCHANGED <<world, anchorOf, wits, witsAt, wigs, db, memory, rotated, restarts>>
Rotate ==
  /\ ~group /\ ~rotated /\ rotated' = TRUE
  /\ sn' = sn + 1 /\ wits' = Replacement
  /\ witsAt' = [witsAt EXCEPT ![sn'] = wits']
  /\ UNCHANGED <<world, anchorOf, wigs, cgms, db, memory, restarts>>

(* Receiptor.witDo: the witnesses of the event are asked once; the ones    *)
(* that refuse are passed over.                                            *)
Receipt(n) ==
  /\ n \in msgs /\ msgs' = msgs \ {n} /\ rcues' = rcues \cup {n}
  /\ \E got \in SUBSET witsAt[n] : wigs' = [wigs EXCEPT ![n] = @ \cup got]
  /\ UNCHANGED <<world, sn, anchorOf, wits, witsAt, cgms, db, posts, pcues, rotated, restarts>>
(* A receipt that comes by another way.                                    *)
ReceiptLate(n, w) ==
  /\ w \in witsAt[n] \ wigs[n] /\ wigs' = [wigs EXCEPT ![n] = @ \cup {w}]
  /\ UNCHANGED <<world, sn, anchorOf, wits, witsAt, cgms, db, memory, rotated, restarts>>

-----------------------------------------------------------------------------
(* Registrar.processWitnessEscrow counts the receipts of the event against *)
(* the latest witness list.                                                *)
Witnessed(e) ==
  LET n == anchorOf[e] IN wits # {} => Cardinality(wigs[n]) = Cardinality(wits) /\ n \in rcues
processWitnessEscrow(e) ==
  /\ e \in tpwe /\ Witnessed(e)
  /\ tpwe' = tpwe \ {e} /\ tede' = tede \cup {e}
  /\ UNCHANGED <<world, issuer, tels, ancs, tmse, ctel, cmse, ccrd, saved, memory, rotated, restarts>>
Completed(e) == cgms[anchorOf[e]] = e
processMultisigEscrow(e) ==
  /\ e \in tmse /\ Completed(e)
  /\ ancs' = ancs \cup {e}
  /\ tmse' = tmse \ {e} /\ tede' = tede \cup {e}
  /\ UNCHANGED <<world, issuer, tels, tpwe, ctel, cmse, ccrd, saved, memory, rotated, restarts>>
(* Another event was completed at the number.                              *)
dropMultisigEscrow(e) ==
  /\ e \in tmse /\ cgms[anchorOf[e]] \notin {None, e}
  /\ tmse' = tmse \ {e}
  /\ UNCHANGED <<world, issuer, tels, ancs, tpwe, tede, ctel, cmse, ccrd, saved, memory, rotated, restarts>>
disseminateEarly(e) ==  \* slip: the event leaves before it is accepted
  /\ e \in tede
  /\ tede' = tede \ {e} /\ ctel' = IF e \in tels THEN ctel \cup {e} ELSE ctel
  /\ posts' = posts \cup {Pre(e)}
  /\ UNCHANGED <<world, issuer, tels, ancs, tpwe, tmse, cmse, ccrd, saved, msgs, rcues, pcues, rotated, restarts>>
processDisseminationEscrow(e) ==
  /\ e \in tede /\ e \in tels
  /\ tede' = tede \ {e} /\ ctel' = ctel \cup {e}
  /\ posts' = posts \cup {Pre(e)}
  /\ UNCHANGED <<world, issuer, tels, ancs, tpwe, tmse, cmse, ccrd, saved, msgs, rcues, pcues, rotated, restarts>>
(* WitnessPublisher.sendDo                                                 *)
Publish(p) ==
  /\ p \in posts /\ posts' = posts \ {p} /\ pcues' = pcues \cup {p}
  /\ UNCHANGED <<world, issuer, db, msgs, rcues, rotated, restarts>>
(* Tevery.processEscrows and Verifier.processEscrows (modules Registry and *)
(* Credentials): the anchor is in the issuer's log.                        *)
Accept(e) ==
  /\ e \in ancs \ tels /\ anchorOf[e] <= sn
  /\ tels' = tels \cup {e}
  /\ saved' = IF Issued(e) = None THEN saved ELSE saved \cup {Issued(e)}
  /\ UNCHANGED <<world, issuer, ancs, tpwe, tmse, tede, ctel, cmse, ccrd, memory, rotated, restarts>>

(* Registrar.complete, which looks for any publication for the identifier, *)
(* and Credentialer.processCredentialMissingSigEscrow.                     *)
complete(e) == e \in ctel /\ Pre(e) \in pcues
processCredentialMissingSigEscrow(c) ==
  /\ c \in cmse /\ complete(IssueOf(c)) /\ c \in saved
  /\ cmse' = cmse \ {c} /\ ccrd' = ccrd \cup {c}
  /\ UNCHANGED <<world, issuer, tels, ancs, tpwe, tmse, tede, ctel, saved, memory, rotated, restarts>>

Restart ==
  /\ restarts < MaxRestarts /\ restarts' = restarts + 1
  /\ msgs' = {} /\ rcues' = {} /\ posts' = {} /\ pcues' = {}
  /\ UNCHANGED <<world, issuer, db, rotated>>

Numbers == 0..(Cardinality(Events) + 1)
Init ==
  /\ world \in Worlds /\ rotated = FALSE /\ restarts = 0
  /\ sn = 0 /\ anchorOf = [e \in Events |-> 0]
  /\ wits = (IF group THEN {} ELSE Witnesses) /\ witsAt = [n \in Numbers |-> {}]
  /\ wigs = [n \in Numbers |-> {}] /\ cgms = [n \in Numbers |-> None]
  /\ ancs = world.made /\ tels = world.made /\ ctel = world.made
  /\ tpwe = {} /\ tmse = {} /\ tede = {}
  /\ cmse = {} /\ ccrd = {} /\ saved = {}
  /\ msgs = {} /\ rcues = {} /\ posts = {} /\ pcues = {}

Environment ==
  \/ \E e \in Events : CreateSingle(e)
  \/ \E e \in Events : CreateGroup(e)
  \/ \E e \in Events : CompleteGroup(e)
  \/ Rotate
  \/ \E n \in Numbers, w \in Witnesses : ReceiptLate(n, w)
  \/ Restart
Loops ==
  \/ \E n \in Numbers : Receipt(n)
  \/ \E e \in Events : processWitnessEscrow(e)
  \/ \E e \in Events : processMultisigEscrow(e)
  \/ \E e \in Events : dropMultisigEscrow(e)
  \/ \E e \in Events : processDisseminationEscrow(e)
  \/ \E e \in Events : Accept(e)
  \/ \E p \in {Pre(e) : e \in Events} : Publish(p)
  \/ \E c \in Creds : processCredentialMissingSigEscrow(c)
(* The loops find nothing to do.                                           *)
Idle == UNCHANGED vars
Next == Environment \/ Loops \/ Idle

(* The doers run on every turn and each step of a loop is done once.       *)
Spec == Init /\ [][Next]_vars /\ WF_vars(Loops)
-----------------------------------------------------------------------------
(* Properties                                                              *)

Everyone == Witnesses \cup Replacement
TypeOK ==
  /\ world \in Worlds /\ rotated \in BOOLEAN /\ restarts \in Nat
  /\ sn \in Numbers /\ anchorOf \in [Events -> Numbers]
  /\ wits \subseteq Everyone /\ witsAt \in [Numbers -> SUBSET Everyone]
  /\ wigs \in [Numbers -> SUBSET Everyone] /\ cgms \in [Numbers -> Events \cup {None}]
  /\ ancs \subseteq {e \in Events : Created(e)} /\ tels \subseteq ancs
  /\ tpwe \cup tmse \cup tede \cup ctel \subseteq {e \in Events : Created(e)}
  /\ tede \cap (tpwe \cup tmse) = {} /\ cmse \cap ccrd = {} /\ cmse \cup ccrd \subseteq Creds

(* The issuer's log is known in full, a credential is issued by one event, *)
(* and the lists of witnesses are finite.                                  *)
IssuanceAssumption ==
  /\ None \notin Events /\ IsFiniteSet(Events) /\ IsFiniteSet(Everyone)
  /\ \A v \in Worlds : v.group \in BOOLEAN /\ v.made \subseteq Events
  /\ \A d, e \in Events : Issued(d) = Issued(e) /\ Issued(d) # None => d = e

(* A created transaction event is never lost between the escrows: it is in *)
(* one of them, or complete, or another proposal took its number.          *)
NoneLost ==
  \A e \in Events : Created(e) =>
    \/ e \in tpwe \cup tmse \cup tede \cup ctel
    \/ group /\ cgms[anchorOf[e]] \notin {None, e}

(* A credential counts as complete only when it is saved, its issuance is  *)
(* accepted under the anchor that seals it, the anchoring event has the    *)
(* receipts of as many witnesses as it had, unless the list changed, and,  *)
(* until a restart, the issuance was sent to the witnesses.                *)
CredentialsDone ==
  \A c \in ccrd : LET e == IssueOf(c) IN
    /\ c \in saved /\ e \in tels \cap ctel
    /\ group => cgms[anchorOf[e]] = e
    /\ ~group /\ ~rotated => wigs[anchorOf[e]] = witsAt[anchorOf[e]]
    /\ restarts = 0 => Pre(e) \in pcues

(* The numbers of the issuer's log are taken in turn by what is created,   *)
(* and by its rotation; a receipt is of a witness of its event.            *)
InLog == {e \in Events : anchorOf[e] \in 1..sn}
Numbered ==
  /\ sn <= Cardinality(InLog) + (IF rotated THEN 1 ELSE 0)
  /\ \A e \in Events : anchorOf[e] <= IF group THEN sn + 1 ELSE sn
  /\ \A e \in world.made : anchorOf[e] = 0
  /\ \A n \in Numbers : wigs[n] \subseteq witsAt[n] /\ (n > sn => cgms[n] = None /\ witsAt[n] = {})
  /\ group => ~rotated
  /\ ~group /\ ~rotated => \A n \in 1..sn : witsAt[n] = wits

(* What an escrow has let pass was completed by the group, or receipted by *)
(* all witnesses; a credential follows the event that issues it.           *)
Passed(e) ==
  /\ group => cgms[anchorOf[e]] = e
  /\ ~group /\ ~rotated => wigs[anchorOf[e]] = witsAt[anchorOf[e]]
WaysKept ==
  /\ ctel \subseteq tels /\ IF group THEN tpwe = {} ELSE tmse = {}
  /\ \A e \in (tede \cup ctel) \ world.made : Passed(e)
  /\ \A c \in cmse \cup ccrd : anchorOf[IssueOf(c)] # 0
IssuanceInv == TypeOK /\ Numbered /\ WaysKept /\ NoneLost /\ CredentialsDone

(* Without a restart, and while the witness list stands, what was created  *)
(* is completed once the witnesses' receipts are there, or was outvoted.   *)
Supported(e) ==
  /\ Created(e) /\ e \notin ctel
  /\ IF group THEN cgms[anchorOf[e]] = e ELSE wigs[anchorOf[e]] = wits
AllCompleted ==
  restarts = 0 /\ ~rotated =>
    /\ \A e \in Events : ~Supported(e)
    /\ \A c \in Creds : c \in cmse => IssueOf(c) \notin ctel
IssuanceCompletes == []<>AllCompleted
=============================================================================
