--------------------------- MODULE MCKeveryRoles ---------------------------
(* Three instances of Kevery that share its variables; the initial state   *)
(* chooses one and no step changes the choice.  In the first a validator   *)
(* gets events in pieces, in the second it is a witness and a member of    *)
(* the group.  The cfg gives the third, in which time passes.              *)
EXTENDS MCKevery

VARIABLE instance

Local == INSTANCE Kevery WITH
  KeyEvents <- LocalEv, Sent <- LocalSent, MaxSn <- 3,
  Keys <- {"a0", "b0", "a1", "b1", "a2"}, Wits <- {"w1", "w2"},
  LocalKeys <- {"a0", "a1"}, LocalWits <- {"w1"}, MaxStale <- 0
Pieces == INSTANCE Kevery WITH
  KeyEvents <- WitnessedEv, Sent <- WitnessedSent, MaxSn <- 2,
  Keys <- {"a0", "b0", "a1", "b1", "c1", "a2"}, Wits <- {"w1", "w2", "w3"}, MaxStale <- 0

ASSUME MemberSigns == Local!LocalsSigned

PiecesOn == instance = "pieces"
LocalOn == instance = "local"
TimedOn == instance = "timed"

RolesInit == (PiecesOn /\ Pieces!Init) \/ (LocalOn /\ Local!Init) \/ (TimedOn /\ Init)
RolesNext ==
  \/ PiecesOn /\ UNCHANGED instance /\ Pieces!Next
  \/ LocalOn /\ UNCHANGED instance /\ Local!Next
  \/ TimedOn /\ UNCHANGED instance /\ Next

(* The fairness of Kevery, of each instance for its own behaviours.        *)
RolesFairness ==
  /\ \A x \in Retried, e \in DOMAIN WitnessedEv :
       WF_vars(PiecesOn /\ (Pieces!DropEscrowed(x, e) \/ Pieces!RetryEscrowed(x, e)))
  /\ \A x \in Retried, e \in DOMAIN TimedEv :
       WF_vars(TimedOn /\ (DropEscrowed(x, e) \/ RetryEscrowed(x, e)))
  /\ \A e \in DOMAIN TimedEv : WF_vars(TimedOn /\ Expire(e))

RolesSpec == RolesInit /\ [][RolesNext]_<<vars, instance>> /\ RolesFairness

(* What Kevery states, of the instance that is about it.                   *)
RolesSound ==
  /\ PiecesOn => Pieces!RotationsControlled /\ Pieces!EscrowsSigned /\ Pieces!AcceptedWitnessed
  /\ LocalOn => Local!ProtectedFromLocal /\ Local!MemberConsents /\ Local!SourcesInv
  /\ TimedOn => LogInv /\ ControlInv
PiecesComplete == []<>(PiecesOn => Pieces!SupportedAccepted)
TimedDrain ==
  \A x \in Retried, e \in {"ixn1", "rot1"} :
    TimedOn /\ e \in escrow[x] ~> TimedOn /\ e \notin escrow[x]
(* An escrowed event is accepted once it is supported, or it leaves.       *)
EscrowsResolve == PiecesComplete /\ TimedDrain
=============================================================================
