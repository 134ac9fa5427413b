-------------------------- MODULE MCReceiptsAll ----------------------------
(* Three small instances of Receipts for TLC; the initial state chooses    *)
(* the one a behaviour is about, and the variables of the others keep      *)
(* their values.                                                           *)
EXTENDS Receipts

Event(sn, ilk, prior, cuts, adds, toad) ==
  [sn |-> sn, ilk |-> ilk, prior |-> prior, cuts |-> cuts, adds |-> adds, toad |-> toad]
Cig(e, by) == [said |-> e, kind |-> "cig", by |-> by, at |-> 0]
Wigr(e, by, at) == [said |-> e, kind |-> "wig", by |-> by, at |-> at]
Tsg(e, x) == [said |-> e, kind |-> "tsg", by |-> x, at |-> 0]

(* A log whose rotation replaces a witness, with receipts of witnesses, of *)
(* a watcher and of a transferable receiptor.                              *)
RotationEv ==
  [icp |-> Event(0, "icp", "nil", {}, <<"w1", "w2">>, 2),
   rot1 |-> Event(1, "rot", "icp", {"w1"}, <<"w3">>, 1),
   ixn2 |-> Event(2, "ixn", "rot1", {}, <<>>, 0)]
RotationSent ==
  {Cig("icp", "w1"), Wigr("icp", "w2", 2), Cig("rot1", "w2"), Wigr("rot1", "w3", 2),
   Cig("rot1", "s1"), Tsg("rot1", "x0")}

(* A recovery rotation with a conflicting interaction event.               *)
RecoveryEv ==
  [icp |-> Event(0, "icp", "nil", {}, <<"w1", "w2">>, 1),
   ixn1 |-> Event(1, "ixn", "icp", {}, <<>>, 0),
   rot1 |-> Event(1, "rot", "icp", {}, <<>>, 1)]
RecoverySent ==
  {Cig("icp", "w1"), Wigr("ixn1", "w1", 1), Wigr("rot1", "w2", 1), Cig("rot1", "w1"),
   Tsg("rot1", "x0")}
(* A receipt of each kind, of events that do not conflict.                 *)
TimedEv == [e \in {"icp", "ixn1"} |-> RecoveryEv[e]]
TimedSent == {Cig("icp", "w1"), Wigr("ixn1", "w1", 1), Tsg("ixn1", "x0")}
TwoEsts == [x0 |-> 0, x0b |-> 0]
OneEst == [x0 |-> 0]

(* One event at a time, for the disagreements of code and documents.       *)
MisfiledSent == {Cig("icp", "w1"), Cig("ixn1", "w1"), Tsg("ixn1", "x0"), Tsg("rot1", "x0")}
NoEsts == [x \in {} |-> 0]

-----------------------------------------------------------------------------

VARIABLES
  instance,
  kever2, kels2, backers2, evts2, pwes2, known2, wigs2, rcts2, vrcs2, ures2, uwes2, vres2,
  date2, rcvd2
others == <<kever2, kels2, backers2, evts2, pwes2, known2, wigs2, rcts2, vrcs2, ures2, uwes2,
            vres2, date2, rcvd2>>
allVars == <<instance, vars, others>>

(* The instance of the cfg is a log whose rotation replaces a witness; the *)
(* two others share the second copy of the variables.                      *)
Recovery == INSTANCE Receipts WITH
  KeyEvents <- RecoveryEv, EstSns <- TwoEsts, Sent <- RecoverySent, MaxSn <- 1, MaxStale <- 1,
  kever <- kever2, kels <- kels2, backers <- backers2, evts <- evts2, pwes <- pwes2,
  known <- known2, wigs <- wigs2, rcts <- rcts2, vrcs <- vrcs2, ures <- ures2, uwes <- uwes2,
  vres <- vres2, date <- date2, rcvd <- rcvd2
Timed == INSTANCE Receipts WITH
  KeyEvents <- TimedEv, EstSns <- OneEst, Sent <- TimedSent, MaxSn <- 1, MaxStale <- 2,
  kever <- kever2, kels <- kels2, backers <- backers2, evts <- evts2, pwes <- pwes2,
  known <- known2, wigs <- wigs2, rcts <- rcts2, vrcs <- vrcs2, ures <- ures2, uwes <- uwes2,
  vres <- vres2, date <- date2, rcvd <- rcvd2

RotationOn == instance = "rotation" /\ UNCHANGED <<instance, others>>
RecoveryOn == instance = "recovery" /\ UNCHANGED <<instance, vars>>
TimedOn == instance = "timed" /\ UNCHANGED <<instance, vars>>

AnyInit ==
  /\ Init
  /\ \/ instance \in {"rotation", "recovery"} /\ Recovery!Init
     \/ instance = "timed" /\ Timed!Init
AnyNext == (RotationOn /\ Next) \/ (RecoveryOn /\ Recovery!Next) \/ (TimedOn /\ Timed!Next)

(* The fairness of Receipts, of each instance for its own behaviours.      *)
AnyFairness ==
  /\ \A e \in DOMAIN RotationEv : WF_allVars(RotationOn /\ RetryPartialWigs(e))
  /\ \A r \in RotationSent :
       WF_allVars(RotationOn /\ (RetryUnverNonTrans(r) \/ RetryUnverWitness(r) \/ RetryUnverTrans(r)))
  /\ \A e \in DOMAIN TimedEv :
       WF_allVars(TimedOn /\ Timed!RetryPartialWigs(e)) /\ WF_allVars(TimedOn /\ Timed!Expire(e))
  /\ \A r \in TimedSent :
       WF_allVars(TimedOn /\ (\/ Timed!RetryUnverNonTrans(r) \/ Timed!RetryUnverWitness(r)
                             \/ Timed!RetryUnverTrans(r)))
AnySpec == AnyInit /\ [][AnyNext]_allVars /\ AnyFairness

(* Only the instance of the cfg.                                           *)
CfgSpec == AnyInit /\ instance = "rotation" /\ [][AnyNext]_allVars

(* The same of the two instances whose events may conflict or grow stale   *)
(* (Kever.valSigsWigsDel, Kevery.processReceipt and the escrows).          *)
RecoveryVerified ==
  /\ TypeOK
  /\ instance # "timed" =>
       Recovery!TypeOK /\ Recovery!AcceptedWitnessed /\ Recovery!VerifiedReceipts
  /\ instance = "timed" => Timed!TypeOK
RotationCompletes == []<>(instance = "rotation" => WitnessedLogged)
RotationStored == []<>(instance = "rotation" => ReceiptsKept)
TimedDrain ==
  \A r \in TimedSent :
    instance = "timed" /\ r \in ures2 \cup uwes2 \cup vres2 ~> r \notin ures2 \cup uwes2 \cup vres2
(* A receipt is stored with its event, in whatever order they come, the    *)
(* event is logged, and what nothing comes for leaves its escrow.          *)
ReceiptsResolve == RotationCompletes /\ RotationStored /\ TimedDrain
=============================================================================
