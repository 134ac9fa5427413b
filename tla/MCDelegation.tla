---------------------------- MODULE MCDelegation ----------------------------
(* Small instances of Delegation for TLC.                                  *)
EXTENDS Delegation

Event(pre, sn, ilk, prior, under, seals) ==
  [pre |-> pre, sn |-> sn, ilk |-> ilk, prior |-> prior, under |-> under, seals |-> seals]
Boss(sn, ilk, prior, seals) == Event("boss", sn, ilk, prior, {"icp"}, seals)
Dele(sn, ilk, prior, under) == Event("dele", sn, ilk, prior, under, <<>>)

(* A message from elsewhere, with a source seal couple or none.            *)
Msg(e, sn) == [event |-> e, sn |-> sn, local |-> FALSE]
Own(e, sn) == [event |-> e, sn |-> sn, local |-> TRUE]
Plain(S) == {Msg(e, NoSn) : e \in S}
Local(S) == {Own(e, NoSn) : e \in S}

(* The delegator seals the inception and two rotations of the delegate at  *)
(* one sequence number, and may recover from the event that sealed the     *)
(* first; the delegate has an interaction event at their place.  ixn3 is   *)
(* signed with the keys before and after the recovery; the rotations       *)
(* expose each other's next keys too, as Kever.exposeds asks of one that   *)
(* supersedes the other.                                                   *)
DelegateEv ==
  [icp |-> Boss(0, "icp", "nil", <<>>),
   ixn1 |-> Boss(1, "ixn", "icp", <<"dip">>),
   ixn2 |-> Boss(2, "ixn", "ixn1", <<"drt1", "drt2">>),
   rot2 |-> Boss(2, "rot", "ixn1", <<"drt1">>),
   ixn3 |-> Event("boss", 3, "ixn", "ixn2", {"icp", "rot2"}, <<"drt2">>),
   dip |-> Dele(0, "dip", "nil", {}),
   dix1 |-> Dele(1, "ixn", "dip", {"dip"}),
   drt1 |-> Dele(1, "drt", "dip", {"dip", "drt2"}),
   drt2 |-> Dele(1, "drt", "dip", {"dip", "drt1"})]

(* recovered: a database that already holds the inceptions; the delegate's *)
(* rotations supersede each other and an interaction event, the delegator  *)
(* supersedes the event that seals the first.                              *)
DelegateSent ==
  [validator |-> Plain({"icp", "ixn1", "ixn2", "dip", "drt1"})
                 \cup {Msg("dip", 2), Msg("drt1", 2)},
   recovered |-> Plain({"ixn2", "rot2", "ixn3", "dix1", "drt2"})
                 \cup {Msg("drt1", 2), Msg("drt2", 3)},
   delegator |-> Local({"icp", "ixn1", "ixn2", "dip", "drt1"})
                 \cup {Msg("dip", NoSn), Own("drt1", 2)},
   delegate |-> Local({"dip", "drt1"}) \cup {Msg("drt1", NoSn), Msg("icp", NoSn)}]
Nothing == [boss |-> <<>>, dele |-> <<>>]
DelegateHeld ==
  [r \in DOMAIN DelegateSent |->
     IF r = "recovered" THEN [boss |-> <<"icp", "ixn1">>, dele |-> <<"dip">>] ELSE Nothing]

(* The delegator seals two rotations of the delegate in one event.         *)
RulesSent == [validator |-> Plain({"icp", "ixn1", "ixn2", "dip", "drt1", "drt2"})]
RulesHeld == [validator |-> Nothing]

(* At a validator a delegated event is accepted once it is sealed, or      *)
(* leaves the escrow of partial delegations.                               *)
DelegationResolves == DelegationCompletes /\ DelegatedDrain
=============================================================================
