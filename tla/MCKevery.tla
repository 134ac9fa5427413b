------------------------------ MODULE MCKevery ------------------------------
(* Small instances of Kevery for TLC.                                      *)
EXTENDS Kevery

Event(sn, ilk, prior, keys, kt, next, nt, cuts, adds, toad) ==
  [sn |-> sn, ilk |-> ilk, prior |-> prior, keys |-> keys, kt |-> kt,
   next |-> next, nt |-> nt, cuts |-> cuts, adds |-> adds, toad |-> toad,
   estOnly |-> FALSE]

Icp(keys, kt, next, nt, wits, toad) ==
  Event(0, "icp", "nil", keys, kt, next, nt, {}, wits, toad)
Ixn(sn, prior) == Event(sn, "ixn", prior, {}, 0, {}, 0, {}, {}, 0)

(* A message from elsewhere.                                               *)
Msg(e, S, W) == [event |-> e, sigs |-> S, wigs |-> W, local |-> FALSE]
Own(e, S) == [event |-> e, sigs |-> S, wigs |-> {}, local |-> TRUE]

-----------------------------------------------------------------------------
(* One key and one witness: interaction events, a recovery rotation, a     *)
(* rotation that competes with it, comes in pieces and commits to the same *)
(* key again, an inception that claims a later sequence number; ixn2 also  *)
(* carries a signature with a key that is not in force yet.                *)
RecoveryEv ==
  [icp |-> Icp({"k0"}, 1, {"k1"}, 1, {"w1"}, 1),
   ixn1 |-> Ixn(1, "icp"),
   ixn2 |-> Ixn(2, "ixn1"),
   rot1 |-> Event(1, "rot", "icp", {"k1"}, 1, {"k2"}, 1, {}, {}, 1),
   rot2 |-> Event(2, "rot", "ixn1", {"k1", "k2"}, 1, {"k1"}, 1, {}, {}, 1),
   ixn3 |-> Ixn(3, "rot2"),
   icp1 |-> [Icp({"k0"}, 1, {"k1"}, 1, {}, 0) EXCEPT !.sn = 1]]

RecoverySent ==
  {Msg("icp", {"k0"}, {"w1"}),
   Msg("ixn1", {"k0"}, {"w1"}), Msg("ixn1", {"k2"}, {}), Msg("ixn2", {"k0", "k1"}, {"w1"}),
   Msg("rot1", {"k1"}, {"w1"}), Msg("rot2", {"k2"}, {"w1"}), Msg("rot2", {"k1"}, {"w2"}),
   Msg("ixn3", {"k1"}, {"w1"}), Msg("icp1", {"k0"}, {})}

(* The recovery of the same key state on its own, for the passage of time. *)
TimedEv == [x \in {"icp", "ixn1", "rot1"} |-> RecoveryEv[x]]
TimedSent == {m \in RecoverySent : m.event \in DOMAIN TimedEv}

-----------------------------------------------------------------------------
(* Two keys, witnesses that a rotation changes, no conflicting events.     *)
(* Signatures come in pieces, some from a witness that is not in force.    *)
WitnessedEv ==
  [icp  |-> Icp({"a0", "b0"}, 2, {"a1", "b1"}, 2, {"w1", "w2"}, 1),
   ixn1 |-> Ixn(1, "icp"),
   rot2 |-> Event(2, "rot", "ixn1", {"a1", "b1", "c1"}, 2, {"a2"}, 1,
                  {"w1"}, {"w3"}, 2)]

WitnessedSent ==
  {Msg("icp", {"a0"}, {"w1"}), Msg("icp", {"a0", "b0"}, {"w3"}),
   Msg("ixn1", {"a0", "b0"}, {}), Msg("ixn1", {"b0"}, {"w2"}),
   Msg("rot2", {"b1", "c1"}, {"w2", "w3"}), Msg("rot2", {"a1"}, {"w1", "w2"}),
   Msg("rot2", {"a0"}, {"w1"})}

(* The behaviours of Kevery in which no event grows stale: a retry, and    *)
(* what it drops, is one visit of the item by the loop of its escrow.      *)
Visit(x, e) == e \in escrow[x] /\ (DropEscrowed(x, e) \/ RetryEscrowed(x, e))
PromptNext == (\E m \in Sent : Receive(m)) \/ (\E x \in Retried, e \in Events : Visit(x, e))
PromptSpec == Init /\ [][PromptNext]_vars

-----------------------------------------------------------------------------
(* The validator is the witness w1, which the rotation removes, and a      *)
(* member of the group with the key a0, then a1: local and remote copies   *)
(* of each event, an event no local source gives, and an inception that    *)
(* claims a later sequence number.                                         *)
LocalEv ==
  [icp  |-> Icp({"a0", "b0"}, 1, {"a1", "b1"}, 1, {"w1", "w2"}, 2),
   icp1 |-> [Icp({"a0"}, 1, {"a1"}, 1, {}, 0) EXCEPT !.sn = 1],
   ixn1 |-> Ixn(1, "icp"),
   ixn2 |-> Ixn(2, "ixn1"),
   rot2 |-> Event(2, "rot", "ixn1", {"a1", "b1"}, 2, {"a2"}, 1, {"w1"}, {}, 1),
   ixn3 |-> Ixn(3, "rot2")]

LocalSent ==
  {Msg("icp", {"b0"}, {"w2"}), Own("icp", {"a0", "b0"}),
   Msg("ixn1", {"b0"}, {}), Own("ixn1", {"a0"}), Msg("ixn2", {"b0"}, {"w2"}),
   Msg("rot2", {"a1", "b1"}, {"w2"}), Own("rot2", {"a1"}),
   Msg("ixn3", {"a1", "b1"}, {"w2"}), Msg("icp1", {"a0"}, {})}

-----------------------------------------------------------------------------
(* A recovery rotation that changes the witnesses.                         *)
BackersEv ==
  [icp  |-> Icp({"k0"}, 1, {"k1"}, 1, {"w1"}, 1),
   ixn1 |-> Ixn(1, "icp"),
   rot1 |-> Event(1, "rot", "icp", {"k1"}, 1, {"k2"}, 1, {"w1"}, {"w2"}, 1)]

BackersSent ==
  {Msg("icp", {"k0"}, {"w1"}), Msg("ixn1", {"k0"}, {"w1"}),
   Msg("rot1", {"k1"}, {"w1", "w2"})}
====
