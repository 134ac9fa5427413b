-------------------------------- MODULE KEL --------------------------------
(***************************************************************************)
(* What a validator promises about one identifier, without saying how      *)
(* events reach it: an authoritative chain of key events, each bound to    *)
(* its predecessor by the prior digest, and a log of every event ever      *)
(* accepted, in the order it was first seen.  The chain grows at its end;  *)
(* a recovery rotation may cut it back, but only over interaction events.  *)
(***************************************************************************)
EXTENDS Naturals, Sequences, Functions

CONSTANTS Events, Ev

VARIABLES chain,  \* authoritative events, the event with sn n at n + 1
          log     \* events in first seen order

Establishing(e) == Ev[e].ilk \in {"icp", "rot"}

(* The chain may be cut after its first n events.                          *)
MayCut(n) == \A i \in (n + 1)..Len(chain) : ~Establishing(chain[i])

-----------------------------------------------------------------------------
Init ==
  /\ chain = <<>>
  /\ log = <<>>

Incept(e) ==
  /\ chain = <<>>
  /\ Ev[e].ilk = "icp"
  /\ chain' = <<e>>

Extend(e) ==
  /\ chain # <<>>
  /\ Ev[e].sn = Len(chain)
  /\ Ev[e].prior = chain[Len(chain)]
  /\ chain' = Append(chain, e)

Recover(e) ==
  /\ Ev[e].ilk = "rot"
  /\ Ev[e].sn \in 1..(Len(chain) - 1)
  /\ Ev[e].prior = chain[Ev[e].sn]
  /\ MayCut(Ev[e].sn)
  /\ chain' = Append(SubSeq(chain, 1, Ev[e].sn), e)

(* An event is accepted at most once.                                      *)
Accept(e) ==
  /\ e \notin Range(log)
  /\ log' = Append(log, e)
  /\ Incept(e) \/ Extend(e) \/ Recover(e)

Next == \E e \in Events : Accept(e)

Spec == Init /\ [][Next]_<<chain, log>>
=============================================================================
