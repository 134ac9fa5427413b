---------------------------- MODULE KeveryProofs ----------------------------
(***************************************************************************)
(* Proofs about Kevery for every set of events, keys, witnesses and        *)
(* messages: type correctness, the chain and first seen invariants, that   *)
(* the validator implements the abstract key event log KEL, and, whatever  *)
(* pieces, orders, escrows and recoveries an event went through, that the  *)
(* signatures its keys, the keys committed to before it and its witnesses  *)
(* must make are held.                                                     *)
(***************************************************************************)
EXTENDS Kevery, SequenceFacts, FiniteSetTheorems, TLAPS

-----------------------------------------------------------------------------
(* Type correctness                                                        *)

(* An event logged as first seen has passed the checks.                    *)
Step(e) == InOrder(e) /\ Valid(e) /\ Log(e)

(* The logs change only when an event is accepted.                         *)
LogsKept == UNCHANGED <<kever, kels, fels, backers>>

(* Every variable has its type at the start.                               *)
LEMMA InitType == Init => TypeOK
  BY EventsAssumption DEF Init, TypeOK

(* The witness list after an event names witnesses only.                   *)
LEMMA WitsForType ==
  ASSUME TypeOK, NEW e \in Events
  PROVE  WitsFor(e) \subseteq Wits
<1> Ev[e] \in EventType
  BY EventsAssumption
<1> kever.wits \subseteq Wits
  BY DEF TypeOK
<1> Ev[e].ilk \in {"icp", "rot", "ixn"} /\ Ev[e].adds \subseteq Wits
  BY DEF EventType
<1> QED BY DEF WitsFor, Derived

(* Storing attachments keeps the types of what is stored.                  *)
LEMMA StoreType ==
  ASSUME TypeOK, NEW e \in Events, NEW S \in SUBSET Keys, NEW W \in SUBSET Wits,
         NEW local \in BOOLEAN, Store(e, S, W, local)
  PROVE  /\ sigs' \in [Events -> SUBSET Keys]
         /\ wigs' \in [Events -> SUBSET Wits]
         /\ source' \in [Events -> {"none", "remote", "local"}]
  BY DEF Store, TypeOK

(* Moving an event between escrows keeps their types.                      *)
LEMMA MoveType ==
  ASSUME TypeOK, NEW e \in Events, NEW from, NEW to, Move(e, from, to)
  PROVE  escrow' \in [Escrows -> SUBSET Events]
  BY DEF Move, TypeOK

(* Logging an event keeps the types of the logs.                           *)
LEMMA LogType ==
  ASSUME TypeOK, NEW e \in Events, Log(e)
  PROVE  /\ kever' \in [said : Events \cup {NoEvent}, est : Events \cup {NoEvent},
                        wits : SUBSET Wits]
         /\ kels' \in [0..MaxSn -> Seq(Events)]
         /\ fels' \in Seq(Events)
         /\ backers' \in [Events -> SUBSET Wits]
         /\ stale' \subseteq Events
<1> USE DEF TypeOK
<1>1. WitsFor(e) \subseteq Wits
  BY WitsForType
<1>2. Sn(e) \in 0..MaxSn
  BY EventsAssumption DEF EventType, Sn
<1>3. kels[Sn(e)] \in Seq(Events) /\ Append(kels[Sn(e)], e) \in Seq(Events)
  BY <1>2
<1>4. kels' \in [0..MaxSn -> Seq(Events)]
  BY <1>2, <1>3 DEF Log
<1>5. kever' \in [said : Events \cup {NoEvent}, est : Events \cup {NoEvent},
                  wits : SUBSET Wits]
  BY <1>1 DEF Log
<1>6. fels' \in Seq(Events)
  BY DEF Log
<1>7. backers' \in [Events -> SUBSET Wits]
  BY <1>1 DEF Log
<1>8. stale' \subseteq Events
  BY DEF Log
<1> QED BY <1>4, <1>5, <1>6, <1>7, <1>8

(* Every outcome of processEvent keeps the types, and either leaves the    *)
(* logs alone or logs an event that passed the checks.                     *)
LEMMA ProcessType ==
  ASSUME TypeOK, NEW e \in Events, NEW S \in SUBSET Keys, NEW W \in SUBSET Wits,
         NEW local \in BOOLEAN, NEW from, processEvent(e, S, W, local, from)
  PROVE  TypeOK' /\ (LogsKept \/ Step(e))
<1> DEFINE V == Verified(e, S, local)
           B == W \cap WitsFor(e)
<1>1. V \in SUBSET Keys /\ B \in SUBSET Wits
  BY DEF Verified
<1>2. ASSUME LogsUnchanged, NEW to, Move(e, from, to), 
             \/ UNCHANGED <<sigs, wigs, source>>
             \/ \E T \in SUBSET Keys, X \in SUBSET Wits, l \in BOOLEAN : Store(e, T, X, l)
      PROVE  TypeOK' /\ LogsKept
  <2>1. /\ sigs' \in [Events -> SUBSET Keys]
        /\ wigs' \in [Events -> SUBSET Wits]
        /\ source' \in [Events -> {"none", "remote", "local"}]
    <3>1. CASE UNCHANGED <<sigs, wigs, source>>
      BY <3>1 DEF TypeOK
    <3>2. CASE \E T \in SUBSET Keys, X \in SUBSET Wits, l \in BOOLEAN : Store(e, T, X, l)
      BY <3>2, StoreType
    <3> QED BY <1>2, <3>1, <3>2
  <2>2. escrow' \in [Escrows -> SUBSET Events]
    BY <1>2, MoveType
  <2> QED BY <1>2, <2>1, <2>2 DEF TypeOK, LogsUnchanged, LogsKept
<1>3. CASE HoldOutOfOrder(e, S, W, local, from)
  BY <1>2, <1>3 DEF HoldOutOfOrder
<1>4. CASE HoldLikelyDuplicitous(e, S, from)
  BY <1>2, <1>4 DEF HoldLikelyDuplicitous
<1>5. CASE HoldMisfit(e, S, W, local, from)
  BY <1>1, <1>2, <1>5 DEF HoldMisfit
<1>6. CASE HoldPartiallySigned(e, S, W, local, from)
  BY <1>1, <1>2, <1>6 DEF HoldPartiallySigned
<1>7. CASE HoldPartiallyWitnessed(e, S, W, local, from)
  BY <1>1, <1>2, <1>7 DEF HoldPartiallyWitnessed
<1>8. CASE InOrder(e) /\ Valid(e) /\ Accept(e, S, W, local, from)
  <2>1. Log(e) /\ Move(e, from, "kels") /\ Store(e, V, B, local \/ ~Establishing(e))
    BY <1>8 DEF Accept
  <2>2. (local \/ ~Establishing(e)) \in BOOLEAN
    BY DEF Establishing
  <2>3. TypeOK'
    BY <1>1, <2>1, <2>2, LogType, MoveType, StoreType DEF TypeOK
  <2> QED BY <1>8, <2>1, <2>3 DEF Step
<1>9. CASE LogDuplicate(e, S, W, from)
  <2>1. LateSigs(e, S) \in SUBSET Keys /\ LateWigs(e, W) \in SUBSET Wits
    BY DEF LateSigs, LateWigs
  <2> QED BY <1>2, <1>9, <2>1 DEF LogDuplicate
<1>10. CASE Discard(e, from)
  BY <1>2, <1>10 DEF Discard
<1> QED BY <1>3, <1>4, <1>5, <1>6, <1>7, <1>8, <1>9, <1>10
        DEF processEvent, valSigsWigs, Checked

(* A step keeps the types, and leaves the logs alone or logs an event.     *)
LEMMA NextType ==
  ASSUME TypeOK, [Next]_vars
  PROVE  TypeOK' /\ (LogsKept \/ \E e \in Events : Step(e))
<1>1. ASSUME NEW m \in Sent, Receive(m)
      PROVE  TypeOK' /\ (LogsKept \/ \E e \in Events : Step(e))
  <2>1. /\ m.event \in Events /\ m.sigs \in SUBSET Keys
        /\ m.wigs \in SUBSET Wits /\ m.local \in BOOLEAN
    BY EventsAssumption DEF MessageType
  <2> QED BY <1>1, <2>1, ProcessType DEF Receive
<1>2. ASSUME NEW x \in Retried, NEW e \in Events, DropEscrowed(x, e)
      PROVE  TypeOK' /\ LogsKept
  BY <1>2, MoveType DEF DropEscrowed, LogsUnchanged, LogsKept, TypeOK
<1>3. ASSUME NEW x \in Retried, NEW e \in Events, RetryEscrowed(x, e)
      PROVE  TypeOK' /\ (LogsKept \/ Step(e))
  <2>1. /\ sigs[e] \in SUBSET Keys
        /\ (IF x = "ldes" THEN {} ELSE wigs[e]) \in SUBSET Wits
        /\ (source[e] = "local") \in BOOLEAN
    BY DEF TypeOK
  <2> QED BY <1>3, <2>1, ProcessType DEF RetryEscrowed
<1>4. ASSUME NEW e \in Events, Expire(e)
      PROVE  TypeOK' /\ LogsKept
  BY <1>4 DEF Expire, LogsKept, TypeOK
<1>5. CASE UNCHANGED vars
  BY <1>5 DEF vars, TypeOK, LogsKept
<1> QED BY <1>1, <1>2, <1>3, <1>4, <1>5 DEF Next

(* Every state of the validator is well typed: its logs and escrows hold   *)
(* events, its attachments are signatures of keys and witnesses.           *)
THEOREM TypeCorrect == Spec => []TypeOK
<1>1. Init => TypeOK
  BY InitType
<1>2. TypeOK /\ [Next]_vars => TypeOK'
  BY NextType
<1> QED BY <1>1, <1>2, PTL DEF Spec

-----------------------------------------------------------------------------
(* What logging an event does to the chain                                 *)

(* The inception, the next event, or a recovery over interaction events.   *)
AtStart(e) == ~Accepted /\ Ev[e].ilk = "icp" /\ Sn(e) = 0
AtEnd(e) ==
  /\ Accepted /\ Ev[e].ilk # "icp"
  /\ Sn(e) = TipSn + 1 /\ Ev[e].prior = kever.said
InMiddle(e) ==
  /\ Accepted /\ Rotation(e)
  /\ EstSn < Sn(e) /\ Sn(e) <= TipSn /\ IsLastAt(Ev[e].prior, Sn(e) - 1)

(* The last entry at sn n of some key event log.                           *)
LastKept(k, n) == k[n][Len(k[n])]

(* What the assumption says of an event.                                   *)
LEMMA SnType == \A e \in Events : Sn(e) \in 0..MaxSn /\ Sn(e) \in Nat /\ Ev[e] \in EventType
  BY EventsAssumption DEF EventType, Sn

(* An acceptance begins the log, extends it, or cuts it back.              *)
LEMMA StepCases ==
  ASSUME NEW e \in Events, Step(e)
  PROVE  AtStart(e) \/ AtEnd(e) \/ InMiddle(e)
<1>1. Ev[e].ilk \in {"icp", "rot", "ixn"}
  BY SnType DEF EventType
<1>2. CASE Ev[e].ilk = "icp"
  BY <1>2 DEF Step, InOrder, Valid, ValidIncept, AtStart, Rotation
<1>3. CASE Ev[e].ilk = "rot"
  <2>1. Accepted /\ ValidRotate(e)
    BY <1>3 DEF Step, InOrder, Valid
  <2> QED BY <1>3, <2>1 DEF ValidRotate, AtEnd, InMiddle, Rotation
<1>4. CASE Ev[e].ilk = "ixn"
  <2>1. Accepted /\ ValidInteract(e)
    BY <1>4 DEF Step, InOrder, Valid
  <2> QED BY <1>4, <2>1 DEF ValidInteract, AtEnd
<1> QED BY <1>1, <1>2, <1>3, <1>4

(* The key state names accepted events within the chain.                   *)
LEMMA KeyStateFacts ==
  ASSUME TypeOK, LogInv, Accepted
  PROVE  /\ kever.said \in Events /\ kever.est \in Events
         /\ TipSn \in 0..MaxSn /\ EstSn \in 0..TipSn
         /\ kever.said = LastAt(TipSn) /\ kever.est = LastAt(EstSn)
         /\ \A n \in 0..TipSn : n \in 0..MaxSn /\ kels[n] # <<>>
                                /\ LastAt(n) \in Events /\ Sn(LastAt(n)) = n
<1>1. kever.said \in Events
  BY DEF TypeOK, Accepted
<1>2. TipSn \in 0..MaxSn /\ MaxSn \in Nat
  BY <1>1, SnType, EventsAssumption DEF TipSn
<1>3. \A n \in 0..TipSn : n \in 0..MaxSn /\ kels[n] # <<>>
                          /\ LastAt(n) \in Events /\ Sn(LastAt(n)) = n
  <2> TAKE n \in 0..TipSn
  <2>1. n \in 0..MaxSn
    BY <1>2
  <2>2. kels[n] # <<>> /\ Sn(LastAt(n)) = n
    BY DEF LogInv, ChainIntact
  <2>3. kels[n] \in Seq(Events)
    BY <2>1 DEF TypeOK
  <2> QED BY <2>1, <2>2, <2>3, LastInRange DEF LastAt
<1>4. kever.est = LastAt(EstSn) /\ EstSn <= TipSn /\ kever.said = LastAt(TipSn)
  BY DEF LogInv, ChainIntact
<1>5. kever.est \in Events
  BY DEF LogInv, ChainIntact
<1> QED BY <1>1, <1>2, <1>3, <1>4, <1>5, SnType DEF EstSn

(* An event that passes the checks has not been accepted before: a logged  *)
(* establishment event is below the check for rotations, and a logged      *)
(* interaction event would be superseded, hence its prior too, which is    *)
(* the event of the key state.                                             *)
LEMMA NotLogged ==
  ASSUME TypeOK, LogInv, NEW e \in Events, Step(e)
  PROVE  ~LoggedEvent(e)
<1>1. CASE AtStart(e)
  <2>1. kels[Sn(e)] = <<>>
    BY <1>1, SnType DEF AtStart, LogInv, NothingBefore
  <2> QED BY <2>1 DEF LoggedEvent, Range
<1>2. CASE InMiddle(e)
  <2>1. Establishing(e) /\ Accepted /\ EstSn < Sn(e)
    BY <1>2 DEF InMiddle, Rotation, Establishing
  <2>2. EstSn \in Nat /\ Sn(e) \in Nat
    BY <2>1, KeyStateFacts, SnType
  <2> QED BY <2>1, <2>2 DEF LogInv, EstablishedBelow
<1>3. CASE AtEnd(e)
  <2> SUFFICES ASSUME LoggedEvent(e) PROVE FALSE
    OBVIOUS
  <2>1. Accepted /\ Sn(e) = TipSn + 1 /\ Ev[e].prior = kever.said
    BY <1>3 DEF AtEnd
  <2>2. TipSn \in Nat /\ EstSn \in 0..TipSn /\ kever.said = LastAt(TipSn)
    BY <2>1, KeyStateFacts
  <2>3. Superseded(e) /\ ~(Sn(e) <= EstSn)
    BY <2>1, <2>2, SnType DEF Superseded
  <2>4. Superseded(kever.said)
    BY <2>1, <2>3 DEF LogInv, SupersededForGood
  <2>5. Sn(kever.said) = TipSn
    BY DEF TipSn
  <2> QED BY <2>2, <2>4, <2>5 DEF Superseded
<1> QED BY <1>1, <1>2, <1>3, StepCases

(* The logs after an event not logged before.                              *)
LEMMA LogFacts ==
  ASSUME TypeOK, NEW e \in Events, ~LoggedEvent(e), Log(e)
  PROVE  /\ kever'.said = e
         /\ kever'.est = IF Establishing(e) THEN e ELSE kever.est
         /\ Accepted'
         /\ fels' = Append(fels, e)
         /\ kels'[Sn(e)] = Append(kels[Sn(e)], e)
         /\ \A n \in 0..MaxSn : n # Sn(e) => kels'[n] = kels[n]
<1>1. Sn(e) \in 0..MaxSn
  BY SnType
<1>2. kels' = [kels EXCEPT ![Sn(e)] = Append(@, e)]
  BY DEF Log, LoggedEvent
<1>3. kels'[Sn(e)] = Append(kels[Sn(e)], e) /\ \A n \in 0..MaxSn : n # Sn(e) => kels'[n] = kels[n]
  BY <1>1, <1>2 DEF TypeOK
<1>4. kever'.said = e /\ kever'.est = IF Establishing(e) THEN e ELSE kever.est
  BY DEF Log, TypeOK
<1>5. e # NoEvent
  BY EventsAssumption
<1> QED BY <1>3, <1>4, <1>5 DEF Log, Accepted

(* The new event is last at its sn, what was last elsewhere stays last,    *)
(* and nothing else is added to the log.                                   *)
LEMMA LastFacts ==
  ASSUME TypeOK, NEW e \in Events, ~LoggedEvent(e), Log(e)
  PROVE  /\ kels'[Sn(e)] # <<>> /\ LastKept(kels', Sn(e)) = e
         /\ \A n \in 0..MaxSn : n # Sn(e) => LastKept(kels', n) = LastAt(n)
         /\ Range(kels'[Sn(e)]) = Range(kels[Sn(e)]) \cup {e}
         /\ Range(fels') = Range(fels) \cup {e}
         /\ \A f \in Events : LoggedEvent(f)' <=> LoggedEvent(f) \/ f = e
<1>1. Sn(e) \in 0..MaxSn /\ kels[Sn(e)] \in Seq(Events) /\ fels \in Seq(Events)
  BY SnType DEF TypeOK
<1>2. kels'[Sn(e)] = Append(kels[Sn(e)], e)
  BY LogFacts
<1>3. kels'[Sn(e)] # <<>> /\ LastKept(kels', Sn(e)) = e
  BY <1>1, <1>2, AppendFacts DEF LastKept
<1>4. \A n \in 0..MaxSn : n # Sn(e) => LastKept(kels', n) = LastAt(n)
  BY LogFacts DEF LastAt, LastKept
<1>5. Range(kels'[Sn(e)]) = Range(kels[Sn(e)]) \cup {e}
  BY <1>1, <1>2, AppendRange
<1>6. Range(fels') = Range(fels) \cup {e}
  <2>1. Range(Append(fels, e)) = Range(fels) \cup {e}
    BY <1>1, AppendRange
  <2> QED BY <2>1, LogFacts
<1>7. \A f \in Events : LoggedEvent(f)' <=> LoggedEvent(f) \/ f = e
  <2> TAKE f \in Events
  <2>1. CASE Sn(f) = Sn(e)
    BY <2>1, <1>5 DEF LoggedEvent
  <2>2. CASE Sn(f) # Sn(e)
    <3>1. kels'[Sn(f)] = kels[Sn(f)]
      BY <2>2, LogFacts, SnType
    <3> QED BY <2>2, <3>1 DEF LoggedEvent
  <2> QED BY <2>1, <2>2
<1> QED BY <1>3, <1>4, <1>5, <1>6, <1>7

(* The chain below the new event is part of the chain before the step.     *)
LEMMA BelowFacts ==
  ASSUME TypeOK, LogInv, NEW e \in Events, Step(e)
  PROVE  /\ \A n \in 0..(Sn(e) - 1) : kels[n] # <<>> /\ Sn(LastAt(n)) = n
         /\ \A n \in 1..(Sn(e) - 1) : Ev[LastAt(n)].prior = LastAt(n - 1)
         /\ Sn(e) > 0 => Accepted /\ Ev[e].prior = LastAt(Sn(e) - 1)
         /\ ~Establishing(e) => Accepted /\ Sn(e) = TipSn + 1
         /\ Accepted /\ Establishing(e) => Sn(e) \in (EstSn + 1)..(TipSn + 1)
<1>1. Sn(e) \in Nat
  BY SnType
<1>2. CASE AtStart(e)
  BY <1>1, <1>2 DEF AtStart, Establishing
<1>3. CASE AtEnd(e)
  <2>1. Accepted /\ TipSn \in Nat /\ EstSn \in 0..TipSn /\ Sn(e) = TipSn + 1
    BY <1>3, KeyStateFacts DEF AtEnd
  <2> QED BY <1>3, <2>1 DEF AtEnd, LogInv, ChainIntact
<1>4. CASE InMiddle(e)
  <2>1. Accepted /\ TipSn \in Nat /\ EstSn \in 0..TipSn /\ Sn(e) \in (EstSn + 1)..TipSn
    BY <1>1, <1>4, KeyStateFacts DEF InMiddle
  <2>2. Establishing(e) /\ Ev[e].prior = LastAt(Sn(e) - 1)
    BY <1>4 DEF InMiddle, Rotation, Establishing, IsLastAt
  <2> QED BY <2>1, <2>2 DEF LogInv, ChainIntact
<1> QED BY <1>2, <1>3, <1>4, StepCases

(* The chain ends with the new event after the step.                       *)
LEMMA StepChain ==
  ASSUME TypeOK, LogInv, NEW e \in Events, Step(e)
  PROVE  ChainIntact'
<1>1. ~LoggedEvent(e) /\ Log(e)
  BY NotLogged DEF Step
<1>2. /\ TipSn' = Sn(e) /\ kever'.said = e
      /\ kever'.est = IF Establishing(e) THEN e ELSE kever.est
  BY <1>1, LogFacts DEF TipSn, Sn
<1>3. Sn(e) \in 0..MaxSn /\ Sn(e) \in Nat /\ MaxSn \in Nat
  BY SnType, EventsAssumption
<1>4. \A n \in 0..(Sn(e) - 1) : n \in 0..MaxSn /\ n # Sn(e)
  BY <1>3
<1>5. \A n \in 0..(Sn(e) - 1) : kels'[n] = kels[n] /\ LastKept(kels', n) = LastAt(n)
  BY <1>1, <1>4, LogFacts, LastFacts
<1>6. LastKept(kels', Sn(e)) = e /\ kels'[Sn(e)] # <<>>
  BY <1>1, LastFacts
<1>7. \A n \in 0..Sn(e) : kels'[n] # <<>> /\ Sn(LastKept(kels', n))  = n
  <2> TAKE n \in 0..Sn(e)
  <2>1. CASE n = Sn(e)
    BY <1>6, <2>1
  <2>2. CASE n # Sn(e)
    <3>1. n \in 0..(Sn(e) - 1)
      BY <1>3, <2>2
    <3> QED BY <1>5, <3>1, BelowFacts
  <2> QED BY <2>1, <2>2
<1>8. \A n \in 1..Sn(e) : Ev[LastKept(kels', n)].prior = LastKept(kels', n - 1)
  <2> TAKE n \in 1..Sn(e)
  <2>0. n - 1 \in 0..(Sn(e) - 1)
    BY <1>3
  <2>1. CASE n = Sn(e)
    BY <1>3, <1>5, <1>6, <2>0, <2>1, BelowFacts
  <2>2. CASE n # Sn(e)
    <3>1. n \in 1..(Sn(e) - 1) /\ n \in 0..(Sn(e) - 1)
      BY <1>3, <2>2
    <3> QED BY <1>5, <2>0, <3>1, BelowFacts
  <2> QED BY <2>1, <2>2
<1>9. /\ kever'.est \in Events /\ Sn(kever'.est) <= Sn(e)
      /\ kever'.est = LastKept(kels', Sn(kever'.est)) /\ Establishing(kever'.est)
      /\ \A n \in (Sn(kever'.est) + 1)..Sn(e) : ~Establishing(LastKept(kels', n))
  <2>1. CASE Establishing(e)
    <3>1. kever'.est = e
      BY <1>2, <2>1
    <3> QED BY <1>3, <1>6, <2>1, <3>1
  <2>2. CASE ~Establishing(e)
    <3>1. Accepted /\ Sn(e) = TipSn + 1 /\ kever'.est = kever.est
      BY <1>2, <2>2, BelowFacts
    <3>2. /\ kever.est \in Events /\ EstSn \in 0..TipSn /\ TipSn \in Nat
          /\ kever.est = LastAt(EstSn) /\ EstSn = Sn(kever.est)
      BY <3>1, KeyStateFacts DEF EstSn
    <3>3. Establishing(kever.est) /\ \A n \in (EstSn + 1)..TipSn : ~Establishing(LastAt(n))
      BY <3>1 DEF LogInv, ChainIntact
    <3>4. LastKept(kels', EstSn) = LastAt(EstSn)
      BY <1>5, <3>1, <3>2
    <3>5. \A n \in (EstSn + 1)..Sn(e) : ~Establishing(LastKept(kels', n))
      <4> TAKE n \in (EstSn + 1)..Sn(e)
      <4>1. CASE n = Sn(e)
        BY <1>6, <2>2, <4>1
      <4>2. CASE n # Sn(e)
        <5>1. n \in (EstSn + 1)..TipSn /\ n \in 0..(Sn(e) - 1)
          BY <3>1, <3>2, <4>2
        <5> QED BY <1>5, <3>3, <5>1
      <4> QED BY <4>1, <4>2
    <3>6. LastKept(kels', Sn(kever'.est)) = LastAt(EstSn)
      BY <1>5, <3>1, <3>2
    <3> QED BY <3>1, <3>2, <3>3, <3>5, <3>6
  <2> QED BY <2>1, <2>2
<1> QED BY <1>2, <1>6, <1>7, <1>8, <1>9 DEF ChainIntact, TipSn, EstSn, Sn, Establishing, LastAt, LastKept

(* The new event gets the next first seen number and no other.             *)
LEMMA StepFirstSeen ==
  ASSUME TypeOK, LogInv, NEW e \in Events, Step(e)
  PROVE  FirstSeenOnce'
<1>1. ~LoggedEvent(e) /\ Log(e)
  BY NotLogged DEF Step
<1>2. e \notin Range(fels)
  BY <1>1 DEF LogInv, FirstSeenOnce, LoggedEvent
<1>3. fels \in Seq(Events) /\ fels' = Append(fels, e)
  BY <1>1, LogFacts DEF TypeOK
<1>4. ASSUME NEW i \in DOMAIN fels', NEW j \in DOMAIN fels', fels'[i] = fels'[j]
      PROVE  i = j
  <2>0. /\ \A k \in DOMAIN fels : fels'[k] = fels[k]
        /\ DOMAIN fels' = DOMAIN fels \cup {Len(fels) + 1}
        /\ fels'[Len(fels) + 1] = e
    BY <1>3
  <2>1. \A k \in DOMAIN fels' : \/ k \in DOMAIN fels /\ fels'[k] = fels[k]
                                \/ k = Len(fels) + 1 /\ fels'[k] = e
    BY <2>0
  <2>2. \A k \in DOMAIN fels : fels[k] # e
    BY <1>2 DEF Range
  <2>3. \A k, l \in DOMAIN fels : fels[k] = fels[l] => k = l
    BY DEF LogInv, FirstSeenOnce
  <2> QED BY <1>4, <2>1, <2>2, <2>3
<1>5. \A f \in Events : f \in Range(fels') <=> LoggedEvent(f)'
  <2>1. \A f \in Events : f \in Range(fels) <=> LoggedEvent(f)
    BY DEF LogInv, FirstSeenOnce, LoggedEvent
  <2> QED BY <1>1, <2>1, LastFacts
<1> QED BY <1>4, <1>5 DEF FirstSeenOnce, LoggedEvent, Sn

(* After an acceptance every event of the chain is at its place.           *)
LEMMA StepPositioned ==
  ASSUME TypeOK, LogInv, NEW e \in Events, Step(e)
  PROVE  Positioned'
<1>1. ~LoggedEvent(e) /\ Log(e)
  BY NotLogged DEF Step
<1>2. ASSUME NEW n \in 0..MaxSn, NEW f \in Range(kels'[n])
      PROVE  Sn(f) = n
  <2>1. CASE n = Sn(e)
    BY <1>1, <1>2, <2>1, LastFacts DEF LogInv, Positioned
  <2>2. CASE n # Sn(e)
    BY <1>1, <1>2, <2>2, LogFacts DEF LogInv, Positioned
  <2> QED BY <2>1, <2>2
<1> QED BY <1>2 DEF Positioned, Sn

(* The sequence number of the latest establishment event never decreases.  *)
LEMMA EstSnGrows ==
  ASSUME TypeOK, LogInv, NEW e \in Events, Step(e)
  PROVE  /\ EstSn' \in Nat /\ EstSn' <= Sn(e) /\ TipSn' = Sn(e)
         /\ Accepted => EstSn \in Nat /\ EstSn <= EstSn'
         /\ Establishing(e) => EstSn' = Sn(e)
<1>1. ~LoggedEvent(e) /\ Log(e)
  BY NotLogged DEF Step
<1>2. TipSn' = Sn(e) /\ EstSn' = IF Establishing(e) THEN Sn(e) ELSE EstSn
  BY <1>1, LogFacts DEF TipSn, EstSn, Sn
<1>3. Accepted => EstSn \in 0..TipSn /\ TipSn \in Nat
  BY KeyStateFacts
<1> QED BY <1>2, <1>3, SnType, BelowFacts

(* After an acceptance the chain still rests on one establishment event,   *)
(* below or at its tip.                                                    *)
LEMMA StepEstablished ==
  ASSUME TypeOK, LogInv, NEW e \in Events, Step(e)
  PROVE  EstablishedBelow'
<1>1. ~LoggedEvent(e) /\ Log(e)
  BY NotLogged DEF Step
<1>2. ASSUME NEW f \in Events, LoggedEvent(f)', Establishing(f)
      PROVE  Sn(f) <= EstSn'
  <2>1. CASE f = e
    BY <1>2, <2>1, EstSnGrows, SnType
  <2>2. CASE LoggedEvent(f)
    <3>1. Accepted
      BY <2>2, SnType DEF LogInv, NothingBefore, LoggedEvent, Range
    <3>2. Sn(f) <= EstSn
      BY <1>2, <2>2, <3>1 DEF LogInv, EstablishedBelow
    <3> QED BY <3>1, <3>2, EstSnGrows, SnType
  <2> QED BY <1>1, <1>2, <2>1, <2>2, LastFacts
<1> QED BY <1>2 DEF EstablishedBelow, Establishing, Sn

(* An event outside the chain after the step.                              *)
SupersededNext(f) ==
  LoggedEvent(f)' /\ (Sn(f) > TipSn' \/ LastKept(kels', Sn(f)) # f)

(* Being superseded in the next state, in terms of the next variables.     *)
LEMMA SupersededPrime ==
  ASSUME NEW f \in Events PROVE Superseded(f)' <=> SupersededNext(f)
  BY DEF Superseded, SupersededNext, LastAt, LastKept, Sn

(* A superseded event stays superseded.                                    *)
LEMMA SupersededStays ==
  ASSUME TypeOK, LogInv, Accepted, NEW e \in Events, Step(e),
         NEW p \in Events, Superseded(p)
  PROVE  SupersededNext(p)
<1>1. ~LoggedEvent(e) /\ Log(e)
  BY NotLogged DEF Step
<1>2. p # e /\ LoggedEvent(p)'
  BY <1>1, LastFacts DEF Superseded
<1>3. TipSn' = Sn(e) /\ TipSn \in Nat /\ Sn(e) \in 0..(TipSn + 1)
  BY EstSnGrows, KeyStateFacts, BelowFacts, SnType
<1>4. CASE Sn(p) = Sn(e)
  BY <1>1, <1>2, <1>4, LastFacts DEF SupersededNext
<1>5. CASE Sn(p) # Sn(e)
  <2>1. LastKept(kels', Sn(p)) = LastAt(Sn(p))
    BY <1>1, <1>5, LastFacts, SnType
  <2>2. Sn(p) > TipSn => Sn(p) > TipSn'
    BY <1>3, <1>5, SnType
  <2> QED BY <1>2, <2>1, <2>2 DEF Superseded, SupersededNext
<1> QED BY <1>4, <1>5

(* What was superseded stays superseded after an acceptance.               *)
LEMMA StepSuperseded ==
  ASSUME TypeOK, LogInv, NEW e \in Events, Step(e)
  PROVE  SupersededForGood'
<1>1. ~LoggedEvent(e) /\ Log(e)
  BY NotLogged DEF Step
<1> SUFFICES ASSUME NEW f \in Events, SupersededNext(f)
             PROVE  \/ Sn(f) <= EstSn'
                    \/ /\ Ev[f].prior \in Events
                       /\ Sn(f) = Sn(Ev[f].prior) + 1
                       /\ SupersededNext(Ev[f].prior)
  BY SupersededPrime DEF SupersededForGood, Sn
<1>2. TipSn' = Sn(e) /\ Sn(e) \in Nat /\ Sn(f) \in Nat /\ EstSn' \in Nat
  BY EstSnGrows, SnType
<1>3. LastKept(kels', Sn(e)) = e
  BY <1>1, LastFacts
<1>4. f # e
  BY <1>2, <1>3 DEF SupersededNext
<1>5. LoggedEvent(f)
  BY <1>1, <1>4, LastFacts DEF SupersededNext
<1>6. Accepted
  BY <1>5, SnType DEF LogInv, NothingBefore, LoggedEvent, Range
<1>7. EstSn \in Nat /\ EstSn <= EstSn' /\ TipSn \in 0..MaxSn
  BY <1>6, EstSnGrows, KeyStateFacts
<1>8. CASE Superseded(f)
  BY <1>2, <1>6, <1>7, <1>8, SupersededStays DEF LogInv, SupersededForGood
<1>9. CASE ~Superseded(f)
  <2>1. Sn(f) <= TipSn /\ LastAt(Sn(f)) = f
    BY <1>2, <1>5, <1>7, <1>9 DEF Superseded
  <2>2. Sn(f) >= Sn(e)
    <3>1. Sn(f) # Sn(e) => LastKept(kels', Sn(f)) = LastAt(Sn(f))
      BY <1>1, LastFacts, SnType
    <3> QED BY <1>2, <2>1, <3>1 DEF SupersededNext
  <2>3. EstSn' = Sn(e)
    BY <1>2, <1>7, <2>1, <2>2, EstSnGrows, BelowFacts
  <2>4. CASE Sn(f) = Sn(e)
    BY <1>2, <2>3, <2>4
  <2>5. CASE Sn(f) > Sn(e)
    <3>1. Sn(f) \in 1..TipSn /\ Sn(f) - 1 \in 0..TipSn
      BY <1>2, <1>7, <2>1, <2>5
    <3>2. PICK p \in Events : p = LastAt(Sn(f) - 1)
      BY <1>6, <3>1, KeyStateFacts
    <3>3. Ev[f].prior = p /\ Sn(p) = Sn(f) - 1 /\ kels[Sn(f) - 1] # <<>>
      <4>1. Ev[f].prior = LastAt(Sn(f) - 1)
        BY <1>6, <2>1, <3>1 DEF LogInv, ChainIntact
      <4> QED BY <1>6, <3>1, <3>2, <4>1, KeyStateFacts
    <3>4. LoggedEvent(p)
      <4>1. kels[Sn(p)] \in Seq(Events) /\ kels[Sn(p)] # <<>>
        BY <3>3, SnType DEF TypeOK
      <4>2. kels[Sn(p)][Len(kels[Sn(p)])] \in Range(kels[Sn(p)])
        BY <4>1, LastInRange
      <4> QED BY <3>2, <3>3, <4>2 DEF LoggedEvent, LastAt
    <3>5. p # e /\ LoggedEvent(p)'
      BY <1>1, <3>3, <3>4, LastFacts
    <3>6. SupersededNext(p)
      <4>1. CASE Sn(p) = Sn(e)
        BY <1>3, <3>5, <4>1 DEF SupersededNext
      <4>2. CASE Sn(p) # Sn(e)
        <5>1. Sn(p) > Sn(e)
          BY <1>2, <2>5, <3>3, <4>2
        <5> QED BY <1>2, <3>5, <5>1 DEF SupersededNext
      <4> QED BY <4>1, <4>2
    <3> QED BY <1>2, <3>2, <3>3, <3>6
  <2> QED BY <1>2, <2>2, <2>4, <2>5
<1> QED BY <1>8, <1>9

(* An acceptance keeps the invariant.                                      *)
LEMMA StepInv ==
  ASSUME TypeOK, LogInv, NEW e \in Events, Step(e)
  PROVE  LogInv'
<1>1. ~LoggedEvent(e) /\ Log(e)
  BY NotLogged DEF Step
<1>2. NothingBefore'
  BY <1>1, LogFacts DEF NothingBefore
<1> QED BY <1>2, StepChain, StepFirstSeen, StepPositioned, StepEstablished,
          StepSuperseded DEF LogInv

(* The invariant speaks only of the logs and the key state.                *)
LEMMA LogsKeptInv ==
  ASSUME LogInv, LogsKept
  PROVE  LogInv'
  BY DEF LogsKept, LogInv, ChainIntact, FirstSeenOnce, Positioned, NothingBefore,
         EstablishedBelow, SupersededForGood, Superseded, LoggedEvent, Accepted,
         TipSn, EstSn, LastAt, Sn, Establishing

(* The invariant holds at the start.                                       *)
LEMMA InitInv == Init => LogInv
<1> SUFFICES ASSUME Init PROVE LogInv
  OBVIOUS
<1>1. ~Accepted /\ fels = <<>> /\ \A n \in 0..MaxSn : kels[n] = <<>>
  BY DEF Init, Accepted
<1>2. \A n \in 0..MaxSn : Range(kels[n]) = {}
  BY <1>1 DEF Range
<1>3. Range(fels) = {} /\ DOMAIN fels = {}
  BY <1>1 DEF Range
<1>4. FirstSeenOnce
  BY <1>2, <1>3, SnType DEF FirstSeenOnce
<1> QED BY <1>1, <1>2, <1>4 DEF LogInv, ChainIntact, Positioned, NothingBefore

(* The inductive invariant holds in every state.                           *)
THEOREM LogInvariant == Spec => [](TypeOK /\ LogInv)
<1>1. Init => TypeOK /\ LogInv
  BY InitType, InitInv
<1>2. TypeOK /\ LogInv /\ [Next]_vars => (TypeOK /\ LogInv)'
  BY NextType, StepInv, LogsKeptInv
<1> QED BY <1>1, <1>2, PTL DEF Spec

(* The events accepted last at each sn form one chain under the key state. *)
THEOREM ChainIsIntact == Spec => []ChainIntact
<1>1. LogInv => ChainIntact
  BY DEF LogInv
<1> QED BY <1>1, LogInvariant, PTL

(* No event is accepted twice, and both logs hold the same events.         *)
THEOREM EventsSeenOnce == Spec => []FirstSeenOnce
<1>1. LogInv => FirstSeenOnce
  BY DEF LogInv
<1> QED BY <1>1, LogInvariant, PTL

-----------------------------------------------------------------------------
(* Finality of establishment events, and refinement                        *)

(* Recovery never replaces or drops an establishment event of the chain,   *)
(* whatever rotations are received after it.                               *)
THEOREM EstablishmentIsFinal == Spec => EstablishmentFinal
<1> DEFINE Final == \A n \in 0..MaxSn :
                      Accepted /\ n <= TipSn /\ Establishing(LastAt(n))
                        => n <= TipSn' /\ LastKept(kels', n) = LastAt(n)
<1>1. ASSUME TypeOK, LogInv, NEW e \in Events, Step(e)
      PROVE  Final
  <2> SUFFICES ASSUME NEW n \in 0..MaxSn, Accepted, n <= TipSn,
                      Establishing(LastAt(n))
               PROVE  n <= TipSn' /\ LastKept(kels', n) = LastAt(n)
    OBVIOUS
  <2>1. ~LoggedEvent(e) /\ Log(e)
    BY <1>1, NotLogged DEF Step
  <2>2. TipSn \in Nat /\ EstSn \in 0..TipSn /\ TipSn' = Sn(e) /\ n \in 0..TipSn
    BY <1>1, KeyStateFacts, EstSnGrows
  <2>3. n <= EstSn
    BY <1>1, <2>2 DEF LogInv, ChainIntact
  <2>4. n < Sn(e)
    BY <1>1, <2>2, <2>3, BelowFacts, SnType
  <2> QED BY <1>1, <2>1, <2>2, <2>4, LastFacts, SnType
<1>2. ASSUME TypeOK, LogInv, LogsKept
      PROVE  Final
  <2>1. \A n \in 0..MaxSn : LastKept(kels', n) = LastAt(n)
    BY <1>2 DEF LogsKept, LastKept, LastAt
  <2>2. TipSn' = TipSn
    BY <1>2 DEF LogsKept, TipSn, Sn
  <2>3. Accepted => TipSn \in 0..MaxSn
    BY <1>2, KeyStateFacts
  <2> QED BY <2>1, <2>2, <2>3
<1>3. TypeOK /\ LogInv /\ [Next]_vars =>
        [\A n \in 0..MaxSn :
           Accepted /\ n <= TipSn /\ Establishing(LastAt(n))
             => n <= TipSn' /\ LastAt(n)' = LastAt(n)]_vars
  BY <1>1, <1>2, NextType DEF LastAt, LastKept
<1> QED BY <1>3, LogInvariant, PTL DEF Spec, EstablishmentFinal

(* The chain read from the logs.                                           *)
LEMMA ChainFacts ==
  ASSUME TypeOK, LogInv, Accepted
  PROVE  /\ chain \in Seq(Events) /\ Len(chain) = TipSn + 1 /\ chain # <<>>
         /\ \A i \in 1..(TipSn + 1) : chain[i] = LastAt(i - 1)
<1>1. TipSn \in Nat /\ \A n \in 0..TipSn : LastAt(n) \in Events
  BY KeyStateFacts
<1>2. chain = [i \in 1..(TipSn + 1) |-> LastAt(i - 1)]
  BY DEF chain
<1>3. \A i \in 1..(TipSn + 1) : i - 1 \in 0..TipSn
  BY <1>1
<1> QED BY <1>1, <1>2, <1>3

(* The chain after an event is logged: the chain below it, then the event. *)
LEMMA ChainNext ==
  ASSUME TypeOK, LogInv, NEW e \in Events, Step(e)
  PROVE  chain' = [i \in 1..(Sn(e) + 1) |-> IF i = Sn(e) + 1 THEN e ELSE LastAt(i - 1)]
<1>1. ~LoggedEvent(e) /\ Log(e) /\ Accepted'
  BY NotLogged, LogFacts DEF Step
<1>2. TipSn' = Sn(e) /\ Sn(e) \in 0..MaxSn /\ MaxSn \in Nat
  BY EstSnGrows, SnType, EventsAssumption
<1>3. chain' = [i \in 1..(Sn(e) + 1) |-> LastKept(kels', i - 1)]
  BY <1>1, <1>2 DEF chain, LastAt, LastKept
<1>4. \A i \in 1..(Sn(e) + 1) :
        LastKept(kels', i - 1) = IF i = Sn(e) + 1 THEN e ELSE LastAt(i - 1)
  <2> TAKE i \in 1..(Sn(e) + 1)
  <2>1. CASE i = Sn(e) + 1
    BY <1>1, <1>2, <2>1, LastFacts
  <2>2. CASE i # Sn(e) + 1
    <3>1. i - 1 \in 0..MaxSn /\ i - 1 # Sn(e)
      BY <1>2, <2>2
    <3> QED BY <1>1, <2>2, <3>1, LastFacts
  <2> QED BY <2>1, <2>2
<1> QED BY <1>3, <1>4

(* An accepted event is an inception, extension or recovery of the         *)
(* abstract key event log.                                                 *)
LEMMA StepRefines ==
  ASSUME TypeOK, LogInv, NEW e \in Events, Step(e)
  PROVE  Abstract!Accept(e)
<1>1. ~LoggedEvent(e) /\ Log(e)
  BY NotLogged DEF Step
<1>2. e \notin Range(fels) /\ fels' = Append(fels, e)
  BY <1>1, LogFacts DEF LogInv, FirstSeenOnce, LoggedEvent
<1>3. CASE AtStart(e)
  <2>1. chain = <<>> /\ Ev[e].ilk = "icp" /\ Sn(e) = 0
    BY <1>3 DEF AtStart, chain
  <2>2. chain' = <<e>>
    BY <2>1, ChainNext
  <2> QED BY <1>2, <2>1, <2>2 DEF Abstract!Accept, Abstract!Incept, Abstract!Range, Range
<1>4. CASE AtEnd(e)
  <2>1. Accepted /\ Sn(e) = TipSn + 1 /\ Ev[e].prior = kever.said
    BY <1>4 DEF AtEnd
  <2>2. TipSn \in Nat /\ kever.said = LastAt(TipSn)
    BY <2>1, KeyStateFacts
  <2>3. /\ chain \in Seq(Events) /\ Len(chain) = TipSn + 1 /\ chain # <<>>
        /\ \A i \in 1..(TipSn + 1) : chain[i] = LastAt(i - 1)
    BY <2>1, ChainFacts
  <2>4. chain' = Append(chain, e)
    <3>1. chain' = [i \in 1..(TipSn + 2) |-> IF i = TipSn + 2 THEN e ELSE LastAt(i - 1)]
      BY <2>1, <2>2, ChainNext
    <3>2. Append(chain, e) = [i \in 1..(TipSn + 2) |-> IF i = TipSn + 2 THEN e ELSE chain[i]]
      BY <2>2, <2>3, AppendFunction
    <3> QED BY <2>2, <2>3, <3>1, <3>2
  <2>5. chain[Len(chain)] = kever.said
    BY <2>2, <2>3
  <2> QED BY <1>2, <2>1, <2>3, <2>4, <2>5 DEF Abstract!Accept, Abstract!Extend,
              Abstract!Range, Range, Sn
<1>5. CASE InMiddle(e)
  <2>1. /\ Accepted /\ Rotation(e) /\ EstSn < Sn(e) /\ Sn(e) <= TipSn
        /\ Ev[e].prior = LastAt(Sn(e) - 1)
    BY <1>5 DEF InMiddle, IsLastAt
  <2>2. TipSn \in Nat /\ EstSn \in 0..TipSn /\ Sn(e) \in 1..TipSn
    BY <2>1, KeyStateFacts, SnType
  <2>3. /\ chain \in Seq(Events) /\ Len(chain) = TipSn + 1
        /\ \A i \in 1..(TipSn + 1) : chain[i] = LastAt(i - 1)
    BY <2>1, ChainFacts
  <2>4. chain[Sn(e)] = Ev[e].prior
    BY <2>1, <2>2, <2>3
  <2>5. \A i \in (Sn(e) + 1)..Len(chain) : ~Establishing(chain[i])
    <3> TAKE i \in (Sn(e) + 1)..Len(chain)
    <3>1. i \in 1..(TipSn + 1) /\ i - 1 \in (EstSn + 1)..TipSn
      BY <2>1, <2>2, <2>3
    <3> QED BY <2>1, <2>3, <3>1 DEF LogInv, ChainIntact
  <2>6. chain' = Append(SubSeq(chain, 1, Sn(e)), e)
    <3> DEFINE s == SubSeq(chain, 1, Sn(e))
    <3>1. s \in Seq(Events) /\ Len(s) = Sn(e) /\ \A i \in 1..Sn(e) : s[i] = chain[i]
      BY <2>2, <2>3
    <3>2. Append(s, e) = [i \in 1..(Sn(e) + 1) |-> IF i = Sn(e) + 1 THEN e ELSE s[i]]
      BY <2>2, <3>1, AppendFunction
    <3>3. \A i \in 1..Sn(e) : s[i] = LastAt(i - 1)
      BY <2>2, <2>3, <3>1
    <3> HIDE DEF s
    <3>4. Append(s, e) = [i \in 1..(Sn(e) + 1) |-> IF i = Sn(e) + 1 THEN e ELSE LastAt(i - 1)]
      BY <2>2, <3>2, <3>3
    <3> QED BY <3>4, ChainNext DEF s
  <2> QED BY <1>2, <2>1, <2>2, <2>3, <2>4, <2>5, <2>6
          DEF Abstract!Accept, Abstract!Recover, Abstract!MayCut,
              Abstract!Establishing, Abstract!Range, Range,
              Establishing, Rotation, Sn
<1> QED BY <1>3, <1>4, <1>5, StepCases

(* The validator, with its escrows, timeouts and recoveries, implements    *)
(* the abstract key event log.                                             *)
THEOREM KeveryImplementsKEL == Spec => ImplementsKEL
<1>1. Init => Abstract!Init
  BY DEF Init, Abstract!Init, chain, Accepted
<1>2. TypeOK /\ LogInv /\ [Next]_vars => [Abstract!Next]_<<chain, fels>>
  <2> SUFFICES ASSUME TypeOK, LogInv, [Next]_vars
               PROVE  Abstract!Next \/ UNCHANGED <<chain, fels>>
    OBVIOUS
  <2>1. CASE LogsKept
    BY <2>1 DEF LogsKept, chain, Accepted, TipSn, LastAt, Sn
  <2>2. CASE \E e \in Events : Step(e)
    BY <2>2, StepRefines DEF Abstract!Next
  <2> QED BY <2>1, <2>2, NextType
<1> QED BY <1>1, <1>2, LogInvariant, PTL DEF Spec, ImplementsKEL, Abstract!Spec

-----------------------------------------------------------------------------
(* What a step leaves as evidence                                          *)

(* More signatures satisfy what fewer do.                                  *)
LEMMA SatisfiesMore ==
  ASSUME NEW S, NEW T, IsFiniteSet(T), S \subseteq T, NEW n \in Nat, Satisfies(S, n)
  PROVE  Satisfies(T, n)
<1>1. IsFiniteSet(S) /\ Cardinality(S) <= Cardinality(T)
  BY FS_Subset
<1>2. Cardinality(S) \in Nat /\ Cardinality(T) \in Nat
  BY <1>1, FS_CardinalityType
<1> QED BY <1>1, <1>2 DEF Satisfies

(* No signature that is held is dropped.                                   *)
Grows == \A f \in Events : sigs[f] \subseteq sigs'[f] /\ wigs[f] \subseteq wigs'[f]

(* The signatures that let event e pass are held after the step.           *)
Evidence(e) ==
  \E S \in SUBSET Keys, W \in SUBSET Wits, local \in BOOLEAN :
    /\ FullySigned(e, S, local) /\ FullyWitnessed(e, W)
    /\ Verified(e, S, local) \subseteq sigs'[e] /\ W \cap WitsFor(e) \subseteq wigs'[e]

(* An event that a signature escrow gets is signed.                        *)
SignedByOwnOrLatest(e) ==
  \E b \in {e} \cup {c \in {kever.est} : Accepted} : Establishing(b) /\ sigs'[e] \cap Ev[b].keys # {}
SignedEscrows == {"pses", "pwes", "misfits"}
EscrowsGetSigned(e) ==
  \A x \in SignedEscrows : escrow'[x] \subseteq escrow[x] \cup {f \in {e} : SignedByOwnOrLatest(f)}

(* Storing signatures drops none that was stored before.                   *)
LEMMA StoreGrows ==
  ASSUME TypeOK, NEW e \in Events, NEW S \in SUBSET Keys, NEW W \in SUBSET Wits,
         NEW local, Store(e, S, W, local)
  PROVE  Grows /\ S \subseteq sigs'[e] /\ W \subseteq wigs'[e]
  BY DEF Store, TypeOK, Grows

(* Where an event goes that leaves for a place that is no signature escrow.*)
LEMMA MoveElsewhere ==
  ASSUME NEW e, NEW from, NEW to, to \notin SignedEscrows, Move(e, from, to)
  PROVE  \A x \in SignedEscrows : escrow'[x] \subseteq escrow[x]
<1> TAKE x \in SignedEscrows
<1>1. x \in Escrows /\ x # to
  BY DEF SignedEscrows, Escrows
<1> QED BY <1>1 DEF Move

(* A signed event that is moved to an escrow is signed there.              *)
LEMMA MoveSigned ==
  ASSUME NEW e, NEW from, NEW to, Move(e, from, to), SignedByOwnOrLatest(e)
  PROVE  EscrowsGetSigned(e)
<1> SUFFICES ASSUME NEW x \in SignedEscrows
             PROVE  escrow'[x] \subseteq escrow[x] \cup {e}
  BY DEF EscrowsGetSigned
<1>1. x \in Escrows
  BY DEF SignedEscrows, Escrows
<1> QED BY <1>1 DEF Move

(* An event that passes the first checks carries a signature by a key that *)
(* is its own or that the latest establishment event gives.                *)
LEMMA CheckedSigned ==
  ASSUME TypeOK, LogInv, NEW e \in Events, NEW S \in SUBSET Keys, NEW local \in BOOLEAN,
         InOrder(e), Checked(e, S, local), Verified(e, S, local) \subseteq sigs'[e]
  PROVE  SignedByOwnOrLatest(e)
<1>1. Verified(e, S, local) # {} /\ Verified(e, S, local) \subseteq Ev[Governor(e)].keys
  BY DEF Checked, MinimallySigned, Verified
<1>2. Governor(e) = e \/ (Governor(e) = kever.est /\ Accepted)
  <2>1. ~Establishing(e) => Accepted
    BY DEF InOrder, Establishing
  <2> QED BY <2>1 DEF Governor
<1>3. Establishing(Governor(e))
  <2>1. CASE Establishing(e)
    BY <2>1 DEF Governor
  <2>2. CASE ~Establishing(e)
    <3>1. Accepted
      BY <2>2 DEF InOrder, Establishing
    <3> QED BY <2>2, <3>1 DEF Governor, LogInv, ChainIntact
  <2> QED BY <2>1, <2>2
<1> QED BY <1>1, <1>2, <1>3 DEF SignedByOwnOrLatest

(* What every outcome of processEvent does to the signatures held.         *)
LEMMA ProcessEvidence ==
  ASSUME TypeOK, LogInv, NEW e \in Events, NEW S \in SUBSET Keys, NEW W \in SUBSET Wits,
         NEW local \in BOOLEAN, NEW from, processEvent(e, S, W, local, from)
  PROVE  /\ Grows /\ EscrowsGetSigned(e)
         /\ LogsKept \/ (Step(e) /\ Evidence(e))
<1> DEFINE V == Verified(e, S, local)
           B == W \cap WitsFor(e)
<1>0. V \in SUBSET Keys /\ B \in SUBSET Wits
  BY DEF Verified
<1>1. LogsUnchanged => LogsKept
  BY DEF LogsUnchanged, LogsKept
<1>2. ASSUME NEW to, to \notin SignedEscrows, Move(e, from, to) PROVE EscrowsGetSigned(e)
  BY <1>2, MoveElsewhere DEF EscrowsGetSigned
<1>3. CASE HoldOutOfOrder(e, S, W, local, from)
  BY <1>1, <1>2, <1>3, StoreGrows DEF HoldOutOfOrder, SignedEscrows
<1>4. CASE HoldLikelyDuplicitous(e, S, from)
  <2>1. Grows
    BY <1>4, StoreGrows DEF HoldLikelyDuplicitous
  <2> QED BY <1>1, <1>2, <1>4, <2>1 DEF HoldLikelyDuplicitous, SignedEscrows
<1>5. CASE InOrder(e) /\ Checked(e, S, local) /\ valSigsWigs(e, S, W, local, from)
  <2>1. CASE HoldMisfit(e, S, W, local, from)
    <3>1. Grows /\ V \subseteq sigs'[e]
      BY <1>0, <2>1, StoreGrows DEF HoldMisfit
    <3> QED BY <1>1, <1>5, <2>1, <3>1, CheckedSigned, MoveSigned DEF HoldMisfit
  <2>2. CASE HoldPartiallySigned(e, S, W, local, from)
    <3>1. Grows /\ V \subseteq sigs'[e]
      BY <1>0, <2>2, StoreGrows DEF HoldPartiallySigned
    <3> QED BY <1>1, <1>5, <2>2, <3>1, CheckedSigned, MoveSigned DEF HoldPartiallySigned
  <2>3. CASE HoldPartiallyWitnessed(e, S, W, local, from)
    <3>1. Grows /\ V \subseteq sigs'[e]
      BY <1>0, <2>3, StoreGrows DEF HoldPartiallyWitnessed
    <3> QED BY <1>1, <1>5, <2>3, <3>1, CheckedSigned, MoveSigned DEF HoldPartiallyWitnessed
  <2>4. CASE Accept(e, S, W, local, from)
    <3>1. Grows /\ V \subseteq sigs'[e] /\ B \subseteq wigs'[e]
      BY <1>0, <2>4, StoreGrows DEF Accept
    <3>2. EscrowsGetSigned(e)
      BY <1>2, <2>4 DEF Accept, SignedEscrows
    <3>3. Step(e)
      BY <1>5, <2>4 DEF Step, Checked, Accept
    <3>4. Evidence(e)
      BY <2>4, <3>1 DEF Accept, Evidence
    <3> QED BY <3>1, <3>2, <3>3, <3>4
  <2> QED BY <1>5, <2>1, <2>2, <2>3, <2>4 DEF valSigsWigs
<1>6. CASE LogDuplicate(e, S, W, from)
  <2>1. LateSigs(e, S) \in SUBSET Keys /\ LateWigs(e, W) \in SUBSET Wits
    BY DEF LateSigs, LateWigs
  <2>2. Grows
    BY <1>6, <2>1, StoreGrows DEF LogDuplicate
  <2> QED BY <1>1, <1>2, <1>6, <2>2 DEF LogDuplicate, SignedEscrows
<1>7. CASE Discard(e, from)
  <2>1. Grows
    BY <1>7 DEF Discard, Grows
  <2> QED BY <1>1, <1>2, <1>7, <2>1 DEF Discard, SignedEscrows
<1> QED BY <1>3, <1>4, <1>5, <1>6, <1>7 DEF processEvent

(* The same of every step.                                                 *)
LEMMA NextEvidence ==
  ASSUME TypeOK, LogInv, [Next]_vars
  PROVE  /\ Grows
         /\ \/ \A x \in SignedEscrows : escrow'[x] \subseteq escrow[x]
            \/ \E e \in Events : EscrowsGetSigned(e)
         /\ LogsKept \/ \E e \in Events : Step(e) /\ Evidence(e)
<1>1. ASSUME NEW m \in Sent, Receive(m)
      PROVE  \E e \in Events : /\ Grows /\ EscrowsGetSigned(e)
                               /\ LogsKept \/ (Step(e) /\ Evidence(e))
  <2>1. /\ m.event \in Events /\ m.sigs \in SUBSET Keys
        /\ m.wigs \in SUBSET Wits /\ m.local \in BOOLEAN
    BY EventsAssumption DEF MessageType
  <2> QED BY <1>1, <2>1, ProcessEvidence DEF Receive
<1>2. ASSUME NEW x \in Retried, NEW e \in Events, RetryEscrowed(x, e)
      PROVE  /\ Grows /\ EscrowsGetSigned(e)
             /\ LogsKept \/ (Step(e) /\ Evidence(e))
  <2>1. /\ sigs[e] \in SUBSET Keys
        /\ (IF x = "ldes" THEN {} ELSE wigs[e]) \in SUBSET Wits
        /\ (source[e] = "local") \in BOOLEAN
    BY DEF TypeOK
  <2> QED BY <1>2, <2>1, ProcessEvidence DEF RetryEscrowed
<1>3. ASSUME NEW x \in Retried, NEW e \in Events, DropEscrowed(x, e)
      PROVE  Grows /\ LogsKept /\ \A y \in SignedEscrows : escrow'[y] \subseteq escrow[y]
  <2>1. \A y \in SignedEscrows : escrow'[y] \subseteq escrow[y]
    BY <1>3, MoveElsewhere DEF DropEscrowed, SignedEscrows
  <2> QED BY <1>3, <2>1 DEF DropEscrowed, Grows, LogsUnchanged, LogsKept
<1>4. ASSUME NEW e \in Events, Expire(e)
      PROVE  Grows /\ LogsKept /\ \A y \in SignedEscrows : escrow'[y] \subseteq escrow[y]
  BY <1>4 DEF Expire, Grows, LogsKept
<1>5. CASE UNCHANGED vars
  BY <1>5 DEF vars, Grows, LogsKept
<1> QED BY <1>1, <1>2, <1>3, <1>4, <1>5 DEF Next

-----------------------------------------------------------------------------
(* The establishment event in force, and the one before                    *)

(* An event that governs a place of a log is the only one that does.       *)
LEMMA GovernsOnce ==
  ASSUME NEW log \in Seq(Events), NEW i \in DOMAIN log, NEW j, NEW k,
         Governs(log, i, j), Governs(log, i, k)
  PROVE  j = k
<1>1. i \in Nat /\ j \in 1..i /\ k \in 1..i
  BY DEF Governs
<1>2. CASE j < k
  <2>1. k \in (j + 1)..i
    BY <1>1, <1>2
  <2> QED BY <2>1 DEF Governs
<1>3. CASE k < j
  <2>1. j \in (k + 1)..i
    BY <1>1, <1>3
  <2> QED BY <2>1 DEF Governs
<1> QED BY <1>1, <1>2, <1>3

(* InForce, of any log.                                                    *)
InForceIn(log, i) ==
  log[CHOOSE j \in 1..i :
        Establishing(log[j]) /\ \A k \in (j + 1)..i : ~Establishing(log[k])]

(* The event that governs a place is the one in force there.               *)
LEMMA InForceIs ==
  ASSUME NEW log \in Seq(Events), NEW i \in DOMAIN log, NEW j, Governs(log, i, j)
  PROVE  InForceIn(log, i) = log[j]
<1> DEFINE P(m) == Establishing(log[m]) /\ \A k \in (m + 1)..i : ~Establishing(log[k])
           c == CHOOSE m \in 1..i : P(m)
<1>1. j \in 1..i /\ P(j)
  BY DEF Governs
<1>2. c \in 1..i /\ P(c)
  BY <1>1
<1>3. Governs(log, i, c)
  BY <1>2 DEF Governs
<1>4. c = j
  BY <1>3, GovernsOnce
<1> QED BY <1>4 DEF InForceIn

(* The places of a log that was appended to are governed as before.        *)
LEMMA GovernsStays ==
  ASSUME NEW log \in Seq(Events), NEW e \in Events, NEW i \in DOMAIN log, NEW j,
         Governs(log, i, j)
  PROVE  Governs(Append(log, e), i, j)
<1>1. \A k \in 1..i : k \in DOMAIN log /\ Append(log, e)[k] = log[k]
  BY AppendFacts
<1>2. j \in 1..i /\ \A k \in (j + 1)..i : k \in 1..i
  BY DEF Governs
<1> QED BY <1>1, <1>2 DEF Governs

(* The last place is governed by the event itself or as the place before.  *)
LEMMA GovernsLast ==
  ASSUME NEW log \in Seq(Events), NEW e \in Events, NEW j \in DOMAIN log,
         Governs(log, Len(log), j), ~Establishing(e)
  PROVE  Governs(Append(log, e), Len(log) + 1, j)
<1>1. \A k \in 1..Len(log) : k \in DOMAIN log /\ Append(log, e)[k] = log[k]
  BY AppendFacts
<1>2. Append(log, e)[Len(log) + 1] = e /\ Len(log) \in Nat
  BY AppendFacts
<1>3. ASSUME NEW k \in (j + 1)..(Len(log) + 1) PROVE ~Establishing(Append(log, e)[k])
  <2>1. CASE k = Len(log) + 1
    BY <1>2, <2>1
  <2>2. CASE k # Len(log) + 1
    <3>1. k \in 1..Len(log) /\ k \in (j + 1)..Len(log)
      BY <1>2, <2>2
    <3> QED BY <1>1, <3>1 DEF Governs
  <2> QED BY <2>1, <2>2
<1>4. j \in 1..Len(log) /\ Establishing(log[j])
  BY DEF Governs
<1> QED BY <1>1, <1>2, <1>3, <1>4 DEF Governs

(* An establishment event governs its own place.                           *)
LEMMA GovernsSelf ==
  ASSUME NEW log \in Seq(Events), NEW e \in Events, Establishing(e)
  PROVE  Governs(Append(log, e), Len(log) + 1, Len(log) + 1)
<1>1. Append(log, e)[Len(log) + 1] = e /\ Len(log) \in Nat
  BY AppendFacts
<1> QED BY <1>1 DEF Governs

(* The establishment event of the key state was accepted.                  *)
LEMMA EstLogged ==
  ASSUME TypeOK, LogInv, Accepted
  PROVE  kever.est \in Range(fels) /\ Establishing(kever.est)
<1>1. kever.est \in Events /\ EstSn \in 0..MaxSn /\ kels[EstSn] # <<>> /\ kever.est = LastAt(EstSn)
  BY KeyStateFacts
<1>2. kels[EstSn] \in Seq(Events)
  BY <1>1 DEF TypeOK
<1>3. kever.est \in Range(kels[Sn(kever.est)])
  BY <1>1, <1>2, LastInRange DEF LastAt, EstSn
<1> QED BY <1>1, <1>3 DEF LogInv, FirstSeenOnce, ChainIntact

(* Any accepted establishment event is at or below that of the key state.  *)
LEMMA EstAtOrBelow ==
  ASSUME TypeOK, LogInv, NEW b \in Range(fels), Establishing(b)
  PROVE  Accepted /\ b \in Events /\ Sn(b) <= EstSn
<1>1. b \in Events
  BY DEF TypeOK, Range
<1>2. LoggedEvent(b)
  BY <1>1 DEF LogInv, FirstSeenOnce, LoggedEvent
<1>3. Accepted
  BY <1>1, <1>2, SnType DEF LogInv, NothingBefore, LoggedEvent, Range
<1> QED BY <1>1, <1>2, <1>3 DEF LogInv, EstablishedBelow

(* The last of some establishment events, one of which is last.            *)
LatestOf(S) == CHOOSE b \in S : \A c \in S : Sn(c) <= Sn(b)
(* The event of the largest sn, when there is one such, is the latest.     *)
LEMMA LatestIs ==
  ASSUME NEW S \in SUBSET Events, NEW b \in S, \A c \in S : Sn(c) <= Sn(b),
         \A c \in S : Sn(c) = Sn(b) => c = b
  PROVE  LatestOf(S) = b
<1> DEFINE l == LatestOf(S)
<1>1. l \in S /\ \A c \in S : Sn(c) <= Sn(l)
  BY DEF LatestOf
<1>2. Sn(l) <= Sn(b) /\ Sn(b) <= Sn(l) /\ Sn(l) \in Nat /\ Sn(b) \in Nat
  BY <1>1, SnType
<1> QED BY <1>1, <1>2

-----------------------------------------------------------------------------
(* Control                                                                 *)

(* The first seen log has events only.                                     *)
LEMMA LoggedEvents ==
  ASSUME TypeOK PROVE Range(fels) \subseteq Events
<1>1. fels \in Seq(Events)
  BY DEF TypeOK
<1> QED BY <1>1 DEF Range

(* The facts that every part of the proof of a step uses.                  *)
LEMMA StepLogged ==
  ASSUME TypeOK, LogInv, NEW e \in Events, Step(e)
  PROVE  /\ ~LoggedEvent(e) /\ Log(e) /\ e \notin Range(fels)
         /\ fels \in Seq(Events) /\ fels' = Append(fels, e)
         /\ Range(fels') = Range(fels) \cup {e}
         /\ kever'.est = IF Establishing(e) THEN e ELSE kever.est
         /\ Establishing(e) /\ Accepted => EstSn < Sn(e)
         /\ Governor(e) = kever'.est
<1>1. ~LoggedEvent(e) /\ Log(e)
  BY NotLogged DEF Step
<1>2. e \notin Range(fels)
  BY <1>1 DEF LogInv, FirstSeenOnce, LoggedEvent
<1>3. Establishing(e) /\ Accepted => EstSn < Sn(e)
  BY BelowFacts, KeyStateFacts, SnType
<1> QED BY <1>1, <1>2, <1>3, LogFacts, LastFacts DEF TypeOK, Governor

(* A new establishment event is above all others.                          *)
LEMMA StepEstSingle ==
  ASSUME TypeOK, LogInv, EstSingle, NEW e \in Events, Step(e)
  PROVE  EstSingle'
<1>1. ASSUME NEW b \in Range(fels), Establishing(b), Establishing(e)
      PROVE  Sn(b) # Sn(e)
  BY <1>1, EstAtOrBelow, StepLogged, SnType, KeyStateFacts
<1>2. \A b, c \in Range(fels') : Establishing(b) /\ Establishing(c) /\ Sn(b) = Sn(c) => b = c
  BY <1>1, StepLogged DEF EstSingle
<1> QED BY <1>2 DEF EstSingle, Establishing, Sn

(* The establishment events before an accepted rotation do not change, and *)
(* the last of those before a new one is that of the key state.            *)
LEMMA StepPriorEst ==
  ASSUME TypeOK, LogInv, EstSingle, NEW e \in Events, Step(e), NEW f \in Range(fels'),
         Rotation(f)
  PROVE  PriorEst(f)' = IF f = e THEN kever.est ELSE PriorEst(f)
<1> DEFINE B(S) == {b \in S : Establishing(b) /\ Sn(b) < Sn(f)}
<1>0. PriorEst(f) = LatestOf(B(Range(fels))) /\ PriorEst(f)' = LatestOf(B(Range(fels')))
  BY DEF PriorEst, EstBefore, LatestOf, Establishing, Sn
<1>1. CASE f # e
  <2>1. f \in Range(fels) /\ Establishing(f)
    BY <1>1, StepLogged DEF Rotation, Establishing
  <2>2. Accepted /\ Sn(f) <= EstSn /\ f \in Events
    BY <2>1, EstAtOrBelow
  <2>3. ~(Establishing(e) /\ Sn(e) < Sn(f))
    BY <2>2, StepLogged, SnType, KeyStateFacts
  <2>4. B(Range(fels')) = B(Range(fels))
    BY <2>3, StepLogged
  <2> QED BY <1>0, <1>1, <2>4
<1>2. CASE f = e
  <2>1. Accepted /\ Establishing(e)
    BY <1>2 DEF Step, InOrder, Rotation, Establishing
  <2>2. kever.est \in B(Range(fels'))
    BY <1>2, <2>1, EstLogged, StepLogged DEF EstSn
  <2>3. ASSUME NEW c \in B(Range(fels'))
        PROVE  c \in Events /\ Sn(c) <= EstSn /\ (Sn(c) = EstSn => c = kever.est)
    <3>1. c \in Range(fels) /\ Establishing(c)
      BY <1>2, <2>3, StepLogged, SnType
    <3>2. c \in Events /\ Sn(c) <= EstSn
      BY <3>1, EstAtOrBelow
    <3> QED BY <2>1, <3>1, <3>2, EstLogged DEF EstSingle, EstSn
  <2>4. LatestOf(B(Range(fels'))) = kever.est
    <3> DEFINE S == B(Range(fels'))
    <3>1. S \in SUBSET Events /\ kever.est \in S
      BY <2>2, <2>3
    <3>2. \A c \in S : Sn(c) <= Sn(kever.est)
      BY <2>3 DEF EstSn
    <3>3. \A c \in S : Sn(c) = Sn(kever.est) => c = kever.est
      BY <2>3 DEF EstSn
    <3> HIDE DEF S
    <3>4. LatestOf(S) = kever.est
      BY <3>1, <3>2, <3>3, LatestIs
    <3> QED BY <3>4 DEF S
  <2> QED BY <1>0, <1>2, <2>4
<1> QED BY <1>1, <1>2

(* What was satisfied by the signatures held stays satisfied.              *)
LEMMA MoreHeld ==
  ASSUME TypeOK, TypeOK', Grows, NEW f \in Events, NEW K, NEW n \in Nat,
         Satisfies(sigs[f] \cap K, n)
  PROVE  Satisfies(sigs'[f] \cap K, n)
<1>1. IsFiniteSet(sigs'[f] \cap K)
  <2>1. sigs'[f] \subseteq Keys
    BY DEF TypeOK
  <2> QED BY <2>1, RolesAssumption, FS_Subset
<1>2. sigs[f] \cap K \subseteq sigs'[f] \cap K
  BY DEF Grows
<1> QED BY <1>1, <1>2, SatisfiesMore

(* The conjunct of RotationsControlled for one event.                      *)
ControlledBy(f, held, prior) ==
  /\ Establishing(f) => Satisfies(held \cap Ev[f].keys, Ev[f].kt)
  /\ Rotation(f) => Satisfies(held \cap Ev[f].keys \cap Ev[prior].next, Ev[prior].nt)

(* Thresholds and key lists of an event have their types.                  *)
LEMMA ThresholdTypes ==
  ASSUME NEW f \in Events
  PROVE  Ev[f].kt \in Nat /\ Ev[f].nt \in Nat /\ Ev[f].toad \in Nat
         /\ Ev[f].keys \subseteq Keys /\ Ev[f].next \subseteq Keys
  BY SnType DEF EventType

(* The establishment event before an accepted rotation is an event.        *)
LEMMA PriorEstType ==
  ASSUME TypeOK, LogInv, NEW e \in Events, EstSingle, Step(e), Rotation(e)
  PROVE  kever.est \in Events
<1>1. Accepted
  BY DEF Step, InOrder, Rotation
<1> QED BY <1>1, KeyStateFacts

(* What enough keys signed stays so when signatures are added.             *)
LEMMA MoreControlled ==
  ASSUME TypeOK, TypeOK', Grows, NEW f \in Events, NEW prior,
         Ev[prior].nt \in Nat \/ ~Rotation(f), ControlledBy(f, sigs[f], prior)
  PROVE  ControlledBy(f, sigs'[f], prior)
<1>1. Establishing(f) => Satisfies(sigs'[f] \cap Ev[f].keys, Ev[f].kt)
  BY MoreHeld, ThresholdTypes DEF ControlledBy
<1>2. ASSUME Rotation(f)
      PROVE  Satisfies(sigs'[f] \cap Ev[f].keys \cap Ev[prior].next, Ev[prior].nt)
  <2> DEFINE K == Ev[f].keys \cap Ev[prior].next
  <2>1. Satisfies(sigs[f] \cap K, Ev[prior].nt)
    <3>1. sigs[f] \cap K = sigs[f] \cap Ev[f].keys \cap Ev[prior].next
      OBVIOUS
    <3> QED BY <1>2, <3>1 DEF ControlledBy
  <2>2. Satisfies(sigs'[f] \cap K, Ev[prior].nt)
    BY <1>2, <2>1, MoreHeld
  <2>3. sigs'[f] \cap K = sigs'[f] \cap Ev[f].keys \cap Ev[prior].next
    OBVIOUS
  <2> QED BY <2>2, <2>3
<1> QED BY <1>1, <1>2 DEF ControlledBy

(* After an acceptance every rotation still follows an accepted            *)
(* establishment event.                                                    *)
LEMMA StepPriorAccepted ==
  ASSUME TypeOK, LogInv, EstSingle, PriorAccepted, NEW e \in Events, Step(e)
  PROVE  PriorAccepted'
<1>1. ASSUME NEW f \in Range(fels'), Rotation(f)
      PROVE  PriorEst(f)' \in Range(fels')
  <2>1. CASE f = e
    <3>1. Accepted
      BY <1>1, <2>1 DEF Step, InOrder, Rotation
    <3> QED BY <1>1, <2>1, <3>1, StepPriorEst, StepLogged, EstLogged
  <2>2. CASE f # e
    BY <1>1, <2>2, StepPriorEst, StepLogged DEF PriorAccepted
  <2> QED BY <2>1, <2>2
<1> QED BY <1>1 DEF PriorAccepted, Rotation

(* A new event brings the signatures of its keys and of the committed ones.*)
LEMMA StepControlled ==
  ASSUME TypeOK, TypeOK', LogInv, EstSingle, PriorAccepted, RotationsControlled, Grows,
         NEW e \in Events, Step(e), Evidence(e)
  PROVE  RotationsControlled'
<1>1. ASSUME NEW f \in Range(fels), f # e
      PROVE  ControlledBy(f, sigs'[f], PriorEst(f)')
  <2>1. f \in Events /\ f \in Range(fels')
    BY <1>1, StepLogged, LoggedEvents
  <2>2. ControlledBy(f, sigs[f], PriorEst(f))
    BY DEF RotationsControlled, ControlledBy
  <2>3. Rotation(f) => Ev[PriorEst(f)].nt \in Nat
    <3>1. Rotation(f) => PriorEst(f) \in Events
      BY LoggedEvents DEF PriorAccepted
    <3> QED BY <3>1, ThresholdTypes
  <2>4. ControlledBy(f, sigs'[f], PriorEst(f))
    BY <2>1, <2>2, <2>3, MoreControlled
  <2>5. Rotation(f) => PriorEst(f)' = PriorEst(f)
    BY <1>1, <2>1, StepPriorEst
  <2> QED BY <2>4, <2>5 DEF ControlledBy
<1>2. ControlledBy(e, sigs'[e], kever.est)
  <2>1. PICK S \in SUBSET Keys, W \in SUBSET Wits, local \in BOOLEAN :
          FullySigned(e, S, local) /\ Verified(e, S, local) \subseteq sigs'[e]
    BY DEF Evidence
  <2> DEFINE V == Verified(e, S, local)
  <2>2. V \subseteq sigs'[e] /\ sigs'[e] \subseteq Keys /\ V \subseteq Ev[Governor(e)].keys
    BY <2>1 DEF TypeOK, Verified
  <2>3. \A K : IsFiniteSet(sigs'[e] \cap K)
    BY <2>2, RolesAssumption, FS_Subset
  <2>4. Satisfies(V, Ev[Governor(e)].kt)
        /\ (Rotation(e) => Satisfies(V \cap Ev[kever.est].next, Ev[kever.est].nt))
    BY <2>1 DEF FullySigned
  <2> HIDE DEF V
  <2>5. ASSUME Establishing(e) PROVE Satisfies(sigs'[e] \cap Ev[e].keys, Ev[e].kt)
    <3>1. Governor(e) = e
      BY <2>5 DEF Governor
    <3>2. V \subseteq sigs'[e] \cap Ev[e].keys
      BY <2>2, <3>1
    <3> QED BY <2>3, <2>4, <3>1, <3>2, SatisfiesMore, ThresholdTypes
  <2>6. ASSUME Rotation(e)
        PROVE  Satisfies(sigs'[e] \cap Ev[e].keys \cap Ev[kever.est].next, Ev[kever.est].nt)
    <3>1. Governor(e) = e
      BY <2>6 DEF Governor, Rotation, Establishing
    <3>2. V \cap Ev[kever.est].next \subseteq sigs'[e] \cap Ev[e].keys \cap Ev[kever.est].next
      BY <2>2, <3>1
    <3>3. IsFiniteSet(sigs'[e] \cap Ev[e].keys \cap Ev[kever.est].next)
      BY <2>2, RolesAssumption, FS_Subset
    <3>4. Ev[kever.est].nt \in Nat
      BY <2>6, PriorEstType, ThresholdTypes
    <3> QED BY <2>4, <2>6, <3>2, <3>3, <3>4, SatisfiesMore
  <2> QED BY <2>5, <2>6 DEF ControlledBy
<1>3. e \in Range(fels') /\ (Rotation(e) => PriorEst(e)' = kever.est)
  BY StepLogged, StepPriorEst
<1>4. \A f \in Range(fels') : ControlledBy(f, sigs'[f], PriorEst(f)')
  BY <1>1, <1>2, <1>3, StepLogged DEF ControlledBy
<1> QED BY <1>4 DEF RotationsControlled, ControlledBy, Establishing, Rotation

(* The conjuncts that speak of the logs alone stay when the logs do.       *)
LEMMA KeptControlled ==
  ASSUME TypeOK, TypeOK', PriorAccepted, RotationsControlled, Grows, LogsKept
  PROVE  RotationsControlled'
<1>1. \A f : PriorEst(f)' = PriorEst(f)
  BY DEF LogsKept, PriorEst, EstBefore, Establishing, Sn
<1>2. ASSUME NEW f \in Range(fels)
      PROVE  ControlledBy(f, sigs'[f], PriorEst(f))
  <2>1. f \in Events /\ (Rotation(f) => Ev[PriorEst(f)].nt \in Nat)
    <3>1. f \in Events /\ (Rotation(f) => PriorEst(f) \in Events)
      BY LoggedEvents DEF PriorAccepted
    <3> QED BY <3>1, ThresholdTypes
  <2>2. ControlledBy(f, sigs[f], PriorEst(f))
    BY DEF RotationsControlled, ControlledBy
  <2> QED BY <2>1, <2>2, MoreControlled
<1> QED BY <1>1, <1>2 DEF LogsKept, RotationsControlled, ControlledBy, Establishing, Rotation

-----------------------------------------------------------------------------
(* Witnesses                                                               *)

(* The first seen log after a step.                                        *)
LEMMA StepAppended ==
  ASSUME TypeOK, LogInv, NEW e \in Events, Step(e)
  PROVE  /\ fels \in Seq(Events) /\ fels' = Append(fels, e) /\ Len(fels') = Len(fels) + 1
         /\ DOMAIN fels' = DOMAIN fels \cup {Len(fels) + 1}
         /\ fels'[Len(fels) + 1] = e
         /\ \A i \in DOMAIN fels : fels'[i] = fels[i]
<1>1. fels \in Seq(Events) /\ fels' = Append(fels, e)
  BY StepLogged
<1> QED BY <1>1

(* After an acceptance every place is governed by one event, the last by   *)
(* the establishment event of the key state.                               *)
LEMMA StepGoverned ==
  ASSUME TypeOK, LogInv, Governed, WitsRecorded, NEW e \in Events, Step(e)
  PROVE  /\ Governed'
         /\ \E j \in DOMAIN fels' : Governs(fels', Len(fels'), j) /\ fels'[j] = kever'.est
<1>1. /\ fels \in Seq(Events) /\ fels' = Append(fels, e) /\ Len(fels') = Len(fels) + 1
      /\ DOMAIN fels' = DOMAIN fels \cup {Len(fels) + 1}
      /\ fels'[Len(fels) + 1] = e
      /\ \A i \in DOMAIN fels : fels'[i] = fels[i]
  BY StepAppended
<1>2. PICK l \in DOMAIN fels' : Governs(fels', Len(fels'), l) /\ fels'[l] = kever'.est
  <2>1. CASE Establishing(e)
    BY <1>1, <2>1, GovernsSelf, StepLogged
  <2>2. CASE ~Establishing(e)
    <3>1. Accepted
      BY <2>2, BelowFacts
    <3>2. PICK j \in DOMAIN fels : Governs(fels, Len(fels), j) /\ fels[j] = kever.est
      BY <3>1 DEF WitsRecorded
    <3> QED BY <1>1, <2>2, <3>2, GovernsLast, StepLogged
  <2> QED BY <2>1, <2>2
<1>3. ASSUME NEW i \in DOMAIN fels'
      PROVE  \E j \in 1..i : Governs(fels', i, j)
  <2>1. CASE i \in DOMAIN fels
    <3>1. PICK j \in 1..i : Governs(fels, i, j)
      BY <2>1 DEF Governed
    <3> QED BY <1>1, <2>1, <3>1, GovernsStays
  <2>2. CASE i = Len(fels')
    BY <1>2, <2>2 DEF Governs
  <2> QED BY <1>1, <2>1, <2>2
<1> QED BY <1>2, <1>3 DEF Governed, Governs, Establishing

(* The witnesses recorded with the key state's establishment event.        *)
LEMMA StepWits ==
  ASSUME TypeOK, LogInv, Governed, WitsRecorded, NEW e \in Events, Step(e)
  PROVE  /\ WitsRecorded'
         /\ kever'.wits = WitsFor(e) /\ backers'[kever'.est] = WitsFor(e)
         /\ \A b \in Range(fels) : backers'[b] = backers[b]
<1>1. Log(e) /\ e \notin Range(fels)
  BY StepLogged
<1>2. \A b \in Range(fels) : backers'[b] = backers[b]
  BY <1>1, LoggedEvents DEF Log, TypeOK
<1>3. CASE Establishing(e)
  <2>1. kever'.est = e /\ kever'.wits = WitsFor(e) /\ backers'[e] = WitsFor(e)
    BY <1>1, <1>3 DEF Log, TypeOK
  <2>2. WitsFor(e) = {} => Ev[e].toad = 0
    <3>1. CASE Ev[e].ilk = "icp"
      BY <3>1 DEF Step, Valid, ValidIncept, ToadInBounds, WitsFor
    <3>2. CASE Ev[e].ilk = "rot"
      <4>1. ToadInBounds(e, Derived(e)) /\ WitsFor(e) = Derived(e)
        BY <3>2 DEF Step, Valid, ValidRotate, WitsFor
      <4> QED BY <4>1 DEF ToadInBounds
    <3> QED BY <1>3, <3>1, <3>2 DEF Establishing
  <2>3. Accepted => WitsRecorded'
    BY <2>1, <2>2, StepGoverned DEF WitsRecorded
  <2>4. WitsRecorded'
    BY <2>1, <2>2, StepGoverned DEF WitsRecorded
  <2> QED BY <1>2, <2>1, <2>4
<1>4. CASE ~Establishing(e)
  <2>1. Accepted /\ Ev[e].ilk = "ixn"
    BY <1>4, BelowFacts, SnType DEF Establishing, EventType
  <2>2. kever'.est = kever.est /\ kever'.wits = kever.wits /\ backers' = backers
    BY <1>1, <1>4 DEF Log, TypeOK
  <2>3. WitsFor(e) = kever.wits
    BY <2>1 DEF WitsFor
  <2>4. kever.wits = backers[kever.est] /\ (kever.wits = {} => Ev[kever.est].toad = 0)
    BY <2>1 DEF WitsRecorded
  <2>5. WitsRecorded'
    BY <2>2, <2>4, StepGoverned DEF WitsRecorded
  <2> QED BY <1>2, <2>2, <2>3, <2>4, <2>5
<1> QED BY <1>3, <1>4

(* The conjunct of AcceptedWitnessed for one first seen number.            *)
WitnessedAt(log, held, lists, i) ==
  Cardinality(held[log[i]] \cap lists[InForceIn(log, i)]) >= Ev[InForceIn(log, i)].toad

(* As many signatures, when some are added.                                *)
LEMMA MoreWigs ==
  ASSUME NEW S, NEW T \in SUBSET Wits, S \subseteq T, NEW n \in Nat, Cardinality(S) >= n
  PROVE  Cardinality(T) >= n
<1>1. IsFiniteSet(T)
  BY RolesAssumption, FS_Subset
<1>2. IsFiniteSet(S) /\ Cardinality(S) <= Cardinality(T)
  BY <1>1, FS_Subset
<1>3. Cardinality(S) \in Nat /\ Cardinality(T) \in Nat
  BY <1>1, <1>2, FS_CardinalityType
<1> QED BY <1>2, <1>3

(* At an earlier first seen number nothing changes but that witness        *)
(* signatures are added.                                                   *)
LEMMA WitnessedStays ==
  ASSUME TypeOK, TypeOK', Governed, Grows, NEW i \in DOMAIN fels,
         WitnessedAt(fels, wigs, backers, i),
         \A j \in DOMAIN fels : Governs(fels, i, j) => Governs(fels', i, j) /\ fels'[j] = fels[j],
         i \in DOMAIN fels', fels'[i] = fels[i],
         \A b \in Range(fels) : backers'[b] = backers[b]
  PROVE  WitnessedAt(fels', wigs', backers', i)
<1>1. fels \in Seq(Events) /\ fels' \in Seq(Events) /\ fels[i] \in Events
  BY DEF TypeOK
<1>2. PICK j \in 1..i : Governs(fels, i, j)
  BY DEF Governed
<1>3. j \in DOMAIN fels /\ fels[j] \in Range(fels) /\ fels[j] \in Events
  BY <1>1, <1>2 DEF Range
<1>4. InForceIn(fels, i) = fels[j] /\ InForceIn(fels', i) = fels[j]
  BY <1>1, <1>2, <1>3, InForceIs
<1>5. Cardinality(wigs[fels[i]] \cap backers[fels[j]]) >= Ev[fels[j]].toad
  BY <1>4 DEF WitnessedAt
<1>6. /\ wigs[fels[i]] \cap backers[fels[j]] \subseteq wigs'[fels[i]] \cap backers[fels[j]]
      /\ wigs'[fels[i]] \cap backers[fels[j]] \in SUBSET Wits
  BY <1>1 DEF Grows, TypeOK
<1>7. Cardinality(wigs'[fels[i]] \cap backers[fels[j]]) >= Ev[fels[j]].toad
  BY <1>3, <1>5, <1>6, MoreWigs, ThresholdTypes
<1> QED BY <1>3, <1>4, <1>7 DEF WitnessedAt

(* An acceptance keeps every accepted event witnessed.                     *)
LEMMA StepWitnessed ==
  ASSUME TypeOK, TypeOK', LogInv, Governed, WitsRecorded, AcceptedWitnessed, Grows,
         NEW e \in Events, Step(e), Evidence(e)
  PROVE  AcceptedWitnessed'
<1> SUFFICES ASSUME ~Owned, ~Member, LocalWits = {}, NEW i \in DOMAIN fels'
             PROVE  WitnessedAt(fels', wigs', backers', i)
  BY DEF AcceptedWitnessed, WitnessedAt, InForce, InForceIn, Member, Establishing
<1>1. /\ fels \in Seq(Events) /\ fels' = Append(fels, e) /\ Len(fels') = Len(fels) + 1
      /\ DOMAIN fels' = DOMAIN fels \cup {Len(fels) + 1}
      /\ fels'[Len(fels) + 1] = e
      /\ \A k \in DOMAIN fels : fels'[k] = fels[k]
  BY StepAppended
<1>2. CASE i \in DOMAIN fels
  <2>1. WitnessedAt(fels, wigs, backers, i)
    BY <1>2 DEF AcceptedWitnessed, WitnessedAt, InForce, InForceIn
  <2>2. \A j \in DOMAIN fels : Governs(fels, i, j) => Governs(fels', i, j) /\ fels'[j] = fels[j]
    BY <1>1, <1>2, GovernsStays
  <2>3. \A b \in Range(fels) : backers'[b] = backers[b]
    BY StepWits
  <2> QED BY <1>1, <1>2, <2>1, <2>2, <2>3, WitnessedStays
<1>3. CASE i = Len(fels')
  <2>1. PICK j \in DOMAIN fels' : Governs(fels', Len(fels'), j) /\ fels'[j] = kever'.est
    BY StepGoverned
  <2>2. InForceIn(fels', i) = kever'.est /\ fels'[i] = e
    <3>1. fels' \in Seq(Events)
      BY DEF TypeOK
    <3> QED BY <1>1, <1>3, <2>1, <3>1, InForceIs
  <2>3. backers'[kever'.est] = WitsFor(e) /\ kever'.wits = WitsFor(e) /\ Governor(e) = kever'.est
    BY StepWits, StepLogged
  <2>4. PICK W \in SUBSET Wits : FullyWitnessed(e, W) /\ W \cap WitsFor(e) \subseteq wigs'[e]
    BY DEF Evidence
  <2>5. kever'.est \in Events
    BY <1>1, <2>1 DEF TypeOK
  <2>6. wigs'[e] \cap WitsFor(e) \in SUBSET Wits
    BY DEF TypeOK
  <2>7. CASE WitsFor(e) = {}
    <3>1. Ev[kever'.est].toad = 0
      <4>1. Accepted'
        BY LogFacts, StepLogged
      <4>2. Ev'[kever'.est] = Ev[kever'.est]
        BY DEF Ev
      <4> QED BY <2>3, <2>7, <4>1, <4>2, StepWits DEF WitsRecorded
    <3>2. Cardinality(wigs'[e] \cap WitsFor(e)) >= 0
      <4>1. IsFiniteSet(wigs'[e] \cap WitsFor(e))
        BY <2>6, RolesAssumption, FS_Subset
      <4> QED BY <4>1, FS_CardinalityType
    <3> QED BY <2>2, <2>3, <3>1, <3>2 DEF WitnessedAt
  <2>8. CASE WitsFor(e) # {}
    <3>1. Cardinality(W \cap WitsFor(e)) >= Ev[kever'.est].toad
      BY <2>3, <2>4, <2>8 DEF FullyWitnessed, LocallyWitnessed
    <3>2. Cardinality(wigs'[e] \cap WitsFor(e)) >= Ev[kever'.est].toad
      <4>1. W \cap WitsFor(e) \subseteq wigs'[e] \cap WitsFor(e)
        BY <2>4
      <4> QED BY <2>5, <2>6, <3>1, <4>1, MoreWigs, ThresholdTypes
    <3> QED BY <2>2, <2>3, <3>2 DEF WitnessedAt
  <2> QED BY <2>7, <2>8
<1> QED BY <1>1, <1>2, <1>3

(* So does a step that accepts nothing.                                    *)
LEMMA KeptWitnessed ==
  ASSUME TypeOK, TypeOK', Governed, AcceptedWitnessed, Grows, LogsKept
  PROVE  AcceptedWitnessed'
<1> SUFFICES ASSUME ~Owned, ~Member, LocalWits = {}, NEW i \in DOMAIN fels
             PROVE  WitnessedAt(fels', wigs', backers', i)
  BY DEF LogsKept, AcceptedWitnessed, WitnessedAt, InForce, InForceIn, Member, Establishing
<1>1. WitnessedAt(fels, wigs, backers, i)
  BY DEF AcceptedWitnessed, WitnessedAt, InForce, InForceIn
<1>2. fels' = fels /\ backers' = backers
  BY DEF LogsKept
<1> QED BY <1>1, <1>2, WitnessedStays

-----------------------------------------------------------------------------
(* The theorems                                                            *)

(* An acceptance keeps the invariant of control.                           *)
LEMMA StepControl ==
  ASSUME TypeOK, TypeOK', LogInv, ControlInv, Grows, NEW e \in Events, Step(e), Evidence(e)
  PROVE  ControlInv'
  BY StepEstSingle, StepPriorAccepted, StepControlled, StepGoverned, StepWits, StepWitnessed
     DEF ControlInv

(* So does a step that accepts nothing.                                    *)
LEMMA KeptControl ==
  ASSUME TypeOK, TypeOK', LogInv, ControlInv, Grows, LogsKept
  PROVE  ControlInv'
<1>1. EstSingle' /\ Governed'
  BY DEF ControlInv, LogsKept, EstSingle, Governed, Governs, Establishing, Sn
<1>2. PriorAccepted'
  <2>1. \A f : PriorEst(f)' = PriorEst(f)
    BY DEF LogsKept, PriorEst, EstBefore, Establishing, Sn
  <2> QED BY <2>1 DEF ControlInv, LogsKept, PriorAccepted, Rotation
<1>3. WitsRecorded'
  BY DEF ControlInv, LogsKept, WitsRecorded, Governs, Establishing, Accepted
<1> QED BY <1>1, <1>2, <1>3, KeptControlled, KeptWitnessed DEF ControlInv

(* It holds at the start.                                                  *)
LEMMA InitControl == Init => ControlInv
<1> SUFFICES ASSUME Init PROVE ControlInv
  OBVIOUS
<1>1. ~Accepted /\ fels = <<>> /\ DOMAIN fels = {} /\ Range(fels) = {}
  BY DEF Init, Accepted, Range
<1> QED BY <1>1 DEF ControlInv, EstSingle, PriorAccepted, Governed, WitsRecorded,
                    RotationsControlled, AcceptedWitnessed

(* The inductive invariant of control.                                     *)
THEOREM ControlInvariant == Spec => [](TypeOK /\ LogInv /\ ControlInv)
<1>1. Init => ControlInv
  BY InitControl
<1>2. TypeOK /\ LogInv /\ ControlInv /\ [Next]_vars => ControlInv'
  BY NextType, NextEvidence, StepControl, KeptControl
<1> QED BY <1>1, <1>2, LogInvariant, PTL DEF Spec

(* However an accepted event's signatures came, in whatever pieces and     *)
(* through whatever escrows, the database holds enough of its own keys'    *)
(* and of those the establishment event before it committed to.            *)
THEOREM RotationsAreControlled == Spec => []RotationsControlled
<1>1. ControlInv => RotationsControlled
  BY DEF ControlInv
<1> QED BY <1>1, ControlInvariant, PTL

(* A validator that is neither controller, member nor witness holds for    *)
(* every event in its log the toad of witnesses in force at that event.    *)
THEOREM AcceptedAreWitnessed == Spec => []AcceptedWitnessed
<1>1. ControlInv => AcceptedWitnessed
  BY DEF ControlInv
<1> QED BY <1>1, ControlInvariant, PTL

(* What the escrows for missing signatures hold is signed by a key of the  *)
(* event or of an accepted establishment event.                            *)
THEOREM EscrowsAreSigned == Spec => []EscrowsSigned
<1> DEFINE Signed(f) == \E b \in {f} \cup Range(fels) : Establishing(b) /\ sigs[f] \cap Ev[b].keys # {}
<1>1. Init => EscrowsSigned
  BY DEF Init, EscrowsSigned, Escrows
<1>2. TypeOK /\ TypeOK' /\ LogInv /\ LogInv' /\ EscrowsSigned /\ [Next]_vars => EscrowsSigned'
  <2> SUFFICES ASSUME TypeOK, TypeOK', LogInv, LogInv', EscrowsSigned, [Next]_vars,
                      NEW x \in SignedEscrows, NEW f \in escrow'[x]
               PROVE  \E b \in {f} \cup Range(fels') :
                        Establishing(b) /\ sigs'[f] \cap Ev[b].keys # {}
    BY DEF EscrowsSigned, SignedEscrows, Establishing
  <2>1. Grows /\ Range(fels) \subseteq Range(fels')
    <3>1. CASE LogsKept
      BY <3>1, NextEvidence DEF LogsKept
    <3>2. CASE \E e \in Events : Step(e)
      BY <3>2, NextEvidence, StepLogged
    <3> QED BY <3>1, <3>2, NextEvidence
  <2>2. f \in Events
    BY DEF TypeOK, SignedEscrows, Escrows
  <2>3. CASE f \in escrow[x]
    <3>1. Signed(f)
      BY <2>3 DEF EscrowsSigned, SignedEscrows
    <3> QED BY <2>1, <2>2, <3>1 DEF Grows
  <2>4. CASE SignedByOwnOrLatest(f) /\ kever.est \in Range(fels)
    BY <2>1, <2>4 DEF SignedByOwnOrLatest
  <2>5. CASE SignedByOwnOrLatest(f) /\ ~Accepted
    BY <2>5 DEF SignedByOwnOrLatest
  <2> QED BY <2>3, <2>4, <2>5, NextEvidence, EstLogged DEF EscrowsGetSigned
<1>3. (TypeOK /\ LogInv)' => TypeOK' /\ LogInv'
  OBVIOUS
<1> QED BY <1>1, <1>2, <1>3, LogInvariant, PTL DEF Spec

-----------------------------------------------------------------------------
(* Sources                                                                 *)

(* An event that passes as local was given by a local source, or held as   *)
(* local before.                                                           *)
LocalSource(e, local) == local => Given(e) \/ source[e] = "local"
(* The signatures that let event e pass, as far as its source counts.      *)
Vouched(e) ==
  \E S \in SUBSET Keys, local \in BOOLEAN :
    /\ LocalSource(e, local) /\ ~Misfit(e, local)
    /\ Satisfies(Verified(e, S, local), Ev[Governor(e)].kt)
    /\ Verified(e, S, local) \subseteq sigs'[e]
(* Where an event held as local comes from.                                *)
Traced(e) == Given(e) \/ Contested(e) \/ LoggedEvent(e)
SourceTraced(e) ==
  /\ \A f \in Events \ {e} : source'[f] = source[f]
  /\ source'[e] = "local" => source[e] = "local" \/ Traced(e)

(* The event accepted last at a place of the chain is in the log.          *)
LEMMA LastLogged ==
  ASSUME TypeOK, LogInv, Accepted, NEW n \in 0..TipSn
  PROVE  LastAt(n) \in Range(fels) /\ LastAt(n) \in Events /\ Sn(LastAt(n)) = n
<1>1. n \in 0..MaxSn /\ kels[n] # <<>> /\ LastAt(n) \in Events /\ Sn(LastAt(n)) = n
  BY KeyStateFacts
<1>2. kels[n] \in Seq(Events)
  BY <1>1 DEF TypeOK
<1>3. LastAt(n) \in Range(kels[Sn(LastAt(n))])
  BY <1>1, <1>2, LastInRange DEF LastAt
<1> QED BY <1>1, <1>3 DEF LogInv, FirstSeenOnce

(* Late events are duplicates, or contested.                               *)
LEMMA LateTraced ==
  ASSUME TypeOK, LogInv, SourcesInv, NEW e \in Events, Late(e)
  PROVE  Traced(e)
<1>1. Accepted /\ Sn(e) \in 0..TipSn
  BY KeyStateFacts, SnType DEF Late
<1>2. LastAt(Sn(e)) \in Range(fels) /\ LastAt(Sn(e)) \in Events /\ Sn(LastAt(Sn(e))) = Sn(e)
  BY <1>1, LastLogged
<1>3. CASE LastAt(Sn(e)) = e
  BY <1>2, <1>3 DEF Traced, LoggedEvent, LogInv, FirstSeenOnce
<1>4. CASE LastAt(Sn(e)) # e
  BY <1>2, <1>4 DEF Traced, Contested
<1> QED BY <1>3, <1>4

(* What every outcome of processEvent does to the source of an event.      *)
LEMMA ProcessSources ==
  ASSUME TypeOK, LogInv, SourcesInv, NEW e \in Events, NEW S \in SUBSET Keys,
         NEW W \in SUBSET Wits, NEW local \in BOOLEAN, NEW from, LocalSource(e, local),
         processEvent(e, S, W, local, from)
  PROVE  \/ LogsKept /\ SourceTraced(e)
         \/ Step(e) /\ Vouched(e) /\ \A f \in Events \ {e} : source'[f] = source[f]
<1>1. LogsUnchanged => LogsKept
  BY DEF LogsUnchanged, LogsKept
<1>2. ASSUME NEW T, NEW V, Store(e, T, V, local) PROVE SourceTraced(e)
  BY <1>2 DEF Store, SourceTraced, LocalSource, Traced, TypeOK
<1>3. ASSUME NEW T, NEW V, Store(e, T, V, TRUE), Late(e) PROVE SourceTraced(e)
  BY <1>3, LateTraced DEF Store, SourceTraced, TypeOK
<1>4. CASE HoldOutOfOrder(e, S, W, local, from)
  BY <1>1, <1>2, <1>4 DEF HoldOutOfOrder
<1>5. CASE LikelyDuplicitous(e) /\ HoldLikelyDuplicitous(e, S, from)
  BY <1>1, <1>3, <1>5 DEF HoldLikelyDuplicitous, LikelyDuplicitous
<1>6. CASE InOrder(e) /\ Checked(e, S, local) /\ valSigsWigs(e, S, W, local, from)
  <2>1. CASE HoldMisfit(e, S, W, local, from)
    BY <1>1, <1>2, <2>1 DEF HoldMisfit
  <2>2. CASE HoldPartiallySigned(e, S, W, local, from)
    BY <1>1, <1>2, <2>2 DEF HoldPartiallySigned
  <2>3. CASE HoldPartiallyWitnessed(e, S, W, local, from)
    BY <1>1, <1>2, <2>3 DEF HoldPartiallyWitnessed
  <2>4. CASE ~Misfit(e, local) /\ Accept(e, S, W, local, from)
    <3>1. Verified(e, S, local) \in SUBSET Keys /\ W \cap WitsFor(e) \in SUBSET Wits
      BY DEF Verified
    <3>2. Verified(e, S, local) \subseteq sigs'[e]
      BY <2>4, <3>1, StoreGrows DEF Accept
    <3>3. Vouched(e)
      BY <2>4, <3>2 DEF Accept, FullySigned, Vouched
    <3>4. Step(e)
      BY <1>6, <2>4 DEF Step, Checked, Accept
    <3>5. \A f \in Events \ {e} : source'[f] = source[f]
      BY <2>4 DEF Accept, Store, TypeOK
    <3> QED BY <3>3, <3>4, <3>5
  <2> QED BY <1>6, <2>1, <2>2, <2>3, <2>4 DEF valSigsWigs
<1>7. CASE Duplicate(e) /\ LogDuplicate(e, S, W, from)
  BY <1>1, <1>3, <1>7 DEF LogDuplicate, Duplicate
<1>8. CASE Discard(e, from)
  BY <1>1, <1>8 DEF Discard, SourceTraced
<1> QED BY <1>4, <1>5, <1>6, <1>7, <1>8 DEF processEvent

(* The same of every step.                                                 *)
LEMMA NextSources ==
  ASSUME TypeOK, LogInv, SourcesInv, [Next]_vars
  PROVE  \/ LogsKept /\ source' = source
         \/ \E e \in Events :
              \/ LogsKept /\ SourceTraced(e)
              \/ Step(e) /\ Vouched(e) /\ \A f \in Events \ {e} : source'[f] = source[f]
<1>1. ASSUME NEW m \in Sent, Receive(m)
      PROVE  \E e \in Events :
               \/ LogsKept /\ SourceTraced(e)
               \/ Step(e) /\ Vouched(e) /\ \A f \in Events \ {e} : source'[f] = source[f]
  <2>1. /\ m.event \in Events /\ m.sigs \in SUBSET Keys
        /\ m.wigs \in SUBSET Wits /\ m.local \in BOOLEAN
    BY EventsAssumption DEF MessageType
  <2>2. LocalSource(m.event, m.local)
    BY DEF LocalSource, Given
  <2> QED BY <1>1, <2>1, <2>2, ProcessSources DEF Receive
<1>2. ASSUME NEW x \in Retried, NEW e \in Events, RetryEscrowed(x, e)
      PROVE  \/ LogsKept /\ SourceTraced(e)
             \/ Step(e) /\ Vouched(e) /\ \A f \in Events \ {e} : source'[f] = source[f]
  <2>1. /\ sigs[e] \in SUBSET Keys
        /\ (IF x = "ldes" THEN {} ELSE wigs[e]) \in SUBSET Wits
        /\ (source[e] = "local") \in BOOLEAN
    BY DEF TypeOK
  <2>2. LocalSource(e, source[e] = "local")
    BY DEF LocalSource
  <2> QED BY <1>2, <2>1, <2>2, ProcessSources DEF RetryEscrowed
<1>3. ASSUME NEW x \in Retried, NEW e \in Events, DropEscrowed(x, e)
      PROVE  LogsKept /\ source' = source
  BY <1>3 DEF DropEscrowed, LogsUnchanged, LogsKept
<1>4. ASSUME NEW e \in Events, Expire(e) PROVE LogsKept /\ source' = source
  BY <1>4 DEF Expire, LogsKept
<1>5. CASE UNCHANGED vars
  BY <1>5 DEF vars, LogsKept
<1> QED BY <1>1, <1>2, <1>3, <1>4, <1>5 DEF Next

(* The conjunct of GivenOrContested for one first seen number.             *)
Guarded(log, lists, i) == Owned \/ LocalWits \cap lists[InForceIn(log, i)] # {}
SignedByOthers(log, held, i) ==
  Satisfies((held[log[i]] \cap Ev[InForceIn(log, i)].keys) \ LocalKeys, Ev[InForceIn(log, i)].kt)
SourceAt(log, held, lists, i) ==
  Guarded(log, lists, i) \/ (Member /\ ~SignedByOthers(log, held, i))
    => Given(log[i]) \/ \E f \in Range(log) : f # log[i] /\ Sn(f) = Sn(log[i])
LEMMA SourcesAre == GivenOrContested <=> \A i \in DOMAIN fels : SourceAt(fels, sigs, backers, i)
  BY DEF GivenOrContested, SourceAt, Guarded, SignedByOthers, Protected, OthersSigned, Contested,
         InForce, InForceIn
LEMMA SourcesAreNext ==
  GivenOrContested' <=> \A i \in DOMAIN fels' : SourceAt(fels', sigs', backers', i)
  BY DEF GivenOrContested, SourceAt, Guarded, SignedByOthers, Protected, OthersSigned, Contested,
         InForce, InForceIn, Given, Member, Establishing, Sn, Ev

(* At an earlier first seen number nothing changes but that signatures are *)
(* added, and the log grows.                                               *)
LEMMA SourceStays ==
  ASSUME TypeOK, TypeOK', Governed, Grows, NEW i \in DOMAIN fels,
         SourceAt(fels, sigs, backers, i),
         \A j \in DOMAIN fels : Governs(fels, i, j) => Governs(fels', i, j) /\ fels'[j] = fels[j],
         i \in DOMAIN fels', fels'[i] = fels[i], Range(fels) \subseteq Range(fels'),
         \A b \in Range(fels) : backers'[b] = backers[b]
  PROVE  SourceAt(fels', sigs', backers', i)
<1>1. fels \in Seq(Events) /\ fels' \in Seq(Events) /\ fels[i] \in Events
  BY DEF TypeOK
<1>2. PICK j \in 1..i : Governs(fels, i, j)
  BY DEF Governed
<1>3. j \in DOMAIN fels /\ fels[j] \in Range(fels) /\ fels[j] \in Events
  BY <1>1, <1>2 DEF Range
<1>4. InForceIn(fels, i) = fels[j] /\ InForceIn(fels', i) = fels[j]
  BY <1>1, <1>2, <1>3, InForceIs
<1>5. SignedByOthers(fels, sigs, i) => SignedByOthers(fels', sigs', i)
  <2> DEFINE K == Ev[fels[j]].keys \ LocalKeys
  <2>1. \A T : (T \cap Ev[fels[j]].keys) \ LocalKeys = T \cap K
    OBVIOUS
  <2>2. Satisfies(sigs[fels[i]] \cap K, Ev[fels[j]].kt) => Satisfies(sigs'[fels[i]] \cap K, Ev[fels[j]].kt)
    BY <1>1, <1>3, MoreHeld, ThresholdTypes
  <2> QED BY <1>4, <2>1, <2>2 DEF SignedByOthers
<1>6. Guarded(fels', backers', i) => Guarded(fels, backers, i)
  BY <1>3, <1>4 DEF Guarded
<1> QED BY <1>5, <1>6 DEF SourceAt

(* An event whose source counts is given, contested or signed by others.   *)
LEMMA StepSources ==
  ASSUME TypeOK, TypeOK', LogInv, ControlInv, SourcesInv, Grows, NEW e \in Events, Step(e), Vouched(e)
  PROVE  GivenOrContested'
<1> SUFFICES ASSUME NEW i \in DOMAIN fels' PROVE SourceAt(fels', sigs', backers', i)
  BY SourcesAreNext
<1>0. Governed /\ WitsRecorded
  BY DEF ControlInv
<1>1. /\ fels \in Seq(Events) /\ fels' = Append(fels, e) /\ Len(fels') = Len(fels) + 1
      /\ DOMAIN fels' = DOMAIN fels \cup {Len(fels) + 1}
      /\ fels'[Len(fels) + 1] = e
      /\ \A k \in DOMAIN fels : fels'[k] = fels[k]
  BY StepAppended
<1>2. Range(fels') = Range(fels) \cup {e} /\ e \notin Range(fels)
  BY StepLogged
<1>3. CASE i \in DOMAIN fels
  <2>1. SourceAt(fels, sigs, backers, i)
    BY <1>3, SourcesAre DEF SourcesInv
  <2>2. \A j \in DOMAIN fels : Governs(fels, i, j) => Governs(fels', i, j) /\ fels'[j] = fels[j]
    BY <1>1, <1>3, GovernsStays
  <2>3. \A b \in Range(fels) : backers'[b] = backers[b]
    BY <1>0, StepWits
  <2> QED BY <1>0, <1>1, <1>2, <1>3, <2>1, <2>2, <2>3, SourceStays
<1>4. CASE i = Len(fels')
  <2>1. PICK j \in DOMAIN fels' : Governs(fels', Len(fels'), j) /\ fels'[j] = kever'.est
    BY <1>0, StepGoverned
  <2>2. InForceIn(fels', i) = kever'.est /\ fels'[i] = e
    <3>1. fels' \in Seq(Events)
      BY DEF TypeOK
    <3> QED BY <1>1, <1>4, <2>1, <3>1, InForceIs
  <2>3. backers'[kever'.est] = WitsFor(e) /\ Governor(e) = kever'.est
    BY <1>0, StepWits, StepLogged
  <2>4. kever'.est \in Events
    BY <1>1, <2>1 DEF TypeOK
  <2>5. PICK S \in SUBSET Keys, local \in BOOLEAN :
          /\ LocalSource(e, local) /\ ~Misfit(e, local)
          /\ Satisfies(Verified(e, S, local), Ev[Governor(e)].kt)
          /\ Verified(e, S, local) \subseteq sigs'[e]
    BY DEF Vouched
  <2>6. CASE local
    <3>1. Given(e) \/ Contested(e)
      <4>1. ~LoggedEvent(e)
        BY StepLogged
      <4> QED BY <2>5, <2>6, <4>1 DEF LocalSource, SourcesInv
    <3> QED BY <1>2, <2>2, <3>1 DEF SourceAt, Contested
  <2>7. CASE ~local
    <3>1. ~Guarded(fels', backers', i)
      BY <2>2, <2>3, <2>5, <2>7 DEF Guarded, Misfit, LocallyWitnessed
    <3>2. ASSUME Member PROVE SignedByOthers(fels', sigs', i)
      <4> DEFINE V == Verified(e, S, local)
                 T == (sigs'[e] \cap Ev[kever'.est].keys) \ LocalKeys
      <4>1. V \subseteq T
        BY <2>3, <2>5, <2>7, <3>2 DEF Verified
      <4>2. IsFiniteSet(T)
        <5>1. T \subseteq Keys
          BY DEF TypeOK
        <5> QED BY <5>1, RolesAssumption, FS_Subset
      <4>3. Satisfies(V, Ev[kever'.est].kt)
        BY <2>3, <2>5
      <4> HIDE DEF V, T
      <4>4. Satisfies(T, Ev[kever'.est].kt)
        BY <2>4, <4>1, <4>2, <4>3, SatisfiesMore, ThresholdTypes
      <4> QED BY <2>2, <4>4 DEF SignedByOthers, T
    <3> QED BY <3>1, <3>2 DEF SourceAt
  <2> QED BY <2>6, <2>7
<1> QED BY <1>1, <1>3, <1>4

(* Every step keeps the invariant of sources.                              *)
LEMMA NextSourcesInv ==
  ASSUME TypeOK, TypeOK', LogInv, ControlInv, SourcesInv, [Next]_vars
  PROVE  SourcesInv'
<1>1. Grows
  BY NextEvidence
<1>2. ASSUME NEW e \in Events, Step(e), Vouched(e), \A f \in Events \ {e} : source'[f] = source[f]
      PROVE  SourcesInv'
  <2>1. \A f \in Events : LoggedEvent(f)' <=> LoggedEvent(f) \/ f = e
    BY <1>2, NotLogged, LastFacts DEF Step
  <2>2. Range(fels') = Range(fels) \cup {e}
    BY <1>2, StepLogged
  <2>3. ASSUME NEW f \in Events, source'[f] = "local"
        PROVE  Given(f)' \/ Contested(f)' \/ LoggedEvent(f)'
    BY <1>2, <2>1, <2>2, <2>3 DEF SourcesInv, Given, Contested, Sn, Ev
  <2> QED BY <1>1, <1>2, <2>3, StepSources DEF SourcesInv
<1>3. ASSUME LogsKept, \A f \in Events : source'[f] = "local" => source[f] = "local" \/ Traced(f)
      PROVE  SourcesInv'
  <2>1. fels' = fels /\ kels' = kels /\ backers' = backers /\ kever' = kever
    BY <1>3 DEF LogsKept
  <2>2. ASSUME NEW f \in Events, source'[f] = "local"
        PROVE  Given(f)' \/ Contested(f)' \/ LoggedEvent(f)'
    BY <1>3, <2>1, <2>2 DEF SourcesInv, Traced, Given, Contested, LoggedEvent, Sn, Ev
  <2>3. ASSUME NEW i \in DOMAIN fels PROVE SourceAt(fels', sigs', backers', i)
    <3>1. SourceAt(fels, sigs, backers, i) /\ Governed
      BY SourcesAre DEF SourcesInv, ControlInv
    <3> QED BY <1>1, <2>1, <3>1, SourceStays
  <2> QED BY <2>1, <2>2, <2>3, SourcesAreNext DEF SourcesInv
<1>4. ASSUME NEW e \in Events, LogsKept, SourceTraced(e) PROVE SourcesInv'
  BY <1>3, <1>4 DEF SourceTraced
<1>5. CASE LogsKept /\ source' = source
  BY <1>3, <1>5
<1> QED BY <1>2, <1>4, <1>5, NextSources

(* The inductive invariant of sources: an event held as local was given by *)
(* a local source, or is in the log, or contests an event of the log.      *)
THEOREM SourcesInvariant == Spec => []SourcesInv
<1>1. Init => SourcesInv
  BY DEF Init, SourcesInv, GivenOrContested, Accepted
<1>2. TypeOK /\ TypeOK' /\ LogInv /\ ControlInv /\ SourcesInv /\ [Next]_vars => SourcesInv'
  BY NextSourcesInv
<1>3. (TypeOK /\ LogInv /\ ControlInv)' => TypeOK'
  OBVIOUS
<1> QED BY <1>1, <1>2, <1>3, ControlInvariant, PTL DEF Spec

(* While the log has one event at each place, what it takes for a          *)
(* protected identifier a local source gave, and a member's signature      *)
(* counts only when it did.                                                *)
THEOREM SourcesAreRespected ==
  ASSUME LocalsSigned
  PROVE  Spec => []((\A e \in Range(fels) : ~Contested(e)) => ProtectedFromLocal /\ MemberConsents)
<1> DEFINE Single == \A e \in Range(fels) : ~Contested(e)
<1>1. SourcesInv => (Single => ProtectedFromLocal /\ MemberConsents)
  <2> SUFFICES ASSUME SourcesInv, Single PROVE ProtectedFromLocal /\ MemberConsents
    OBVIOUS
  <2>1. \A i \in DOMAIN fels : fels[i] \in Range(fels)
    BY DEF Range
  <2> QED BY <2>1 DEF SourcesInv, GivenOrContested, ProtectedFromLocal, MemberConsents, Given,
                      LocalsSigned
<1> QED BY <1>1, SourcesInvariant, PTL
=============================================================================
