-------------------------- MODULE DelegationProofs --------------------------
(***************************************************************************)
(* Proofs about Delegation for every set of events, messages and roles:    *)
(* type correctness, that a delegated event is accepted with an accepted   *)
(* event that seals it, that the delegator accepts only what came from its *)
(* own controller, and that a delegated rotation gives way only to one     *)
(* that was sealed later.                                                  *)
(***************************************************************************)
EXTENDS Delegation, SequenceFacts, FiniteSetTheorems

-----------------------------------------------------------------------------
(* Events                                                                  *)

(* What the assumption says of an event.                                   *)
LEMMA EventFacts ==
  ASSUME NEW e \in Events
  PROVE  /\ Pre(e) \in Pres /\ Sn(e) \in 0..MaxSn /\ Sn(e) \in Nat
         /\ Ilk(e) \in {"icp", "rot", "ixn", "dip", "drt"}
         /\ Delegated(e) => Pre(e) = "dele"
         /\ Inceptive(e) => Sn(e) = 0
         /\ Ev[e].seals \in Seq(Events)
         /\ \A s \in ToSet(Ev[e].seals) : Delegated(s)
         /\ e # NoEvent
<1>1. Ev[e] \in EventType /\ MaxSn \in Nat /\ NoEvent \notin Events
  BY DelegationAssumption, HeldAssumption
<1>2. /\ Ev[e].pre \in Pres /\ Ev[e].sn \in 0..MaxSn /\ Ev[e].seals \in Seq(Events)
      /\ Ev[e].ilk \in {"icp", "rot", "ixn", "dip", "drt"}
  BY <1>1 DEF EventType
<1>3. /\ Ev[e].ilk \in {"icp", "dip"} => Ev[e].sn = 0
      /\ Ev[e].ilk \in {"dip", "drt"} => Ev[e].pre = "dele"
      /\ \A s \in ToSet(Ev[e].seals) : Ev[s].ilk \in {"dip", "drt"}
  BY DelegationAssumption
<1> QED BY <1>1, <1>2, <1>3 DEF Pre, Sn, Ilk, Delegated, Inceptive

(* The messages of a role.                                                 *)
LEMMA MessageFacts ==
  ASSUME NEW r \in DOMAIN Sent, NEW m \in Sent[r]
  PROVE  m.event \in Events /\ m.sn \in 0..MaxSn \cup {NoSn} /\ m.local \in BOOLEAN
<1>1. m \in MessageType
  BY DelegationAssumption
<1> QED BY <1>1 DEF MessageType

(* What is last at a place of a log was accepted.                          *)
LEMMA LastAtFacts ==
  ASSUME LogsHeld, NEW p \in Pres, NEW n \in 0..MaxSn
  PROVE  LastAt(p, n) = NoEvent \/ LastAt(p, n) \in fons
<1>1. kels[p][n] \in Seq(Events) /\ ToSet(kels[p][n]) \subseteq fons
  BY DEF LogsHeld
<1> QED BY <1>1, LastIn DEF LastAt

(* The event that a search or a couple finds seals the event and was       *)
(* accepted.                                                               *)
LEMMA LastSealingFacts ==
  ASSUME LogsHeld, NEW e \in Events, LastSealing(e) # NoEvent
  PROVE  LastSealing(e) \in fons /\ Seals(LastSealing(e), e)
<1> DEFINE S == SealingSns(e)
           n == CHOOSE i \in S : \A m \in S : i <= m
<1>1. S # {} /\ S \in SUBSET Nat /\ S \subseteq 0..MaxSn
  BY HeldAssumption DEF LastSealing, SealingSns
<1>2. n \in S
  BY <1>1, LeastExists
<1>3. LastSealing(e) = LastAt("boss", n) /\ n \in 0..MaxSn /\ Seals(LastAt("boss", n), e)
  BY <1>1, <1>2 DEF LastSealing, SealingSns
<1> HIDE DEF n
<1> QED BY <1>3, LastAtFacts DEF Pres

(* The event the search for a seal answers with is accepted and seals the  *)
(* delegated event (Kever.fetchDelegatingEvent).                           *)
LEMMA DelegatingFacts ==
  ASSUME LogsHeld, NEW e \in Events, NEW sn \in 0..MaxSn \cup {NoSn}, NEW eager,
         Delegating(e, sn, eager) # NoEvent
  PROVE  Delegating(e, sn, eager) \in fons /\ Seals(Delegating(e, sn, eager), e)
<1>1. CASE sn = NoSn
  BY <1>1, LastSealingFacts DEF Delegating
<1>2. CASE sn # NoSn
  BY <1>2, LastAtFacts DEF Delegating, Pres
<1> QED BY <1>1, <1>2

-----------------------------------------------------------------------------
(* The outcomes of processEvent                                            *)

(* The delegating event that an accepted event is recorded with.           *)
SealedBy(e, by) ==
  IF Delegated(e) /\ role # "delegate"
  THEN /\ by \in fons /\ Seals(by, e)
       /\ Superseding(e) => Original # NoEvent /\ LaterDelegation(by)
  ELSE by = NoEvent
Accept(e, from, local) ==
  /\ Accepting(e, local)
  /\ \E by : Log(e, from, by, local) /\ SealedBy(e, by)
(* The logs are left alone; an event comes to wait for the delegator's     *)
(* controller only if it is local.                                         *)
LogsKept == UNCHANGED <<role, kever, kels, fons, stale>>
Keep(e, from) ==
  /\ LogsKept
  /\ aess' = Approved(e, from)
  /\ \E to : Move(e, from, to) /\ (to = "del" /\ Delegated(e) /\ role = "delegator" => source'[e] = "local")
  /\ udes' \in [Events -> 0..MaxSn \cup {NoSn}]
  /\ source' = source \/ \E l \in BOOLEAN : Sourced(e, l)

(* Noting a seal source couple keeps its type.                             *)
LEMMA CoupleType ==
  ASSUME TypeOK, NEW e \in Events, NEW from, NEW to, NEW sn \in 0..MaxSn \cup {NoSn},
         Couple(e, from, to, sn)
  PROVE  udes' \in [Events -> 0..MaxSn \cup {NoSn}]
BY DEF Couple, TypeOK, NoSn

(* Noting where an event came from keeps its type, and what came from the  *)
(* local controller stays so.                                              *)
LEMMA SourcedFacts ==
  ASSUME TypeOK, NEW e \in Events, NEW local \in BOOLEAN, Sourced(e, local)
  PROVE  /\ source' \in [Events -> {"none", "remote", "local"}]
         /\ \A d \in Events : source[d] = "local" => source'[d] = "local"
         /\ local => source'[e] = "local"
BY DEF Sourced, TypeOK

(* Escrowing an event keeps what was accepted; among those that wait for   *)
(* the delegator are only delegated events it may be asked about.          *)
LEMMA HoldKeeps ==
  ASSUME TypeOK, NEW e \in Events, NEW sn \in 0..MaxSn \cup {NoSn}, NEW local \in BOOLEAN,
         NEW from, NEW to, to # "del" \/ ~Delegated(e) \/ Accepting(e, local),
         Hold(e, from, to, sn, local)
  PROVE  Keep(e, from)
<1>1. udes' \in [Events -> 0..MaxSn \cup {NoSn}]
  BY CoupleType DEF Hold
<1>2. ASSUME to = "del", Delegated(e), role = "delegator" PROVE source'[e] = "local"
  <2>1. local
    BY <1>2 DEF Accepting, Misfit, LocallyDelegated
  <2> QED BY <2>1, SourcedFacts DEF Hold
<1> QED BY <1>1, <1>2 DEF Hold, Keep, LogsKept

(* So does dropping an event.                                              *)
LEMMA DiscardKeeps ==
  ASSUME TypeOK, NEW e \in Events, NEW from, Discard(e, from)
  PROVE  Keep(e, from)
<1>1. udes' \in [Events -> 0..MaxSn \cup {NoSn}]
  BY CoupleType DEF Discard
<1> QED BY <1>1 DEF Discard, Keep, LogsKept

(* So does a late copy of an accepted event.                               *)
LEMMA DuplicateKeeps ==
  ASSUME TypeOK, NEW e \in Events, NEW from, LogDuplicate(e, from)
  PROVE  Keep(e, from)
<1>1. udes' \in [Events -> 0..MaxSn \cup {NoSn}]
  BY CoupleType DEF LogDuplicate, NoSn
<1>2. /\ Sourced(e, TRUE) /\ Move(e, from, "kels") /\ aess' = Approved(e, from) /\ LogsKept
  BY DEF LogDuplicate, LogsKept
<1>3. \E to : Move(e, from, to) /\ to # "del"
  BY <1>2
<1> QED BY <1>1, <1>2, <1>3 DEF Keep

(* An event that a delegator has to seal is accepted with an accepted      *)
(* event that does, or nothing is accepted.                                *)
LEMMA ValidateDelegation ==
  ASSUME TypeOK, LogsHeld, NEW e \in Events, NEW sn \in 0..MaxSn \cup {NoSn},
         NEW local \in BOOLEAN, NEW eager, NEW from, Accepting(e, local), Delegated(e),
         validateDelegation(e, sn, local, eager, from)
  PROVE  Keep(e, from) \/ Accept(e, from, local)
<1>1. CASE role = "delegate"
  BY <1>1 DEF validateDelegation, Accept, SealedBy
<1>2. CASE role # "delegate" /\ ~Known("boss")
  BY <1>2, HoldKeeps DEF validateDelegation
<1>3. CASE role # "delegate" /\ Known("boss")
  <2> DEFINE b == Delegating(e, sn, eager)
  <2>1. CASE sn = 0 /\ Discard(e, from)
    BY <2>1, DiscardKeeps
  <2>2. CASE Missing(e, sn, local, eager, from)
    <3>1. KeptCouple(sn) \in 0..MaxSn \cup {NoSn}
      BY DEF KeptCouple
    <3> QED BY <2>2, <3>1, HoldKeeps DEF Missing
  <2>3. CASE b # NoEvent /\ Superseding(e) /\ Supersede(e, b, local, eager, from)
    <3>1. b \in fons /\ Seals(b, e) /\ b \in Events
      BY <2>3, DelegatingFacts DEF TypeOK
    <3>2. Sn(b) \in 0..MaxSn
      BY <3>1, EventFacts
    <3>3. CASE Hold(e, from, "pd", Sn(b), local)
      BY <3>2, <3>3, HoldKeeps
    <3>4. CASE Discard(e, from)
      BY <3>4, DiscardKeeps
    <3>5. CASE Original # NoEvent /\ LaterDelegation(b) /\ Log(e, from, b, local)
      BY <3>1, <3>5, <1>3 DEF Accept, SealedBy
    <3> QED BY <2>3, <3>3, <3>4, <3>5 DEF Supersede
  <2>4. CASE b # NoEvent /\ ~Superseding(e) /\ Log(e, from, b, local)
    <3>1. b \in fons /\ Seals(b, e)
      BY <2>4, DelegatingFacts
    <3> QED BY <3>1, <2>4, <1>3 DEF Accept, SealedBy
  <2> QED BY <1>3, <2>1, <2>2, <2>3, <2>4 DEF validateDelegation
<1> QED BY <1>1, <1>2, <1>3

(* An event that is processed is accepted, or nothing that was accepted    *)
(* changes.                                                                *)
LEMMA ProcessCases ==
  ASSUME TypeOK, LogsHeld, NEW e \in Events, NEW sn \in 0..MaxSn \cup {NoSn},
         NEW local \in BOOLEAN, NEW eager, NEW from,
         processEvent(e, sn, local, eager, from)
  PROVE  Keep(e, from) \/ Accept(e, from, local)
<1>1. CASE Hold(e, from, "oo", sn, local)
  BY <1>1, HoldKeeps
<1>2. CASE Hold(e, from, "ld", NoSn, TRUE)
  BY <1>2, HoldKeeps DEF NoSn
<1>3. CASE LogDuplicate(e, from)
  BY <1>3, DuplicateKeeps
<1>4. CASE Discard(e, from)
  BY <1>4, DiscardKeeps
<1>5. CASE Hold(e, from, "mf", sn, local)
  BY <1>5, HoldKeeps
<1>6. CASE Hold(e, from, "ps", sn, local)
  BY <1>6, HoldKeeps
<1>7. CASE Accepting(e, local) /\ ~Delegated(e) /\ Log(e, from, NoEvent, local)
  BY <1>7 DEF Accept, SealedBy
<1>8. CASE Accepting(e, local) /\ Delegated(e) /\ Hold(e, from, "del", sn, local)
  BY <1>8, HoldKeeps
<1>9. CASE Accepting(e, local) /\ Delegated(e) /\ validateDelegation(e, sn, local, eager, from)
  BY <1>9, ValidateDelegation
<1> QED BY <1>1, <1>2, <1>3, <1>4, <1>5, <1>6, <1>7, <1>8, <1>9 DEF processEvent

-----------------------------------------------------------------------------
(* Steps that leave the logs alone                                         *)

(* An approval names an accepted event that seals the approved one.        *)
Approving(e, from) == from = "confirm" => Known("boss") /\ Seals(kever["boss"].said, e)

(* Moving an event between escrows keeps their types.                      *)
LEMMA MoveType ==
  ASSUME TypeOK, NEW e \in Events, NEW from, NEW to, Move(e, from, to)
  PROVE  /\ escrow' \in [Escrows -> SUBSET Events]
         /\ escrow'["del"] \subseteq escrow["del"] \cup {e}
         /\ to # "del" => escrow'["del"] \subseteq escrow["del"]
BY DEF Move, TypeOK, Escrows

(* An approval given while an event waits names an accepted event that     *)
(* seals it.                                                               *)
LEMMA ApprovedFacts ==
  ASSUME DelegationInv, NEW e \in Events, NEW from, Approving(e, from), aess' = Approved(e, from)
  PROVE  /\ aess' \in [Events -> Events \cup {NoEvent}]
         /\ \A d \in Events : aess'[d] # NoEvent =>
              aess'[d] \in fons /\ Delegated(d) /\ Seals(aess'[d], d)
         /\ \A d \in Events : aess[d] # NoEvent => aess'[d] # NoEvent
<1>1. CASE from = "confirm"
  <2> DEFINE b == kever["boss"].said
  <2>1. b \in fons /\ b \in Events /\ b # NoEvent /\ Seals(b, e)
    BY <1>1 DEF Approving, DelegationInv, TipsEstablished, TypeOK, Known, Pres
  <2>2. Delegated(e)
    BY <2>1, EventFacts DEF Seals
  <2>3. aess' = [aess EXCEPT ![e] = b]
    BY <1>1 DEF Approved
  <2> HIDE DEF b
  <2> QED BY <2>1, <2>2, <2>3 DEF DelegationInv, TypeOK, SealsHeld
<1>2. CASE from # "confirm"
  BY <1>2 DEF Approved, DelegationInv, TypeOK, SealsHeld
<1> QED BY <1>1, <1>2

(* A step that accepts nothing keeps the invariant.                        *)
LEMMA KeepInv ==
  ASSUME DelegationInv, NEW e \in Events, NEW from, Approving(e, from), Keep(e, from)
  PROVE  DelegationInv'
<1> USE DEF DelegationInv
<1>1. LogsKept /\ aess' = Approved(e, from)
  BY DEF Keep
<1>2. PICK to : /\ Move(e, from, to)
                /\ to = "del" /\ Delegated(e) /\ role = "delegator" => source'[e] = "local"
  BY DEF Keep
<1>3. /\ source' \in [Events -> {"none", "remote", "local"}]
      /\ \A d \in Events : source[d] = "local" => source'[d] = "local"
  BY SourcedFacts DEF Keep, TypeOK
<1>4. escrow' \in [Escrows -> SUBSET Events]
  BY <1>2, MoveType
<1>5. udes' \in [Events -> 0..MaxSn \cup {NoSn}]
  BY DEF Keep
<1>6. TypeOK'
  BY <1>1, <1>3, <1>4, <1>5, ApprovedFacts DEF TypeOK, LogsKept
<1>7. LogsHeld' /\ TipsEstablished' /\ IsFiniteSet(stale')
  BY <1>1 DEF LogsKept, LogsHeld, TipsEstablished, Known, TipSn
<1>8. SealsHeld'
  BY <1>1, ApprovedFacts DEF LogsKept, SealsHeld
<1>9. SealsRecorded'
  <2> SUFFICES ASSUME role' # "delegate", NEW d \in fons', Delegated(d)
               PROVE  aess'[d] \in fons' /\ Seals(aess'[d], d)
    BY DEF SealsRecorded
  <2>1. aess[d] \in fons /\ d \in Events /\ fons \subseteq Events
    BY <1>1 DEF LogsKept, SealsRecorded, TypeOK
  <2>2. aess[d] # NoEvent
    BY <2>1, EventFacts
  <2> QED BY <1>1, <2>1, <2>2, ApprovedFacts DEF LogsKept
<1>10. DelegatorProtected'
  <2> SUFFICES ASSUME role' = "delegator", NEW d \in fons' \cup escrow'["del"], Delegated(d)
               PROVE  source'[d] = "local"
    BY DEF DelegatorProtected
  <2>1. CASE d \in fons \cup escrow["del"]
    <3>1. source[d] = "local" /\ d \in Events
      BY <1>1, <2>1 DEF LogsKept, DelegatorProtected, TypeOK, Escrows
    <3> QED BY <3>1, <1>3
  <2>2. CASE d \notin fons \cup escrow["del"]
    <3>1. d = e /\ to = "del"
      BY <1>1, <1>2, <2>2, MoveType DEF LogsKept
    <3> QED BY <3>1, <1>1, <1>2 DEF LogsKept
  <2> QED BY <2>1, <2>2
<1> QED BY <1>6, <1>7, <1>8, <1>9, <1>10

-----------------------------------------------------------------------------
(* Acceptance                                                              *)

(* Where an event is in order.                                             *)
LEMMA OrderFacts ==
  ASSUME DelegationInv, NEW e \in Events, InOrder(e)
  PROVE  IF Known(Pre(e))
         THEN /\ ~Inceptive(e) /\ TipSn(Pre(e)) \in 0..MaxSn /\ Sn(kever[Pre(e)].est) \in 0..MaxSn
              /\ Sn(kever[Pre(e)].est) <= TipSn(Pre(e))
              /\ Sn(e) > Sn(kever[Pre(e)].est) \/ (Ilk(e) = "drt" /\ Sn(e) = Sn(kever[Pre(e)].est))
              /\ Ilk(e) = "ixn" => Sn(e) = TipSn(Pre(e)) + 1
              /\ Sn(e) <= TipSn(Pre(e)) + 1
         ELSE Inceptive(e) /\ Sn(e) = 0
<1> DEFINE p == Pre(e)
<1>1. p \in Pres /\ Sn(e) \in Nat /\ (Inceptive(e) => Sn(e) = 0)
  BY EventFacts
<1>2. CASE Known(p)
  <2>1. /\ kever[p].said \in Events /\ kever[p].est \in Events
        /\ kever[p].said # kever[p].est => Sn(kever[p].est) < Sn(kever[p].said)
    BY <1>1, <1>2 DEF DelegationInv, TipsEstablished, TypeOK, TipSn
  <2>2. Sn(kever[p].said) \in 0..MaxSn /\ Sn(kever[p].est) \in 0..MaxSn /\ MaxSn \in Nat
    BY <2>1, EventFacts, HeldAssumption
  <2>3. Sn(kever[p].est) <= TipSn(p)
    BY <2>1, <2>2 DEF TipSn
  <2>4. /\ ~Inceptive(e)
        /\ \/ Sn(e) = TipSn(p) + 1
           \/ Ilk(e) = "rot" /\ Sn(e) \in (Sn(kever[p].est) + 1)..TipSn(p)
           \/ Ilk(e) = "drt" /\ Sn(e) \in Sn(kever[p].est)..TipSn(p)
    BY <1>2 DEF InOrder
  <2>5. TipSn(p) \in 0..MaxSn
    BY <2>2 DEF TipSn
  <2>6. Sn(e) > Sn(kever[p].est) \/ (Ilk(e) = "drt" /\ Sn(e) = Sn(kever[p].est))
    <3> DEFINE t == TipSn(p)
               k == Sn(kever[p].est)
               n == Sn(e)
    <3>1. t \in Int /\ k \in Int /\ n \in Int /\ k <= t
      BY <1>1, <2>2, <2>3, <2>5
    <3>2. n = t + 1 \/ (n \in (k + 1)..t) \/ (Ilk(e) = "drt" /\ n \in k..t)
      BY <2>4
    <3> HIDE DEF t, k, n
    <3>3. n > k \/ (Ilk(e) = "drt" /\ n = k)
      BY <3>1, <3>2
    <3> QED BY <3>3 DEF k, n
  <2>7. Ilk(e) = "ixn" => Sn(e) = TipSn(p) + 1
    BY <2>4
  <2>8. Sn(e) <= TipSn(p) + 1
    BY <1>1, <2>2, <2>4, <2>5
  <2>9. /\ ~Inceptive(e) /\ TipSn(p) \in 0..MaxSn /\ Sn(kever[p].est) \in 0..MaxSn
        /\ Sn(kever[p].est) <= TipSn(p)
    BY <2>2, <2>3, <2>4, <2>5
  <2> QED BY ONLY <1>2, <2>6, <2>7, <2>8, <2>9
<1>3. CASE ~Known(p)
  BY <1>1, <1>3, EventFacts DEF InOrder
<1> QED BY <1>2, <1>3

(* Acceptance keeps the types.                                             *)
LEMMA AcceptType ==
  ASSUME DelegationInv, NEW e \in Events, NEW from, NEW by \in Events \cup {NoEvent},
         NEW local \in BOOLEAN, Log(e, from, by, local)
  PROVE  TypeOK' /\ IsFiniteSet(stale') /\ kels' \in [Pres -> [0..MaxSn -> Seq(Events)]]
<1> DEFINE p == Pre(e)
           n == Sn(e)
           L(q, m) == {d \in Events : Pre(d) = q /\ Sn(d) = m}
<1> USE DEF DelegationInv
<1>1. p \in Pres /\ n \in 0..MaxSn /\ e \in L(p, n)
  BY EventFacts
<1>2. kels \in [Pres -> [0..MaxSn -> Seq(Events)]] /\ kels[p][n] \in Seq(L(p, n))
  BY <1>1 DEF LogsHeld, TypeOK
<1>3. Append(kels[p][n], e) \in Seq(L(p, n)) /\ Append(kels[p][n], e) \in Seq(Events)
  <2>1. kels[p][n] \in Seq(Events)
    BY <1>1, <1>2
  <2> QED BY <1>1, <1>2, <2>1, AppendFacts
<1>4. kels' = [kels EXCEPT ![p][n] = IF e \in ToSet(kels[p][n]) THEN kels[p][n] ELSE Append(kels[p][n], e)]
  BY DEF Log
<1>5. kels' \in [Pres -> [0..MaxSn -> Seq(Events)]]
  BY <1>1, <1>2, <1>3, <1>4
<1>6. \A q \in Pres, m \in 0..MaxSn : kels'[q][m] \in Seq(L(q, m))
  <2> SUFFICES ASSUME NEW q \in Pres, NEW m \in 0..MaxSn PROVE kels'[q][m] \in Seq(L(q, m))
    OBVIOUS
  <2>1. kels[q][m] \in Seq(L(q, m))
    BY DEF TypeOK
  <2>2. CASE q = p /\ m = n
    BY <1>1, <1>2, <1>3, <1>4, <2>2
  <2>3. CASE ~(q = p /\ m = n)
    BY <1>1, <1>2, <1>4, <2>1, <2>3
  <2> QED BY <2>2, <2>3
<1>7. kever' \in [Pres -> [said : Events \cup {NoEvent}, est : Events \cup {NoEvent}]]
  BY <1>1 DEF Log, TypeOK
<1>8. stale' \subseteq Events /\ IsFiniteSet(stale') /\ Cardinality(stale') <= MaxStale
  <2>1. Cardinality(stale') <= Cardinality(stale) /\ IsFiniteSet(stale')
    BY FS_Subset DEF Log
  <2>2. Cardinality(stale') \in Nat /\ Cardinality(stale) \in Nat /\ MaxStale \in Nat
    BY <2>1, FS_CardinalityType, HeldAssumption
  <2> QED BY <2>1, <2>2 DEF Log, TypeOK
<1>9. escrow' \in [Escrows -> SUBSET Events]
  BY MoveType DEF Log
<1>10. udes' \in [Events -> 0..MaxSn \cup {NoSn}]
  BY CoupleType DEF Log, NoSn
<1>11. source' \in [Events -> {"none", "remote", "local"}]
  BY SourcedFacts DEF Log
<1>12. aess' \in [Events -> Events \cup {NoEvent}]
  BY DEF Log, TypeOK
<1>13. fons' \subseteq Events /\ role' \in DOMAIN Sent
  BY DEF Log, TypeOK
<1> QED BY <1>5, <1>6, <1>7, <1>8, <1>9, <1>10, <1>11, <1>12, <1>13 DEF TypeOK

(* What an acceptance rests on is an accepted event, or none.              *)
LEMMA SealedByType ==
  ASSUME TypeOK, NEW e \in Events, NEW by, SealedBy(e, by)
  PROVE  by \in Events \cup {NoEvent} /\ (by # NoEvent => by \in fons)
  BY DEF SealedBy, TypeOK

(* After an acceptance every place still has its own events.               *)
LEMMA AcceptLogs ==
  ASSUME DelegationInv, NEW e \in Events, NEW from, NEW local \in BOOLEAN,
         NEW by, Log(e, from, by, local), SealedBy(e, by)
  PROVE  LogsHeld'
<1> DEFINE p == Pre(e)
           n == Sn(e)
<1>1. p \in Pres /\ n \in 0..MaxSn
  BY EventFacts
<1>2. kels \in [Pres -> [0..MaxSn -> Seq(Events)]]
  BY DEF DelegationInv, LogsHeld
<1>3. kels' \in [Pres -> [0..MaxSn -> Seq(Events)]]
  BY SealedByType, AcceptType DEF DelegationInv
<1>4. ASSUME NEW q \in Pres, NEW m \in 0..MaxSn PROVE ToSet(kels'[q][m]) \subseteq fons \cup {e}
  <2>1. ToSet(kels[q][m]) \subseteq fons
    BY DEF DelegationInv, LogsHeld
  <2>2. CASE q = p /\ m = n
    <3> DEFINE new == IF e \in ToSet(kels[p][n]) THEN kels[p][n] ELSE Append(kels[p][n], e)
    <3>1. kels' = [kels EXCEPT ![p][n] = new]
      BY DEF Log
    <3> HIDE DEF new, p, n
    <3>2. kels'[p][n] = new
      BY <1>1, <1>2, <3>1
    <3>3. kels[p][n] \in Seq(Events)
      BY <1>1, <1>2
    <3>4. ToSet(Append(kels[p][n], e)) = ToSet(kels[p][n]) \cup {e}
      BY <3>3, AppendToSet
    <3> QED BY <2>1, <2>2, <3>2, <3>4 DEF new
  <2>3. CASE ~(q = p /\ m = n)
    <3>1. kels'[q][m] = kels[q][m]
      BY <1>1, <1>2, <2>3 DEF Log
    <3> QED BY <2>1, <3>1
  <2> QED BY <2>2, <2>3
<1>5. fons' = fons \cup {e}
  BY DEF Log
<1> QED BY <1>3, <1>4, <1>5 DEF LogsHeld

(* After an acceptance the key state is an event of its log and rests on   *)
(* an establishment event of that log.                                     *)
LEMMA AcceptTips ==
  ASSUME DelegationInv, NEW e \in Events, NEW from, NEW local \in BOOLEAN, Accepting(e, local),
         NEW by, Log(e, from, by, local), SealedBy(e, by)
  PROVE  TipsEstablished'
<1> DEFINE p == Pre(e)
<1>1. p \in Pres /\ e # NoEvent /\ Sn(e) \in Nat
  BY EventFacts
<1>2. kever \in [Pres -> [said : Events \cup {NoEvent}, est : Events \cup {NoEvent}]]
  BY DEF DelegationInv, TypeOK
<1>3. fons' = fons \cup {e}
  BY DEF Log
<1>4. ASSUME NEW q \in Pres, q # p
      PROVE  kever'[q] = kever[q] /\ \A n \in 0..MaxSn : kels'[q][n] = kels[q][n]
  BY <1>1, <1>2, <1>4 DEF Log, DelegationInv, LogsHeld
<1>5. kever'[p] = [said |-> e, est |-> IF Ilk(e) = "ixn" THEN kever[p].est ELSE e]
  BY <1>1, <1>2 DEF Log
<1>6. ASSUME Ilk(e) = "ixn"
      PROVE  /\ kever[p].est \in fons /\ Pre(kever[p].est) = p /\ Ilk(kever[p].est) # "ixn"
             /\ Sn(kever[p].est) < Sn(e)
  <2>1. InOrder(e) /\ ~Inceptive(e)
    BY <1>6 DEF Accepting, Inceptive
  <2>2. Known(p)
    BY <2>1, OrderFacts
  <2>3. Sn(kever[p].est) < Sn(e)
    BY <1>6, <2>1, <2>2, OrderFacts
  <2> QED BY <1>1, <2>2, <2>3 DEF DelegationInv, TipsEstablished
<1> SUFFICES ASSUME NEW q \in Pres
             PROVE  IF kever'[q].said # NoEvent
                    THEN /\ kever'[q].said \in fons' /\ kever'[q].est \in fons'
                         /\ Pre(kever'[q].said) = q /\ Pre(kever'[q].est) = q
                         /\ Ilk(kever'[q].est) # "ixn"
                         /\ kever'[q].said # kever'[q].est =>
                              Ilk(kever'[q].said) = "ixn" /\ Sn(kever'[q].est) < Sn(kever'[q].said)
                    ELSE kever'[q].est = NoEvent /\ \A n \in 0..MaxSn : kels'[q][n] = <<>>
  BY DEF TipsEstablished, Known, TipSn
<1>7. CASE q = p
  BY <1>1, <1>3, <1>5, <1>6, <1>7
<1>8. CASE q # p
  BY <1>3, <1>4, <1>8 DEF DelegationInv, TipsEstablished, Known, TipSn
<1> QED BY <1>7, <1>8

(* After an acceptance every delegated event has its seal on record, and   *)
(* the delegator was asked only where it may be.                           *)
LEMMA AcceptSeals ==
  ASSUME DelegationInv, NEW e \in Events, NEW from, NEW local \in BOOLEAN, Accepting(e, local),
         NEW by, Log(e, from, by, local), SealedBy(e, by)
  PROVE  SealsHeld' /\ SealsRecorded' /\ DelegatorProtected'
<1>1. /\ by \in Events \cup {NoEvent} /\ (by # NoEvent => by \in fons)
      /\ fons' = fons \cup {e} /\ role' = role
      /\ aess' = [aess EXCEPT ![e] = IF by = NoEvent THEN @ ELSE by]
  BY SealedByType DEF DelegationInv, Log
<1>2. aess \in [Events -> Events \cup {NoEvent}] /\ fons \subseteq Events
  BY DEF DelegationInv, TypeOK
<1>3. by # NoEvent => Delegated(e) /\ Seals(by, e)
  BY DEF SealedBy
<1>4. SealsHeld'
  BY <1>1, <1>2, <1>3 DEF DelegationInv, SealsHeld
<1>5. SealsRecorded'
  <2> SUFFICES ASSUME role' # "delegate", NEW d \in fons', Delegated(d)
               PROVE  aess'[d] \in fons' /\ Seals(aess'[d], d)
    BY DEF SealsRecorded
  <2>1. CASE d = e
    <3>1. by \in fons /\ Seals(by, e) /\ by # NoEvent
      BY <1>1, <2>1 DEF SealedBy, Seals
    <3> QED BY <1>1, <1>2, <2>1, <3>1
  <2>2. CASE d # e
    BY <1>1, <1>2, <2>2 DEF DelegationInv, SealsRecorded
  <2> QED BY <2>1, <2>2
<1>6. DelegatorProtected'
  <2> SUFFICES ASSUME role' = "delegator", NEW d \in fons' \cup escrow'["del"], Delegated(d)
               PROVE  source'[d] = "local"
    BY DEF DelegatorProtected
  <2>1. /\ \A x \in Events : source[x] = "local" => source'[x] = "local"
        /\ local => source'[e] = "local"
        /\ escrow'["del"] \subseteq escrow["del"]
    BY SourcedFacts, MoveType DEF Log, DelegationInv
  <2>2. CASE d = e
    BY <1>1, <2>1, <2>2 DEF Accepting, Misfit, LocallyDelegated
  <2>3. CASE d # e
    <3>1. d \in fons \cup escrow["del"] /\ d \in Events
      BY <1>1, <1>2, <2>1, <2>3 DEF DelegationInv, TypeOK, Escrows
    <3> QED BY <1>1, <2>1, <3>1 DEF DelegationInv, DelegatorProtected
  <2> QED BY <2>2, <2>3
<1> QED BY <1>4, <1>5, <1>6

(* An acceptance keeps the invariant.                                      *)
LEMMA AcceptInv ==
  ASSUME DelegationInv, NEW e \in Events, NEW from, NEW local \in BOOLEAN,
         Accept(e, from, local)
  PROVE  DelegationInv'
<1>1. PICK by : Log(e, from, by, local) /\ SealedBy(e, by)
  BY DEF Accept
<1>2. Accepting(e, local) /\ by \in Events \cup {NoEvent}
  BY <1>1, SealedByType DEF Accept, DelegationInv
<1>3. TypeOK' /\ IsFiniteSet(stale')
  BY <1>1, <1>2, AcceptType
<1>4. LogsHeld'
  BY <1>1, AcceptLogs
<1>5. TipsEstablished'
  BY <1>1, <1>2, AcceptTips
<1>6. SealsHeld' /\ SealsRecorded' /\ DelegatorProtected'
  BY <1>1, <1>2, AcceptSeals
<1> QED BY <1>3, <1>4, <1>5, <1>6 DEF DelegationInv

-----------------------------------------------------------------------------
(* Steps                                                                   *)

(* Every step leaves the logs alone or accepts an event, or an event's     *)
(* time runs out.                                                          *)
Kept == \E e \in Events, from \in Escrows \cup {"arrival", "confirm"} :
          Approving(e, from) /\ Keep(e, from)
Accepted(e) == \E from : \E local \in BOOLEAN : Accept(e, from, local)
(* Every step keeps what was accepted, accepts one event, or lets an       *)
(* escrowed event expire.                                                  *)
LEMMA StepCases ==
  ASSUME DelegationInv, Next
  PROVE  Kept \/ (\E e \in Events : Accepted(e)) \/ \E e \in Events : Expire(e)
<1> USE DEF DelegationInv
<1>1. CASE \E m \in Sent[role] : Receive(m)
  <2>1. PICK m \in Sent[role] : processEvent(m.event, m.sn, m.local, FALSE, "arrival")
    BY <1>1 DEF Receive
  <2>2. m.event \in Events /\ m.sn \in 0..MaxSn \cup {NoSn} /\ m.local \in BOOLEAN
    BY MessageFacts DEF TypeOK
  <2>3. Keep(m.event, "arrival") \/ Accept(m.event, "arrival", m.local)
    BY <2>1, <2>2, ProcessCases
  <2> QED BY <2>2, <2>3 DEF Kept, Accepted, Approving
<1>2. ASSUME NEW x \in Retried, NEW e \in Events, RetryEscrowed(x, e)
      PROVE  Keep(e, x) \/ Accept(e, x, source[e] = "local")
  <2>1. PICK sn \in 0..MaxSn \cup {NoSn}, eager \in BOOLEAN :
          processEvent(e, sn, source[e] = "local", eager, x)
    <3>1. CASE x \in {"oo", "ld"} /\ RetryAs(e, NoSn, FALSE, x)
      BY <3>1 DEF RetryAs
    <3>2. CASE x \in {"ps", "pd"} /\ RetryAs(e, udes[e], TRUE, x)
      BY <3>2 DEF RetryAs, TypeOK
    <3>3. CASE x = "del" /\ aess[e] # NoEvent /\ RetryAs(e, Sn(aess[e]), FALSE, x)
      <4>1. Sn(aess[e]) \in 0..MaxSn
        BY <3>3, EventFacts DEF TypeOK
      <4> QED BY <3>3, <4>1 DEF RetryAs
    <3> QED BY <1>2, <3>1, <3>2, <3>3 DEF RetryEscrowed
  <2> QED BY <2>1, ProcessCases
<1>3. CASE \E x \in Retried, e \in Events : RetryEscrowed(x, e) \/ DropEscrowed(x, e)
  <2>1. PICK x \in Retried, e \in Events : RetryEscrowed(x, e) \/ DropEscrowed(x, e)
    BY <1>3
  <2>2. Keep(e, x) \/ Accept(e, x, source[e] = "local")
    BY <1>2, <2>1, DiscardKeeps DEF DropEscrowed
  <2>3. x \in Escrows /\ x # "confirm"
    BY DEF Retried, Escrows
  <2> QED BY <2>2, <2>3 DEF Kept, Accepted, Approving
<1>4. CASE \E e \in Events : Confirm(e)
  <2>1. PICK e \in Events : Confirm(e)
    BY <1>4
  <2>2. Known("boss") /\ Seals(kever["boss"].said, e)
    BY <2>1 DEF Confirm, Seals, Known
  <2>3. TipSn("boss") \in 0..MaxSn
    BY <2>2, EventFacts DEF TypeOK, Pres, Known, TipSn
  <2>4. Keep(e, "confirm") \/ Accept(e, "confirm", TRUE)
    BY <2>1, <2>3, ProcessCases, DiscardKeeps DEF Confirm
  <2> QED BY <2>2, <2>4 DEF Kept, Accepted, Approving
<1> QED BY <1>1, <1>3, <1>4 DEF Next

(* The end of the time in an escrow keeps the invariant.                   *)
LEMMA ExpireInv ==
  ASSUME DelegationInv, NEW e \in Events, Expire(e)
  PROVE  DelegationInv'
<1> USE DEF DelegationInv
<1>1. stale' = stale \cup {e} /\ UNCHANGED <<role, kever, kels, fons, aess, udes, escrow, source>>
  BY DEF Expire
<1>2. IsFiniteSet(stale') /\ Cardinality(stale') <= MaxStale
  <2>1. IsFiniteSet(stale') /\ Cardinality(stale') = Cardinality(stale) + 1
    BY <1>1, FS_AddElement DEF Expire
  <2>2. Cardinality(stale) < MaxStale /\ Cardinality(stale) \in Nat /\ MaxStale \in Nat
    BY FS_CardinalityType, HeldAssumption DEF Expire
  <2> QED BY <2>1, <2>2
<1>3. TypeOK'
  BY <1>1, <1>2 DEF TypeOK
<1> QED BY <1>1, <1>2, <1>3
     DEF LogsHeld, TipsEstablished, SealsHeld, SealsRecorded, DelegatorProtected, Known, TipSn

(* Every step keeps the invariant.                                         *)
LEMMA StepInv == DelegationInv /\ [Next]_vars => DelegationInv'
<1> SUFFICES ASSUME DelegationInv, [Next]_vars PROVE DelegationInv'
  OBVIOUS
<1>1. CASE Next
  <2>1. CASE Kept
    BY <2>1, KeepInv DEF Kept
  <2>2. CASE \E e \in Events : Accepted(e)
    BY <2>2, AcceptInv DEF Accepted
  <2>3. CASE \E e \in Events : Expire(e)
    BY <2>3, ExpireInv
  <2> QED BY <1>1, <2>1, <2>2, <2>3, StepCases
<1>2. CASE UNCHANGED vars
  <2>1. UNCHANGED <<role, kever, kels, fons, aess, udes, escrow, source, stale>>
    BY <1>2 DEF vars
  <2> QED BY <2>1 DEF DelegationInv, TypeOK, LogsHeld, TipsEstablished, SealsHeld,
                      SealsRecorded, DelegatorProtected, Known, TipSn
<1> QED BY <1>1, <1>2

(* What a role starts with.                                                *)
StartEvent(p, n) ==
  LET e == Start(p)[n] IN
    /\ e \in fons /\ e \in Events /\ Pre(e) = p /\ Sn(e) = n - 1
    /\ IF n = 1 THEN Inceptive(e) ELSE Ilk(e) = "ixn" /\ Ev[e].prior = Start(p)[n - 1]
    /\ Delegated(e) => \E b \in ToSet(Start("boss")) : Seals(b, e)
(* The events accepted at the start of an identifier are its own, and all  *)
(* were first seen.                                                        *)
LEMMA StartSets ==
  ASSUME Init, NEW p \in Pres
  PROVE  /\ Start(p) \in Seq({e \in Events : Pre(e) = p}) /\ Start(p) \in Seq(Events)
         /\ ToSet(Start(p)) \subseteq fons /\ ToSet(Start(p)) \subseteq Events
<1> role \in DOMAIN Sent
  BY DEF Init
<1>1. Start(p) \in Seq({e \in Events : Pre(e) = p})
  BY HeldAssumption DEF Start
<1>2. Start(p) \in Seq(Events)
  BY <1>1, SeqMonotonic
<1>3. ToSet(Start(p)) \subseteq fons
  BY DEF Init
<1> QED BY <1>1, <1>2, <1>3, ToSetIn

(* Each stands at its place in its log.                                    *)
LEMMA StartFacts ==
  ASSUME Init, NEW p \in Pres, NEW n \in DOMAIN Start(p)
  PROVE  StartEvent(p, n)
<1> role \in DOMAIN Sent
  BY DEF Init
<1>1. Start(p) \in Seq({e \in Events : Pre(e) = p}) /\ ToSet(Start(p)) \subseteq fons
  BY StartSets
<1>2. ToSet(Start("boss")) \subseteq Events
  BY StartSets DEF Pres
<1>3. Start(p)[n] \in ToSet(Start(p)) /\ Start(p)[n] \in {e \in Events : Pre(e) = p}
  BY <1>1 DEF ToSet
<1>4. /\ Sn(Start(p)[n]) = n - 1
      /\ IF n = 1 THEN Inceptive(Start(p)[n])
         ELSE Ilk(Start(p)[n]) = "ixn" /\ Ev[Start(p)[n]].prior = Start(p)[n - 1]
      /\ Delegated(Start(p)[n]) => \E b \in ToSet(Start("boss")) : Start(p)[n] \in ToSet(Ev[b].seals)
  BY HeldAssumption DEF Start
<1> QED BY <1>1, <1>2, <1>3, <1>4, EventFacts DEF Seals, StartEvent

(* The key states at the start.                                            *)
LEMMA InitTips ==
  ASSUME Init
  PROVE  /\ kever \in [Pres -> [said : Events \cup {NoEvent}, est : Events \cup {NoEvent}]]
         /\ TipsEstablished
<1>1. ASSUME NEW p \in Pres, Start(p) # <<>>
      PROVE  LET l == Last(Start(p))
                 k == Start(p)[1]
             IN  /\ l \in fons /\ k \in fons /\ l \in Events /\ k \in Events
                 /\ Pre(l) = p /\ Pre(k) = p /\ Ilk(k) # "ixn"
                 /\ l # k => Ilk(l) = "ixn" /\ Sn(k) < Sn(l)
  <2>1. /\ 1 \in DOMAIN Start(p) /\ Len(Start(p)) \in DOMAIN Start(p)
        /\ Last(Start(p)) = Start(p)[Len(Start(p))]
        /\ Len(Start(p)) \in Nat /\ Len(Start(p)) >= 1
    BY <1>1, StartSets DEF Last
  <2>5. StartEvent(p, 1) /\ StartEvent(p, Len(Start(p)))
    BY <2>1, StartFacts
  <2>2. /\ Inceptive(Start(p)[1]) /\ Sn(Start(p)[1]) = 0
        /\ Start(p)[1] \in fons /\ Pre(Start(p)[1]) = p
    BY <2>5 DEF StartEvent
  <2>3. /\ Last(Start(p)) \in fons /\ Pre(Last(Start(p))) = p
        /\ Sn(Last(Start(p))) = Len(Start(p)) - 1
        /\ Len(Start(p)) # 1 => Ilk(Last(Start(p))) = "ixn"
    BY <2>1, <2>5 DEF StartEvent
  <2>4. Start(p)[1] \in Events /\ Last(Start(p)) \in Events
    BY <2>1, <2>5 DEF StartEvent
  <2> QED BY <2>1, <2>2, <2>3, <2>4 DEF Inceptive
<1>2. ASSUME NEW p \in Pres
      PROVE  kever[p] = IF Start(p) = <<>> THEN [said |-> NoEvent, est |-> NoEvent]
                        ELSE [said |-> Last(Start(p)), est |-> Start(p)[1]]
  BY DEF Init
<1>3. kever \in [Pres -> [said : Events \cup {NoEvent}, est : Events \cup {NoEvent}]]
  BY <1>1 DEF Init
<1>4. ASSUME NEW p \in Pres, Start(p) = <<>>, NEW n \in 0..MaxSn PROVE kels[p][n] = <<>>
  <2>1. Len(Start(p)) = 0 /\ n \in Nat
    BY <1>4, HeldAssumption
  <2> QED BY <2>1 DEF Init
<1>5. TipsEstablished
  <2> SUFFICES ASSUME NEW p \in Pres
               PROVE  IF Known(p)
                      THEN /\ kever[p].said \in fons /\ kever[p].est \in fons
                           /\ Pre(kever[p].said) = p /\ Pre(kever[p].est) = p
                           /\ Ilk(kever[p].est) # "ixn"
                           /\ kever[p].said # kever[p].est =>
                                Ilk(kever[p].said) = "ixn" /\ Sn(kever[p].est) < TipSn(p)
                      ELSE kever[p].est = NoEvent /\ \A n \in 0..MaxSn : kels[p][n] = <<>>
    BY DEF TipsEstablished
  <2>1. CASE Start(p) = <<>>
    <3>1. kever[p] = [said |-> NoEvent, est |-> NoEvent]
      BY <1>2, <2>1
    <3>2. ~Known(p) /\ kever[p].est = NoEvent
      BY <3>1 DEF Known
    <3>3. \A n \in 0..MaxSn : kels[p][n] = <<>>
      BY <1>4, <2>1
    <3> QED BY <3>2, <3>3
  <2>2. CASE Start(p) # <<>>
    <3>1. Last(Start(p)) # NoEvent
      BY <1>1, <2>2, EventFacts
    <3>2. kever[p].said = Last(Start(p)) /\ kever[p].est = Start(p)[1]
      <4>1. kever[p] = [said |-> Last(Start(p)), est |-> Start(p)[1]]
        BY <1>2, <2>2
      <4> QED BY <4>1
    <3>3. Known(p)
      BY <3>1, <3>2 DEF Known
    <3> QED BY <1>1, <2>2, <3>2, <3>3 DEF TipSn
  <2> QED BY <2>1, <2>2
<1> QED BY <1>3, <1>5

(* The logs at the start.                                                  *)
LEMMA InitLogs ==
  ASSUME Init
  PROVE  /\ LogsHeld
         /\ \A p \in Pres, n \in 0..MaxSn : kels[p][n] \in Seq({e \in Events : Pre(e) = p /\ Sn(e) = n})
<1>1. ASSUME NEW p \in Pres, NEW n \in 0..MaxSn
      PROVE  /\ kels[p][n] \in Seq({e \in Events : Pre(e) = p /\ Sn(e) = n})
             /\ kels[p][n] \in Seq(Events) /\ ToSet(kels[p][n]) \subseteq fons
  <2>1. kels[p][n] = IF n < Len(Start(p)) THEN <<Start(p)[n + 1]>> ELSE <<>>
    BY DEF Init
  <2>2. CASE n < Len(Start(p))
    <3>1. n \in Nat /\ n + 1 \in DOMAIN Start(p) /\ n + 1 - 1 = n
      BY <2>2, StartSets, HeldAssumption
    <3> DEFINE d == Start(p)[n + 1]
    <3>2. d \in fons /\ Pre(d) = p /\ Sn(d) = n /\ d \in Events
      <4>1. StartEvent(p, n + 1)
        BY <3>1, StartFacts
      <4> QED BY <3>1, <4>1 DEF StartEvent
    <3> HIDE DEF d
    <3>3. kels[p][n] = <<d>>
      BY <2>1, <2>2 DEF d
    <3>4. d \in {e \in Events : Pre(e) = p /\ Sn(e) = n}
      BY <3>2
    <3>5. ToSet(<<d>>) = {d}
      BY DEF ToSet
    <3> QED BY <3>2, <3>3, <3>4, <3>5
  <2>3. CASE ~(n < Len(Start(p)))
    BY <2>1, <2>3 DEF ToSet
  <2> QED BY <2>2, <2>3
<1>2. kels \in [Pres -> [0..MaxSn -> Seq(Events)]]
  <2>1. kels = [p \in Pres |-> [n \in 0..MaxSn |-> kels[p][n]]]
    BY DEF Init
  <2> QED BY <1>1, <2>1
<1> QED BY <1>1, <1>2 DEF LogsHeld

(* The seals on record at the start.                                       *)
LEMMA InitSeals ==
  ASSUME Init
  PROVE  /\ aess \in [Events -> Events \cup {NoEvent}] /\ fons \subseteq Events
         /\ SealsHeld /\ SealsRecorded
<1>1. fons \subseteq Events
  BY StartSets DEF Init
<1>2. ToSet(Start("boss")) \subseteq fons
  BY StartSets DEF Pres
<1>3. ASSUME NEW e \in fons, Delegated(e)
      PROVE  aess[e] \in ToSet(Start("boss")) /\ Seals(aess[e], e)
  <2>1. PICK p \in Pres : e \in ToSet(Start(p))
    BY DEF Init
  <2>2. PICK n \in DOMAIN Start(p) : e = Start(p)[n]
    BY <2>1 DEF ToSet
  <2>3. \E b \in ToSet(Start("boss")) : Seals(b, e)
    BY <1>3, <2>2, StartFacts DEF StartEvent
  <2>4. aess[e] = CHOOSE b \in ToSet(Start("boss")) : Seals(b, e)
    BY <1>1, <1>3 DEF Init
  <2> QED BY <2>3, <2>4
<1>4. ASSUME NEW e \in Events, ~(e \in fons /\ Delegated(e)) PROVE aess[e] = NoEvent
  BY <1>4 DEF Init
<1>5. aess \in [Events -> Events \cup {NoEvent}]
  <2>1. aess = [e \in Events |-> aess[e]]
    BY DEF Init
  <2>2. ASSUME NEW e \in Events PROVE aess[e] \in Events \cup {NoEvent}
    BY <1>1, <1>2, <1>3, <1>4
  <2> QED BY <2>1, <2>2
<1>6. SealsHeld /\ SealsRecorded
  BY <1>1, <1>2, <1>3, <1>4 DEF SealsHeld, SealsRecorded
<1> QED BY <1>1, <1>5, <1>6

(* The invariant holds at the start.                                       *)
LEMMA InitInv == Init => DelegationInv
<1> SUFFICES ASSUME Init PROVE DelegationInv
  OBVIOUS
<1>1. stale = {} /\ role \in DOMAIN Sent /\ MaxStale \in Nat
  BY HeldAssumption DEF Init
<1>2. IsFiniteSet(stale) /\ Cardinality(stale) <= MaxStale
  BY <1>1, FS_EmptySet
<1>3. source \in [Events -> {"none", "remote", "local"}]
  BY DEF Init
<1>4. udes \in [Events -> 0..MaxSn \cup {NoSn}] /\ escrow \in [Escrows -> SUBSET Events]
  BY DEF Init
<1>5. TypeOK
  BY <1>1, <1>2, <1>3, <1>4, InitTips, InitLogs, InitSeals DEF TypeOK
<1>6. DelegatorProtected
  <2> SUFFICES ASSUME role = "delegator", NEW e \in fons \cup escrow["del"], Delegated(e)
               PROVE  source[e] = "local"
    BY DEF DelegatorProtected
  <2>1. e \in fons /\ e \in Events
    BY InitSeals DEF Init, Escrows
  <2>2. Misfit(e, FALSE)
    BY DEF Misfit, LocallyDelegated
  <2> QED BY <2>1, <2>2 DEF Init
<1> QED BY <1>2, <1>5, <1>6, InitTips, InitLogs, InitSeals DEF DelegationInv

(* The invariant of every behaviour, and what it says of the types.        *)
THEOREM DelegationInvariant == Spec => []DelegationInv
<1>1. Init => DelegationInv
  BY InitInv
<1>2. DelegationInv /\ [Next]_vars => DelegationInv'
  BY StepInv
<1> QED BY <1>1, <1>2, PTL DEF Spec

(* Every variable keeps its type, for any events, messages and roles.      *)
THEOREM TypeCorrect == Spec => []TypeOK
<1>1. DelegationInv => TypeOK
  BY DEF DelegationInv
<1> QED BY <1>1, DelegationInvariant, PTL

(* Whoever is not the delegate accepts a delegated event only with an      *)
(* accepted event of the delegator that seals it, and keeps a record of    *)
(* such an event (Kever.validateDelegation, db.aess).                      *)
THEOREM SealsAreRecorded == Spec => []SealsRecorded
<1>1. DelegationInv => SealsRecorded
  BY DEF DelegationInv
<1> QED BY <1>1, DelegationInvariant, PTL

(* A delegator asks its controller about, and accepts, only delegated      *)
(* events that came from its own controller (Kever.valSigsWigsDel).        *)
THEOREM DelegatorIsProtected == Spec => []DelegatorProtected
<1>1. DelegationInv => DelegatorProtected
  BY DEF DelegationInv
<1> QED BY <1>1, DelegationInvariant, PTL

-----------------------------------------------------------------------------
(* What gives way                                                          *)

(* A delegated rotation that replaces the latest establishment event at or *)
(* below it was sealed by the delegator at a later sequence number.        *)
LEMMA AcceptGivesWay ==
  ASSUME DelegationInv, NEW e \in Events, Accepted(e),
         role # "delegate", EstOf("dele") # NoEvent, EstOf("dele")' # EstOf("dele"),
         Sn(EstOf("dele")') <= Sn(EstOf("dele"))
  PROVE  /\ Sn(EstOf("dele")') = Sn(EstOf("dele"))
         /\ LaterSeal(aess'[EstOf("dele")'], EstOf("dele")', aess[EstOf("dele")], EstOf("dele"))
<1> DEFINE o == kever["dele"].est
<1>a. PICK from : \E local \in BOOLEAN : Accept(e, from, local)
  BY DEF Accepted
<1>b. PICK local \in BOOLEAN : Accept(e, from, local)
  BY <1>a
<1>1. PICK by : Accepting(e, local) /\ Log(e, from, by, local) /\ SealedBy(e, by)
  BY <1>b DEF Accept
<1>2. kever \in [Pres -> [said : Events \cup {NoEvent}, est : Events \cup {NoEvent}]]
  BY DEF DelegationInv, TypeOK
<1>3. Pre(e) \in Pres /\ "dele" \in Pres /\ e # NoEvent
  BY EventFacts DEF Pres
<1>4. Pre(e) = "dele" /\ Ilk(e) # "ixn" /\ EstOf("dele")' = e
  BY <1>1, <1>2, <1>3 DEF Log, EstOf
<1>5. Known("dele")
  BY <1>3 DEF DelegationInv, TipsEstablished, EstOf
<1>6. InOrder(e)
  BY <1>1 DEF Accepting
<1>7. /\ Sn(o) \in Nat /\ TipSn("dele") \in Nat /\ Sn(e) \in Nat /\ Sn(o) <= TipSn("dele")
      /\ Ilk(e) = "drt" /\ Sn(e) = Sn(o)
  <2>1. /\ Sn(o) \in 0..MaxSn /\ TipSn("dele") \in 0..MaxSn /\ Sn(o) <= TipSn("dele")
        /\ Sn(e) > Sn(o) \/ (Ilk(e) = "drt" /\ Sn(e) = Sn(o))
    BY <1>4, <1>5, <1>6, OrderFacts
  <2>2. Sn(e) <= Sn(o)
    BY <1>4 DEF EstOf
  <2>3. Sn(e) \in 0..MaxSn /\ MaxSn \in Nat
    BY EventFacts, HeldAssumption
  <2> QED BY <2>1, <2>2, <2>3
<1>8. Delegated(e) /\ by \in fons /\ by # NoEvent
  BY <1>1, <1>7 DEF Delegated, SealedBy, Seals
<1>9. \/ kever["dele"].said = o
      \/ Ilk(kever["dele"].said) = "ixn" /\ Sn(o) < TipSn("dele")
  BY <1>3, <1>5 DEF DelegationInv, TipsEstablished
<1>10. Ilk(o) # "ixn" /\ o \in Events /\ kever["dele"].said \in Events
  BY <1>3, <1>5 DEF DelegationInv, TipsEstablished, TypeOK
<1>11. Superseding(e)
  <2>1. ~(Sn(e) = TipSn("dele") /\ Ilk(kever["dele"].said) = "ixn")
    BY <1>7, <1>9, <1>10
  <2>2. Sn(e) # TipSn("dele") + 1
    BY <1>7
  <2> QED BY <1>7, <2>1, <2>2 DEF Superseding
<1>12. Original # NoEvent /\ LaterDelegation(by)
  BY <1>1, <1>8, <1>11 DEF SealedBy
<1>13. kever["dele"].said = o
  <2>1. Delegated(kever["dele"].said)
    BY <1>10, <1>12 DEF DelegationInv, SealsHeld, Original
  <2> QED BY <1>9, <2>1 DEF Delegated
<1>14. aess'[e] = by
  BY <1>1, <1>8 DEF Log, DelegationInv, TypeOK
<1>15. Sn(by) > Sn(aess[o])
  BY <1>12, <1>13 DEF LaterDelegation, Original
<1> QED BY <1>4, <1>7, <1>14, <1>15 DEF LaterSeal, EstOf

(* A delegated rotation gives way only when it is the latest, and only to  *)
(* one that was sealed later: rotations under it are final (the superseding*)
(* rules of Kever.validateDelegation).                                     *)
THEOREM RotationsGiveWayLater == Spec => RotationsGiveWay
<1>1. DelegationInv /\ [Next]_vars =>
        [ /\ role # "delegate"
          /\ EstOf("dele") # NoEvent /\ EstOf("dele")' # EstOf("dele")
          /\ Sn(EstOf("dele")') <= Sn(EstOf("dele"))
          => /\ Sn(EstOf("dele")') = Sn(EstOf("dele"))
             /\ LaterSeal(aess'[EstOf("dele")'], EstOf("dele")', aess[EstOf("dele")], EstOf("dele"))
        ]_vars
  <2> SUFFICES ASSUME DelegationInv, [Next]_vars,
                      role # "delegate", EstOf("dele") # NoEvent, EstOf("dele")' # EstOf("dele"),
                      Sn(EstOf("dele")') <= Sn(EstOf("dele"))
               PROVE  /\ Sn(EstOf("dele")') = Sn(EstOf("dele"))
                      /\ LaterSeal(aess'[EstOf("dele")'], EstOf("dele")', aess[EstOf("dele")], EstOf("dele"))
    OBVIOUS
  <2>1. kever' # kever
    BY DEF EstOf
  <2>2. Next
    BY <2>1 DEF vars
  <2>3. CASE Kept \/ \E e \in Events : Expire(e)
    BY <2>1, <2>3 DEF Kept, Keep, LogsKept, Expire
  <2>4. CASE \E e \in Events : Accepted(e)
    BY <2>4, AcceptGivesWay
  <2> QED BY <2>2, <2>3, <2>4, StepCases
<1> QED BY <1>1, DelegationInvariant, PTL DEF Spec, RotationsGiveWay

-----------------------------------------------------------------------------
(* Chains                                                                  *)

(* Both logs are one chain at the start.                                   *)
LEMMA InitChains ==
  ASSUME Init PROVE ChainsIntact
<1> SUFFICES ASSUME NEW p \in Pres, Known(p)
             PROVE  /\ LastAt(p, TipSn(p)) = kever[p].said
                    /\ \A n \in 1..TipSn(p) : Ev[LastAt(p, n)].prior = LastAt(p, n - 1)
  BY DEF ChainsIntact
<1> DEFINE l == Len(Start(p))
<1>1. Start(p) # <<>> /\ kever[p].said = Last(Start(p))
  <2>1. kever[p] = IF Start(p) = <<>> THEN [said |-> NoEvent, est |-> NoEvent]
                   ELSE [said |-> Last(Start(p)), est |-> Start(p)[1]]
    BY DEF Init
  <2>2. CASE Start(p) = <<>>
    <3>1. kever[p] = [said |-> NoEvent, est |-> NoEvent]
      BY <2>1, <2>2
    <3> QED BY <3>1 DEF Known
  <2>3. CASE Start(p) # <<>>
    <3>1. kever[p] = [said |-> Last(Start(p)), est |-> Start(p)[1]]
      BY <2>1, <2>3
    <3> QED BY <2>3, <3>1
  <2> QED BY <2>2, <2>3
<1>2. l \in Nat /\ l >= 1 /\ DOMAIN Start(p) = 1..l /\ Last(Start(p)) = Start(p)[l]
  BY <1>1, StartSets DEF Last
<1>3. StartEvent(p, l)
  BY <1>2, StartFacts
<1>4. TipSn(p) = l - 1 /\ MaxSn \in Nat /\ l - 1 \in 0..MaxSn
  <2>1. TipSn(p) = l - 1 /\ Start(p)[l] \in Events
    BY <1>1, <1>2, <1>3 DEF TipSn, StartEvent
  <2>2. Sn(Start(p)[l]) \in 0..MaxSn
    BY <2>1, EventFacts
  <2> QED BY <1>1, <1>2, <2>1, <2>2, HeldAssumption DEF TipSn
<1>5. ASSUME NEW n \in 0..(l - 1) PROVE LastAt(p, n) = Start(p)[n + 1]
  <2>1. n < l /\ n \in 0..MaxSn
    BY <1>2, <1>4
  <2>2. kels[p][n] = <<Start(p)[n + 1]>>
    BY <2>1 DEF Init
  <2> QED BY <2>2 DEF LastAt, Last
<1>6. LastAt(p, TipSn(p)) = kever[p].said
  BY <1>1, <1>2, <1>4, <1>5
<1>7. ASSUME NEW n \in 1..TipSn(p) PROVE Ev[LastAt(p, n)].prior = LastAt(p, n - 1)
  <2>1. /\ n \in 0..(l - 1) /\ n - 1 \in 0..(l - 1) /\ n + 1 \in DOMAIN Start(p) /\ n + 1 # 1
        /\ n + 1 - 1 = n /\ n - 1 + 1 = n
    BY <1>2, <1>4
  <2>2. Ev[Start(p)[n + 1]].prior = Start(p)[n]
    <3>1. StartEvent(p, n + 1)
      BY <2>1, StartFacts
    <3> QED BY <2>1, <3>1 DEF StartEvent
  <2>3. LastAt(p, n) = Start(p)[n + 1] /\ LastAt(p, n - 1) = Start(p)[n]
    BY <2>1, <1>5
  <2> QED BY <2>2, <2>3
<1> QED BY <1>6, <1>7

(* The last event at a place of a log, and the chain of a log.             *)
LastOf(k, p, n) == IF k[p][n] = <<>> THEN NoEvent ELSE Last(k[p][n])
ChainOf(k, v, p) ==
  v[p].said # NoEvent =>
    /\ LastOf(k, p, Sn(v[p].said)) = v[p].said
    /\ \A n \in 1..Sn(v[p].said) : Ev[LastOf(k, p, n)].prior = LastOf(k, p, n - 1)
(* Being one chain, identifier by identifier, in this state and the next.  *)
LEMMA ChainsAre ==
  /\ ChainsIntact <=> \A p \in Pres : ChainOf(kels, kever, p)
  /\ ChainsIntact' <=> \A p \in Pres : ChainOf(kels', kever', p)
  BY DEF ChainsIntact, ChainOf, LastOf, LastAt, Known, TipSn

(* The event at a place after an event is accepted there for the first     *)
(* time.                                                                   *)
LEMMA AcceptPlaces ==
  ASSUME DelegationInv, NEW e \in Events, NEW from, NEW by, NEW local, Log(e, from, by, local),
         e \notin fons
  PROVE  /\ LastOf(kels', Pre(e), Sn(e)) = e
         /\ \A q \in Pres, m \in 0..MaxSn :
              ~(q = Pre(e) /\ m = Sn(e)) => LastOf(kels', q, m) = LastAt(q, m)
<1> DEFINE p == Pre(e)
           n == Sn(e)
<1>1. p \in Pres /\ n \in 0..MaxSn
  BY EventFacts
<1>2. kels \in [Pres -> [0..MaxSn -> Seq(Events)]]
  BY DEF DelegationInv, LogsHeld
<1>3. kels[p][n] \in Seq(Events) /\ e \notin ToSet(kels[p][n])
  BY <1>1, <1>2 DEF DelegationInv, LogsHeld
<1>4. kels' = [kels EXCEPT ![p][n] = Append(kels[p][n], e)]
  BY <1>3 DEF Log
<1>5. kels'[p][n] = Append(kels[p][n], e)
  <2> DEFINE s == Append(kels[p][n], e)
  <2>1. kels' = [kels EXCEPT ![p][n] = s]
    BY <1>4
  <2> HIDE DEF s, p, n
  <2> QED BY <1>1, <1>2, <2>1 DEF s
<1>6. Append(kels[p][n], e) # <<>> /\ Last(Append(kels[p][n], e)) = e
  BY <1>3, AppendFacts DEF Last
<1>7. LastOf(kels', p, n) = e
  BY <1>5, <1>6 DEF LastOf
<1>8. ASSUME NEW q \in Pres, NEW m \in 0..MaxSn, ~(q = p /\ m = n)
      PROVE  LastOf(kels', q, m) = LastAt(q, m)
  <2>1. kels'[q][m] = kels[q][m]
    BY <1>1, <1>2, <1>4, <1>8
  <2> QED BY <2>1 DEF LastAt, LastOf
<1> QED BY <1>7, <1>8

(* Accepting an event that was not accepted before leaves both logs one    *)
(* chain.                                                                  *)
LEMMA AcceptChains ==
  ASSUME DelegationInv, ChainsIntact, NEW e \in Events, Accepted(e),
         \A p \in Pres : kever'[p].said # kever[p].said => kever'[p].said \notin fons
  PROVE  ChainsIntact'
<1> DEFINE p == Pre(e)
           n == Sn(e)
<1>a. PICK from : \E local \in BOOLEAN : Accept(e, from, local)
  BY DEF Accepted
<1>b. PICK local \in BOOLEAN : Accept(e, from, local)
  BY <1>a
<1>c. PICK by : Accepting(e, local) /\ Log(e, from, by, local)
  BY <1>b DEF Accept
<1>1. p \in Pres /\ n \in 0..MaxSn /\ n \in Nat /\ MaxSn \in Nat
  BY EventFacts, HeldAssumption
<1>2. kever \in [Pres -> [said : Events \cup {NoEvent}, est : Events \cup {NoEvent}]]
  BY DEF DelegationInv, TypeOK
<1>3. /\ kever'[p].said = e
      /\ \A q \in Pres : q # p => kever'[q] = kever[q]
  BY <1>c, <1>1, <1>2 DEF Log
<1> SUFFICES ASSUME NEW q \in Pres, kever'[q].said # NoEvent
             PROVE  /\ LastOf(kels', q, Sn(kever'[q].said)) = kever'[q].said
                    /\ \A m \in 1..Sn(kever'[q].said) :
                         Ev[LastOf(kels', q, m)].prior = LastOf(kels', q, m - 1)
  BY ChainsAre DEF ChainOf
<1>4. CASE e \in fons
  <2>1. kever[p].said = e /\ Known(p)
    BY <1>1, <1>3, <1>4, EventFacts DEF Known
  <2>2. LastAt(p, n) = e
    BY <1>1, <2>1 DEF ChainsIntact, TipSn
  <2>3. kels[p][n] \in Seq(Events) /\ kels[p][n] # <<>>
    BY <1>1, <2>2, EventFacts DEF DelegationInv, LogsHeld, LastAt
  <2>4. e \in ToSet(kels[p][n])
    BY <2>2, <2>3, LastIn DEF LastAt
  <2>5. kels' = kels
    BY <1>c, <1>1, <2>4 DEF Log, DelegationInv, LogsHeld
  <2>6. kever'[q].said = kever[q].said
    BY <1>3, <2>1
  <2>7. ChainOf(kels, kever, q)
    BY ChainsAre
  <2> QED BY <2>5, <2>6, <2>7 DEF ChainOf
<1>5. CASE e \notin fons
  <2>1. /\ LastOf(kels', p, n) = e
        /\ \A r \in Pres, m \in 0..MaxSn :
             ~(r = p /\ m = n) => LastOf(kels', r, m) = LastAt(r, m)
    BY <1>c, <1>5, AcceptPlaces
  <2>2. CASE q # p
    <3>1. Known(q) /\ kever'[q].said = kever[q].said
      BY <1>3, <2>2 DEF Known
    <3>2. TipSn(q) \in 0..MaxSn /\ Sn(kever'[q].said) = TipSn(q)
      BY <1>2, <3>1, EventFacts DEF Known, TipSn
    <3>3. \A m \in 0..MaxSn : LastOf(kels', q, m) = LastAt(q, m)
      BY <2>1, <2>2
    <3>4. /\ LastAt(q, TipSn(q)) = kever[q].said
          /\ \A m \in 1..TipSn(q) : Ev[LastAt(q, m)].prior = LastAt(q, m - 1)
      BY <3>1 DEF ChainsIntact
    <3>5. LastOf(kels', q, Sn(kever'[q].said)) = kever'[q].said
      BY <3>1, <3>2, <3>3, <3>4
    <3>6. ASSUME NEW m \in 1..Sn(kever'[q].said)
          PROVE  Ev[LastOf(kels', q, m)].prior = LastOf(kels', q, m - 1)
      <4>1. m \in 1..TipSn(q) /\ m \in 0..MaxSn /\ m - 1 \in 0..MaxSn
        BY <1>1, <3>2
      <4> QED BY <3>3, <3>4, <4>1
    <3> QED BY <3>5, <3>6
  <2>3. CASE q = p
    <3>1. kever'[q].said = e
      BY <1>3, <2>3
    <3>2. ASSUME NEW m \in 0..MaxSn, m # n PROVE LastOf(kels', p, m) = LastAt(p, m)
      BY <1>1, <2>1, <3>2
    <3>3. ASSUME NEW m \in 1..n PROVE Ev[LastOf(kels', p, m)].prior = LastOf(kels', p, m - 1)
      <4>1. InOrder(e) /\ Valid(e) /\ m - 1 \in 0..MaxSn /\ m \in 0..MaxSn /\ m - 1 # n /\ n > 0
        BY <1>c, <1>1 DEF Accepting
      <4>2. Known(p) /\ ~Inceptive(e) /\ TipSn(p) \in 0..MaxSn /\ n <= TipSn(p) + 1
        BY <4>1, OrderFacts
      <4>3. /\ LastAt(p, TipSn(p)) = kever[p].said
            /\ \A i \in 1..TipSn(p) : Ev[LastAt(p, i)].prior = LastAt(p, i - 1)
        BY <1>1, <4>2 DEF ChainsIntact
      <4>4. LastOf(kels', p, m - 1) = LastAt(p, m - 1)
        BY <3>2, <4>1
      <4>5. CASE m = n
        <5>1. Follows(e)
          BY <4>1, <4>2 DEF Valid
        <5>2. Ev[e].prior = LastAt(p, n - 1)
          <6>1. CASE n = TipSn(p) + 1
            <7>1. n - 1 = TipSn(p) /\ Ev[e].prior = kever[p].said
              BY <4>2, <5>1, <6>1 DEF Follows
            <7> QED BY <4>3, <7>1
          <6>2. CASE n # TipSn(p) + 1
            BY <5>1, <6>2 DEF Follows
          <6> QED BY <6>1, <6>2
        <5> QED BY <2>1, <4>4, <4>5, <5>2
      <4>6. CASE m # n
        <5>1. m \in 1..TipSn(p)
          BY <1>1, <4>2, <4>6
        <5> QED BY <3>2, <4>1, <4>3, <4>4, <4>6, <5>1
      <4> QED BY <4>5, <4>6
    <3> QED BY <2>1, <2>3, <3>1, <3>3
  <2> QED BY <2>2, <2>3
<1> QED BY <1>4, <1>5

(* Both logs stay one chain whose state is that of its last event as long  *)
(* as no log takes an event twice (Kever.rotate, Kever.logEvent).          *)
THEOREM ChainsStayIntact == Spec /\ Once => []LogsSound
<1>1. Init => ChainsIntact
  BY InitChains
<1>2. ASSUME DelegationInv, ChainsIntact, [Next]_vars,
             [\A p \in Pres : kever'[p].said # kever[p].said => kever'[p].said \notin fons]_vars
      PROVE  ChainsIntact'
  <2>1. CASE UNCHANGED <<kever, kels>>
    BY <1>2, <2>1 DEF ChainsIntact, Known, TipSn, LastAt
  <2>2. CASE ~UNCHANGED <<kever, kels>>
    <3>1. Next /\ \A p \in Pres : kever'[p].said # kever[p].said => kever'[p].said \notin fons
      BY <1>2, <2>2 DEF vars
    <3>2. ~Kept /\ ~(\E e \in Events : Expire(e))
      BY <2>2 DEF Kept, Keep, LogsKept, Expire
    <3> QED BY <1>2, <3>1, <3>2, StepCases, AcceptChains
  <2> QED BY <2>1, <2>2
<1>3. DelegationInv => TypeOK
  BY DEF DelegationInv
<1> QED BY <1>1, <1>2, <1>3, DelegationInvariant, PTL DEF Spec, Once, LogsSound

=============================================================================
