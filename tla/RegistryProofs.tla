--------------------------- MODULE RegistryProofs ---------------------------
(***************************************************************************)
(* Proofs about Registry for any transaction events, issuer's events and   *)
(* messages: type correctness, that what is accepted was sealed by the     *)
(* issuer, that a registry event has the receipts of enough of the backers *)
(* in force after it, and that the logs are chains.  Then about three      *)
(* modules beside it, each an instance over variables of its own: that     *)
(* what is saved of credentials has its whole chain, and none was saved    *)
(* over a revoked far node (Credentials); that notices of their state      *)
(* are true of the logs when saved, and not lost before (TxnStates); and   *)
(* that what an issuer creates stays in an escrow until it is complete, and*)
(* is complete only with all it needs (Issuance).                          *)
(***************************************************************************)
EXTENDS Registry, SequenceFacts, FiniteSetTheorems

-----------------------------------------------------------------------------
(* Events                                                                  *)

(* What the assumption says of an event.                                   *)
LEMMA EventFacts ==
  ASSUME RegistryAssumption, NEW e \in Events
  PROVE  /\ Ev[e] \in EventType /\ Pre(e) \in Pres /\ Key(e) \in ToSet(Places) /\ Sn(e) \in Nat
         /\ Ev[e].cuts \subseteq STRING /\ Ev[e].adds \subseteq STRING /\ Ev[e].reg \in Pres
         /\ Ilk(e) \in {"vcp", "vrt", "iss", "rev", "bis", "brv"}
         /\ Sn(e) = 0 <=> Ilk(e) \in {"vcp", "iss", "bis"}
         /\ OfRegistry(e) => Ev[e].reg = Pre(e)
         /\ Ev[e].toad \in Nat /\ e # NoEvent
<1>1. /\ Ev[e] \in EventType /\ <<Ev[e].pre, Ev[e].sn>> \in {Places[i] : i \in DOMAIN Places}
      /\ Ev[e].sn = 0 <=> Ev[e].ilk \in {"vcp", "iss", "bis"}
      /\ Ev[e].ilk \in {"vcp", "vrt"} => Ev[e].pre = Ev[e].reg
      /\ NoEvent \notin Events
  BY DEF RegistryAssumption
<1>2. /\ Ev[e].pre \in Pres /\ Ev[e].sn \in Nat /\ Ev[e].cuts \subseteq STRING
      /\ Ev[e].adds \subseteq STRING /\ Ev[e].reg \in Pres /\ Ev[e].toad \in Nat
      /\ Ev[e].ilk \in {"vcp", "vrt", "iss", "rev", "bis", "brv"}
  BY <1>1 DEF EventType
<1> QED BY <1>1, <1>2 DEF Pre, Sn, Key, Ilk, OfRegistry, ToSet

(* A log is a registry's or a credential's.                                *)
LEMMA LogKind ==
  ASSUME RegistryAssumption, NEW e \in Events
  PROVE  RegistryLog(Pre(e)) <=> OfRegistry(e)
<1>1. \A d \in Events : Pre(d) = Pre(e) => (OfRegistry(d) <=> OfRegistry(e))
  BY DEF RegistryAssumption, Pre, OfRegistry, Ilk
<1> QED BY <1>1 DEF RegistryLog

-----------------------------------------------------------------------------
(* The backers after the events of a log                                   *)

After(s, n) ==
  {b \in UNION {Ev[s[m]].adds : m \in 1..n} :
     \E m \in 1..n : b \in Ev[s[m]].adds /\ \A k \in (m + 1)..n : b \notin Ev[s[k]].cuts}
(* The backers after n events of a log, as a function of that log.         *)
LEMMA AfterIs ==
  ASSUME NEW p \in Pres, NEW n
  PROVE  /\ BackersAfter(p, n) = After(tels[p], n)
         /\ BackersAfter(p, n)' = After(tels'[p], n)
  BY DEF BackersAfter, After
(* The same of the whole log.                                              *)
LEMMA AfterLast ==
  ASSUME NEW p \in Pres
  PROVE  /\ BackersAfter(p, Len(tels[p])) = After(tels[p], Len(tels[p]))
         /\ BackersAfter(p, Len(tels[p]))' = After(tels'[p], Len(tels'[p]))
  BY DEF BackersAfter, After

(* The backers after n events are those added by one of them and cut by    *)
(* none after it.                                                          *)
LEMMA AfterMember ==
  ASSUME NEW s, NEW n \in Nat, NEW b
  PROVE  b \in After(s, n) <=>
           \E m \in 1..n : b \in Ev[s[m]].adds /\ \A k \in (m + 1)..n : b \notin Ev[s[k]].cuts
  BY DEF After

(* They depend on the first n events only, and an event takes away its     *)
(* cuts and then brings its adds (Tever.rotate).                           *)
LEMMA AfterSame ==
  ASSUME NEW s, NEW t, NEW n \in Nat, \A m \in 1..n : s[m] = t[m]
  PROVE  After(s, n) = After(t, n)
<1>1. ASSUME NEW b PROVE b \in After(s, n) <=> b \in After(t, n)
  <2>1. \A m \in 1..n : \A k \in (m + 1)..n : k \in 1..n
    OBVIOUS
  <2> QED BY <2>1, AfterMember
<1> QED BY <1>1

(* One event cuts and adds its backers.                                    *)
LEMMA AfterStep ==
  ASSUME NEW s, NEW n \in Nat
  PROVE  After(s, n + 1) = (After(s, n) \ Ev[s[n + 1]].cuts) \cup Ev[s[n + 1]].adds
<1> DEFINE c == Ev[s[n + 1]].cuts
           a == Ev[s[n + 1]].adds
<1>1. ASSUME NEW b, b \in After(s, n + 1) PROVE b \in (After(s, n) \ c) \cup a
  <2>1. PICK m \in 1..(n + 1) : /\ b \in Ev[s[m]].adds
                                /\ \A k \in (m + 1)..(n + 1) : b \notin Ev[s[k]].cuts
    BY <1>1, AfterMember
  <2>2. CASE m = n + 1
    BY <2>1, <2>2
  <2>3. CASE m # n + 1
    <3>1. m \in 1..n /\ n + 1 \in (m + 1)..(n + 1) /\ \A k \in (m + 1)..n : k \in (m + 1)..(n + 1)
      BY <2>3
    <3>2. b \in After(s, n)
      BY <2>1, <3>1, AfterMember
    <3> QED BY <2>1, <3>1, <3>2
  <2> QED BY <2>2, <2>3
<1>2. ASSUME NEW b, b \in (After(s, n) \ c) \cup a PROVE b \in After(s, n + 1)
  <2>1. CASE b \in a
    <3>1. n + 1 \in 1..(n + 1) /\ (n + 1 + 1)..(n + 1) = {}
      OBVIOUS
    <3> QED BY <2>1, <3>1, AfterMember
  <2>2. CASE b \notin a
    <3>1. PICK m \in 1..n : b \in Ev[s[m]].adds /\ \A k \in (m + 1)..n : b \notin Ev[s[k]].cuts
      BY <1>2, <2>2, AfterMember
    <3>2. b \notin c
      BY <1>2, <2>2
    <3>3. m \in 1..(n + 1) /\ \A k \in (m + 1)..(n + 1) : k = n + 1 \/ k \in (m + 1)..n
      OBVIOUS
    <3> QED BY <3>1, <3>2, <3>3, AfterMember
  <2> QED BY <2>1, <2>2
<1> QED BY <1>1, <1>2

-----------------------------------------------------------------------------
(* Outcomes                                                                *)

(* What every outcome of processEvent does to the tables beside the logs.  *)
Tables(e) ==
  /\ tvts' \in {tvts, tvts \cup {e}}
  /\ ancs' \in [Events -> Anchors \cup {NoEvent}]
  /\ tibs' \in [Events -> SUBSET STRING] /\ baks' \in [Events -> SUBSET STRING]
  /\ twes' \subseteq tvts'
  /\ escrow' \in [{"oo", "al"} -> [ToSet(Places) -> Seq(Events)]]
  /\ \A x \in {"oo", "al"}, k \in ToSet(Places) : escrow'[x][k] \in Seq({d \in tvts' : Key(d) = k})
(* An outcome that is not acceptance leaves the logs alone, and receipts   *)
(* change only of an event that is in order.                               *)
Stays(e) ==
  /\ UNCHANGED <<tever, states, tels>>
  /\ tibs' = tibs \/ (InOrder(e) /\ \A d \in Events : d # e => tibs'[d] = tibs[d])
Accepts(e) ==
  \E from : \E a \in Anchors \cup {NoEvent}, bigs \in SUBSET STRING :
    InOrder(e) /\ Valid(e) /\ Anchored(e, a) /\ FullyBacked(e, bigs) /\ Log(e, a, bigs, from)

(* Moving an event between escrows keeps them lists of stored events at    *)
(* their keys.                                                             *)
LEMMA MoveFacts ==
  ASSUME RegistryAssumption, RegistryInv, NEW e \in Events, NEW from, NEW to, Move(e, from, to),
         tvts \subseteq tvts', tvts' \subseteq Events, to \in {"oo", "al"} => e \in tvts'
  PROVE  /\ escrow' \in [{"oo", "al"} -> [ToSet(Places) -> Seq(Events)]]
         /\ \A x \in {"oo", "al"}, k \in ToSet(Places) :
              escrow'[x][k] \in Seq({d \in tvts' : Key(d) = k})
<1> DEFINE P == ToSet(Places)
           In(k) == {d \in tvts' : Key(d) = k}
<1>1. Key(e) \in P
  BY EventFacts
<1>2. escrow \in [{"oo", "al"} -> [P -> Seq(Events)]]
  BY DEF RegistryInv, QueuesHeld
<1>3. ASSUME NEW x \in {"oo", "al"}, NEW k \in P PROVE escrow[x][k] \in Seq(In(k))
  <2>1. escrow[x][k] \in Seq({d \in tvts : Key(d) = k})
    BY DEF RegistryInv, TypeOK
  <2> QED BY <2>1, SeqMonotonic
<1>4. ASSUME NEW x \in {"oo", "al"}, x = to
      PROVE  Put(escrow[x][Key(e)], e) \in Seq(In(Key(e)))
  <2>1. e \in In(Key(e))
    BY <1>4
  <2> QED BY <1>1, <1>3, <2>1 DEF Put
<1>5. ASSUME NEW x \in {"oo", "al"}, NEW k \in P PROVE escrow'[x][k] \in Seq(In(k))
  <2>1. CASE x = to
    <3> DEFINE new == Put(escrow[x][Key(e)], e)
    <3>1. escrow'[x] = [escrow[x] EXCEPT ![Key(e)] = new]
      BY <2>1 DEF Move
    <3>2. new \in Seq(In(Key(e)))
      BY <1>4, <2>1
    <3> HIDE DEF new
    <3> QED BY <1>1, <1>2, <1>3, <3>1, <3>2
  <2>2. CASE x # to /\ x = from
    <3>1. escrow'[x] = [escrow[x] EXCEPT ![Key(e)] = <<>>]
      BY <2>2 DEF Move
    <3>2. <<>> \in Seq(In(Key(e)))
      OBVIOUS
    <3> QED BY <1>1, <1>2, <1>3, <3>1, <3>2
  <2>3. CASE x # to /\ x # from
    <3>1. escrow'[x] = escrow[x]
      BY <2>3 DEF Move
    <3> QED BY <1>3, <3>1
  <2> QED BY <2>1, <2>2, <2>3
<1>6. ASSUME NEW x \in {"oo", "al"} PROVE escrow'[x] \in [P -> Seq(Events)]
  <2>1. ASSUME NEW k \in P PROVE escrow'[x][k] \in Seq(Events)
    <3>1. In(k) \subseteq Events /\ escrow'[x][k] \in Seq(In(k))
      BY <1>5
    <3> HIDE DEF In
    <3> QED BY <3>1, SeqMonotonic
  <2>2. escrow[x] \in [P -> Seq(Events)]
    BY <1>2
  <2>3. escrow'[x] = [k \in P |-> escrow'[x][k]]
    BY <2>2 DEF Move
  <2> QED BY <2>1, <2>3
<1>7. escrow' \in [{"oo", "al"} -> [P -> Seq(Events)]]
  BY <1>6 DEF Move
<1> QED BY <1>5, <1>7

(* Storing an anchor, receipts or the backers used keeps their types.      *)
LEMMA HoldFacts ==
  ASSUME RegistryAssumption, RegistryInv, NEW e \in Events
  PROVE  /\ \A a \in Anchors \cup {NoEvent} :
              HoldAnchor(e, a) => ancs' \in [Events -> Anchors \cup {NoEvent}]
         /\ \A B \in SUBSET STRING : HoldBigs(e, B) =>
              /\ tibs' \in [Events -> SUBSET STRING]
              /\ \A d \in Events : d # e => tibs'[d] = tibs[d]
         /\ HoldBacks(e) /\ Backers(e) \subseteq STRING => baks' \in [Events -> SUBSET STRING]
<1>1. /\ ancs \in [Events -> Anchors \cup {NoEvent}]
      /\ tibs \in [Events -> SUBSET STRING] /\ baks \in [Events -> SUBSET STRING]
  BY DEF RegistryInv, TypeOK, TablesHeld
<1>2. ASSUME NEW a \in Anchors \cup {NoEvent}, HoldAnchor(e, a)
      PROVE  ancs' \in [Events -> Anchors \cup {NoEvent}]
  BY <1>1, <1>2 DEF HoldAnchor
<1>3. ASSUME NEW B \in SUBSET STRING, HoldBigs(e, B)
      PROVE  /\ tibs' \in [Events -> SUBSET STRING]
             /\ \A d \in Events : d # e => tibs'[d] = tibs[d]
  BY <1>1, <1>3 DEF HoldBigs
<1>4. ASSUME HoldBacks(e), Backers(e) \subseteq STRING
      PROVE  baks' \in [Events -> SUBSET STRING]
  BY <1>1, <1>4 DEF HoldBacks
<1> QED BY <1>2, <1>3, <1>4

(* The backers of an event, of a registry or named by a credential event.  *)
LEMMA BackersType ==
  ASSUME RegistryAssumption, RegistryInv, NEW e \in Events, Valid(e)
  PROVE  Backers(e) \subseteq STRING
<1>1. CASE OfRegistry(e)
  <2>1. Tev(e) \in StateType
    BY EventFacts DEF RegistryInv, StatesHeld, Tev
  <2>2. Tev(e).baks \subseteq STRING
    BY <2>1 DEF StateType, NoTever
  <2>3. Ev[e].adds \subseteq STRING
    BY EventFacts
  <2>4. Backers(e) = (Tev(e).baks \ Ev[e].cuts) \cup Ev[e].adds
    BY <1>1 DEF Backers, OfRegistry
  <2> QED BY <2>2, <2>3, <2>4
<1>2. CASE Ilk(e) \in {"bis", "brv"}
  <2>1. Ev[e].ra \in Events
    BY <1>2 DEF Valid, Revokes, RegistryInv, TypeOK
  <2>2. ~OfRegistry(e)
    BY <1>2 DEF OfRegistry
  <2> QED BY <1>2, <2>1, <2>2 DEF Backers, RegistryInv, TablesHeld
<1>3. CASE ~OfRegistry(e) /\ Ilk(e) \notin {"bis", "brv"}
  BY <1>3 DEF Backers
<1> QED BY <1>1, <1>2, <1>3

(* An event that is processed is accepted in order, or leaves the logs     *)
(* alone.                                                                  *)
LEMMA ProcessOutcome ==
  ASSUME RegistryAssumption, RegistryInv, NEW e \in Events, NEW a \in Anchors \cup {NoEvent},
         NEW bigs \in SUBSET STRING, NEW from, processEvent(e, a, bigs, from)
  PROVE  Tables(e) /\ (Stays(e) \/ Accepts(e))
<1>1. /\ tvts \subseteq Events /\ twes \subseteq tvts
      /\ ancs \in [Events -> Anchors \cup {NoEvent}]
      /\ tibs \in [Events -> SUBSET STRING] /\ baks \in [Events -> SUBSET STRING]
  BY DEF RegistryInv, TypeOK, TablesHeld
<1>2. ASSUME Discard(e, from) PROVE Tables(e) /\ Stays(e)
  BY <1>1, <1>2, MoveFacts DEF Discard, Tables, Stays
<1>3. ASSUME HoldOutOfOrder(e, a, from) PROVE Tables(e) /\ Stays(e)
  <2>1. tvts' = tvts \cup {e}
    BY <1>3 DEF HoldOutOfOrder, Held
  <2> QED BY <1>1, <1>3, <2>1, MoveFacts, HoldFacts DEF HoldOutOfOrder, Tables, Stays
<1>4. ASSUME Valid(e), InOrder(e), HoldAnchorless(e, a, bigs, from) PROVE Tables(e) /\ Stays(e)
  <2>1. tvts' = tvts \cup {e} /\ bigs \cap Backers(e) \in SUBSET STRING
    BY <1>4 DEF HoldAnchorless, Held
  <2> QED BY <1>1, <1>4, <2>1, MoveFacts, HoldFacts, BackersType DEF HoldAnchorless, Tables, Stays
<1>5. ASSUME InOrder(e), HoldPartiallyWitnessed(e, a, bigs, from) PROVE Tables(e) /\ Stays(e)
  <2>1. tvts' = tvts \cup {e} /\ bigs \cap Backers(e) \in SUBSET STRING
    BY <1>5 DEF HoldPartiallyWitnessed, Held
  <2> QED BY <1>1, <1>5, <2>1, MoveFacts, HoldFacts DEF HoldPartiallyWitnessed, Tables, Stays
<1>6. ASSUME InOrder(e), Valid(e), Anchored(e, a), FullyBacked(e, bigs), Log(e, a, bigs, from)
      PROVE  Tables(e) /\ Accepts(e)
  <2>1. tvts' = tvts \cup {e} /\ bigs \cap Backers(e) \in SUBSET STRING
    BY <1>6 DEF Log, Held
  <2>2. Tables(e)
    BY <1>1, <1>6, <2>1, MoveFacts, HoldFacts, BackersType DEF Log, Tables
  <2> QED BY <1>6, <2>2 DEF Accepts
<1> QED BY <1>2, <1>3, <1>4, <1>5, <1>6 DEF processEvent

-----------------------------------------------------------------------------
(* The place of an event                                                   *)

(* The next event of a log has the number of events accepted, or, in the   *)
(* log of a registry after a restart, a number that is not above it.       *)
LEMMA OrderFacts ==
  ASSUME RegistryAssumption, RegistryInv, NEW e \in Events, InOrder(e)
  PROVE  /\ Sn(e) <= Len(tels[Pre(e)]) /\ Len(tels[Pre(e)]) \in Nat
         /\ restarts = 0 \/ ~OfRegistry(e) => Sn(e) = Len(tels[Pre(e)])
         /\ OfRegistry(e) => Tev(e) = tever[Pre(e)]
<1> DEFINE p == Pre(e)
           t == tels[p]
<1>1. p \in Pres /\ Sn(e) \in Nat /\ (OfRegistry(e) => Tev(e) = tever[p])
  BY EventFacts DEF Tev
<1>2. t \in Seq(Events) /\ Len(t) \in Nat
  BY <1>1 DEF RegistryInv, TablesHeld
<1>3. /\ tever[p] # NoTever => tever[p].sn < Len(t) /\ tever[p].sn \in Nat
      /\ tever[p] \in StateType
  BY <1>1 DEF RegistryInv, StatesHeld, StateType
<1>4. CASE Known(e) /\ OfRegistry(e)
  <2>1. Sn(e) = tever[p].sn + 1 /\ tever[p] # NoTever
    BY <1>1, <1>4 DEF InOrder, NextSn, Known
  <2>2. ASSUME restarts = 0 PROVE tever[p].sn = Len(t) - 1
    <3>1. tever[p] = [said |-> Last(t), sn |-> Len(t) - 1, baks |-> BackersAfter(p, Len(t)), local |-> traffic.local]
      BY <1>1, <2>1, <2>2 DEF RegistryInv, StatesCurrent
    <3> QED BY <3>1
  <2> QED BY <1>1, <1>2, <1>3, <1>4, <2>1, <2>2
<1>5. CASE Known(e) /\ ~OfRegistry(e)
  BY <1>1, <1>2, <1>5 DEF InOrder, NextSn
<1>6. CASE ~Known(e)
  <2>1. Ilk(e) = "vcp"
    BY <1>6 DEF InOrder
  <2>2. OfRegistry(e) /\ Sn(e) = 0 /\ tever[p] = NoTever
    <3>1. OfRegistry(e)
      BY <2>1 DEF OfRegistry
    <3> QED BY <2>1, <3>1, <1>1, <1>6, EventFacts DEF Known
  <2>3. ASSUME restarts = 0 PROVE t = <<>>
    <3>1. RegistryLog(p)
      BY <2>2, LogKind
    <3>2. CASE t # <<>>
      <4>1. tever[p] = [said |-> Last(t), sn |-> Len(t) - 1, baks |-> BackersAfter(p, Len(t)), local |-> traffic.local]
        BY <1>1, <2>3, <3>1, <3>2 DEF RegistryInv, StatesCurrent
      <4>2. Last(t) \in Events
        BY <1>2, <3>2, LastIn
      <4> QED BY <2>2, <4>1, <4>2 DEF NoTever, RegistryAssumption
    <3> QED BY <3>2
  <2> QED BY <1>1, <1>2, <2>2, <2>3
<1> QED BY <1>4, <1>5, <1>6

(* Before a restart no event in order is in a log.                         *)
LEMMA InOrderIsNew ==
  ASSUME RegistryAssumption, RegistryInv, NEW e \in Events, InOrder(e), restarts = 0,
         NEW p \in Pres, NEW n \in DOMAIN tels[p]
  PROVE  tels[p][n] # e
<1>1. tels[p] \in Seq({d \in Events : Pre(d) = p}) /\ Sn(tels[p][n]) = n - 1
  BY DEF RegistryInv, TypeOK, Placed
<1>2. Pre(tels[p][n]) = p /\ n \in 1..Len(tels[p]) /\ Len(tels[p]) \in Nat
  BY <1>1
<1>3. Sn(e) = Len(tels[Pre(e)])
  BY OrderFacts
<1> QED BY <1>1, <1>2, <1>3

-----------------------------------------------------------------------------
(* Outcomes that are not acceptance                                        *)

(* The parts of the invariant that are about the logs.                     *)
LogsInv ==
  /\ TablesHeld /\ StatesHeld /\ StatesCurrent /\ Placed /\ ChainsHeld
  /\ AcceptedAnchored /\ RegistryBacked /\ TypeOK

(* A step that leaves the logs alone keeps the invariant.                  *)
LEMMA StaysInv ==
  ASSUME RegistryAssumption, RegistryInv, NEW e \in Events, Tables(e), Stays(e), Elsewhere
  PROVE  LogsInv'
<1> USE DEF RegistryInv, Stays, Elsewhere
<1>1. UNCHANGED <<tever, states, tels, traffic, kels, restarts>>
  OBVIOUS
<1>2. TypeOK'
  <2>1. tvts \subseteq tvts' /\ tvts' \subseteq Events
    BY DEF Tables, TypeOK
  <2> QED BY <1>1, <2>1 DEF Tables, TypeOK, Accepted
<1>3. TablesHeld'
  BY <1>1 DEF Tables, TablesHeld
<1>4. StatesHeld' /\ StatesCurrent' /\ Placed' /\ ChainsHeld' /\ AcceptedAnchored'
  <2>1. StatesHeld'
    BY <1>1 DEF StatesHeld
  <2>2. \A p, n : BackersAfter(p, n)' = BackersAfter(p, n)
    BY <1>1 DEF BackersAfter
  <2>3. StatesCurrent'
    BY <1>1, <2>2 DEF StatesCurrent
  <2>4. Placed' /\ ChainsHeld'
    BY <1>1 DEF Placed, ChainsHeld, Chained
  <2>5. AcceptedAnchored'
    BY <1>1 DEF AcceptedAnchored, Accepted
  <2> QED BY <2>1, <2>3, <2>4, <2>5
<1>5. RegistryBacked'
  <2> SUFFICES ASSUME restarts' = 0, ~traffic.local, NEW p \in Pres, NEW n \in DOMAIN tels'[p],
                      OfRegistry(tels'[p][n]) /\ ~NoBackers(tels'[p][n])
               PROVE  Cardinality(tibs'[tels'[p][n]] \cap BackersAfter(p, n)') >= Ev[tels'[p][n]].toad
    BY <1>1 DEF RegistryBacked
  <2>1. /\ tels[p][n] \in Events /\ restarts = 0 /\ n \in DOMAIN tels[p]
        /\ tels'[p][n] = tels[p][n]
    BY <1>1 DEF TablesHeld
  <2>2. tibs'[tels[p][n]] = tibs[tels[p][n]]
    BY <2>1, InOrderIsNew
  <2>3. BackersAfter(p, n)' = BackersAfter(p, n)
    BY <1>1 DEF BackersAfter
  <2> QED BY <2>1, <2>2, <2>3 DEF RegistryBacked
<1> QED BY <1>2, <1>3, <1>4, <1>5 DEF LogsInv

-----------------------------------------------------------------------------
(* Acceptance                                                              *)

(* The log of an accepted event afterwards.                                *)
LEMMA LogFacts ==
  ASSUME RegistryAssumption, RegistryInv, NEW e \in Events, InOrder(e),
         NEW a, NEW bigs, NEW from, Log(e, a, bigs, from)
  PROVE  /\ tels'[Pre(e)] = IF Sn(e) < Len(tels[Pre(e)]) THEN tels[Pre(e)] ELSE Append(tels[Pre(e)], e)
         /\ Sn(e) < Len(tels[Pre(e)]) \/ Sn(e) = Len(tels[Pre(e)])
         /\ \A q \in Pres : q # Pre(e) => tels'[q] = tels[q]
         /\ tels \in [Pres -> Seq(Events)] /\ tels' \in [Pres -> Seq(Events)] /\ Pre(e) \in Pres
<1> DEFINE p == Pre(e)
           new == IF Sn(e) < Len(tels[p]) THEN tels[p] ELSE Append(tels[p], e)
<1>1. p \in Pres /\ Sn(e) \in Nat /\ tels \in [Pres -> Seq(Events)]
  BY EventFacts DEF RegistryInv, TablesHeld
<1>2. tels' = [tels EXCEPT ![p] = new]
  BY DEF Log
<1>3. new \in Seq(Events)
  BY <1>1, AppendFacts
<1>4. Sn(e) < Len(tels[p]) \/ Sn(e) = Len(tels[p])
  BY <1>1, OrderFacts
<1>5. tels'[p] = new
  BY <1>1, <1>2
<1>6. \A q \in Pres : q # p => tels'[q] = tels[q]
  BY <1>1, <1>2
<1>7. tels' \in [Pres -> Seq(Events)]
  <2> HIDE DEF new
  <2> QED BY <1>1, <1>2, <1>3
<1> QED BY <1>1, <1>4, <1>5, <1>6, <1>7

(* An event of a log after an acceptance was there or is the new one, at   *)
(* the end.                                                                *)
LEMMA EntryFacts ==
  ASSUME RegistryAssumption, RegistryInv, NEW e \in Events, InOrder(e),
         NEW a, NEW bigs, NEW from, Log(e, a, bigs, from), NEW p \in Pres, NEW n \in DOMAIN tels'[p]
  PROVE  \/ n \in DOMAIN tels[p] /\ \A m \in 1..n : m \in DOMAIN tels[p] /\ tels'[p][m] = tels[p][m]
         \/ /\ p = Pre(e) /\ n = Len(tels[p]) + 1 /\ n = Sn(e) + 1 /\ tels'[p][n] = e
            /\ tels'[p] = Append(tels[p], e)
            /\ \A m \in 1..Len(tels[p]) : tels'[p][m] = tels[p][m]
<1>1. tels[p] \in Seq(Events) /\ tels'[p] \in Seq(Events) /\ n \in 1..Len(tels'[p])
  BY LogFacts
<1>2. CASE tels'[p] = tels[p]
  BY <1>1, <1>2
<1>3. CASE p = Pre(e) /\ tels'[p] = Append(tels[p], e) /\ Sn(e) = Len(tels[p])
  BY <1>1, <1>3
<1> QED BY <1>2, <1>3, LogFacts

(* A Tevery is local or not, and so is a Tever.                            *)
LEMMA LocalType ==
  ASSUME RegistryAssumption, RegistryInv, NEW e \in Events
  PROVE  LocalTever(e) \in BOOLEAN
<1>1. traffic.local \in BOOLEAN
  <2>1. traffic \in Traffics
    BY DEF RegistryInv, TypeOK
  <2> QED BY <2>1 DEF RegistryAssumption
<1>2. Tev(e) \in StateType
  BY EventFacts DEF RegistryInv, StatesHeld, Tev
<1>3. Tev(e).local \in BOOLEAN
  <2>1. CASE Tev(e) = NoTever
    BY <2>1 DEF NoTever
  <2>2. CASE Tev(e) # NoTever
    BY <1>2, <2>2 DEF StateType
  <2> QED BY <2>1, <2>2
<1> QED BY <1>1, <1>3 DEF LocalTever

(* Before a restart the Tever of a registry in order is of its Tevery.     *)
LEMMA LocalIs ==
  ASSUME RegistryAssumption, RegistryInv, NEW e \in Events, InOrder(e), OfRegistry(e), restarts = 0
  PROVE  LocalTever(e) = traffic.local
<1> DEFINE p == Pre(e)
<1>1. CASE Ilk(e) = "vcp"
  BY <1>1 DEF LocalTever
<1>2. CASE Ilk(e) # "vcp"
  <2>1. Tev(e) = tever[p] /\ p \in Pres /\ RegistryLog(p)
    BY OrderFacts, EventFacts, LogKind
  <2>2. tever[p] # NoTever
    BY <1>2, <2>1 DEF InOrder, Known
  <2>3. tever[p] = [said |-> Last(tels[p]), sn |-> Len(tels[p]) - 1,
                    baks |-> BackersAfter(p, Len(tels[p])), local |-> traffic.local]
    BY <2>1, <2>2 DEF RegistryInv, StatesCurrent
  <2>4. tever[p].local = traffic.local
    BY <2>3
  <2> QED BY <1>2, <2>1, <2>4 DEF LocalTever
<1> QED BY <1>1, <1>2

(* After an acceptance the tables hold what they should of each event.     *)
LEMMA AcceptTables ==
  ASSUME RegistryAssumption, RegistryInv, NEW e \in Events, InOrder(e), Valid(e), Tables(e),
         NEW a, NEW bigs, NEW from, Log(e, a, bigs, from), Elsewhere
  PROVE  TablesHeld' /\ StatesHeld' /\ Placed' /\ TypeOK'
<1> DEFINE p == Pre(e)
           now == [said |-> e, sn |-> Sn(e), baks |-> Backers(e), local |-> LocalTever(e)]
           old == [tever'[p] EXCEPT !.local = FALSE]
<1> USE DEF RegistryInv
<1>1. p \in Pres /\ Sn(e) \in Nat /\ tels \in [Pres -> Seq(Events)] /\ tels' \in [Pres -> Seq(Events)]
  BY LogFacts, EventFacts
<1>2. TablesHeld'
  BY <1>1 DEF TablesHeld, Tables, Elsewhere
<1>3. Placed'
  <2> SUFFICES ASSUME NEW q \in Pres, NEW n \in DOMAIN tels'[q] PROVE Sn(tels'[q][n]) = n - 1
    BY DEF Placed
  <2>1. \A m \in DOMAIN tels[q] : Sn(tels[q][m]) = m - 1
    BY DEF Placed
  <2>2. n \in 1..Len(tels'[q]) /\ n \in 1..n
    BY <1>1
  <2> QED BY <1>1, <2>1, <2>2, EntryFacts
<1>4. now \in StateType /\ now # NoTever /\ (OfRegistry(e) => RegistryLog(p))
  <2>1. Backers(e) \in SUBSET STRING
    BY BackersType
  <2>2. now \in StateType
    BY <1>1, <2>1, LocalType DEF StateType
  <2>3. e # NoEvent
    BY DEF RegistryAssumption
  <2>4. now.said = e /\ NoTever.said = NoEvent
    BY DEF NoTever
  <2> HIDE DEF now
  <2>5. now # NoTever
    BY <2>3, <2>4
  <2>6. p \in Pres /\ (OfRegistry(e) => RegistryLog(p))
    BY <1>1, LogKind
  <2> QED BY <2>2, <2>5, <2>6
<1>5. /\ tever' = [tever EXCEPT ![p] = IF OfRegistry(e) THEN now ELSE tever[p]]
      /\ states' = [states EXCEPT ![p] = IF Ilk(e) = "vcp" THEN old ELSE states[p]]
  BY DEF Log
<1>6. \A q \in Pres : Len(tels[q]) \in Nat /\ Len(tels'[q]) \in Nat /\ Len(tels[q]) <= Len(tels'[q])
  <2> SUFFICES ASSUME NEW q \in Pres PROVE Len(tels'[q]) = Len(tels[q]) \/ Len(tels'[q]) = Len(tels[q]) + 1
    BY <1>1
  <2>1. tels[q] \in Seq(Events) /\ (tels'[q] = tels[q] \/ tels'[q] = Append(tels[q], e))
    BY <1>1, LogFacts
  <2> QED BY <2>1
<1>7. Sn(e) < Len(tels'[p])
  <2>1. /\ tels[p] \in Seq(Events) /\ tels'[p] = IF Sn(e) < Len(tels[p]) THEN tels[p] ELSE Append(tels[p], e)
        /\ Sn(e) < Len(tels[p]) \/ Sn(e) = Len(tels[p])
    BY <1>1, LogFacts
  <2> QED BY <1>1, <2>1
<1>8. StatesHeld'
  <2>1. tever \in [Pres -> StateType] /\ states \in [Pres -> StateType]
    BY DEF StatesHeld
  <2>2. tever'[p] = IF OfRegistry(e) THEN now ELSE tever[p]
    BY <1>1, <1>5, <2>1
  <2>3. Ilk(e) = "vcp" => tever'[p] = now /\ old \in StateType /\ old.sn = tever'[p].sn
    <3>1. ASSUME NEW t \in StateType, t # NoTever
          PROVE  [t EXCEPT !.local = FALSE] \in StateType /\ [t EXCEPT !.local = FALSE].sn = t.sn
      BY <3>1 DEF StateType
    <3> HIDE DEF now
    <3> QED BY <1>4, <2>2, <3>1 DEF OfRegistry
  <2>4. tever' \in [Pres -> StateType] /\ states' \in [Pres -> StateType]
    <3> HIDE DEF now, old
    <3> QED BY <1>1, <1>4, <1>5, <2>1, <2>2, <2>3
  <2>5. ASSUME NEW q \in Pres, tever'[q] # NoTever PROVE RegistryLog(q) /\ tever'[q].sn < Len(tels'[q])
    <3>1. CASE q = p /\ OfRegistry(e)
      <4>1. tever'[q] = now
        BY <2>2, <3>1
      <4> QED BY <3>1, <4>1, <1>4, <1>7
    <3>2. CASE ~(q = p /\ OfRegistry(e))
      <4>1. tever'[q] = tever[q]
        BY <1>1, <1>5, <2>1, <3>2
      <4>2. RegistryLog(q) /\ tever[q].sn < Len(tels[q]) /\ tever[q].sn \in Nat
        BY <2>1, <2>5, <4>1 DEF StatesHeld, StateType
      <4> QED BY <4>1, <4>2, <1>6
    <3> QED BY <3>1, <3>2
  <2>6. ASSUME NEW q \in Pres, states'[q] # NoTever PROVE RegistryLog(q) /\ states'[q].sn < Len(tels'[q])
    <3>1. CASE q = p /\ Ilk(e) = "vcp"
      <4>1. states'[q].sn = tever'[q].sn /\ tever'[q] # NoTever
        <5> HIDE DEF now, old
        <5> QED BY <1>1, <1>4, <1>5, <2>1, <2>3, <3>1
      <4> QED BY <2>5, <4>1
    <3>2. CASE ~(q = p /\ Ilk(e) = "vcp")
      <4>1. states'[q] = states[q]
        BY <1>1, <1>5, <2>1, <3>2
      <4>2. RegistryLog(q) /\ states[q].sn < Len(tels[q]) /\ states[q].sn \in Nat
        BY <2>1, <2>6, <4>1 DEF StatesHeld, StateType
      <4> QED BY <4>1, <4>2, <1>6
    <3> QED BY <3>1, <3>2
  <2>7. \A q \in Pres : RegistryLog(q)' = RegistryLog(q)
    BY DEF RegistryLog
  <2> QED BY <2>4, <2>5, <2>6, <2>7 DEF StatesHeld
<1>9. ASSUME NEW q \in Pres PROVE tels'[q] \in Seq({d \in Events : Pre(d) = q})
  <2>1. tels[q] \in Seq({d \in Events : Pre(d) = q})
    BY DEF TypeOK
  <2>2. CASE tels'[q] = tels[q]
    BY <2>1, <2>2
  <2>3. CASE q = p /\ tels'[q] = Append(tels[q], e)
    <3>1. e \in {d \in Events : Pre(d) = q}
      BY <2>3
    <3> QED BY <2>1, <2>3, <3>1, AppendFacts
  <2> QED BY <2>2, <2>3, LogFacts
<1>10. Accepted' \subseteq Accepted \cup {e}
  <2> SUFFICES ASSUME NEW q \in Pres PROVE ToSet(tels'[q]) \subseteq ToSet(tels[q]) \cup {e}
    BY DEF Accepted
  <2>1. tels[q] \in Seq(Events)
    BY <1>1
  <2>2. ToSet(Append(tels[q], e)) = ToSet(tels[q]) \cup {e}
    BY <2>1, AppendToSet
  <2>3. tels'[q] = tels[q] \/ tels'[q] = Append(tels[q], e)
    BY LogFacts
  <2> QED BY <2>2, <2>3
<1>11. tvts' = tvts \cup {e} /\ tvts' \subseteq Events /\ Accepted \subseteq tvts
  BY DEF Log, Held, TypeOK
<1>12. \A q \in Pres : tever'[q] = NoTever \/ tever'[q].said \in Events
  BY <1>8 DEF StatesHeld, StateType
<1>13. traffic' \in Traffics /\ restarts' \in 0..MaxRestarts
  BY DEF Elsewhere, TypeOK
<1>14. /\ twes' \subseteq tvts' /\ ancs' \in [Events -> Anchors \cup {NoEvent}]
       /\ \A x \in {"oo", "al"}, k \in ToSet(Places) : escrow'[x][k] \in Seq({d \in tvts' : Key(d) = k})
  BY DEF Tables
<1>15. TypeOK'
  BY <1>9, <1>10, <1>11, <1>12, <1>13, <1>14 DEF TypeOK
<1> QED BY <1>2, <1>3, <1>8, <1>15

(* The backers of a registry event are those its log has after it.         *)
LEMMA AcceptBackers ==
  ASSUME RegistryAssumption, RegistryInv, NEW e \in Events, InOrder(e), restarts = 0, OfRegistry(e),
         NEW a, NEW bigs, NEW from, Log(e, a, bigs, from)
  PROVE  Backers(e) = After(tels'[Pre(e)], Len(tels[Pre(e)]) + 1)
<1> DEFINE p == Pre(e)
           t == tels[p]
           u == tels'[p]
<1>1. /\ t \in Seq(Events) /\ Len(t) \in Nat /\ u = Append(t, e) /\ p \in Pres /\ Tev(e) = tever[p]
      /\ RegistryLog(p)
  <2>1. Sn(e) = Len(t) /\ Len(t) \in Nat /\ Tev(e) = tever[p]
    BY OrderFacts
  <2>2. ~(Sn(e) < Len(t))
    BY <2>1
  <2> QED BY <2>1, <2>2, LogFacts, LogKind
<1>2. u[Len(t) + 1] = e /\ \A m \in 1..Len(t) : u[m] = t[m]
  BY <1>1
<1>3. After(u, Len(t)) = After(t, Len(t))
  BY <1>1, <1>2, AfterSame
<1>4. tever[p].baks = After(t, Len(t))
  <2>1. CASE t # <<>>
    <3>1. tever[p] = [said |-> Last(t), sn |-> Len(t) - 1, baks |-> BackersAfter(p, Len(t)), local |-> traffic.local]
      BY <1>1, <2>1 DEF RegistryInv, StatesCurrent
    <3> QED BY <1>1, <3>1, AfterIs
  <2>2. CASE t = <<>>
    <3>1. tever[p] = NoTever
      BY <1>1, <2>2 DEF RegistryInv, StatesCurrent
    <3>2. Len(t) = 0 /\ 1..Len(t) = {}
      BY <2>2
    <3>3. \A b : b \notin After(t, Len(t))
      BY <1>1, <3>2, AfterMember
    <3> QED BY <3>1, <3>3 DEF NoTever
  <2> QED BY <2>1, <2>2
<1>5. After(u, Len(t) + 1) = (After(u, Len(t)) \ Ev[e].cuts) \cup Ev[e].adds
  <2>1. After(u, Len(t) + 1) = (After(u, Len(t)) \ Ev[u[Len(t) + 1]].cuts) \cup Ev[u[Len(t) + 1]].adds
    BY <1>1, AfterStep
  <2> QED BY <1>2, <2>1
<1>6. Backers(e) = (tever[p].baks \ Ev[e].cuts) \cup Ev[e].adds
  BY <1>1 DEF Backers, OfRegistry
<1> QED BY <1>3, <1>4, <1>5, <1>6

(* After an acceptance the state is that after the last event.             *)
LEMMA AcceptStates ==
  ASSUME RegistryAssumption, RegistryInv, NEW e \in Events, InOrder(e), Elsewhere,
         NEW a, NEW bigs, NEW from, Log(e, a, bigs, from)
  PROVE  StatesCurrent'
<1>0. traffic' = traffic
  BY DEF Elsewhere
<1> SUFFICES ASSUME restarts' = 0, NEW q \in Pres
             PROVE  tever'[q] = IF RegistryLog(q) /\ tels'[q] # <<>>
                                THEN [said |-> Last(tels'[q]), sn |-> Len(tels'[q]) - 1,
                                      baks |-> After(tels'[q], Len(tels'[q])), local |-> traffic.local]
                                ELSE NoTever
  BY <1>0, AfterLast DEF StatesCurrent, RegistryLog
<1> DEFINE p == Pre(e)
           now == [said |-> e, sn |-> Sn(e), baks |-> Backers(e), local |-> LocalTever(e)]
<1>1. /\ restarts = 0 /\ tels \in [Pres -> Seq(Events)] /\ p \in Pres
      /\ Sn(e) = Len(tels[p]) /\ tels'[p] = Append(tels[p], e)
      /\ \A r \in Pres : r # p => tels'[r] = tels[r]
  <2>1. restarts = 0
    BY DEF Elsewhere
  <2>2. Sn(e) = Len(tels[p]) /\ Len(tels[p]) \in Nat
    BY <2>1, OrderFacts
  <2>3. ~(Sn(e) < Len(tels[p]))
    BY <2>2
  <2> QED BY <2>1, <2>2, <2>3, LogFacts
<1>2. tever \in [Pres -> StateType] /\ tever' = [tever EXCEPT ![p] = IF OfRegistry(e) THEN now ELSE @]
  BY DEF Log, RegistryInv, StatesHeld
<1>3. tever[q] = IF RegistryLog(q) /\ tels[q] # <<>>
                 THEN [said |-> Last(tels[q]), sn |-> Len(tels[q]) - 1, baks |-> BackersAfter(q, Len(tels[q])),
                       local |-> traffic.local]
                 ELSE NoTever
  BY <1>1 DEF RegistryInv, StatesCurrent
<1>4. CASE q # p
  <2>1. tels'[q] = tels[q] /\ tever'[q] = tever[q]
    BY <1>1, <1>2, <1>4
  <2>2. After(tels'[q], Len(tels'[q])) = BackersAfter(q, Len(tels[q]))
    BY <2>1, AfterLast
  <2> QED BY <1>3, <2>1, <2>2
<1>5. CASE q = p /\ OfRegistry(e)
  <2>1. tever'[q] = now /\ RegistryLog(q)
    BY <1>1, <1>2, <1>5, LogKind
  <2>2. tels[p] \in Seq(Events) /\ tels'[p] \in Seq(Events) /\ Len(tels[p]) \in Nat
    BY <1>1, LogFacts
  <2>3. tels'[p] # <<>> /\ Last(tels'[p]) = e /\ Len(tels'[p]) = Len(tels[p]) + 1
    <3>1. Append(tels[p], e) # <<>> /\ Len(Append(tels[p], e)) = Len(tels[p]) + 1
          /\ Last(Append(tels[p], e)) = e
      BY <2>2 DEF Last
    <3> QED BY <1>1, <3>1
  <2>4. After(tels'[p], Len(tels'[p])) = Backers(e)
    BY <1>1, <1>5, <2>3, AcceptBackers
  <2>5. Len(tels'[p]) - 1 = Sn(e)
    BY <1>1, <2>2, <2>3
  <2>6. [said |-> Last(tels'[p]), sn |-> Len(tels'[p]) - 1, baks |-> After(tels'[p], Len(tels'[p])),
         local |-> traffic.local] = now
    BY <1>1, <1>5, <2>3, <2>4, <2>5, LocalIs
  <2> HIDE DEF now
  <2> QED BY <1>5, <2>1, <2>3, <2>6
<1>6. CASE q = p /\ ~OfRegistry(e)
  <2>1. tever'[q] = tever[q] /\ ~RegistryLog(q)
    BY <1>1, <1>2, <1>6, LogKind
  <2> QED BY <1>3, <2>1
<1> QED BY <1>4, <1>5, <1>6

(* The event named before the new one is the last of its log.              *)
LEMMA AcceptChains ==
  ASSUME RegistryAssumption, RegistryInv, NEW e \in Events, InOrder(e), Valid(e), Elsewhere,
         NEW a, NEW bigs, NEW from, Log(e, a, bigs, from)
  PROVE  ChainsHeld'
<1> SUFFICES ASSUME NEW p \in Pres, restarts = 0 \/ ~RegistryLog(p),
                    NEW n \in DOMAIN tels'[p], n > 1
             PROVE  Ev[tels'[p][n]].prior = tels'[p][n - 1]
  BY DEF ChainsHeld, Chained, Elsewhere, RegistryLog
<1>1. \A m \in DOMAIN tels[p] : m > 1 => Ev[tels[p][m]].prior = tels[p][m - 1]
  BY DEF RegistryInv, ChainsHeld, Chained
<1>2. tels[p] \in Seq(Events) /\ tels'[p] \in Seq(Events) /\ n \in Nat
  BY LogFacts
<1>3. CASE n \in DOMAIN tels[p] /\ \A m \in 1..n : m \in DOMAIN tels[p] /\ tels'[p][m] = tels[p][m]
  <2>1. n \in 1..n /\ n - 1 \in 1..n
    BY <1>2
  <2> QED BY <1>1, <1>3, <2>1
<1>4. CASE /\ p = Pre(e) /\ n = Len(tels[p]) + 1 /\ n = Sn(e) + 1 /\ tels'[p][n] = e
           /\ \A m \in 1..Len(tels[p]) : tels'[p][m] = tels[p][m]
  <2>1. /\ Sn(e) # 0 /\ Sn(e) = Len(tels[p]) /\ tels[p] # <<>> /\ tels'[p][n - 1] = tels[p][Sn(e)]
        /\ Last(tels[p]) = tels[p][Sn(e)]
    <3>1. Sn(e) \in Nat /\ Len(tels[p]) \in Nat
      BY <1>2, EventFacts
    <3>2. n - 1 = Len(tels[p]) /\ n - 1 = Sn(e) /\ n - 1 \in 1..Len(tels[p])
      BY <1>2, <1>4, <3>1
    <3> QED BY <1>2, <1>4, <3>1, <3>2 DEF Last
  <2>2. Ilk(e) \in {"vrt", "rev", "brv"}
    BY <2>1, EventFacts
  <2>3. CASE Ilk(e) = "vrt"
    <3>1. Ev[e].prior = Tev(e).said /\ OfRegistry(e)
      BY <2>3 DEF Valid, Revokes, OfRegistry
    <3>2. RegistryLog(p) /\ Tev(e) = tever[p]
      BY <1>4, <3>1, LogKind, OrderFacts
    <3>3. tever[p] = [said |-> Last(tels[p]), sn |-> Len(tels[p]) - 1, baks |-> BackersAfter(p, Len(tels[p])),
                      local |-> traffic.local]
      BY <2>1, <3>2 DEF RegistryInv, StatesCurrent
    <3>4. tever[p].said = Last(tels[p])
      BY <3>3
    <3> QED BY <1>4, <2>1, <3>1, <3>2, <3>4
  <2>4. CASE Ilk(e) \in {"rev", "brv"}
    <3>1. Ev[e].prior = tels[Pre(e)][Sn(e)]
      BY <2>4 DEF Valid, Revokes
    <3> QED BY <1>4, <2>1, <3>1
  <2> QED BY <2>2, <2>3, <2>4
<1> QED BY <1>3, <1>4, EntryFacts

(* An acceptance rests on an anchor in the issuer's log.                   *)
LEMMA AcceptAnchored ==
  ASSUME RegistryAssumption, RegistryInv, NEW e \in Events, InOrder(e), Elsewhere,
         NEW a \in Anchors \cup {NoEvent}, Anchored(e, a), NEW bigs, NEW from, Log(e, a, bigs, from)
  PROVE  AcceptedAnchored'
<1> SUFFICES ASSUME NEW p \in Pres, NEW n \in DOMAIN tels'[p]
             PROVE  \E m \in 0..MaxSn : \E k \in ToSet(kels[m]) : KelEvents[k].seals = <<tels'[p][n]>>
  BY DEF AcceptedAnchored, Accepted, ToSet, Elsewhere
<1>1. CASE n \in DOMAIN tels[p] /\ tels'[p][n] = tels[p][n]
  <2>1. tels[p][n] \in Accepted
    BY <1>1 DEF Accepted, ToSet
  <2> QED BY <1>1, <2>1 DEF RegistryInv, AcceptedAnchored
<1>2. CASE tels'[p][n] = e
  <2>1. a \in Anchors /\ KelAt(KelEvents[a].sn) = a /\ KelEvents[a].seals = <<e>>
    BY DEF Anchored
  <2> DEFINE m == KelEvents[a].sn
  <2>2. m \in 0..MaxSn
    BY <2>1 DEF RegistryAssumption
  <2>3. kels[m] \in Seq(Anchors) /\ a # NoEvent
    BY <2>2 DEF RegistryInv, TablesHeld, Anchored
  <2>4. kels[m] # <<>> /\ Last(kels[m]) = a
    BY <2>1, <2>3 DEF KelAt
  <2>5. a \in ToSet(kels[m])
    BY <2>3, <2>4, LastIn
  <2> QED BY <1>2, <2>1, <2>2, <2>5
<1>3. n \in 1..n
  BY LogFacts
<1> QED BY <1>1, <1>2, <1>3, EntryFacts

(* An acceptance rests on enough receipts of the backers in force.         *)
LEMMA AcceptBacked ==
  ASSUME RegistryAssumption, RegistryInv, NEW e \in Events, InOrder(e), Valid(e), Elsewhere, NEW a,
         NEW bigs \in SUBSET STRING, FullyBacked(e, bigs), NEW from, Log(e, a, bigs, from)
  PROVE  RegistryBacked'
<1> SUFFICES ASSUME restarts = 0, ~traffic.local, NEW p \in Pres, NEW n \in DOMAIN tels'[p],
                    OfRegistry(tels'[p][n]), ~NoBackers(tels'[p][n])
             PROVE  Cardinality(tibs'[tels'[p][n]] \cap After(tels'[p], n)) >= Ev[tels'[p][n]].toad
  BY AfterIs DEF RegistryBacked, Elsewhere, NoBackers
<1>1. /\ tels[p] \in Seq(Events) /\ tels'[p] \in Seq(Events) /\ n \in Nat /\ n \in 1..n
      /\ tibs \in [Events -> SUBSET STRING]
  BY LogFacts DEF RegistryInv, TablesHeld
<1>2. tibs' = [tibs EXCEPT ![e] = IF bigs \cap Backers(e) = {} THEN @ ELSE bigs \cap Backers(e)]
  BY DEF Log, HoldBigs
<1>3. CASE n \in DOMAIN tels[p] /\ \A m \in 1..n : m \in DOMAIN tels[p] /\ tels'[p][m] = tels[p][m]
  <2> DEFINE d == tels[p][n]
  <2>1. tels'[p][n] = d /\ d \in Events
    BY <1>1, <1>3
  <2>2. d # e
    BY <1>3, InOrderIsNew
  <2>3. tibs'[d] = tibs[d]
    BY <1>1, <1>2, <2>1, <2>2
  <2>4. After(tels'[p], n) = BackersAfter(p, n)
    BY <1>1, <1>3, AfterSame, AfterIs
  <2>5. Cardinality(tibs[d] \cap BackersAfter(p, n)) >= Ev[d].toad
    BY <1>3, <2>1 DEF RegistryInv, RegistryBacked
  <2> HIDE DEF d
  <2> QED BY <2>1, <2>3, <2>4, <2>5
<1>4. CASE p = Pre(e) /\ n = Len(tels[p]) + 1 /\ tels'[p][n] = e
  <2>1. OfRegistry(e) /\ Toad(e) = Ev[e].toad /\ ToadFits(e)
    <3>1. OfRegistry(e)
      BY <1>4
    <3> QED BY <3>1 DEF Toad, Valid, Revokes, OfRegistry
  <2>2. After(tels'[p], n) = Backers(e)
    BY <1>4, <2>1, AcceptBackers
  <2>3. Ev[e].toad \in Nat
    BY EventFacts
  <2>4. CASE Backers(e) = {}
    <3>1. tibs'[e] \cap Backers(e) = {} /\ Ev[e].toad = 0
      BY <2>1, <2>4 DEF ToadFits
    <3>2. Cardinality({}) = 0
      BY FS_EmptySet
    <3>3. Cardinality(tibs'[e] \cap Backers(e)) >= Ev[e].toad
      BY <3>1, <3>2
    <3> QED BY <1>4, <2>2, <3>3
  <2>5. CASE Backers(e) # {}
    <3> DEFINE B == bigs \cap Backers(e)
    <3>0. ~LocalTever(e)
      BY <2>1, LocalIs
    <3>1. Cardinality(B) >= Ev[e].toad /\ Ev[e].toad >= 1
      BY <2>1, <2>5, <3>0 DEF FullyBacked, ToadFits
    <3>2. B # {}
      <4>1. Cardinality({}) = 0
        BY FS_EmptySet
      <4> HIDE DEF B
      <4> QED BY <2>3, <3>1, <4>1
    <3>3. tibs'[e] = B
      BY <1>1, <1>2, <3>2
    <3>4. tibs'[e] \cap Backers(e) = B
      BY <3>3
    <3> HIDE DEF B
    <3> QED BY <1>4, <2>2, <3>1, <3>4
  <2> QED BY <2>4, <2>5
<1> QED BY <1>3, <1>4, EntryFacts

(* An acceptance keeps the invariant.                                      *)
LEMMA AcceptsInv ==
  ASSUME RegistryAssumption, RegistryInv, NEW e \in Events, Tables(e), Accepts(e), Elsewhere
  PROVE  LogsInv'
<1>1. PICK from : \E a \in Anchors \cup {NoEvent}, bigs \in SUBSET STRING :
        InOrder(e) /\ Valid(e) /\ Anchored(e, a) /\ FullyBacked(e, bigs) /\ Log(e, a, bigs, from)
  BY DEF Accepts
<1>2. PICK a \in Anchors \cup {NoEvent}, bigs \in SUBSET STRING :
        InOrder(e) /\ Valid(e) /\ Anchored(e, a) /\ FullyBacked(e, bigs) /\ Log(e, a, bigs, from)
  BY <1>1
<1> QED BY <1>2, AcceptTables, AcceptStates, AcceptChains, AcceptAnchored, AcceptBacked DEF LogsInv

-----------------------------------------------------------------------------
(* The steps                                                               *)

(* Whatever is processed, the invariant and the escrows stay as they       *)
(* should.                                                                 *)
LEMMA ProcessInv ==
  ASSUME RegistryAssumption, RegistryInv, NEW e \in Events, NEW a \in Anchors \cup {NoEvent},
         NEW bigs \in SUBSET STRING, NEW from, processEvent(e, a, bigs, from), Elsewhere
  PROVE  LogsInv' /\ escrow' \in [{"oo", "al"} -> [ToSet(Places) -> Seq(Events)]]
<1>1. Tables(e) /\ (Stays(e) \/ Accepts(e))
  BY ProcessOutcome
<1> QED BY <1>1, StaysInv, AcceptsInv DEF Tables

(* A step that leaves what the parts of the invariant speak of alone.      *)
LEMMA LogsUnchanged ==
  ASSUME LogsInv, UNCHANGED <<traffic, kels, tever, states, tels, tvts, ancs, tibs, baks, escrow, twes, restarts>>
  PROVE  LogsInv'
<1> USE DEF LogsInv
<1>1. \A p, n : BackersAfter(p, n)' = BackersAfter(p, n)
  BY DEF BackersAfter
<1>2. TablesHeld' /\ StatesHeld' /\ Placed'
  BY DEF TablesHeld, StatesHeld, Placed
<1>3. StatesCurrent'
  BY <1>1 DEF StatesCurrent
<1>4. ChainsHeld'
  BY DEF ChainsHeld, Chained
<1>5. AcceptedAnchored'
  BY DEF AcceptedAnchored, Accepted
<1>6. RegistryBacked'
  BY <1>1 DEF RegistryBacked
<1>7. TypeOK'
  BY DEF TypeOK, Accepted
<1> QED BY <1>2, <1>3, <1>4, <1>5, <1>6, <1>7

(* A restart, which may load an earlier state, keeps the invariant.        *)
LEMMA RestartInv ==
  ASSUME RegistryAssumption, RegistryInv, Restart
  PROVE  LogsInv'
<1> USE DEF RegistryInv, Restart
<1>1. restarts' \in 0..MaxRestarts /\ restarts' # 0
  BY DEF RegistryAssumption, TypeOK
<1>2. StatesHeld' /\ TablesHeld' /\ Placed'
  BY DEF StatesHeld, TablesHeld, Placed
<1>3. StatesCurrent' /\ RegistryBacked'
  BY <1>1 DEF StatesCurrent, RegistryBacked
<1>4. ChainsHeld'
  BY <1>1 DEF ChainsHeld, Chained, RegistryLog
<1>5. AcceptedAnchored'
  BY DEF AcceptedAnchored, Accepted
<1>6. \A p \in Pres : tever'[p] = NoTever \/ tever'[p].said \in Events
  BY <1>2 DEF StatesHeld, StateType
<1>7. TypeOK'
  BY <1>1, <1>6 DEF TypeOK, Accepted
<1> QED BY <1>2, <1>3, <1>4, <1>5, <1>7 DEF LogsInv

(* The events of the issuer only come to be more.                          *)
LEMMA AnchorInv ==
  ASSUME RegistryAssumption, RegistryInv, NEW k \in Anchors, Anchor(k)
  PROVE  LogsInv'
<1> USE DEF RegistryInv, Anchor
<1> DEFINE n == KelEvents[k].sn
           new == Append(kels[n], k)
<1>1. n \in 0..MaxSn /\ kels \in [0..MaxSn -> Seq(Anchors)]
  BY DEF RegistryAssumption, TablesHeld
<1>2. kels' = [kels EXCEPT ![n] = new] /\ new \in Seq(Anchors)
  BY <1>1, AppendFacts
<1>3. kels' \in [0..MaxSn -> Seq(Anchors)]
  <2> HIDE DEF n, new
  <2> QED BY <1>1, <1>2
<1>4. ASSUME NEW m \in 0..MaxSn PROVE ToSet(kels[m]) \subseteq ToSet(kels'[m])
  <2>1. CASE m = n
    <3>1. kels'[m] = Append(kels[m], k) /\ kels[m] \in Seq(Anchors)
      BY <1>1, <1>2, <2>1
    <3> QED BY <3>1, AppendToSet
  <2>2. CASE m # n
    BY <1>1, <1>2, <2>2
  <2> QED BY <2>1, <2>2
<1>5. AcceptedAnchored'
  BY <1>4 DEF AcceptedAnchored, Accepted
<1>6. \A p, i : BackersAfter(p, i)' = BackersAfter(p, i)
  BY DEF BackersAfter
<1>7. TablesHeld' /\ StatesHeld' /\ Placed'
  BY <1>3 DEF TablesHeld, StatesHeld, Placed
<1>8. StatesCurrent'
  BY <1>6 DEF StatesCurrent
<1>9. ChainsHeld'
  BY DEF ChainsHeld, Chained
<1>10. RegistryBacked'
  BY <1>6 DEF RegistryBacked
<1>11. TypeOK'
  BY DEF TypeOK, Accepted
<1> QED BY <1>5, <1>7, <1>8, <1>9, <1>10, <1>11 DEF LogsInv

(* The invariant holds at the start.                                       *)
LEMMA InitInv == ASSUME RegistryAssumption, Init PROVE RegistryInv
<1> USE DEF Init
<1>1. \A p \in Pres : tels[p] = <<>> /\ tever[p] = NoTever /\ states[p] = NoTever
  OBVIOUS
<1>2. Accepted = {}
  BY <1>1 DEF Accepted, ToSet
<1>3. NoEvents \in [ToSet(Places) -> Seq(Events)] /\ \A k \in ToSet(Places) : NoEvents[k] = <<>>
  BY DEF NoEvents
<1>4. TypeOK
  <2>1. \A x \in {"oo", "al"}, k \in ToSet(Places) : escrow[x][k] = <<>>
    BY <1>3
  <2>2. 0 \in 0..MaxRestarts
    BY DEF RegistryAssumption
  <2>3. \A x \in {"oo", "al"}, k \in ToSet(Places) : escrow[x][k] \in Seq({d \in tvts : Key(d) = k})
    <3>1. <<>> \in Seq({})
      OBVIOUS
    <3>2. \A k : {d \in tvts : Key(d) = k} = {}
      OBVIOUS
    <3> QED BY <2>1, <3>1, <3>2
  <2>4. \A p \in Pres : tels[p] \in Seq({d \in Events : Pre(d) = p})
    BY <1>1
  <2>5. ancs \in [Events -> Anchors \cup {NoEvent}] /\ Accepted \subseteq tvts
    BY <1>2
  <2>6. traffic \in Traffics /\ restarts \in 0..MaxRestarts /\ tvts \subseteq Events /\ twes \subseteq tvts
    BY <2>2
  <2>7. \A p \in Pres : tever[p] = NoTever \/ tever[p].said \in Events
    BY <1>1
  <2> QED BY <2>3, <2>4, <2>5, <2>6, <2>7 DEF TypeOK
<1>5. TablesHeld
  BY DEF TablesHeld
<1>6. QueuesHeld
  BY <1>3 DEF QueuesHeld, Idle
<1>7. StatesHeld /\ StatesCurrent
  <2>1. NoTever \in StateType
    BY DEF StateType
  <2> QED BY <1>1, <2>1 DEF StatesHeld, StatesCurrent
<1>8. Placed /\ ChainsHeld /\ RegistryBacked
  BY <1>1 DEF Placed, ChainsHeld, Chained, RegistryBacked
<1>9. AcceptedAnchored
  BY <1>2 DEF AcceptedAnchored
<1> QED BY <1>4, <1>5, <1>6, <1>7, <1>8, <1>9 DEF RegistryInv

(* Every step keeps the invariant.                                         *)
LEMMA NextInv == ASSUME RegistryAssumption, RegistryInv, [Next]_vars PROVE RegistryInv'
<1>1. LogsInv
  BY DEF RegistryInv, LogsInv
<1>2. /\ escrow \in [{"oo", "al"} -> [ToSet(Places) -> Seq(Events)]]
      /\ pass.todo \in [ToSet(Places) -> Seq(Events)]
      /\ pass = [loop |-> pass.loop, todo |-> pass.todo] /\ pass.loop \in {"idle", "al", "oo"}
      /\ traffic \in Traffics /\ ancs \in [Events -> Anchors \cup {NoEvent}]
      /\ tibs \in [Events -> SUBSET STRING]
  BY DEF RegistryInv, QueuesHeld, TypeOK, TablesHeld
<1>3. NoEvents \in [ToSet(Places) -> Seq(Events)]
  BY DEF NoEvents
<1>4. ASSUME NEW m \in traffic.msgs, Receive(m) PROVE RegistryInv'
  <2>1. m.event \in Events /\ m.anchor \in Anchors \cup {NoEvent} /\ m.bigs \in SUBSET STRING
    BY <1>2 DEF RegistryAssumption, MessageType
  <2>2. LogsInv' /\ escrow' \in [{"oo", "al"} -> [ToSet(Places) -> Seq(Events)]]
    BY <1>4, <2>1, ProcessInv DEF Receive
  <2>3. QueuesHeld'
    BY <1>2, <1>4, <2>2 DEF Receive, QueuesHeld
  <2> QED BY <2>2, <2>3 DEF RegistryInv, LogsInv
<1>5. ASSUME NEW k \in traffic.kel, Anchor(k) PROVE RegistryInv'
  <2>1. k \in Anchors
    BY <1>2 DEF RegistryAssumption
  <2>2. LogsInv'
    BY <1>5, <2>1, AnchorInv
  <2>3. QueuesHeld'
    BY <1>2, <1>5 DEF Anchor, QueuesHeld
  <2> QED BY <2>2, <2>3 DEF RegistryInv, LogsInv
<1>6. ASSUME StartLoop PROVE RegistryInv'
  <2>1. LogsInv'
    BY <1>1, <1>6, LogsUnchanged DEF StartLoop
  <2>2. /\ pass'.todo \in [ToSet(Places) -> Seq(Events)]
        /\ pass' = [loop |-> pass'.loop, todo |-> pass'.todo] /\ pass'.loop \in {"idle", "al", "oo"}
    <3>1. \A x \in {"oo", "al"} : Snapshot(x) \in [ToSet(Places) -> Seq(Events)]
      BY <1>2 DEF Snapshot
    <3>2. CASE pass.loop = "idle"
      BY <1>6, <3>1, <3>2 DEF StartLoop
    <3>3. CASE pass.loop = "al"
      BY <1>6, <3>1, <3>3 DEF StartLoop
    <3>4. CASE pass.loop = "oo"
      BY <1>3, <1>6, <3>4 DEF StartLoop, Idle
    <3> QED BY <1>2, <3>2, <3>3, <3>4
  <2>3. QueuesHeld'
    BY <1>2, <1>6, <2>2 DEF StartLoop, QueuesHeld
  <2> QED BY <2>1, <2>3 DEF RegistryInv, LogsInv
<1>7. ASSUME NEW k \in ToSet(Places), pass.todo[k] # <<>>, RetryHead(k) PROVE RegistryInv'
  <2> DEFINE e == Head(pass.todo[k])
  <2>1. e \in Events /\ Tail(pass.todo[k]) \in Seq(Events)
    <3>1. pass.todo[k] \in Seq(Events)
      BY <1>2
    <3> QED BY <1>7, <3>1, TailIn
  <2>2. LogsInv' /\ escrow' \in [{"oo", "al"} -> [ToSet(Places) -> Seq(Events)]]
    <3>1. CASE ancs[e] = NoEvent
      <4>1. UNCHANGED <<tever, states, tels, tvts, ancs, tibs, baks, escrow, twes>> /\ Elsewhere
        BY <1>7, <3>1 DEF RetryHead
      <4> QED BY <1>1, <1>2, <4>1, LogsUnchanged DEF Elsewhere
    <3>2. CASE ancs[e] # NoEvent
      <4>1. processEvent(e, ancs[e], tibs[e], pass.loop) /\ Elsewhere
        BY <1>7, <3>2 DEF RetryHead
      <4>2. ancs[e] \in Anchors \cup {NoEvent} /\ tibs[e] \in SUBSET STRING
        BY <1>2, <2>1
      <4> HIDE DEF e
      <4> QED BY <2>1, <4>1, <4>2, ProcessInv
    <3> QED BY <3>1, <3>2
  <2>3. pass' = [loop |-> pass.loop, todo |-> [pass.todo EXCEPT ![k] = Tail(pass.todo[k])]]
    BY <1>2, <1>7 DEF RetryHead
  <2>4. [pass.todo EXCEPT ![k] = Tail(pass.todo[k])] \in [ToSet(Places) -> Seq(Events)]
    BY <1>2, <2>1
  <2>5. QueuesHeld'
    BY <1>2, <2>2, <2>3, <2>4 DEF QueuesHeld
  <2> QED BY <2>2, <2>5 DEF RegistryInv, LogsInv
<1>8. ASSUME Restart PROVE RegistryInv'
  <2>1. QueuesHeld'
    BY <1>2, <1>3, <1>8 DEF Restart, QueuesHeld, Idle
  <2> QED BY <1>8, <2>1, RestartInv DEF RegistryInv, LogsInv
<1>9. ASSUME UNCHANGED vars PROVE RegistryInv'
  <2>1. LogsInv'
    BY <1>1, <1>9, LogsUnchanged DEF vars
  <2>2. QueuesHeld'
    BY <1>2, <1>9 DEF vars, QueuesHeld
  <2> QED BY <2>1, <2>2 DEF RegistryInv, LogsInv
<1>10. ASSUME RetryItem PROVE RegistryInv'
  <2>1. PICK i \in DOMAIN Places : pass.todo[Places[i]] # <<>> /\ RetryHead(Places[i])
    BY <1>10 DEF RetryItem
  <2>2. Places[i] \in ToSet(Places)
    BY DEF ToSet
  <2> QED BY <1>7, <2>1, <2>2
<1> QED BY <1>4, <1>5, <1>6, <1>8, <1>9, <1>10 DEF Next

-----------------------------------------------------------------------------
(* What holds of every execution                                           *)

(* The logs, the anchors and receipts kept with them, the states in memory *)
(* and in the database and the escrows stay consistent, over restarts too  *)
(* (Tevery, Tever, Reger).                                                 *)
THEOREM RegistryInvariant == ASSUME RegistryAssumption PROVE Spec => []RegistryInv
<1>1. Init => RegistryInv
  BY InitInv
<1>2. RegistryInv /\ [Next]_vars => RegistryInv'
  BY NextInv
<1> QED BY <1>1, <1>2, PTL DEF Spec

(* Every reachable state has its types.                                    *)
THEOREM TypeCorrect == ASSUME RegistryAssumption PROVE Spec => []TypeOK
<1>1. RegistryInv => TypeOK
  BY DEF RegistryInv
<1> QED BY <1>1, RegistryInvariant, PTL

(* No transaction event is accepted before the issuer's log has an event   *)
(* that seals it (Tever.verifyAnchor).                                     *)
THEOREM AcceptedIsAnchored == ASSUME RegistryAssumption PROVE Spec => []AcceptedAnchored
<1>1. RegistryInv => AcceptedAnchored
  BY DEF RegistryInv
<1> QED BY <1>1, RegistryInvariant, PTL

(* Where the Tevery is not local, an accepted registry event keeps the     *)
(* receipts of as many of the backers in force after it as its threshold   *)
(* asks (Tever.valAnchorBigs), whatever its rotations cut and add, until a *)
(* restart.                                                                *)
THEOREM EventsAreBacked == ASSUME RegistryAssumption PROVE Spec => []RegistryBacked
<1>1. RegistryInv => RegistryBacked
  BY DEF RegistryInv
<1> QED BY <1>1, RegistryInvariant, PTL

(* Every log has the events of its numbers in order, over restarts too; a  *)
(* credential's log is a chain always, a registry's until a restart        *)
(* (Tever.revoke, rotate; rbdict reads an earlier state after a restart).  *)
THEOREM LogsAreChains == ASSUME RegistryAssumption PROVE Spec => [](Placed /\ ChainsHeld)
<1>1. RegistryInv => Placed /\ ChainsHeld
  BY DEF RegistryInv
<1> QED BY <1>1, RegistryInvariant, PTL

(* An acceptance adds one event at the end of one log and drops none.      *)
THEOREM LogsOnlyGrow ==
  ASSUME RegistryAssumption
  PROVE  Spec => [][\A p \in Pres : \A n \in DOMAIN tels[p] : n \in DOMAIN tels'[p] /\ tels'[p][n] = tels[p][n]]_vars
<1> DEFINE Grow == \A p \in Pres : \A n \in DOMAIN tels[p] : n \in DOMAIN tels'[p] /\ tels'[p][n] = tels[p][n]
<1>1. ASSUME RegistryInv, NEW e \in Events, NEW a \in Anchors \cup {NoEvent},
             NEW bigs \in SUBSET STRING, NEW from, processEvent(e, a, bigs, from)
      PROVE  Grow
  <2>1. Stays(e) \/ Accepts(e)
    BY <1>1, ProcessOutcome
  <2>2. CASE Stays(e)
    BY <2>2 DEF Stays
  <2>3. CASE Accepts(e)
    <3>1. PICK b, B, f : InOrder(e) /\ Log(e, b, B, f)
      BY <2>3 DEF Accepts
    <3>2. ASSUME NEW p \in Pres, NEW n \in DOMAIN tels[p]
          PROVE  n \in DOMAIN tels'[p] /\ tels'[p][n] = tels[p][n]
      <4>1. tels[p] \in Seq(Events) /\ (tels'[p] = tels[p] \/ tels'[p] = Append(tels[p], e))
        BY <1>1, <3>1, LogFacts
      <4> QED BY <4>1, AppendFacts
    <3> QED BY <3>2
  <2> QED BY <2>1, <2>2, <2>3
<1>2. ASSUME RegistryInv, Next PROVE Grow
  <2>1. ASSUME NEW m \in traffic.msgs, Receive(m) PROVE Grow
    <3>1. m.event \in Events /\ m.anchor \in Anchors \cup {NoEvent} /\ m.bigs \in SUBSET STRING
      BY <1>2 DEF RegistryAssumption, MessageType, RegistryInv, TypeOK
    <3> QED BY <1>1, <1>2, <2>1, <3>1 DEF Receive
  <2>2. ASSUME NEW k \in ToSet(Places), pass.todo[k] # <<>>, RetryHead(k) PROVE Grow
    <3> DEFINE e == Head(pass.todo[k])
    <3>1. e \in Events
      <4>1. pass.todo[k] \in Seq(Events)
        BY <1>2 DEF RegistryInv, QueuesHeld
      <4> QED BY <2>2, <4>1, TailIn
    <3>2. ancs[e] \in Anchors \cup {NoEvent} /\ tibs[e] \in SUBSET STRING
      BY <1>2, <3>1 DEF RegistryInv, TypeOK, TablesHeld
    <3>3. UNCHANGED tels \/ processEvent(e, ancs[e], tibs[e], pass.loop)
      BY <2>2 DEF RetryHead
    <3> HIDE DEF e
    <3> QED BY <1>1, <1>2, <3>1, <3>2, <3>3
  <2>3. ASSUME RetryItem PROVE Grow
    BY <2>2, <2>3 DEF RetryItem, ToSet
  <2>4. ASSUME UNCHANGED tels PROVE Grow
    BY <2>4
  <2> QED BY <1>2, <2>1, <2>3, <2>4 DEF Next, Anchor, StartLoop, Restart
<1>3. RegistryInv /\ [Next]_vars => [Grow]_vars
  BY <1>2
<1> QED BY <1>3, RegistryInvariant, PTL DEF Spec

-----------------------------------------------------------------------------
(* Credential verification, for any credentials, edges, schemas and        *)
(* behaviours, over the variables of module Credentials.                   *)
CONSTANTS Credentials, Worlds, Meets, Outdated, Nobody
VARIABLES timed, world, known, tel, cached, reger, old, cues, todo
Cre == INSTANCE Credentials

(* What an edge without a fault says of its far node.                      *)
LEMMA FineEdge ==
  ASSUME NEW c, NEW e, NEW r, Cre!EdgeFault(c, e, r) = Cre!Fine
  PROVE  /\ e.node \in r.saved /\ ~Cre!Unsupported(c, e) /\ Cre!Related(c, e)
         /\ Cre!Status(e.node) # "none" /\ Cre!Status(e.node) # "revoked"
<1>1. Cre!EdgeFault(c, e, r).why = "fine"
  BY DEF Cre!Fine, Cre!Fault
<1> QED
  BY <1>1, Zenon DEF Cre!EdgeFault, Cre!Fault

(* What is asked for with each fault of an edge.                           *)
LEMMA EdgeCue ==
  ASSUME NEW c, NEW e, NEW r
  PROVE  LET f == Cre!EdgeFault(c, e, r) IN
         /\ f.why \in {"mce", "mse", "invalid", "revoked", "fine"}
         /\ f.why = "fine" => f = Cre!Fine
         /\ f.why = "mse" => f.cue = <<"schema", e.schema>>
         /\ f.why = "mce" => \E k \in {"proof", "tels"} : f.cue = <<k, e.node>>
<1>1. \/ Cre!EdgeFault(c, e, r) = Cre!Fault("mce", <<"proof", e.node>>)
      \/ Cre!EdgeFault(c, e, r) = Cre!Fault("invalid", <<>>)
      \/ Cre!EdgeFault(c, e, r) = Cre!Fault("mse", <<"schema", e.schema>>)
      \/ Cre!EdgeFault(c, e, r) = Cre!Fault("mce", <<"tels", e.node>>)
      \/ Cre!EdgeFault(c, e, r) = Cre!Fault("revoked", <<>>)
      \/ Cre!EdgeFault(c, e, r) = Cre!Fine
  BY Zenon DEF Cre!EdgeFault
<1> QED
  BY <1>1 DEF Cre!Fault, Cre!Fine

(* The edges of a credential are typed.                                    *)
EdgeType == [node : Cre!Creds, ops : Seq(STRING), schema : STRING]
LEMMA EdgesTyped ==
  ASSUME Cre!CredentialsAssumption, NEW c \in Cre!Creds
  PROVE  /\ Cre!C(c).edges \in Seq(EdgeType) /\ DOMAIN Cre!C(c).edges \subseteq Nat
         /\ \A e \in Cre!EdgesOf(c) : e \in EdgeType
<1>1. Cre!C(c) \in Cre!CredentialType
  BY DEF Cre!CredentialsAssumption
<1>2. Cre!C(c).edges \in Seq(EdgeType)
  BY <1>1 DEF Cre!CredentialType, EdgeType
<1> HIDE DEF EdgeType
<1>3. Cre!ToSet(Cre!C(c).edges) \subseteq EdgeType
  BY <1>2, ToSetIn DEF ToSet, Cre!ToSet
<1> QED
  BY <1>2, <1>3 DEF Cre!EdgesOf

(* What a verdict rests on, and what is asked for with it.                 *)
LEMMA VerdictFacts ==
  ASSUME Cre!CredentialsAssumption, NEW c \in Cre!Creds, NEW r
  PROVE  LET v == Cre!Verdict(c, r) IN
         /\ v.why = "fine" => \A e \in Cre!EdgesOf(c) : Cre!EdgeFault(c, e, r) = Cre!Fine
         /\ v.why = "mre" => v.cue = <<"telquery", c>>
         /\ v.why = "mse" => \E s \in {Cre!C(c).schema} \cup {e.schema : e \in Cre!EdgesOf(c)} : v.cue = <<"schema", s>>
         /\ v.why = "mce" => \E e \in Cre!EdgesOf(c) : \E k \in {"proof", "tels"} : v.cue = <<k, e.node>>
<1> DEFINE edges == Cre!C(c).edges
           faults == [i \in DOMAIN edges |-> Cre!EdgeFault(c, edges[i], r)]
           bad == {i \in DOMAIN faults : faults[i] # Cre!Fine}
           v == Cre!Verdict(c, r)
<1>1. DOMAIN edges \subseteq Nat
  BY EdgesTyped
<1>2. Cre!EdgesOf(c) = {edges[i] : i \in DOMAIN edges}
  BY DEF Cre!EdgesOf, Cre!ToSet
<1>3. \/ v = Cre!Fault("mre", <<"telquery", c>>)
      \/ v = Cre!Fault("mse", <<"schema", Cre!C(c).schema>>)
      \/ v = Cre!Fault("invalid", <<>>)
      \/ bad = {} /\ v = Cre!Fine
      \/ bad # {} /\ v = faults[Cre!Min(bad)]
  BY Zenon DEF Cre!Verdict
<1>4. CASE v = Cre!Fault("mre", <<"telquery", c>>) \/ v = Cre!Fault("mse", <<"schema", Cre!C(c).schema>>)
           \/ v = Cre!Fault("invalid", <<>>)
  BY <1>4 DEF Cre!Fault
<1>5. CASE bad = {} /\ v = Cre!Fine
  <2>1. \A e \in Cre!EdgesOf(c) : Cre!EdgeFault(c, e, r) = Cre!Fine
    BY <1>2, <1>5
  <2>2. v.why = "fine"
    BY <1>5 DEF Cre!Fine, Cre!Fault
  <2> QED
    BY <2>1, <2>2
<1>6. CASE bad # {} /\ v = faults[Cre!Min(bad)]
  <2>1. bad \in SUBSET Nat
    BY <1>1
  <2>2. \E n \in bad : \A m \in bad : n <= m
    <3> HIDE DEF bad
    <3> QED
      BY <1>6, <2>1, LeastExists
  <2>3. Cre!Min(bad) \in bad
    <3> HIDE DEF bad
    <3> QED
      BY <2>2 DEF Cre!Min
  <2> DEFINE n == Cre!Min(bad)
             e == edges[n]
  <2>4. n \in DOMAIN edges /\ faults[n] # Cre!Fine /\ v = faults[n]
    BY <1>6, <2>3
  <2> HIDE DEF n
  <2>5. e \in Cre!EdgesOf(c) /\ v = Cre!EdgeFault(c, e, r) /\ v # Cre!Fine
    BY <1>2, <2>4
  <2> HIDE DEF e, bad, edges
  <2>6. /\ v.why \in {"mce", "mse", "invalid", "revoked", "fine"}
        /\ v.why = "fine" => v = Cre!Fine
        /\ v.why = "mse" => v.cue = <<"schema", e.schema>>
        /\ v.why = "mce" => \E k \in {"proof", "tels"} : v.cue = <<k, e.node>>
    BY <2>5, EdgeCue
  <2>7. v.why = "mse" => \E s \in {Cre!C(c).schema} \cup {d.schema : d \in Cre!EdgesOf(c)} : v.cue = <<"schema", s>>
    BY <2>5, <2>6
  <2>8. /\ v.why # "fine" /\ v.why # "mre"
        /\ v.why = "mce" => \E d \in Cre!EdgesOf(c) : \E k \in {"proof", "tels"} : v.cue = <<k, d.node>>
    BY <2>5, <2>6
  <2> QED
    BY <2>7, <2>8, Zenon
<1> HIDE DEF v, bad
<1>7. /\ v.why = "fine" => \A e \in Cre!EdgesOf(c) : Cre!EdgeFault(c, e, r) = Cre!Fine
      /\ v.why = "mre" => v.cue = <<"telquery", c>>
      /\ v.why = "mse" => \E s \in {Cre!C(c).schema} \cup {e.schema : e \in Cre!EdgesOf(c)} : v.cue = <<"schema", s>>
      /\ v.why = "mce" => \E e \in Cre!EdgesOf(c) : \E k \in {"proof", "tels"} : v.cue = <<k, e.node>>
  BY <1>3, <1>4, <1>5, <1>6, Zenon DEF v
<1> QED
  BY <1>7, Zenon DEF v

(* The operators of an edge without a fault hold of its far node.          *)
LEMMA OperatorsHold ==
  ASSUME NEW c, NEW e, e.ops \in Seq(STRING), ~Cre!Unsupported(c, e), Cre!Related(c, e)
  PROVE  \A op \in Cre!InForce(e.ops) : Cre!OpHolds(op, c, e.node)
<1> SUFFICES ASSUME NEW i \in DOMAIN e.ops,
                    e.ops[i] \in Cre!DelegativeOps => Cre!LastDelegative(e.ops, i)
             PROVE  Cre!OpHolds(e.ops[i], c, e.node)
  BY DEF Cre!InForce
<1> DEFINE op == e.ops[i]
<1>1. op \in Cre!ToSet(e.ops)
  BY DEF Cre!ToSet
<1>2. op \in Cre!DelegativeOps => Cre!Delegative(e.ops, e.node) = op
  <2> SUFFICES ASSUME op \in Cre!DelegativeOps PROVE Cre!Delegative(e.ops, e.node) = op
    OBVIOUS
  <2>1. DOMAIN e.ops \subseteq Nat
    OBVIOUS
  <2>2. \A j \in DOMAIN e.ops : Cre!LastDelegative(e.ops, j) => j = i
    BY <2>1 DEF Cre!LastDelegative
  <2>3. Cre!LastDelegative(e.ops, i)
    OBVIOUS
  <2>4. (CHOOSE j \in DOMAIN e.ops : Cre!LastDelegative(e.ops, j)) = i
    BY <2>2, <2>3, Zenon
  <2>5. Cre!ToSet(e.ops) \cap Cre!DelegativeOps # {} /\ Cre!ToSet(e.ops) \cap Cre!UnaryOps # {}
    BY <1>1 DEF Cre!DelegativeOps, Cre!UnaryOps
  <2> QED
    BY <2>4, <2>5, Zenon DEF Cre!Delegative
<1>3. op # "NOT" /\ op # "DI2I"
  BY <1>1, <1>2 DEF Cre!Unsupported, Cre!DelegativeOps
<1>4. op = "E1E" => Cre!C(e.node).issuee # Nobody /\ Cre!C(c).issuee = Cre!C(e.node).issuee
  BY <1>1 DEF Cre!Related
<1>5. op = "I2I" => Cre!C(e.node).issuee # Nobody /\ Cre!C(c).issuer = Cre!C(e.node).issuee
  BY <1>2 DEF Cre!Related, Cre!DelegativeOps
<1> HIDE DEF op
<1>6. Cre!OpHolds(op, c, e.node)
  BY <1>3, <1>4, <1>5 DEF Cre!OpHolds
<1> QED
  BY <1>6 DEF op

(* So does its chain, and its far node is issued and not revoked.          *)
LEMMA FineChained ==
  ASSUME Cre!CredentialsAssumption, Cre!TypeOK, NEW c \in Cre!Creds, NEW r, Cre!Verdict(c, r).why = "fine",
         NEW e \in Cre!EdgesOf(c), r.saved \subseteq Cre!Present
  PROVE  Cre!Chained(c, e, r.saved) /\ Cre!Status(e.node) = "issued"
<1>1. Cre!EdgeFault(c, e, r) = Cre!Fine
  BY VerdictFacts
<1>2. e.ops \in Seq(STRING)
  BY EdgesTyped DEF EdgeType
<1>3. /\ e.node \in r.saved /\ ~Cre!Unsupported(c, e) /\ Cre!Related(c, e)
      /\ Cre!Status(e.node) # "none" /\ Cre!Status(e.node) # "revoked"
  BY <1>1, FineEdge
<1>4. Cre!Status(e.node) \in {"none", "issued", "revoked"}
  BY <1>3 DEF Cre!Status, Cre!TypeOK
<1> QED
  BY <1>2, <1>3, <1>4, OperatorsHold DEF Cre!Chained

-----------------------------------------------------------------------------
(* The tables after a credential was processed, and after an entry left.   *)

(* Every credential at hand is one there is.                               *)
LEMMA PresentIn ==
  ASSUME Cre!TypeOK
  PROVE  Cre!Present \subseteq Cre!Creds
  BY ToSetIn DEF Cre!TypeOK, Cre!Present, ToSet, Cre!ToSet

Stored == [logged : SUBSET Cre!Present, saved : SUBSET Cre!Present, escrow : [Cre!Tables -> SUBSET Cre!Present]]
Consistent(r) ==
  r \in Stored /\ r.saved \subseteq r.logged /\ \A x \in Cre!Tables : r.escrow[x] \subseteq r.logged

LEMMA ProcessedTables ==
  ASSUME Cre!TypeOK, NEW c \in Cre!Present
  PROVE  LET r == Cre!processCredential(c, reger)
             v == Cre!Verdict(c, reger) IN
         /\ Consistent(r) /\ reger.logged \subseteq r.logged
         /\ r.saved = IF v.why = "fine" THEN reger.saved \cup {c} ELSE reger.saved
         /\ \A x \in Cre!Tables : r.escrow[x] = IF x = v.why THEN reger.escrow[x] \cup {c} ELSE reger.escrow[x]
<1> DEFINE v == Cre!Verdict(c, reger)
           logged == IF v.why \in Cre!Tables \cup {"fine"} THEN reger.logged \cup {c} ELSE reger.logged
           saved == IF v.why = "fine" THEN reger.saved \cup {c} ELSE reger.saved
           tables == [x \in Cre!Tables |-> IF x = v.why THEN reger.escrow[x] \cup {c} ELSE reger.escrow[x]]
<1>1. Consistent(reger)
  BY DEF Cre!TypeOK, Consistent, Stored
<1>2. Cre!processCredential(c, reger) = [logged |-> logged, saved |-> saved, escrow |-> tables]
  <2> HIDE DEF v
  <2>1. Cre!processCredential(c, reger) =
              [reger EXCEPT !.logged = IF v.why \in Cre!Tables \cup {"fine"} THEN @ \cup {c} ELSE @,
                            !.saved = IF v.why = "fine" THEN @ \cup {c} ELSE @,
                            !.escrow = [x \in Cre!Tables |-> IF x = v.why THEN @[x] \cup {c} ELSE @[x]]]
    BY Zenon DEF Cre!processCredential, v
  <2> QED
    BY <1>1, <2>1 DEF Consistent, Stored
<1> HIDE DEF v
<1>3. Consistent([logged |-> logged, saved |-> saved, escrow |-> tables])
  <2>1. logged \in SUBSET Cre!Present /\ saved \in SUBSET Cre!Present /\ saved \subseteq logged
    BY <1>1 DEF Consistent, Stored
  <2>2. tables \in [Cre!Tables -> SUBSET Cre!Present] /\ \A x \in Cre!Tables : tables[x] \subseteq logged
    BY <1>1 DEF Consistent, Stored
  <2> HIDE DEF logged, saved, tables
  <2> QED
    BY <2>1, <2>2 DEF Consistent, Stored
<1> QED
  BY <1>2, <1>3 DEF v

LEMMA LeftTables ==
  ASSUME NEW r, Consistent(r), NEW x \in Cre!Tables, NEW c
  PROVE  /\ Consistent(Cre!Leave(x, c, r)) /\ Cre!Leave(x, c, r).saved = r.saved
         /\ Cre!Leave(x, c, r).logged = r.logged
         /\ \A y \in Cre!Tables : Cre!Leave(x, c, r).escrow[y] = IF y = x THEN r.escrow[y] \ {c} ELSE r.escrow[y]
  BY DEF Cre!Leave, Consistent, Stored

(* A step that processes a credential or lets an entry go keeps what is    *)
(* saved on its chain, and what waits asked for.                           *)
LEMMA ProcessingKeeps ==
  ASSUME Cre!CredentialsAssumption, Cre!CredentialsInv, NEW c \in Cre!Present, UNCHANGED <<world, known, tel>>,
         cues \subseteq cues', reger.saved \subseteq reger'.saved,
         \A q \in reger'.saved : q \in reger.saved \/ (q = c /\ Cre!Verdict(c, reger).why = "fine"),
         \A x \in Cre!Tables : \A q \in reger'.escrow[x] :
            \/ q \in reger.escrow[x]
            \/ q = c /\ x = Cre!Verdict(c, reger).why /\ Cre!Verdict(c, reger).cue \in cues'
  PROVE  Cre!ChainsComplete' /\ Cre!WaitingAsked'
<1>1. c \in Cre!Creds /\ reger.saved \subseteq Cre!Present
  BY PresentIn DEF Cre!CredentialsInv, Cre!TypeOK
<1>2. Cre!ChainsComplete'
  <2> SUFFICES ASSUME NEW q \in reger'.saved, NEW e \in Cre!EdgesOf(q)
               PROVE  Cre!Chained(q, e, reger'.saved) /\ Cre!Status(e.node)' # "none"
    BY DEF Cre!ChainsComplete
  <2>1. Cre!Status(e.node)' = Cre!Status(e.node)
    BY DEF Cre!Status
  <2>2. Cre!Chained(q, e, reger.saved) /\ Cre!Status(e.node) # "none"
    <3>1. CASE q \in reger.saved
      BY <3>1 DEF Cre!CredentialsInv, Cre!ChainsComplete
    <3>2. CASE q = c /\ Cre!Verdict(c, reger).why = "fine"
      BY <1>1, <3>2, FineChained DEF Cre!CredentialsInv
    <3> QED
      BY <3>1, <3>2
  <2> QED
    BY <2>1, <2>2 DEF Cre!Chained
<1>3. Cre!WaitingAsked'
  <2>1. ASSUME NEW q \in reger'.escrow["mre"]
        PROVE  <<"telquery", q>> \in cues'
    <3>1. CASE q \in reger.escrow["mre"]
      BY <3>1 DEF Cre!CredentialsInv, Cre!WaitingAsked
    <3>2. CASE q = c /\ "mre" = Cre!Verdict(c, reger).why /\ Cre!Verdict(c, reger).cue \in cues'
      BY <1>1, <3>2, VerdictFacts
    <3> QED
      BY <2>1, <3>1, <3>2 DEF Cre!Tables
  <2>2. ASSUME NEW q \in reger'.escrow["mce"]
        PROVE  \E e \in Cre!EdgesOf(q) : \E k \in {"proof", "tels"} : <<k, e.node>> \in cues'
    <3>1. CASE q \in reger.escrow["mce"]
      <4>1. PICK e \in Cre!EdgesOf(q) : \E k \in {"proof", "tels"} : <<k, e.node>> \in cues
        BY <3>1 DEF Cre!CredentialsInv, Cre!WaitingAsked
      <4> QED
        BY <4>1
    <3>2. CASE q = c /\ "mce" = Cre!Verdict(c, reger).why /\ Cre!Verdict(c, reger).cue \in cues'
      <4>1. PICK e \in Cre!EdgesOf(c) : \E k \in {"proof", "tels"} : Cre!Verdict(c, reger).cue = <<k, e.node>>
        BY <1>1, <3>2, VerdictFacts
      <4> QED
        BY <3>2, <4>1
    <3> QED
      BY <2>2, <3>1, <3>2 DEF Cre!Tables
  <2>3. ASSUME NEW q \in reger'.escrow["mse"]
        PROVE  \E s \in {Cre!C(q).schema} \cup {e.schema : e \in Cre!EdgesOf(q)} : <<"schema", s>> \in cues'
    <3>1. CASE q \in reger.escrow["mse"]
      <4>1. PICK s \in {Cre!C(q).schema} \cup {e.schema : e \in Cre!EdgesOf(q)} : <<"schema", s>> \in cues
        BY <3>1 DEF Cre!CredentialsInv, Cre!WaitingAsked
      <4> QED
        BY <4>1
    <3>2. CASE q = c /\ "mse" = Cre!Verdict(c, reger).why /\ Cre!Verdict(c, reger).cue \in cues'
      <4>1. PICK s \in {Cre!C(c).schema} \cup {e.schema : e \in Cre!EdgesOf(c)} : Cre!Verdict(c, reger).cue = <<"schema", s>>
        BY <1>1, <3>2, VerdictFacts
      <4> QED
        BY <3>2, <4>1
    <3> QED
      BY <2>3, <3>1, <3>2 DEF Cre!Tables
  <2> QED
    BY <2>1, <2>2, <2>3 DEF Cre!WaitingAsked
<1> QED
  BY <1>2, <1>3

(* What a credential newly in an escrow lacks is asked for.                *)
LEMMA NewAsked ==
  ASSUME NEW c, NEW r, Cre!Verdict(c, r).why \in Cre!Tables, c \notin r.escrow[Cre!Verdict(c, r).why]
  PROVE  Cre!Verdict(c, r).cue \in Cre!Ask(c, r)
  BY DEF Cre!Ask

(* The types of the variables but for those that a pass is about.          *)
LEMMA TypeKept ==
  ASSUME Cre!TypeOK, UNCHANGED <<timed, world, known, tel, cached>>, Consistent(reger'),
         old' \subseteq old, \A p \in old' : p[2] \in reger'.escrow[p[1]],
         \/ todo' = Cre!Idle
         \/ /\ todo'.table \in Cre!Tables /\ todo' = [table |-> todo'.table, left |-> todo'.left]
            /\ todo'.left \subseteq reger'.escrow[todo'.table]
  PROVE  Cre!TypeOK'
<1>1. Cre!Registries' = Cre!Registries /\ Cre!Schemas' = Cre!Schemas /\ Cre!Present' = Cre!Present
  BY DEF Cre!Registries, Cre!Schemas, Cre!Present
<1> QED
  BY <1>1 DEF Cre!TypeOK, Consistent, Stored

LEMMA ReceiveKeeps ==
  ASSUME Cre!CredentialsAssumption, Cre!CredentialsInv, NEW c \in Cre!Present, Cre!Receive(c)
  PROVE  Cre!CredentialsInv'
<1> DEFINE v == Cre!Verdict(c, reger)
<1>1. /\ reger' = Cre!processCredential(c, reger) /\ cues' = cues \cup Cre!Ask(c, reger) /\ todo = Cre!Idle
      /\ UNCHANGED <<timed, world, known, tel, cached, old, todo>>
  BY DEF Cre!Receive
<1>2. /\ Consistent(reger') /\ reger.logged \subseteq reger'.logged
      /\ reger'.saved = IF v.why = "fine" THEN reger.saved \cup {c} ELSE reger.saved
      /\ \A x \in Cre!Tables : reger'.escrow[x] = IF x = v.why THEN reger.escrow[x] \cup {c} ELSE reger.escrow[x]
  BY <1>1, ProcessedTables DEF Cre!CredentialsInv
<1>3. \A x \in Cre!Tables : \A q \in reger'.escrow[x] :
         q \in reger.escrow[x] \/ (q = c /\ x = v.why /\ v.cue \in cues')
  <2> SUFFICES ASSUME NEW x \in Cre!Tables, NEW q \in reger'.escrow[x], q \notin reger.escrow[x]
               PROVE  q = c /\ x = v.why /\ v.cue \in cues'
    OBVIOUS
  <2>1. q = c /\ x = v.why
    BY <1>2
  <2>2. v.cue \in Cre!Ask(c, reger)
    BY <2>1, NewAsked
  <2> QED
    BY <1>1, <2>1, <2>2
<1>4. Cre!ChainsComplete' /\ Cre!WaitingAsked'
  <2> HIDE DEF v
  <2>1. cues \subseteq cues' /\ reger.saved \subseteq reger'.saved
        /\ \A q \in reger'.saved : q \in reger.saved \/ (q = c /\ v.why = "fine")
    BY <1>1, <1>2
  <2> QED
    BY <1>1, <1>3, <2>1, ProcessingKeeps DEF v
<1>5. Cre!TypeOK'
  <2>1. \A p \in old' : p[2] \in reger'.escrow[p[1]]
    <3> HIDE DEF v
    <3> QED
      BY <1>1, <1>2 DEF Cre!CredentialsInv, Cre!TypeOK
  <2> QED
    BY <1>1, <1>2, <2>1, TypeKept DEF Cre!CredentialsInv
<1> QED
  BY <1>4, <1>5 DEF Cre!CredentialsInv

LEMMA RetryNextKeeps ==
  ASSUME Cre!CredentialsAssumption, Cre!CredentialsInv, Cre!RetryNext
  PROVE  Cre!CredentialsInv'
<1> DEFINE x == todo.table
<1>1. PICK c \in todo.left :
         /\ Cre!Retry(x, c) /\ todo' = [todo EXCEPT !.left = @ \ {c}]
         /\ old' = {p \in old : p[2] \in reger'.escrow[p[1]]}
         /\ UNCHANGED <<timed, world, known, tel, cached>>
  BY Zenon DEF Cre!RetryNext
<1> DEFINE v == Cre!Verdict(c, reger)
<1>2. x \in Cre!Tables /\ todo.left \subseteq reger.escrow[x] /\ todo = [table |-> x, left |-> todo.left]
  BY <1>1 DEF Cre!CredentialsInv, Cre!TypeOK, Cre!Idle
<1>3. todo.left \in SUBSET Cre!Present /\ Consistent(reger)
  BY <1>2 DEF Cre!CredentialsInv, Cre!TypeOK, Consistent, Stored
<1>4. c \in todo.left /\ c \in Cre!Present
  BY <1>1, <1>3
<1> HIDE DEF x
<1> DEFINE after == Cre!processCredential(c, reger)
<1>5. /\ Consistent(after) /\ reger.logged \subseteq after.logged
      /\ after.saved = IF v.why = "fine" THEN reger.saved \cup {c} ELSE reger.saved
      /\ \A y \in Cre!Tables : after.escrow[y] = IF y = v.why THEN reger.escrow[y] \cup {c} ELSE reger.escrow[y]
  BY <1>4, ProcessedTables DEF Cre!CredentialsInv
<1>6. \/ <<x, c>> \in old /\ cues' = cues /\ reger' = Cre!Leave(x, c, reger)
      \/ cues' = cues \cup Cre!Ask(c, reger) /\ (reger' = after \/ reger' = Cre!Leave(x, c, after))
  BY <1>1 DEF Cre!Retry
<1> HIDE DEF after, v
<1>7. /\ Consistent(reger') /\ reger.saved \subseteq reger'.saved
      /\ \A q \in reger'.saved : q \in reger.saved \/ (q = c /\ v.why = "fine")
      /\ \A y \in Cre!Tables : \A q \in reger'.escrow[y] :
            q \in reger.escrow[y] \/ (q = c /\ y = v.why /\ cues' = cues \cup Cre!Ask(c, reger))
      /\ \A y \in Cre!Tables : reger.escrow[y] \ {c} \subseteq reger'.escrow[y]
  <2>0. x \in Cre!Tables
    BY <1>2
  <2>1. CASE reger' = Cre!Leave(x, c, reger)
    <3>1. /\ Consistent(Cre!Leave(x, c, reger)) /\ Cre!Leave(x, c, reger).saved = reger.saved
          /\ \A y \in Cre!Tables :
               Cre!Leave(x, c, reger).escrow[y] = IF y = x THEN reger.escrow[y] \ {c} ELSE reger.escrow[y]
      BY <2>0, <1>3 DEF Cre!Leave, Consistent, Stored
    <3> QED
      BY <2>1, <3>1
  <2>2. CASE reger' = after /\ cues' = cues \cup Cre!Ask(c, reger)
    BY <1>5, <2>2
  <2>3. CASE reger' = Cre!Leave(x, c, after) /\ cues' = cues \cup Cre!Ask(c, reger)
    <3>1. /\ Consistent(Cre!Leave(x, c, after)) /\ Cre!Leave(x, c, after).saved = after.saved
          /\ \A y \in Cre!Tables :
               Cre!Leave(x, c, after).escrow[y] = IF y = x THEN after.escrow[y] \ {c} ELSE after.escrow[y]
      BY <2>0, <1>5 DEF Cre!Leave, Consistent, Stored
    <3> QED
      BY <1>5, <2>3, <3>1
  <2> QED
    BY <1>6, <2>1, <2>2, <2>3, Zenon
<1>8. \A y \in Cre!Tables : \A q \in reger'.escrow[y] :
         q \in reger.escrow[y] \/ (q = c /\ y = v.why /\ v.cue \in cues')
  BY <1>7, NewAsked DEF v
<1>9. Cre!ChainsComplete' /\ Cre!WaitingAsked'
  <2>1. cues \subseteq cues'
    BY <1>6
  <2> QED
    BY <1>1, <1>4, <1>7, <1>8, <2>1, ProcessingKeeps DEF v
<1>10. Cre!TypeOK'
  <2>1. old' \subseteq old /\ \A p \in old' : p[2] \in reger'.escrow[p[1]]
    BY <1>1
  <2>2. todo' = [table |-> x, left |-> todo.left \ {c}]
    <3> DEFINE left == todo.left
    <3>1. todo = [table |-> x, left |-> left] /\ todo' = [todo EXCEPT !.left = @ \ {c}]
      BY <1>1, <1>2
    <3> HIDE DEF left
    <3>2. todo' = [table |-> x, left |-> left \ {c}]
      BY <3>1
    <3> QED
      BY <3>2 DEF left
  <2>3. todo.left \ {c} \subseteq reger'.escrow[x]
    BY <1>2, <1>7
  <2>4. todo'.table = x /\ todo'.left = todo.left \ {c}
    BY <2>2
  <2>5. Cre!TypeOK /\ Consistent(reger') /\ x \in Cre!Tables
    BY <1>2, <1>7 DEF Cre!CredentialsInv
  <2> QED
    BY <1>1, <2>1, <2>2, <2>3, <2>4, <2>5, TypeKept
<1> QED
  BY <1>9, <1>10 DEF Cre!CredentialsInv

(* What the rest of the system brings, and the passage of time.            *)
LEMMA LearningKeeps ==
  ASSUME Cre!CredentialsInv,
         \/ \E c \in Cre!Present : Cre!LearnEvent(c)
         \/ \E x \in Cre!Tables, c \in Cre!Present : Cre!Expire(x, c)
         \/ \E r \in Cre!Registries : Cre!LearnRegistry(r)
         \/ \E s \in Cre!Schemas : Cre!LearnSchema(s)
         \/ Cre!processEscrows \/ Cre!NextTable \/ UNCHANGED Cre!vars
  PROVE  Cre!CredentialsInv'
<1>1. UNCHANGED <<timed, world, reger, cues>>
  BY DEF Cre!LearnEvent, Cre!Expire, Cre!LearnRegistry, Cre!LearnSchema, Cre!processEscrows, Cre!NextTable, Cre!vars
<1>2. Cre!Registries' = Cre!Registries /\ Cre!Schemas' = Cre!Schemas /\ Cre!Present' = Cre!Present
  BY <1>1 DEF Cre!Registries, Cre!Schemas, Cre!Present
<1>3. ASSUME NEW far \in Cre!Present, Cre!Status(far) # "none" PROVE Cre!Status(far)' # "none"
  <2>1. known \subseteq known' /\ (tel[far] # "none" => tel'[far] # "none")
    BY DEF Cre!LearnEvent, Cre!Expire, Cre!LearnRegistry, Cre!LearnSchema, Cre!processEscrows, Cre!NextTable, Cre!vars,
           Cre!CredentialsInv, Cre!TypeOK
  <2> QED
    BY <1>3, <2>1 DEF Cre!Status
<1>4. Cre!ChainsComplete'
  BY <1>1, <1>3 DEF Cre!CredentialsInv, Cre!ChainsComplete, Cre!Chained, Cre!TypeOK
<1>5. Cre!WaitingAsked'
  BY <1>1 DEF Cre!CredentialsInv, Cre!WaitingAsked
<1>6. Cre!TypeOK'
  <2>1. ASSUME NEW c \in Cre!Present, Cre!LearnEvent(c) PROVE Cre!TypeOK'
    <3>1. tel' \in [Cre!Present -> {"none", "issued", "revoked"}]
      BY <2>1 DEF Cre!LearnEvent, Cre!CredentialsInv, Cre!TypeOK
    <3> QED
      BY <1>1, <1>2, <2>1, <3>1 DEF Cre!LearnEvent, Cre!CredentialsInv, Cre!TypeOK
  <2>2. ASSUME NEW x \in Cre!Tables, NEW c \in Cre!Present, Cre!Expire(x, c) PROVE Cre!TypeOK'
    <3>1. old' \subseteq Cre!Tables \X Cre!Present /\ \A p \in old' : p[2] \in reger.escrow[p[1]]
      BY <2>2 DEF Cre!Expire, Cre!CredentialsInv, Cre!TypeOK
    <3> QED
      BY <1>1, <1>2, <2>2, <3>1 DEF Cre!Expire, Cre!CredentialsInv, Cre!TypeOK
  <2>3. ASSUME NEW r \in Cre!Registries, Cre!LearnRegistry(r) PROVE Cre!TypeOK'
    BY <1>1, <1>2, <2>3 DEF Cre!LearnRegistry, Cre!CredentialsInv, Cre!TypeOK
  <2>4. ASSUME NEW s \in Cre!Schemas, Cre!LearnSchema(s) PROVE Cre!TypeOK'
    BY <1>1, <1>2, <2>4 DEF Cre!LearnSchema, Cre!CredentialsInv, Cre!TypeOK
  <2>5. ASSUME Cre!processEscrows \/ Cre!NextTable PROVE Cre!TypeOK'
    <3>1. PICK x \in Cre!Tables \cup {"none"} : todo' = Cre!EntriesOf(x)
      BY <2>5 DEF Cre!processEscrows, Cre!NextTable, Cre!Tables, Cre!NextOf, Cre!CredentialsInv, Cre!TypeOK
    <3>2. \/ todo' = Cre!Idle
          \/ x \in Cre!Tables /\ todo' = [table |-> x, left |-> reger.escrow[x]]
      BY <3>1 DEF Cre!EntriesOf
    <3>3. UNCHANGED <<timed, world, known, tel, cached, reger, old>>
      BY <2>5 DEF Cre!processEscrows, Cre!NextTable
    <3> QED
      BY <3>2, <3>3, TypeKept DEF Cre!CredentialsInv, Cre!TypeOK, Consistent, Stored
  <2>6. ASSUME UNCHANGED Cre!vars PROVE Cre!TypeOK'
    BY <1>2, <2>6 DEF Cre!vars, Cre!CredentialsInv, Cre!TypeOK
  <2> QED
    BY <2>1, <2>2, <2>3, <2>4, <2>5, <2>6
<1> QED
  BY <1>4, <1>5, <1>6 DEF Cre!CredentialsInv

(* The inductive invariant of credential verification.                     *)
THEOREM CredentialsInvariant ==
  ASSUME Cre!CredentialsAssumption
  PROVE  Cre!Spec => []Cre!CredentialsInv
<1>1. Cre!Init => Cre!CredentialsInv
  <2> SUFFICES ASSUME Cre!Init PROVE Cre!CredentialsInv
    OBVIOUS
  <2>1. PICK w \in Worlds :
          /\ world = w.creds /\ timed = w.timed
          /\ known = {Cre!C(c).reg : c \in w.saved} /\ cached = {Cre!C(c).schema : c \in w.saved}
          /\ tel = [c \in Cre!ToSet(w.creds) |-> IF c \in w.saved THEN "issued" ELSE "none"]
          /\ reger = [logged |-> w.saved, saved |-> w.saved, escrow |-> [x \in Cre!Tables |-> {}]]
          /\ old = {} /\ cues = {} /\ todo = Cre!Idle
    BY DEF Cre!Init
  <2>2. /\ world \in Seq(Cre!Creds) /\ timed \in BOOLEAN /\ w.saved \subseteq Cre!Present
        /\ \A c \in w.saved : \A e \in Cre!EdgesOf(c) : Cre!Chained(c, e, w.saved)
    BY <2>1 DEF Cre!CredentialsAssumption, Cre!Present
  <2>3. known \subseteq Cre!Registries /\ cached \subseteq Cre!Schemas
    BY <2>1, <2>2 DEF Cre!Registries, Cre!Schemas
  <2>4. Cre!TypeOK
    BY <2>1, <2>2, <2>3 DEF Cre!TypeOK, Cre!Present
  <2>5. Cre!ChainsComplete
    <3> SUFFICES ASSUME NEW c \in w.saved, NEW e \in Cre!EdgesOf(c)
                 PROVE  Cre!Chained(c, e, w.saved) /\ Cre!Status(e.node) # "none"
      BY <2>1 DEF Cre!ChainsComplete
    <3>1. Cre!Chained(c, e, w.saved) /\ e.node \in w.saved
      BY <2>2 DEF Cre!Chained
    <3> QED
      BY <2>1, <2>2, <3>1 DEF Cre!Status, Cre!Present
  <2>6. Cre!WaitingAsked
    BY <2>1 DEF Cre!WaitingAsked, Cre!Tables
  <2> QED
    BY <2>4, <2>5, <2>6 DEF Cre!CredentialsInv
<1>2. Cre!CredentialsInv /\ [Cre!Next]_(Cre!vars) => Cre!CredentialsInv'
  BY ReceiveKeeps, RetryNextKeeps, LearningKeeps DEF Cre!Next
<1> QED
  BY <1>1, <1>2, PTL DEF Cre!Spec

(* A credential is saved with its whole chain, whatever order registries,  *)
(* events, schemas and credentials come in, and what waits has asked.      *)
THEOREM ChainsAreComplete ==
  ASSUME Cre!CredentialsAssumption
  PROVE  Cre!Spec => [](Cre!ChainsComplete /\ Cre!WaitingAsked)
<1>1. Cre!CredentialsInv => Cre!ChainsComplete /\ Cre!WaitingAsked
  BY DEF Cre!CredentialsInv
<1> QED
  BY <1>1, CredentialsInvariant, PTL

(* No step saves a credential over a far node known to be revoked.         *)
THEOREM SavedNotOverRevoked ==
  ASSUME Cre!CredentialsAssumption
  PROVE  Cre!Spec => Cre!NotOverRevoked
<1>1. ASSUME Cre!CredentialsInv, [Cre!Next]_(Cre!vars), NEW c \in reger'.saved \ reger.saved, NEW e \in Cre!EdgesOf(c)
      PROVE  Cre!Status(e.node) = "issued"
  <2>1. reger' # reger
    BY <1>1
  <2>2. PICK q \in Cre!Present : reger'.saved \subseteq reger.saved \cup {q}
                                 /\ (q \in reger'.saved \ reger.saved => Cre!Verdict(q, reger).why = "fine")
    <3>1. CASE \E q \in Cre!Present : Cre!Receive(q)
      <4>1. PICK q \in Cre!Present : reger' = Cre!processCredential(q, reger)
        BY <3>1 DEF Cre!Receive
      <4>2. Cre!processCredential(q, reger).saved =
                  IF Cre!Verdict(q, reger).why = "fine" THEN reger.saved \cup {q} ELSE reger.saved
        BY <1>1, ProcessedTables DEF Cre!CredentialsInv
      <4> QED
        BY <4>1, <4>2
    <3>2. CASE Cre!RetryNext
      <4> DEFINE x == todo.table
      <4>1. PICK q \in todo.left : Cre!Retry(x, q)
        BY <3>2, Zenon DEF Cre!RetryNext
      <4>2. x \in Cre!Tables /\ todo.left \in SUBSET Cre!Present /\ Consistent(reger)
        BY <1>1, <4>1 DEF Cre!CredentialsInv, Cre!TypeOK, Cre!Idle, Consistent, Stored
      <4>3. q \in Cre!Present
        BY <4>1, <4>2
      <4> HIDE DEF x
      <4>4. /\ Consistent(Cre!processCredential(q, reger))
            /\ Cre!processCredential(q, reger).saved =
                     IF Cre!Verdict(q, reger).why = "fine" THEN reger.saved \cup {q} ELSE reger.saved
        BY <1>1, <4>3, ProcessedTables DEF Cre!CredentialsInv
      <4>5. \/ reger' = Cre!Leave(x, q, reger)
            \/ reger' = Cre!processCredential(q, reger)
            \/ reger' = Cre!Leave(x, q, Cre!processCredential(q, reger))
        BY <4>1 DEF Cre!Retry
      <4>6. reger'.saved = reger.saved \/ reger'.saved = Cre!processCredential(q, reger).saved
        BY <4>2, <4>4, <4>5, LeftTables
      <4> QED
        BY <4>3, <4>4, <4>6
    <3>3. CASE ~Cre!RetryNext /\ ~\E q \in Cre!Present : Cre!Receive(q)
      BY <1>1, <2>1, <3>3 DEF Cre!Next, Cre!LearnEvent, Cre!Expire, Cre!LearnRegistry, Cre!LearnSchema, Cre!processEscrows,
                              Cre!NextTable, Cre!vars
    <3> QED
      BY <3>1, <3>2, <3>3
  <2>3. c = q /\ Cre!Verdict(c, reger).why = "fine" /\ c \in Cre!Creds /\ reger.saved \subseteq Cre!Present
    BY <1>1, <2>2, PresentIn DEF Cre!CredentialsInv, Cre!TypeOK
  <2> QED
    BY <1>1, <2>3, FineChained DEF Cre!CredentialsInv
<1>2. Cre!CredentialsInv /\ [Cre!Next]_(Cre!vars) =>
            [\A c \in reger'.saved \ reger.saved : \A e \in Cre!EdgesOf(c) : Cre!Status(e.node) = "issued"]_(Cre!vars)
  BY <1>1
<1> QED
  BY <1>2, CredentialsInvariant, PTL DEF Cre!Spec, Cre!NotOverRevoked

-----------------------------------------------------------------------------
(* Notices of the state of registries and credentials, for any logs, any   *)
(* sources and any notices, over the variables of module TxnStates.        *)
CONSTANTS RegistryUpdates, CredentialUpdates, Issuer, Witnesses, Watchers, NoticeWorlds, MaxReloads
VARIABLES about, kevers, reached, counted, waiting, stated, past, arrived, asked, answered, aged, reloads
Txn == INSTANCE TxnStates WITH tels <- reached, tever <- counted, saved <- stated

(* The logs have their updates in order.                                   *)
LEMMA UpdateFacts ==
  ASSUME Txn!NoticesAssumption, NEW k \in Txn!Kinds
  PROVE  Len(Txn!LogOf(k)) \in Nat /\ DOMAIN Txn!LogOf(k) = 1..Len(Txn!LogOf(k))
  BY DEF Txn!NoticesAssumption

(* What a host tells was signed and is an event of a log.                  *)
LEMMA ToldFits ==
  ASSUME Txn!NoticesAssumption, Txn!TypeOK, NEW n \in Txn!Told
  PROVE  n.kind \in Txn!Kinds /\ n.sn \in Nat /\ n.signed /\ ~Txn!Mismatch(n)
<1>1. PICK t \in about.told :
        n = IF t.kind = "registry" THEN Txn!state(t.from, t.n) ELSE Txn!vcState(t.from, t.n)
  BY DEF Txn!Told
<1>2. t.kind \in Txn!Kinds /\ t.n \in DOMAIN Txn!LogOf(t.kind)
  BY DEF Txn!TypeOK, Txn!NoticesAssumption
<1>3. t.n \in Nat \ {0}
  BY <1>2, UpdateFacts
<1>4. CASE t.kind = "registry"
  <2>1. n.kind = "registry" /\ n.sn = t.n - 1 /\ n.signed = TRUE /\ n.event = RegistryUpdates[t.n].event
    BY <1>1, <1>4 DEF Txn!state, Txn!Notice
  <2> QED
    BY <1>3, <2>1 DEF Txn!Kinds, Txn!Mismatch, Txn!LogOf
<1>5. CASE t.kind # "registry"
  <2>1. n.kind = "credential" /\ n.sn = t.n - 1 /\ n.signed = TRUE /\ n.event = CredentialUpdates[t.n].event
    BY <1>1, <1>5 DEF Txn!vcState, Txn!Notice
  <2> QED
    BY <1>3, <2>1 DEF Txn!Kinds, Txn!Mismatch, Txn!LogOf
<1> QED
  BY <1>4, <1>5

(* Every notice is of a registry or a credential, and has a place.         *)
LEMMA NoticeFacts ==
  ASSUME Txn!NoticesAssumption, Txn!TypeOK, NEW n \in Txn!Notices
  PROVE  n.kind \in Txn!Kinds /\ n.sn \in Nat
<1>1. CASE n \in Txn!Told
  BY <1>1, ToldFits
<1>2. CASE n \in about.odd
  BY <1>2 DEF Txn!TypeOK, Txn!NoticesAssumption
<1> QED
  BY <1>1, <1>2 DEF Txn!Notices

(* A notice that comes, or is retried, waits, is dropped or is saved.      *)
Takes(n) ==
  /\ kevers /\ ~Txn!Refused(n) /\ n.sn < reached[n.kind] /\ ~Txn!Mismatch(n)
  /\ n.kind = "credential" => counted # 0
LEMMA NoticeOutcomes ==
  ASSUME NEW n, NEW from, n.kind \in Txn!Kinds, Txn!processReply(n, from)
  PROVE  \/ \E x \in Txn!Types : Txn!escrowStateNotice(x, n, from)
         \/ Txn!Drop(n, from) /\ (Txn!Refused(n) \/ Txn!Mismatch(n))
         \/ Txn!updateReply(n, from) /\ Takes(n)
<1>1. CASE n.kind = "registry" /\ Txn!processReplyRegistryTxnState(n, from)
  BY <1>1 DEF Txn!processReplyRegistryTxnState, Txn!Types, Takes
<1>2. CASE n.kind = "credential" /\ Txn!processReplyCredentialTxnState(n, from)
  BY <1>2 DEF Txn!processReplyCredentialTxnState, Txn!Types, Takes, Txn!MissingRegistry
<1> QED
  BY <1>1, <1>2 DEF Txn!processReply

(* What leaves an escrow is the notice that was retried from it.           *)
LEMMA LeavesOne ==
  ASSUME Txn!TypeOK, NEW n, NEW from
  PROVE  /\ Txn!Without(n, from) \in [Txn!Types -> SUBSET Txn!Notices]
         /\ \A y \in Txn!Types : /\ Txn!Without(n, from)[y] \subseteq waiting[y]
                                 /\ waiting[y] \ {n} \subseteq Txn!Without(n, from)[y]
  BY DEF Txn!TypeOK, Txn!Without

(* A pass or an arrival that leaves the notice waiting.                    *)
LEMMA WaitsKeeps ==
  ASSUME Txn!NoticesAssumption, Txn!NoticesInv, NEW n \in Txn!Notices, NEW from, NEW x \in Txn!Types,
         Txn!escrowStateNotice(x, n, from),
         UNCHANGED <<about, Txn!logs, answered, aged, reloads>>,
         arrived \subseteq arrived', arrived' \subseteq arrived \cup {n}
  PROVE  Txn!NoticesInv'
<1> DEFINE W == Txn!Without(n, IF from = x THEN "none" ELSE from)
<1>1. /\ W \in [Txn!Types -> SUBSET Txn!Notices]
      /\ \A y \in Txn!Types : W[y] \subseteq waiting[y] /\ waiting[y] \ {n} \subseteq W[y]
  BY LeavesOne DEF Txn!NoticesInv
<1>2. waiting' = [W EXCEPT ![x] = @ \cup {n}]
  BY DEF Txn!escrowStateNotice
<1> HIDE DEF W
<1>3. /\ waiting' \in [Txn!Types -> SUBSET Txn!Notices] /\ n \in waiting'[x]
      /\ \A y \in Txn!Types : waiting[y] \ {n} \subseteq waiting'[y]
      /\ \A y \in Txn!Types : waiting'[y] \subseteq waiting[y] \cup (IF y = x THEN {n} ELSE {})
  BY <1>1, <1>2
<1>4. /\ UNCHANGED <<about, kevers, reached, counted, answered, aged, reloads, stated, past>>
      /\ asked' = IF n \in waiting[x] THEN asked ELSE asked \cup {Txn!Query(x, n)}
      /\ Txn!Told' = Txn!Told /\ Txn!Notices' = Txn!Notices /\ Txn!BaksAt(1)' = Txn!BaksAt(1)
  BY DEF Txn!escrowStateNotice, Txn!logs, Txn!Told, Txn!Notices, Txn!state, Txn!vcState, Txn!BaksAt, Txn!Notice
<1>5. Txn!TypeOK'
  BY <1>3, <1>4 DEF Txn!NoticesInv, Txn!TypeOK
<1>6. Txn!NoticesTrue'
  BY <1>4 DEF Txn!NoticesInv, Txn!NoticesTrue
<1>7. Txn!NoticesKept'
  <2> SUFFICES ASSUME NEW m \in arrived', Txn!Always(m)', m \notin aged
               PROVE  m \in past \/ Txn!Overtaken(m)' \/ \E y \in Txn!Types : m \in waiting'[y]
    BY <1>4 DEF Txn!NoticesKept
  <2>1. Txn!Always(m) /\ (Txn!Overtaken(m) <=> Txn!Overtaken(m)')
    BY <1>4 DEF Txn!Always, Txn!Overtaken
  <2>2. CASE m = n
    BY <1>3, <2>2
  <2>3. CASE m # n
    BY <1>3, <2>1, <2>3 DEF Txn!NoticesInv, Txn!NoticesKept
  <2> QED
    BY <2>2, <2>3
<1>8. Txn!WaitingAsked'
  <2> SUFFICES ASSUME reloads = 0, NEW y \in Txn!Types, NEW m \in waiting'[y]
               PROVE  Txn!Query(y, m) \in asked'
    BY <1>4 DEF Txn!WaitingAsked, Txn!Query
  <2> QED
    BY <1>3, <1>4 DEF Txn!NoticesInv, Txn!WaitingAsked
<1>9. Txn!Counted' /\ Txn!AnswersHeld'
  BY <1>4 DEF Txn!NoticesInv, Txn!Counted, Txn!AnswersHeld, Txn!state, Txn!Notice, Txn!BaksAt, Txn!clonePreIter
<1> QED
  BY <1>5, <1>6, <1>7, <1>8, <1>9 DEF Txn!NoticesInv

(* One that is not of the logs, or not to be trusted, or old, is dropped.  *)
LEMMA DropKeeps ==
  ASSUME Txn!NoticesAssumption, Txn!NoticesInv, NEW n \in Txn!Notices, NEW from,
         Txn!Drop(n, from), n \in aged \/ Txn!Refused(n) \/ Txn!Mismatch(n),
         UNCHANGED <<about, Txn!logs, answered, aged, reloads>>,
         arrived \subseteq arrived', arrived' \subseteq arrived \cup {n}
  PROVE  Txn!NoticesInv'
<1>1. /\ waiting' \in [Txn!Types -> SUBSET Txn!Notices]
      /\ \A y \in Txn!Types : waiting'[y] \subseteq waiting[y] /\ waiting[y] \ {n} \subseteq waiting'[y]
  BY LeavesOne DEF Txn!NoticesInv, Txn!Drop
<1>2. /\ UNCHANGED <<about, kevers, reached, counted, answered, aged, reloads, stated, past, asked>>
      /\ Txn!Told' = Txn!Told /\ Txn!Notices' = Txn!Notices
  BY DEF Txn!Drop, Txn!logs, Txn!Told, Txn!Notices, Txn!state, Txn!vcState, Txn!BaksAt, Txn!Notice
<1>3. Txn!TypeOK'
  BY <1>1, <1>2 DEF Txn!NoticesInv, Txn!TypeOK
<1>4. Txn!NoticesTrue'
  BY <1>2 DEF Txn!NoticesInv, Txn!NoticesTrue
<1>5. ASSUME Txn!Always(n), n \notin aged PROVE Txn!Overtaken(n)
  <2>1. n \in Txn!Told /\ n.signed /\ ~Txn!Mismatch(n) /\ n.sn \in Nat
    BY <1>5, ToldFits DEF Txn!Always, Txn!NoticesInv
  <2>2. Txn!Trusted(n)
    BY <1>5 DEF Txn!Always, Txn!Trusted
  <2>3. Txn!Stale(n)
    BY <1>5, <2>1, <2>2 DEF Txn!Refused
  <2>4. counted <= reached.registry /\ reached.registry \in Nat /\ counted \in Nat
    BY DEF Txn!NoticesInv, Txn!TypeOK, Txn!Kinds
  <2> QED
    BY <2>1, <2>3, <2>4 DEF Txn!Stale, Txn!Overtaken
<1>6. Txn!NoticesKept'
  <2> SUFFICES ASSUME NEW m \in arrived', Txn!Always(m)', m \notin aged
               PROVE  m \in past \/ Txn!Overtaken(m)' \/ \E y \in Txn!Types : m \in waiting'[y]
    BY <1>2 DEF Txn!NoticesKept
  <2>1. Txn!Always(m) /\ (Txn!Overtaken(m) <=> Txn!Overtaken(m)')
    BY <1>2 DEF Txn!Always, Txn!Overtaken
  <2>2. CASE m = n
    BY <1>5, <2>1, <2>2
  <2>3. CASE m # n
    BY <1>1, <2>1, <2>3 DEF Txn!NoticesInv, Txn!NoticesKept
  <2> QED
    BY <2>2, <2>3
<1>7. Txn!WaitingAsked'
  BY <1>1, <1>2 DEF Txn!NoticesInv, Txn!WaitingAsked, Txn!Query
<1>8. Txn!Counted' /\ Txn!AnswersHeld'
  BY <1>2 DEF Txn!NoticesInv, Txn!Counted, Txn!AnswersHeld, Txn!state, Txn!Notice, Txn!BaksAt, Txn!clonePreIter
<1> QED
  BY <1>3, <1>4, <1>6, <1>7, <1>8 DEF Txn!NoticesInv

(* What the backers are at any time are backers.                           *)
LEMMA BackersNamed ==
  ASSUME Txn!NoticesAssumption, Txn!TypeOK, NEW n, Takes(n), n.kind = "credential", ~about.lax
  PROVE  n.from \in {Issuer} \cup Watchers \cup (IF about.backed THEN Txn!Baks ELSE Witnesses)
<1>1. counted \in DOMAIN RegistryUpdates
  <2>1. counted \in Nat \ {0} /\ counted <= Len(RegistryUpdates)
    BY DEF Takes, Txn!TypeOK, Txn!Kinds, Txn!LogOf
  <2>2. Len(RegistryUpdates) \in Nat /\ DOMAIN RegistryUpdates = 1..Len(RegistryUpdates)
    BY UpdateFacts DEF Txn!Kinds, Txn!LogOf
  <2> QED
    BY <2>1, <2>2
<1>2. about.backed => Txn!BaksAt(counted) \subseteq Txn!Baks
  BY <1>1 DEF Txn!BaksAt, Txn!Baks
<1> QED
  BY <1>2 DEF Takes, Txn!Refused, Txn!Trusted, Txn!Backers

(* One that is accepted takes the place of the one before.                 *)
LEMMA SavesKeeps ==
  ASSUME Txn!NoticesAssumption, Txn!NoticesInv, NEW n \in Txn!Notices, NEW from,
         Txn!updateReply(n, from), Takes(n),
         UNCHANGED <<about, Txn!logs, answered, aged, reloads>>,
         arrived \subseteq arrived', arrived' \subseteq arrived \cup {n}
  PROVE  Txn!NoticesInv' /\ Txn!NoticeForward
<1>1. /\ waiting' \in [Txn!Types -> SUBSET Txn!Notices]
      /\ \A y \in Txn!Types : waiting'[y] \subseteq waiting[y] /\ waiting[y] \ {n} \subseteq waiting'[y]
  BY LeavesOne DEF Txn!NoticesInv, Txn!updateReply
<1>2. /\ UNCHANGED <<about, kevers, reached, counted, answered, aged, reloads, asked>>
      /\ Txn!Told' = Txn!Told /\ Txn!Notices' = Txn!Notices /\ past' = past \cup {n}
      /\ stated' = {m \in stated : m.kind # n.kind \/ m.from # n.from} \cup {n}
  BY DEF Txn!updateReply, Txn!logs, Txn!Told, Txn!Notices, Txn!state, Txn!vcState, Txn!BaksAt, Txn!Notice
<1>3. Txn!TypeOK'
  BY <1>1, <1>2 DEF Txn!NoticesInv, Txn!TypeOK
<1>4. Txn!NoticesTrue'
  <2>1. /\ kevers /\ n.signed /\ n.sn < reached[n.kind]
        /\ Txn!LogOf(n.kind)[n.sn + 1].event = n.event
    BY DEF Takes, Txn!Refused, Txn!Mismatch
  <2>2. n.kind = "credential" /\ ~about.lax =>
          n.from \in {Issuer} \cup Watchers \cup (IF about.backed THEN Txn!Baks ELSE Witnesses)
    BY BackersNamed DEF Txn!NoticesInv
  <2> QED
    BY <1>2, <2>1, <2>2 DEF Txn!NoticesInv, Txn!NoticesTrue
<1>5. Txn!NoticesKept'
  <2> SUFFICES ASSUME NEW m \in arrived', Txn!Always(m)', m \notin aged
               PROVE  m \in past' \/ Txn!Overtaken(m)' \/ \E y \in Txn!Types : m \in waiting'[y]
    BY <1>2 DEF Txn!NoticesKept
  <2>1. Txn!Always(m) /\ (Txn!Overtaken(m) <=> Txn!Overtaken(m)')
    BY <1>2 DEF Txn!Always, Txn!Overtaken
  <2>2. CASE m = n
    BY <1>2, <2>2
  <2>3. CASE m # n
    BY <1>1, <1>2, <2>1, <2>3 DEF Txn!NoticesInv, Txn!NoticesKept
  <2> QED
    BY <2>2, <2>3
<1>6. Txn!WaitingAsked'
  BY <1>1, <1>2 DEF Txn!NoticesInv, Txn!WaitingAsked, Txn!Query
<1>7. Txn!Counted' /\ Txn!AnswersHeld'
  BY <1>2 DEF Txn!NoticesInv, Txn!Counted, Txn!AnswersHeld, Txn!state, Txn!Notice, Txn!BaksAt, Txn!clonePreIter
<1>8. Txn!NoticeForward
  <2> SUFFICES ASSUME reloads = 0, NEW a \in stated, NEW b \in stated',
                      a.kind = "registry", b.kind = "registry", a.from = b.from
               PROVE  b.sn >= a.sn
    BY DEF Txn!NoticeForward
  <2>1. a \in past /\ a.sn < reached.registry /\ counted = reached.registry /\ a \in Txn!Notices /\ counted \in Nat
    BY DEF Txn!NoticesInv, Txn!TypeOK, Txn!NoticesTrue, Txn!Counted, Txn!Kinds
  <2>2. a.sn \in Nat /\ n.sn \in Nat
    BY <2>1, NoticeFacts DEF Txn!NoticesInv
  <2>3. CASE b = n
    BY <2>1, <2>2, <2>3 DEF Takes, Txn!Refused, Txn!Stale
  <2>4. CASE b \in stated
    <3>1. a = b
      BY <2>4 DEF Txn!NoticesInv, Txn!TypeOK
    <3> QED
      BY <2>2, <3>1
  <2> QED
    BY <1>2, <2>3, <2>4
<1> QED
  BY <1>3, <1>4, <1>5, <1>6, <1>7, <1>8 DEF Txn!NoticesInv

(* Nothing that is saved changes.                                          *)
LEMMA ForwardKept ==
  ASSUME Txn!NoticesAssumption, Txn!NoticesInv, stated' = stated PROVE Txn!NoticeForward
<1>1. \A a, b \in stated : a.kind = b.kind /\ a.from = b.from => a = b
  BY DEF Txn!NoticesInv, Txn!TypeOK
<1>2. \A a \in stated : a.sn \in Nat
  BY NoticeFacts DEF Txn!NoticesInv, Txn!TypeOK
<1> QED
  BY <1>1, <1>2 DEF Txn!NoticeForward

(* A notice that comes, and one that a pass of the escrows retries.        *)
LEMMA ReplyKeeps ==
  ASSUME Txn!NoticesAssumption, Txn!NoticesInv, NEW n \in Txn!Notices,
         \/ Txn!ReceiveNotice(n)
         \/ \E x \in Txn!Types : Txn!processEscrowState(x, n)
  PROVE  Txn!NoticesInv' /\ Txn!NoticeForward
<1>1. PICK from : /\ Txn!processReply(n, from) \/ (n \in aged /\ Txn!Drop(n, from))
                  /\ UNCHANGED <<about, Txn!logs, answered, aged, reloads>>
                  /\ arrived \subseteq arrived' /\ arrived' \subseteq arrived \cup {n}
  BY DEF Txn!ReceiveNotice, Txn!processEscrowState
<1>2. n.kind \in Txn!Kinds
  BY NoticeFacts DEF Txn!NoticesInv
<1>3. \/ \E x \in Txn!Types : Txn!escrowStateNotice(x, n, from)
      \/ Txn!Drop(n, from) /\ (n \in aged \/ Txn!Refused(n) \/ Txn!Mismatch(n))
      \/ Txn!updateReply(n, from) /\ Takes(n)
  BY <1>1, <1>2, NoticeOutcomes
<1>4. CASE \E x \in Txn!Types : Txn!escrowStateNotice(x, n, from)
  <2>1. Txn!NoticesInv'
    BY <1>1, <1>4, WaitsKeeps
  <2>2. stated' = stated
    BY <1>4 DEF Txn!escrowStateNotice
  <2> QED
    BY <2>1, <2>2, ForwardKept
<1>5. CASE Txn!Drop(n, from) /\ (n \in aged \/ Txn!Refused(n) \/ Txn!Mismatch(n))
  <2>1. Txn!NoticesInv'
    BY <1>1, <1>5, DropKeeps
  <2>2. stated' = stated
    BY <1>5 DEF Txn!Drop
  <2> QED
    BY <2>1, <2>2, ForwardKept
<1>6. CASE Txn!updateReply(n, from) /\ Takes(n)
  BY <1>1, <1>6, SavesKeeps
<1> QED
  BY <1>3, <1>4, <1>5, <1>6

(* The logs grow, and a reloaded Tever counts from the inception again.    *)
LEMMA LogsKeep ==
  ASSUME Txn!NoticesAssumption, Txn!NoticesInv,
         \/ Txn!LearnIssuer \/ Txn!Reload \/ UNCHANGED Txn!noticeVars
         \/ \E n \in Txn!Notices : Txn!AgeNotice(n)
         \/ \E k \in Txn!Kinds : Txn!AcceptUpdate(k)
         \/ \E r \in {"tels", "tsn"}, vci \in BOOLEAN : Txn!processQuery(r, vci)
  PROVE  Txn!NoticesInv' /\ Txn!NoticeForward
<1>1. /\ UNCHANGED <<about, waiting, stated, past, arrived>> /\ aged \subseteq aged' /\ (kevers => kevers')
      /\ aged' \subseteq aged \cup Txn!Notices /\ kevers' \in BOOLEAN
      /\ Txn!Told' = Txn!Told /\ Txn!Notices' = Txn!Notices
  BY DEF Txn!LearnIssuer, Txn!Reload, Txn!noticeVars, Txn!AgeNotice, Txn!AcceptUpdate, Txn!processQuery,
         Txn!broker, Txn!logs, Txn!Told, Txn!Notices, Txn!state, Txn!vcState, Txn!BaksAt, Txn!Notice, Txn!NoticesInv, Txn!TypeOK
<1>2. /\ reached' \in [Txn!Kinds -> Nat]
      /\ \A k \in Txn!Kinds : reached'[k] <= Len(Txn!LogOf(k)) /\ reached[k] <= reached'[k]
      /\ counted' \in 0..reached'.registry /\ reloads' \in Nat
      /\ reloads' = 0 => reloads = 0 /\ counted' = reached'.registry
  <2>1. /\ reached \in [Txn!Kinds -> Nat]
        /\ \A k \in Txn!Kinds : reached[k] <= Len(Txn!LogOf(k)) /\ Len(Txn!LogOf(k)) \in Nat
        /\ counted \in 0..reached.registry /\ reloads \in Nat /\ (reloads = 0 => counted = reached.registry)
    BY UpdateFacts DEF Txn!NoticesInv, Txn!TypeOK, Txn!Counted
  <2>2. CASE UNCHANGED <<reached, counted, reloads>>
    BY <2>1, <2>2
  <2>3. CASE Txn!Reload
    BY <2>1, <2>3 DEF Txn!Reload, Txn!Kinds
  <2>4. CASE \E k \in Txn!Kinds : Txn!AcceptUpdate(k)
    <3>1. reloads' = reloads
      BY <2>4 DEF Txn!AcceptUpdate
    <3>2. CASE counted < Len(RegistryUpdates) /\ counted' = counted + 1
                   /\ reached' = [reached EXCEPT !.registry = IF @ > counted THEN @ ELSE counted + 1]
      <4>1. reached'.registry = IF reached.registry > counted THEN reached.registry ELSE counted + 1
        BY <2>1, <3>2 DEF Txn!Kinds
      <4>2. reached'.credential = reached.credential /\ DOMAIN reached' = Txn!Kinds
        BY <2>1, <3>2 DEF Txn!Kinds
      <4>3. Txn!LogOf("registry") = RegistryUpdates
        BY DEF Txn!LogOf
      <4> QED
        BY <2>1, <3>1, <3>2, <4>1, <4>2, <4>3 DEF Txn!Kinds
    <3>3. CASE reached.credential < Len(CredentialUpdates) /\ counted' = counted
                    /\ reached' = [reached EXCEPT !.credential = @ + 1]
      <4>1. /\ reached'.registry = reached.registry /\ reached'.credential = reached.credential + 1
            /\ DOMAIN reached' = Txn!Kinds
        BY <2>1, <3>3 DEF Txn!Kinds
      <4>2. Txn!LogOf("credential") = CredentialUpdates
        BY DEF Txn!LogOf
      <4> QED
        BY <2>1, <3>1, <3>3, <4>1, <4>2 DEF Txn!Kinds
    <3> QED
      BY <2>4, <3>2, <3>3 DEF Txn!AcceptUpdate
  <2> QED
    BY <2>2, <2>3, <2>4 DEF Txn!LearnIssuer, Txn!noticeVars, Txn!AgeNotice, Txn!processQuery, Txn!logs
<1>3. Txn!TypeOK'
  BY <1>1, <1>2 DEF Txn!NoticesInv, Txn!TypeOK
<1>4. Txn!NoticesTrue'
  <2>1. \A n \in past : n.kind \in Txn!Kinds /\ n.sn \in Nat
    BY NoticeFacts DEF Txn!NoticesInv, Txn!TypeOK
  <2>2. \A n \in past : n.sn < reached[n.kind] => n.sn < reached'[n.kind]
    BY <1>2, <2>1 DEF Txn!NoticesInv, Txn!TypeOK
  <2> QED
    BY <1>1, <2>2 DEF Txn!NoticesInv, Txn!NoticesTrue
<1>5. Txn!NoticesKept'
  <2> SUFFICES ASSUME NEW m \in arrived, Txn!Always(m)', m \notin aged'
               PROVE  m \in past \/ Txn!Overtaken(m)' \/ \E y \in Txn!Types : m \in waiting[y]
    BY <1>1 DEF Txn!NoticesKept
  <2>1. Txn!Always(m) /\ m \notin aged
    BY <1>1 DEF Txn!Always
  <2>2. m.sn \in Nat
    BY <2>1, ToldFits DEF Txn!Always, Txn!NoticesInv
  <2>3. reached.registry \in Nat /\ reached'.registry \in Nat /\ reached.registry <= reached'.registry
    BY <1>2 DEF Txn!NoticesInv, Txn!TypeOK, Txn!Kinds
  <2>4. Txn!Overtaken(m) => Txn!Overtaken(m)'
    BY <2>2, <2>3 DEF Txn!Overtaken
  <2> QED
    BY <2>1, <2>4 DEF Txn!NoticesInv, Txn!NoticesKept
<1>6. Txn!WaitingAsked'
  <2>1. CASE Txn!Reload
    <3>1. reloads' # 0
      BY <2>1 DEF Txn!Reload, Txn!NoticesInv, Txn!TypeOK
    <3> QED
      BY <3>1 DEF Txn!WaitingAsked
  <2>2. CASE asked' = asked /\ reloads' = reloads
    BY <1>1, <2>2 DEF Txn!NoticesInv, Txn!WaitingAsked, Txn!Query
  <2> QED
    BY <2>1, <2>2 DEF Txn!LearnIssuer, Txn!noticeVars, Txn!AgeNotice, Txn!AcceptUpdate, Txn!processQuery
<1>7. Txn!Counted'
  BY <1>2 DEF Txn!Counted
<1>8. Txn!AnswersHeld'
  <2>0. /\ reached.registry \in Nat /\ reached'.registry \in Nat /\ reached.registry <= reached'.registry
        /\ reached.credential \in Nat /\ reached'.credential \in Nat /\ reached.credential <= reached'.credential
        /\ counted \in 0..reached.registry
    BY <1>2 DEF Txn!NoticesInv, Txn!TypeOK, Txn!Kinds
  <2>1. CASE answered' = answered
    <3>1. \A n : Txn!state(Issuer, n)' = Txn!state(Issuer, n)
      BY <1>1 DEF Txn!state, Txn!Notice, Txn!BaksAt
    <3>2. /\ 1..reached.registry \subseteq 1..reached'.registry
          /\ 0..reached.credential \subseteq 0..reached'.credential
      BY <2>0
    <3>3. \A a \in answered :
            \/ \E n \in 1..reached'.registry : a = Txn!state(Issuer, n)'
            \/ \E n \in 1..reached'.registry, m \in 0..reached'.credential, vci \in BOOLEAN :
                 a = [registry |-> Txn!clonePreIter("registry", n),
                      credential |-> IF vci THEN Txn!clonePreIter("credential", m) ELSE <<>>]
      BY <3>1, <3>2 DEF Txn!NoticesInv, Txn!AnswersHeld
    <3>4. \A k, n : Txn!clonePreIter(k, n)' = Txn!clonePreIter(k, n)
      BY DEF Txn!clonePreIter, Txn!LogOf
    <3> QED
      BY <2>1, <3>3, <3>4 DEF Txn!AnswersHeld
  <2>2. CASE Txn!Reload
    BY <2>2 DEF Txn!Reload, Txn!AnswersHeld
  <2>3. ASSUME NEW r \in {"tels", "tsn"}, NEW vci \in BOOLEAN, Txn!processQuery(r, vci)
        PROVE  Txn!AnswersHeld'
    <3>1. UNCHANGED <<reached, about>>
      BY <2>3 DEF Txn!processQuery, Txn!logs
    <3>2. CASE reached.registry > 0 /\
                    answered' =
                   {[registry |-> Txn!clonePreIter("registry", reached.registry),
                     credential |-> IF vci THEN Txn!clonePreIter("credential", reached.credential) ELSE <<>>]}
      <4>1. reached'.registry \in 1..reached'.registry /\ reached'.credential \in 0..reached'.credential
        BY <2>0, <3>1, <3>2
      <4> QED
        BY <3>1, <3>2, <4>1 DEF Txn!AnswersHeld, Txn!clonePreIter
    <3>3. CASE counted > 0 /\ answered' = {Txn!state(Issuer, counted)}
      <4>1. counted \in 1..reached'.registry
        BY <2>0, <3>1, <3>3
      <4>2. \A a \in answered' : a = Txn!state(Issuer, counted)'
        BY <3>1, <3>3, <2>3 DEF Txn!state, Txn!Notice, Txn!BaksAt, Txn!processQuery, Txn!logs
      <4> QED
        BY <3>1, <4>1, <4>2, <2>3 DEF Txn!AnswersHeld, Txn!state, Txn!Notice, Txn!BaksAt, Txn!processQuery, Txn!logs
    <3> QED
      BY <2>3, <3>2, <3>3 DEF Txn!processQuery
  <2> QED
    BY <2>1, <2>2, <2>3 DEF Txn!LearnIssuer, Txn!noticeVars, Txn!AgeNotice, Txn!AcceptUpdate
<1>9. Txn!NoticeForward
  BY <1>1, ForwardKept
<1> QED
  BY <1>3, <1>4, <1>5, <1>6, <1>7, <1>8, <1>9 DEF Txn!NoticesInv

(* Every step of TxnStates.                                                *)
LEMMA NextKeeps ==
  ASSUME Txn!NoticesAssumption, Txn!NoticesInv, [Txn!Next]_(Txn!noticeVars)
  PROVE  Txn!NoticesInv' /\ Txn!NoticeForward
<1>1. CASE \E n \in Txn!Notices : Txn!ReceiveNotice(n)
  BY <1>1, ReplyKeeps
<1>2. CASE Txn!Retry
  <2>1. PICK x \in Txn!Types : \E n \in waiting[x] : Txn!processEscrowState(x, n)
    BY <1>2 DEF Txn!Retry
  <2>2. waiting[x] \subseteq Txn!Notices
    BY DEF Txn!NoticesInv, Txn!TypeOK
  <2> QED
    BY <2>1, <2>2, ReplyKeeps
<1> QED
  BY <1>1, <1>2, LogsKeep DEF Txn!Next, Txn!Idle

(* The inductive invariant holds at every step of the notices.             *)
THEOREM NoticesInvariant ==
  ASSUME Txn!NoticesAssumption
  PROVE  Txn!Spec => []Txn!NoticesInv
<1>1. Txn!Init => Txn!NoticesInv
  <2> SUFFICES ASSUME Txn!Init PROVE Txn!NoticesInv
    OBVIOUS
  <2>1. Txn!TypeOK
    <3>1. reached \in [Txn!Kinds -> Nat] /\ \A k \in Txn!Kinds : reached[k] = 0
      BY DEF Txn!Init
    <3>2. waiting \in [Txn!Types -> SUBSET Txn!Notices]
      BY DEF Txn!Init
    <3>3. counted \in 0..reached.registry
      BY <3>1 DEF Txn!Init, Txn!Kinds
    <3>4. \A k \in Txn!Kinds : reached[k] <= Len(Txn!LogOf(k))
      BY <3>1, UpdateFacts
    <3>5. /\ about \in NoticeWorlds /\ kevers \in BOOLEAN /\ reloads \in Nat
          /\ arrived = {} /\ aged = {} /\ past = {} /\ stated = {}
      BY DEF Txn!Init
    <3> QED
      BY <3>1, <3>2, <3>3, <3>4, <3>5 DEF Txn!TypeOK
  <2>2. Txn!Counted
    BY DEF Txn!Init, Txn!Counted, Txn!Kinds
  <2>3. Txn!NoticesTrue /\ Txn!NoticesKept /\ Txn!WaitingAsked /\ Txn!AnswersHeld
    BY DEF Txn!Init, Txn!NoticesTrue, Txn!NoticesKept, Txn!WaitingAsked, Txn!AnswersHeld
  <2> QED
    BY <2>1, <2>2, <2>3 DEF Txn!NoticesInv
<1>2. Txn!NoticesInv /\ [Txn!Next]_(Txn!noticeVars) => Txn!NoticesInv'
  BY NextKeeps
<1> QED
  BY <1>1, <1>2, PTL DEF Txn!Spec

(* What a source told is saved only when it is true of the accepted logs   *)
(* and its source may tell it; a true notice of the issuer or a watcher is *)
(* not lost, and what waits was asked for; answers hold what was accepted. *)
THEOREM NoticesSound ==
  ASSUME Txn!NoticesAssumption
  PROVE  Txn!Spec => [](Txn!NoticesTrue /\ Txn!NoticesKept /\ Txn!WaitingAsked /\ Txn!AnswersHeld)
<1>1. Txn!NoticesInv => Txn!NoticesTrue /\ Txn!NoticesKept /\ Txn!WaitingAsked /\ Txn!AnswersHeld
  BY DEF Txn!NoticesInv
<1> QED
  BY <1>1, NoticesInvariant, PTL

(* Until a reload, the state of the registry that a source told does not   *)
(* go back.                                                                *)
THEOREM NoticesGoForward ==
  ASSUME Txn!NoticesAssumption
  PROVE  Txn!Spec => Txn!RegistryForward
<1>1. Txn!NoticesInv /\ [Txn!Next]_(Txn!noticeVars) => [Txn!NoticeForward]_(Txn!noticeVars)
  BY NextKeeps
<1> QED
  BY <1>1, NoticesInvariant, PTL DEF Txn!Spec, Txn!RegistryForward

-----------------------------------------------------------------------------
(* Issuance, of data and variables of its own.                             *)
CONSTANTS IssuedEvents, Issuers, FirstWitnesses, Replacement, IssuerRestarts, Nil
VARIABLES
  issuing, sn, anchorOf, wits, witsAt, wigs, cgms, anchored, accepted, tpwe, tmse, tede, ctel,
  cmse, ccrd, saved, msgs, rcues, posts, pcues, rotated, crashed

Iss == INSTANCE Issuance WITH TelEvents <- IssuedEvents, Worlds <- Issuers,
         Witnesses <- FirstWitnesses, None <- Nil, MaxRestarts <- IssuerRestarts, world <- issuing,
         ancs <- anchored, tels <- accepted, restarts <- crashed

(* The sizes of sets, seen from the instance.                              *)
LEMMA IssuanceOperators ==
  /\ \A S : Iss!Cardinality(S) = Cardinality(S)
  /\ \A S : Iss!IsFiniteSet(S) <=> IsFiniteSet(S)
  BY DEF Iss!Cardinality, Cardinality, Iss!IsFiniteSet, IsFiniteSet

(* A credential is issued by one event.                                    *)
LEMMA IssuedByOne ==
  ASSUME Iss!IssuanceAssumption
  PROVE  /\ \A e \in Iss!Events : Iss!Issued(e) # Nil => Iss!Issued(e) \in Iss!Creds /\ Iss!IssueOf(Iss!Issued(e)) = e
         /\ \A c \in Iss!Creds : Iss!IssueOf(c) \in Iss!Events /\ Iss!Issued(Iss!IssueOf(c)) = c /\ c # Nil
<1>1. ASSUME NEW c \in Iss!Creds PROVE Iss!IssueOf(c) \in Iss!Events /\ Iss!Issued(Iss!IssueOf(c)) = c /\ c # Nil
  <2>1. \E e \in Iss!Events : Iss!Issued(e) = c
    BY DEF Iss!Creds
  <2>2. Iss!IssueOf(c) \in Iss!Events /\ Iss!Issued(Iss!IssueOf(c)) = c
    BY <2>1 DEF Iss!IssueOf
  <2> QED
    BY <2>2 DEF Iss!Creds
<1>2. ASSUME NEW e \in Iss!Events, Iss!Issued(e) # Nil PROVE Iss!Issued(e) \in Iss!Creds /\ Iss!IssueOf(Iss!Issued(e)) = e
  <2>1. Iss!Issued(e) \in Iss!Creds
    BY <1>2 DEF Iss!Creds
  <2> QED
    BY <1>1, <1>2, <2>1 DEF Iss!IssuanceAssumption
<1> QED
  BY <1>1, <1>2

(* The numbers of the log, and how many it takes.                          *)
LEMMA IssuerFacts ==
  ASSUME Iss!IssuanceAssumption, Iss!TypeOK
  PROVE  /\ Iss!Cardinality(Iss!Events) \in Nat /\ Iss!Cardinality(Iss!InLog) \in Nat
         /\ Iss!IsFiniteSet(Iss!InLog) /\ Iss!Cardinality(Iss!InLog) <= Iss!Cardinality(Iss!Events)
         /\ \A e \in Iss!Events \ Iss!InLog : Iss!Cardinality(Iss!InLog) + 1 <= Iss!Cardinality(Iss!Events)
         /\ sn \in Nat /\ \A e \in Iss!Events : anchorOf[e] \in Nat
         /\ \A n \in Nat : n \in Iss!Numbers <=> n <= Iss!Cardinality(Iss!Events) + 1
         /\ Iss!Numbers \subseteq Nat
<1>1. Iss!IsFiniteSet(Iss!Events) /\ Iss!InLog \in SUBSET Iss!Events
  BY DEF Iss!IssuanceAssumption, Iss!InLog
<1>2. /\ Iss!Cardinality(Iss!Events) \in Nat /\ Iss!Cardinality(Iss!InLog) \in Nat
      /\ Iss!IsFiniteSet(Iss!InLog) /\ Iss!Cardinality(Iss!InLog) <= Iss!Cardinality(Iss!Events)
  BY <1>1, FS_Subset, FS_CardinalityType, IssuanceOperators
<1>3. ASSUME NEW e \in Iss!Events \ Iss!InLog PROVE Iss!Cardinality(Iss!InLog) + 1 <= Iss!Cardinality(Iss!Events)
  <2>1. Iss!Cardinality(Iss!InLog \cup {e}) = Iss!Cardinality(Iss!InLog) + 1
    BY <1>2, FS_AddElement, IssuanceOperators
  <2>2. Iss!InLog \cup {e} \in SUBSET Iss!Events
    BY <1>1
  <2> QED
    BY <1>1, <2>1, <2>2, FS_Subset, IssuanceOperators
<1>4. /\ \A n \in Nat : n \in Iss!Numbers <=> n <= Iss!Cardinality(Iss!Events) + 1
      /\ Iss!Numbers \subseteq Nat
  BY <1>2 DEF Iss!Numbers
<1>5. sn \in Nat /\ \A e \in Iss!Events : anchorOf[e] \in Nat
  BY <1>4 DEF Iss!TypeOK
<1> QED
  BY <1>2, <1>3, <1>4, <1>5

(* A step that leaves the issuer alone.                                    *)
Steady == UNCHANGED <<issuing, Iss!issuer, rotated>>
LEMMA SteadyKeeps ==
  ASSUME Iss!IssuanceAssumption, Iss!TypeOK, Iss!Numbered, Steady
  PROVE  /\ Iss!Numbered' /\ \A e : Iss!Created(e)' <=> Iss!Created(e)
         /\ \A e : Iss!Passed(e)' <=> Iss!Passed(e)
         /\ Iss!group' = Iss!group
         /\ sn' \in Iss!Numbers /\ anchorOf' \in [Iss!Events -> Iss!Numbers] /\ issuing' \in Issuers
         /\ rotated' \in BOOLEAN
         /\ wits' \subseteq Iss!Everyone /\ witsAt' \in [Iss!Numbers -> SUBSET Iss!Everyone]
         /\ wigs' \in [Iss!Numbers -> SUBSET Iss!Everyone] /\ cgms' \in [Iss!Numbers -> Iss!Events \cup {Nil}]
<1>1. /\ issuing' = issuing /\ sn' = sn /\ anchorOf' = anchorOf /\ wits' = wits /\ witsAt' = witsAt
      /\ wigs' = wigs /\ cgms' = cgms /\ rotated' = rotated
  BY DEF Steady, Iss!issuer
<1>2. Iss!group' = Iss!group /\ (\A e : Iss!Created(e)' <=> Iss!Created(e)) /\ (\A e : Iss!Passed(e)' <=> Iss!Passed(e))
  BY <1>1 DEF Iss!Created, Iss!Passed, Iss!group
<1>3. Iss!InLog' = Iss!InLog
  BY <1>1 DEF Iss!InLog
<1>4. Iss!Numbered'
  BY <1>1, <1>2, <1>3 DEF Iss!Numbered
<1> QED
  BY <1>1, <1>2, <1>4 DEF Iss!TypeOK

-----------------------------------------------------------------------------
(* The loops                                                               *)

(* What the loops leave of the escrows is what the properties ask for.     *)
LEMMA LoopKeeps ==
  ASSUME Iss!IssuanceAssumption, Iss!IssuanceInv, Steady, crashed' = crashed,
         anchored' \subseteq {e \in Iss!Events : Iss!Created(e)}, accepted' \subseteq anchored', accepted \subseteq accepted',
         saved \subseteq saved', pcues \subseteq pcues', ctel \subseteq ctel',
         tpwe' \subseteq tpwe, tmse' \subseteq tmse,
         tede' \cup ctel' \subseteq {e \in Iss!Events : Iss!Created(e)},
         tede' \cap (tpwe' \cup tmse') = {}, ctel' \subseteq accepted',
         \A e \in (tede' \cup ctel') \ issuing.made : Iss!Passed(e),
         \A e \in tpwe \cup tmse \cup tede \cup ctel :
           \/ e \in tpwe' \cup tmse' \cup tede' \cup ctel'
           \/ Iss!group /\ cgms[anchorOf[e]] \notin {Nil, e},
         cmse' \cup ccrd' = cmse \cup ccrd, cmse' \cap ccrd' = {},
         \A c \in ccrd' \ ccrd : c \in cmse /\ c \in saved' /\ Iss!IssueOf(c) \in accepted' \cap ctel'
                                   /\ Iss!Pre(Iss!IssueOf(c)) \in pcues'
  PROVE  Iss!IssuanceInv'
<1>1. /\ issuing' = issuing /\ sn' = sn /\ anchorOf' = anchorOf /\ wits' = wits /\ witsAt' = witsAt
      /\ wigs' = wigs /\ cgms' = cgms /\ rotated' = rotated
  BY DEF Steady, Iss!issuer
<1>2. Iss!TypeOK /\ Iss!Numbered /\ Iss!WaysKept /\ Iss!NoneLost /\ Iss!CredentialsDone
  BY DEF Iss!IssuanceInv
<1>3. /\ Iss!Numbered' /\ \A e : Iss!Created(e)' <=> Iss!Created(e)
      /\ \A e : Iss!Passed(e)' <=> Iss!Passed(e)
      /\ Iss!group' = Iss!group
  BY <1>2, SteadyKeeps
<1>4. Iss!TypeOK'
  <2>1. /\ sn' \in Iss!Numbers /\ anchorOf' \in [Iss!Events -> Iss!Numbers] /\ issuing' \in Issuers
        /\ rotated' \in BOOLEAN
        /\ wits' \subseteq Iss!Everyone /\ witsAt' \in [Iss!Numbers -> SUBSET Iss!Everyone]
        /\ wigs' \in [Iss!Numbers -> SUBSET Iss!Everyone] /\ cgms' \in [Iss!Numbers -> Iss!Events \cup {Nil}]
        /\ crashed' \in Nat
    BY <1>2, SteadyKeeps DEF Iss!TypeOK
  <2>2. /\ tpwe' \cup tmse' \cup tede' \cup ctel' \subseteq {e \in Iss!Events : Iss!Created(e)'}
        /\ anchored' \subseteq {e \in Iss!Events : Iss!Created(e)'}
    BY <1>2, <1>3 DEF Iss!TypeOK
  <2>3. cmse' \cup ccrd' \subseteq Iss!Creds
    BY <1>2 DEF Iss!TypeOK
  <2> QED
    BY <2>1, <2>2, <2>3 DEF Iss!TypeOK
<1>5. Iss!WaysKept'
  <2>1. ctel' \subseteq accepted' /\ IF Iss!group' THEN tpwe' = {} ELSE tmse' = {}
    BY <1>2, <1>3 DEF Iss!WaysKept
  <2>2. \A e \in (tede' \cup ctel') \ issuing'.made : Iss!Passed(e)'
    BY <1>1, <1>3
  <2>3. \A c \in cmse' \cup ccrd' : anchorOf'[Iss!IssueOf(c)] # 0
    BY <1>1, <1>2 DEF Iss!WaysKept
  <2> QED
    BY <2>1, <2>2, <2>3 DEF Iss!WaysKept
<1>6. Iss!NoneLost'
  BY <1>1, <1>2, <1>3 DEF Iss!NoneLost
<1>7. Iss!CredentialsDone'
  <2> SUFFICES ASSUME NEW c \in ccrd'
               PROVE  /\ c \in saved' /\ Iss!IssueOf(c) \in accepted' \cap ctel' /\ Iss!Passed(Iss!IssueOf(c))
                      /\ crashed = 0 => Iss!Pre(Iss!IssueOf(c)) \in pcues'
    BY <1>1, <1>3 DEF Iss!CredentialsDone, Iss!Passed
  <2>1. c \in Iss!Creds /\ anchorOf[Iss!IssueOf(c)] # 0
    BY <1>2 DEF Iss!TypeOK, Iss!WaysKept
  <2>2. Iss!IssueOf(c) \in Iss!Events /\ Iss!IssueOf(c) \notin issuing.made
    BY <1>2, <2>1, IssuedByOne DEF Iss!Numbered
  <2>3. c \in saved' /\ Iss!IssueOf(c) \in accepted' \cap ctel' /\ (crashed = 0 => Iss!Pre(Iss!IssueOf(c)) \in pcues')
    BY <1>2 DEF Iss!CredentialsDone
  <2> QED
    BY <2>2, <2>3
<1> QED
  BY <1>3, <1>4, <1>5, <1>6, <1>7 DEF Iss!IssuanceInv

(* All witnesses: as many receipts as the event has witnesses.             *)
LEMMA WitnessedPasses ==
  ASSUME Iss!IssuanceAssumption, Iss!IssuanceInv, NEW e \in tpwe, Iss!Witnessed(e)
  PROVE  e \in issuing.made \/ Iss!Passed(e)
<1> SUFFICES ASSUME e \notin issuing.made, ~Iss!group, ~rotated
             PROVE  wigs[anchorOf[e]] = witsAt[anchorOf[e]]
  BY DEF Iss!IssuanceInv, Iss!WaysKept, Iss!Passed
<1>1. e \in Iss!Events /\ anchorOf[e] # 0 /\ anchorOf[e] \in Iss!Numbers
  BY DEF Iss!IssuanceInv, Iss!TypeOK, Iss!Created
<1>2. anchorOf[e] \in 1..sn /\ sn \in Nat
  BY <1>1, IssuerFacts DEF Iss!IssuanceInv, Iss!Numbered
<1>3. witsAt[anchorOf[e]] = wits /\ wigs[anchorOf[e]] \subseteq witsAt[anchorOf[e]]
  BY <1>1, <1>2 DEF Iss!IssuanceInv, Iss!Numbered
<1>4. Iss!IsFiniteSet(wits)
  BY FS_Subset, IssuanceOperators DEF Iss!IssuanceInv, Iss!TypeOK, Iss!IssuanceAssumption
<1>5. CASE wits = {}
  BY <1>3, <1>5
<1>6. CASE Iss!Cardinality(wigs[anchorOf[e]]) = Iss!Cardinality(wits)
  BY <1>3, <1>4, <1>6, FS_Subset, IssuanceOperators
<1> QED
  BY <1>5, <1>6 DEF Iss!Witnessed

(* What the loops do with one event or credential.                         *)
LEMMA LoopsKeep ==
  ASSUME Iss!IssuanceAssumption, Iss!IssuanceInv,
         \/ \E e \in Iss!Events : \/ Iss!processWitnessEscrow(e) \/ Iss!processMultisigEscrow(e)
                                  \/ Iss!dropMultisigEscrow(e) \/ Iss!processDisseminationEscrow(e) \/ Iss!Accept(e)
         \/ \E p : Iss!Publish(p)
         \/ \E c \in Iss!Creds : Iss!processCredentialMissingSigEscrow(c)
  PROVE  Iss!IssuanceInv'
<1>0. /\ accepted \subseteq anchored /\ anchored \subseteq {e \in Iss!Events : Iss!Created(e)}
      /\ tpwe \cup tmse \cup tede \cup ctel \subseteq {e \in Iss!Events : Iss!Created(e)}
      /\ tede \cap (tpwe \cup tmse) = {} /\ cmse \cap ccrd = {}
      /\ \A e \in (tede \cup ctel) \ issuing.made : Iss!Passed(e)
      /\ ctel \subseteq accepted /\ IF Iss!group THEN tpwe = {} ELSE tmse = {}
  BY DEF Iss!IssuanceInv, Iss!TypeOK, Iss!WaysKept
<1>1. ASSUME NEW e \in Iss!Events, Iss!processWitnessEscrow(e) PROVE Iss!IssuanceInv'
  <2>1. e \in issuing.made \/ Iss!Passed(e)
    BY <1>1, WitnessedPasses DEF Iss!processWitnessEscrow
  <2>2. /\ e \in tpwe /\ tpwe' = tpwe \ {e} /\ tede' = tede \cup {e} /\ Steady /\ crashed' = crashed
        /\ accepted' = accepted /\ anchored' = anchored /\ tmse' = tmse /\ ctel' = ctel /\ cmse' = cmse
        /\ ccrd' = ccrd
        /\ saved' = saved /\ pcues' = pcues
    BY <1>1 DEF Iss!processWitnessEscrow, Steady, Iss!memory
  <2>3. tmse = {}
    BY <1>0, <2>2
  <2>4. \A d \in (tede' \cup ctel') \ issuing.made : Iss!Passed(d)
    BY <1>0, <2>1, <2>2
  <2> QED
    BY <1>0, <2>2, <2>3, <2>4, LoopKeeps
<1>2. ASSUME NEW e \in Iss!Events, Iss!processMultisigEscrow(e) PROVE Iss!IssuanceInv'
  <2>2. /\ e \in tmse /\ tmse' = tmse \ {e} /\ tede' = tede \cup {e} /\ Steady /\ crashed' = crashed
        /\ accepted' = accepted /\ anchored' = anchored \cup {e} /\ tpwe' = tpwe /\ ctel' = ctel
        /\ cmse' = cmse /\ ccrd' = ccrd
        /\ saved' = saved /\ pcues' = pcues /\ Iss!Completed(e)
    BY <1>2 DEF Iss!processMultisigEscrow, Steady, Iss!memory
  <2>3. tpwe = {} /\ Iss!group
    BY <1>0, <2>2
  <2>1. Iss!Passed(e)
    BY <2>2, <2>3 DEF Iss!Passed, Iss!Completed
  <2>4. \A d \in (tede' \cup ctel') \ issuing.made : Iss!Passed(d)
    BY <1>0, <2>1, <2>2
  <2> QED
    BY <1>0, <2>2, <2>3, <2>4, LoopKeeps
<1>3. ASSUME NEW e \in Iss!Events, Iss!dropMultisigEscrow(e) PROVE Iss!IssuanceInv'
  <2>2. /\ e \in tmse /\ tmse' = tmse \ {e} /\ tede' = tede /\ Steady /\ crashed' = crashed
        /\ accepted' = accepted /\ anchored' = anchored /\ tpwe' = tpwe /\ ctel' = ctel /\ cmse' = cmse
        /\ ccrd' = ccrd
        /\ saved' = saved /\ pcues' = pcues /\ cgms[anchorOf[e]] \notin {Nil, e}
    BY <1>3 DEF Iss!dropMultisigEscrow, Steady, Iss!memory
  <2> QED
    BY <1>0, <2>2, LoopKeeps
<1>4. ASSUME NEW e \in Iss!Events, Iss!processDisseminationEscrow(e) PROVE Iss!IssuanceInv'
  <2>2. /\ e \in tede /\ tmse' = tmse /\ tede' = tede \ {e} /\ Steady /\ crashed' = crashed
        /\ accepted' = accepted /\ anchored' = anchored /\ tpwe' = tpwe /\ ctel' = ctel \cup {e}
        /\ cmse' = cmse /\ ccrd' = ccrd
        /\ saved' = saved /\ pcues' = pcues
        /\ e \in accepted
    BY <1>4 DEF Iss!processDisseminationEscrow, Steady
  <2>4. \A d \in (tede' \cup ctel') \ issuing.made : Iss!Passed(d)
    BY <1>0, <2>2
  <2> QED
    BY <1>0, <2>2, <2>4, LoopKeeps
<1>5. ASSUME NEW e \in Iss!Events, Iss!Accept(e) PROVE Iss!IssuanceInv'
  <2>2. /\ e \in anchored /\ tmse' = tmse /\ tede' = tede /\ Steady /\ crashed' = crashed
        /\ accepted' = accepted \cup {e} /\ anchored' = anchored /\ tpwe' = tpwe /\ ctel' = ctel
        /\ cmse' = cmse /\ ccrd' = ccrd
        /\ saved \subseteq saved' /\ pcues' = pcues
    BY <1>5 DEF Iss!Accept, Steady, Iss!memory
  <2> QED
    BY <1>0, <2>2, LoopKeeps
<1>6. ASSUME NEW p, Iss!Publish(p) PROVE Iss!IssuanceInv'
  <2>2. /\ tmse' = tmse /\ tede' = tede /\ Steady /\ crashed' = crashed
        /\ accepted' = accepted /\ anchored' = anchored /\ tpwe' = tpwe /\ ctel' = ctel /\ cmse' = cmse
        /\ ccrd' = ccrd
        /\ saved' = saved /\ pcues \subseteq pcues'
    BY <1>6 DEF Iss!Publish, Steady, Iss!db
  <2> QED
    BY <1>0, <2>2, LoopKeeps
<1>7. ASSUME NEW c \in Iss!Creds, Iss!processCredentialMissingSigEscrow(c) PROVE Iss!IssuanceInv'
  <2>2. /\ tmse' = tmse /\ tede' = tede /\ Steady /\ crashed' = crashed
        /\ accepted' = accepted /\ anchored' = anchored /\ tpwe' = tpwe /\ ctel' = ctel
        /\ cmse' = cmse \ {c} /\ ccrd' = ccrd \cup {c}
        /\ saved' = saved /\ pcues' = pcues /\ c \in cmse /\ c \in saved
        /\ Iss!IssueOf(c) \in ctel /\ Iss!Pre(Iss!IssueOf(c)) \in pcues
    BY <1>7 DEF Iss!processCredentialMissingSigEscrow, Iss!complete, Steady, Iss!memory
  <2>3. Iss!IssueOf(c) \in accepted
    BY <1>0, <2>2
  <2> QED
    BY <1>0, <2>2, <2>3, LoopKeeps
<1> QED
  BY <1>1, <1>2, <1>3, <1>4, <1>5, <1>6, <1>7

-----------------------------------------------------------------------------
(* What the issuer does                                                    *)

(* A receipt of a witness of an event.                                     *)
LEMMA ReceiptsKeep ==
  ASSUME Iss!IssuanceAssumption, Iss!IssuanceInv, NEW n \in Iss!Numbers, NEW got \in SUBSET witsAt[n],
         wigs' = [wigs EXCEPT ![n] = @ \cup got],
         UNCHANGED <<issuing, sn, anchorOf, wits, witsAt, cgms, Iss!db, pcues, rotated, crashed>>
  PROVE  Iss!IssuanceInv'
<1>1. Iss!TypeOK /\ Iss!Numbered /\ Iss!WaysKept /\ Iss!NoneLost /\ Iss!CredentialsDone
  BY DEF Iss!IssuanceInv
<1>2. /\ \A m \in Iss!Numbers : wigs[m] \subseteq wigs'[m] /\ wigs'[m] \subseteq witsAt[m]
      /\ wigs' \in [Iss!Numbers -> SUBSET Iss!Everyone]
  BY <1>1 DEF Iss!TypeOK, Iss!Numbered
<1>3. /\ issuing' = issuing /\ sn' = sn /\ anchorOf' = anchorOf /\ wits' = wits /\ witsAt' = witsAt
      /\ cgms' = cgms /\ rotated' = rotated /\ crashed' = crashed /\ pcues' = pcues
      /\ accepted' = accepted /\ anchored' = anchored /\ tpwe' = tpwe /\ tmse' = tmse /\ tede' = tede
      /\ ctel' = ctel /\ cmse' = cmse /\ ccrd' = ccrd /\ saved' = saved
  BY DEF Iss!db
<1>4. Iss!group' = Iss!group /\ (\A e : Iss!Created(e)' <=> Iss!Created(e)) /\ Iss!InLog' = Iss!InLog
  BY <1>3 DEF Iss!group, Iss!Created, Iss!InLog
<1>5. \A e \in Iss!Events : Iss!Passed(e) => Iss!Passed(e)'
  <2> SUFFICES ASSUME NEW e \in Iss!Events, Iss!Passed(e) PROVE Iss!Passed(e)'
    OBVIOUS
  <2>1. anchorOf[e] \in Iss!Numbers
    BY <1>1 DEF Iss!TypeOK
  <2>2. wigs[anchorOf[e]] = witsAt[anchorOf[e]] => wigs'[anchorOf[e]] = witsAt[anchorOf[e]]
    BY <1>2, <2>1
  <2> QED
    BY <1>3, <1>4, <2>2 DEF Iss!Passed
<1>6. Iss!TypeOK'
  BY <1>1, <1>2, <1>3, <1>4 DEF Iss!TypeOK
<1>7. Iss!Numbered'
  BY <1>1, <1>2, <1>3, <1>4 DEF Iss!Numbered
<1>8. Iss!WaysKept'
  <2>1. \A e \in (tede' \cup ctel') \ issuing'.made : Iss!Passed(e)'
    BY <1>1, <1>3, <1>5 DEF Iss!WaysKept, Iss!TypeOK
  <2> QED
    BY <1>1, <1>3, <1>4, <2>1 DEF Iss!WaysKept
<1>9. Iss!NoneLost'
  BY <1>1, <1>3, <1>4 DEF Iss!NoneLost
<1>10. Iss!CredentialsDone'
  <2> SUFFICES ASSUME NEW c \in ccrd
               PROVE  /\ c \in saved /\ Iss!IssueOf(c) \in accepted \cap ctel /\ Iss!Passed(Iss!IssueOf(c))'
                      /\ crashed = 0 => Iss!Pre(Iss!IssueOf(c)) \in pcues
    BY <1>3 DEF Iss!CredentialsDone, Iss!Passed
  <2>1. Iss!IssueOf(c) \in Iss!Events
    BY <1>1, IssuedByOne DEF Iss!TypeOK
  <2>2. /\ c \in saved /\ Iss!IssueOf(c) \in accepted \cap ctel /\ Iss!Passed(Iss!IssueOf(c))
        /\ crashed = 0 => Iss!Pre(Iss!IssueOf(c)) \in pcues
    BY <1>1 DEF Iss!CredentialsDone, Iss!Passed
  <2> QED
    BY <1>5, <2>1, <2>2
<1> QED
  BY <1>6, <1>7, <1>8, <1>9, <1>10 DEF Iss!IssuanceInv

(* The log takes its next number; what was passed stays so.                *)
LEMMA LogKeeps ==
  ASSUME Iss!IssuanceAssumption, Iss!IssuanceInv, sn' = sn + 1, wigs' = wigs, issuing' = issuing,
         \A e \in Iss!Events : anchorOf'[e] = anchorOf[e] \/ ~Iss!Created(e), anchorOf' \in [Iss!Events -> Iss!Numbers],
         wits' \subseteq Iss!Everyone, rotated' \in BOOLEAN, rotated => rotated', rotated' => ~Iss!group,
         ~rotated' => wits' = wits, sn + 1 \in Iss!Numbers,
         witsAt' = witsAt \/ witsAt' = [witsAt EXCEPT ![sn + 1] = wits'],
         ~Iss!group => witsAt' = [witsAt EXCEPT ![sn + 1] = wits'],
         cgms' = cgms \/ \E e \in Iss!Events : Iss!group /\ cgms' = [cgms EXCEPT ![sn + 1] = e],
         UNCHANGED <<accepted, tede, ctel, ccrd, saved>>, crashed' = crashed, pcues \subseteq pcues'
  PROVE  /\ \A n \in 0..sn : cgms'[n] = cgms[n] /\ witsAt'[n] = witsAt[n]
         /\ witsAt' \in [Iss!Numbers -> SUBSET Iss!Everyone] /\ cgms' \in [Iss!Numbers -> Iss!Events \cup {Nil}]
         /\ \A n \in Iss!Numbers : wigs'[n] \subseteq witsAt'[n] /\ (n > sn' => cgms'[n] = Nil /\ witsAt'[n] = {})
         /\ ~Iss!group /\ ~rotated' => \A n \in 1..sn' : witsAt'[n] = wits'
         /\ \A e \in (tede' \cup ctel') \ issuing.made : Iss!Passed(e)'
         /\ Iss!CredentialsDone'
<1>1. Iss!TypeOK /\ Iss!Numbered /\ Iss!WaysKept /\ Iss!NoneLost /\ Iss!CredentialsDone
  BY DEF Iss!IssuanceInv
<1>2. sn \in Nat /\ Iss!Numbers \subseteq Nat /\ \A n \in Nat : n \in Iss!Numbers <=> n <= Iss!Cardinality(Iss!Events) + 1
  BY <1>1, IssuerFacts
<1>3. /\ witsAt \in [Iss!Numbers -> SUBSET Iss!Everyone] /\ cgms \in [Iss!Numbers -> Iss!Events \cup {Nil}]
      /\ wigs \in [Iss!Numbers -> SUBSET Iss!Everyone] /\ Iss!Cardinality(Iss!Events) \in Nat
  BY <1>1, IssuerFacts DEF Iss!TypeOK
<1>4. /\ \A n \in Iss!Numbers : n # sn + 1 => cgms'[n] = cgms[n] /\ witsAt'[n] = witsAt[n]
      /\ witsAt' \in [Iss!Numbers -> SUBSET Iss!Everyone] /\ cgms' \in [Iss!Numbers -> Iss!Events \cup {Nil}]
      /\ ~Iss!group => witsAt'[sn + 1] = wits'
  BY <1>3
<1>5. \A n \in 0..sn : n \in Iss!Numbers /\ n # sn + 1
  BY <1>2, <1>3
<1>6. \A n \in Iss!Numbers : wigs[n] \subseteq witsAt[n] /\ (n > sn => cgms[n] = Nil /\ witsAt[n] = {})
  BY <1>1 DEF Iss!Numbered
<1>7. ASSUME NEW n \in Iss!Numbers
      PROVE  wigs'[n] \subseteq witsAt'[n] /\ (n > sn' => cgms'[n] = Nil /\ witsAt'[n] = {})
  <2>1. CASE n = sn + 1
    BY <1>2, <1>6, <2>1
  <2>2. CASE n # sn + 1
    BY <1>2, <1>4, <1>6, <2>2
  <2> QED
    BY <2>1, <2>2
<1>8. ASSUME ~Iss!group, ~rotated', NEW n \in 1..sn' PROVE witsAt'[n] = wits'
  <2>1. CASE n = sn + 1
    BY <1>4, <1>8, <2>1
  <2>2. CASE n # sn + 1
    BY <1>1, <1>2, <1>4, <1>5, <1>8, <2>2 DEF Iss!Numbered
  <2> QED
    BY <2>1, <2>2
<1>9. Iss!group' = Iss!group
  BY DEF Iss!group
<1>10. ASSUME NEW e \in Iss!Events, Iss!Created(e), Iss!Passed(e), e \notin issuing.made PROVE Iss!Passed(e)'
  <2>1. anchorOf'[e] = anchorOf[e] /\ anchorOf[e] \in Iss!Numbers /\ anchorOf[e] # 0
    BY <1>1, <1>10 DEF Iss!TypeOK, Iss!Created
  <2>2. CASE Iss!group
    <3>1. cgms[anchorOf[e]] = e /\ e # Nil
      BY <1>10, <2>2 DEF Iss!Passed, Iss!IssuanceAssumption
    <3>2. anchorOf[e] \in 0..sn
      <4>1. ~(anchorOf[e] > sn)
        BY <1>6, <2>1, <3>1
      <4>2. anchorOf[e] \in Nat /\ sn \in Nat
        BY <1>2, <2>1
      <4> QED
        BY <4>1, <4>2
    <3>3. cgms'[anchorOf'[e]] = e
      BY <1>4, <1>5, <2>1, <3>1, <3>2
    <3> QED
      BY <1>9, <2>2, <3>3 DEF Iss!Passed
  <2>3. CASE ~Iss!group
    <3>1. anchorOf[e] \in 0..sn
      <4>1. anchorOf[e] <= sn
        BY <1>1, <1>10, <2>3 DEF Iss!Numbered
      <4>2. anchorOf[e] \in Nat /\ sn \in Nat
        BY <1>2, <2>1
      <4> QED
        BY <4>1, <4>2
    <3>2. witsAt'[anchorOf'[e]] = witsAt[anchorOf[e]] /\ wigs'[anchorOf'[e]] = wigs[anchorOf[e]]
      BY <1>4, <1>5, <2>1, <3>1
    <3> QED
      BY <1>9, <1>10, <2>3, <3>2 DEF Iss!Passed
  <2> QED
    BY <2>2, <2>3
<1>11. \A e \in (tede \cup ctel) \ issuing.made : e \in Iss!Events /\ Iss!Created(e) /\ Iss!Passed(e)
  BY <1>1 DEF Iss!TypeOK, Iss!WaysKept
<1>12. Iss!CredentialsDone'
  <2> SUFFICES ASSUME NEW c \in ccrd
               PROVE  /\ c \in saved /\ Iss!IssueOf(c) \in accepted \cap ctel /\ Iss!Passed(Iss!IssueOf(c))'
                      /\ crashed = 0 => Iss!Pre(Iss!IssueOf(c)) \in pcues'
    BY DEF Iss!CredentialsDone, Iss!Passed
  <2>1. /\ c \in saved /\ Iss!IssueOf(c) \in accepted \cap ctel /\ Iss!Passed(Iss!IssueOf(c))
        /\ crashed = 0 => Iss!Pre(Iss!IssueOf(c)) \in pcues
    BY <1>1 DEF Iss!CredentialsDone, Iss!Passed
  <2>2. Iss!IssueOf(c) \in Iss!Events /\ anchorOf[Iss!IssueOf(c)] # 0
    BY <1>1, IssuedByOne DEF Iss!TypeOK, Iss!WaysKept
  <2>3. Iss!IssueOf(c) \notin issuing.made /\ Iss!Created(Iss!IssueOf(c))
    BY <1>1, <2>2 DEF Iss!Numbered, Iss!Created
  <2> QED
    BY <1>10, <2>1, <2>2, <2>3
<1> QED
  BY <1>4, <1>5, <1>7, <1>8, <1>10, <1>11, <1>12

(* A member alone makes an event of a registry or a credential.            *)
LEMMA CreateSingleKeeps ==
  ASSUME Iss!IssuanceAssumption, Iss!IssuanceInv, NEW e \in Iss!Events, Iss!CreateSingle(e)
  PROVE  Iss!IssuanceInv'
<1>1. Iss!TypeOK /\ Iss!Numbered /\ Iss!WaysKept /\ Iss!NoneLost /\ Iss!CredentialsDone
  BY DEF Iss!IssuanceInv
<1>2. /\ ~Iss!group /\ ~Iss!Created(e) /\ sn' = sn + 1 /\ anchorOf' = [anchorOf EXCEPT ![e] = sn']
      /\ witsAt' = [witsAt EXCEPT ![sn'] = wits] /\ anchored' = anchored \cup {e} /\ tpwe' = tpwe \cup {e}
      /\ Iss!Escrowed(e) /\ issuing' = issuing /\ wits' = wits /\ wigs' = wigs /\ cgms' = cgms
      /\ accepted' = accepted
      /\ tmse' = tmse /\ tede' = tede /\ ctel' = ctel /\ ccrd' = ccrd /\ saved' = saved /\ pcues' = pcues
      /\ rotated' = rotated /\ crashed' = crashed
  BY DEF Iss!CreateSingle
<1>3. /\ sn \in Nat /\ Iss!Numbers \subseteq Nat /\ \A n \in Nat : n \in Iss!Numbers <=> n <= Iss!Cardinality(Iss!Events) + 1
      /\ Iss!Cardinality(Iss!Events) \in Nat /\ Iss!Cardinality(Iss!InLog) \in Nat /\ Iss!IsFiniteSet(Iss!InLog)
      /\ \A d \in Iss!Events : anchorOf[d] \in Nat
  BY <1>1, IssuerFacts
<1>4. e \notin Iss!InLog /\ anchorOf[e] = 0 /\ e \notin issuing.made
  BY <1>2 DEF Iss!InLog, Iss!Created
<1>5. sn + 1 \in Iss!Numbers
  <2>1. Iss!Cardinality(Iss!InLog) + 1 <= Iss!Cardinality(Iss!Events)
    BY <1>1, <1>4, IssuerFacts
  <2> QED
    BY <1>1, <1>3, <2>1 DEF Iss!Numbered
<1>6. /\ anchorOf' \in [Iss!Events -> Iss!Numbers] /\ anchorOf'[e] = sn + 1
      /\ \A d \in Iss!Events : d # e => anchorOf'[d] = anchorOf[d]
  BY <1>1, <1>2, <1>5 DEF Iss!TypeOK
<1>7. Iss!group' = Iss!group /\ \A d \in Iss!Events : Iss!Created(d)' <=> Iss!Created(d) \/ d = e
  BY <1>2, <1>3, <1>6 DEF Iss!group, Iss!Created
<1>8. /\ \A n \in 0..sn : cgms'[n] = cgms[n] /\ witsAt'[n] = witsAt[n]
      /\ witsAt' \in [Iss!Numbers -> SUBSET Iss!Everyone] /\ cgms' \in [Iss!Numbers -> Iss!Events \cup {Nil}]
      /\ \A n \in Iss!Numbers : wigs'[n] \subseteq witsAt'[n] /\ (n > sn' => cgms'[n] = Nil /\ witsAt'[n] = {})
      /\ ~Iss!group /\ ~rotated' => \A n \in 1..sn' : witsAt'[n] = wits'
      /\ \A d \in (tede' \cup ctel') \ issuing.made : Iss!Passed(d)'
      /\ Iss!CredentialsDone'
  <2>1. wits' \subseteq Iss!Everyone /\ rotated' \in BOOLEAN /\ (rotated' => ~Iss!group) /\ (~rotated' => wits' = wits)
    BY <1>1, <1>2 DEF Iss!TypeOK, Iss!Numbered
  <2>2. \A d \in Iss!Events : anchorOf'[d] = anchorOf[d] \/ ~Iss!Created(d)
    BY <1>2, <1>6
  <2> QED
    BY <1>2, <1>5, <1>6, <2>1, <2>2, LogKeeps
<1>9. /\ cmse \subseteq cmse' /\ cmse' \subseteq cmse \cup ({Iss!Issued(e)} \ {Nil})
      /\ cmse' = cmse \/ Iss!Issued(e) # Nil
  BY <1>1, <1>2, IssuedByOne DEF Iss!Escrowed, Iss!TypeOK
<1>10. Iss!TypeOK'
  <2>1. cmse' \subseteq Iss!Creds /\ cmse' \cap ccrd = {}
    <3>1. ASSUME Iss!Issued(e) # Nil, Iss!Issued(e) \in ccrd PROVE FALSE
      <4>1. Iss!IssueOf(Iss!Issued(e)) = e
        BY <3>1, IssuedByOne
      <4> QED
        BY <1>1, <1>4, <3>1, <4>1 DEF Iss!WaysKept
    <3> QED
      BY <1>1, <1>9, <3>1, IssuedByOne DEF Iss!TypeOK
  <2>2. tede \cap (tpwe' \cup tmse) = {}
    BY <1>1, <1>2 DEF Iss!TypeOK
  <2> QED
    BY <1>1, <1>2, <1>5, <1>6, <1>7, <1>8, <2>1, <2>2 DEF Iss!TypeOK
<1>11. Iss!Numbered'
  <2>1. Iss!InLog' = Iss!InLog \cup {e}
    BY <1>1, <1>2, <1>3, <1>6 DEF Iss!InLog, Iss!Numbered
  <2>2. Iss!Cardinality(Iss!InLog') = Iss!Cardinality(Iss!InLog) + 1
    BY <1>3, <1>4, <2>1, FS_AddElement, IssuanceOperators
  <2>3. sn' <= Iss!Cardinality(Iss!InLog') + (IF rotated' THEN 1 ELSE 0)
    BY <1>1, <1>2, <1>3, <2>2 DEF Iss!Numbered
  <2>4. \A d \in Iss!Events : anchorOf'[d] <= sn'
    BY <1>1, <1>2, <1>3, <1>6 DEF Iss!Numbered
  <2>5. \A d \in issuing'.made : anchorOf'[d] = 0
    BY <1>1, <1>2, <1>4, <1>6 DEF Iss!Numbered, Iss!TypeOK, Iss!IssuanceAssumption
  <2> QED
    BY <1>1, <1>2, <1>7, <1>8, <2>3, <2>4, <2>5 DEF Iss!Numbered
<1>12. Iss!WaysKept'
  <2>1. \A c \in cmse' \cup ccrd' : anchorOf'[Iss!IssueOf(c)] # 0
    <3> SUFFICES ASSUME NEW c \in cmse' \cup ccrd, Iss!IssueOf(c) # e PROVE anchorOf'[Iss!IssueOf(c)] # 0
      BY <1>2, <1>3, <1>6
    <3>1. c \in cmse \cup ccrd
      BY <1>9, IssuedByOne
    <3> QED
      BY <1>1, <1>6, <3>1, IssuedByOne DEF Iss!WaysKept, Iss!TypeOK
  <2> QED
    BY <1>1, <1>2, <1>7, <1>8, <2>1 DEF Iss!WaysKept
<1>13. Iss!NoneLost'
  <2> SUFFICES ASSUME NEW d \in Iss!Events, Iss!Created(d)
               PROVE  \/ d \in tpwe' \cup tmse' \cup tede' \cup ctel'
                      \/ Iss!group /\ cgms'[anchorOf'[d]] \notin {Nil, d}
    BY <1>2, <1>7 DEF Iss!NoneLost
  <2> QED
    BY <1>1, <1>2 DEF Iss!NoneLost
<1> QED
  BY <1>8, <1>10, <1>11, <1>12, <1>13 DEF Iss!IssuanceInv

(* A member of a group makes one.                                          *)
LEMMA CreateGroupKeeps ==
  ASSUME Iss!IssuanceAssumption, Iss!IssuanceInv, NEW e \in Iss!Events, Iss!CreateGroup(e)
  PROVE  Iss!IssuanceInv'
<1>1. Iss!TypeOK /\ Iss!Numbered /\ Iss!WaysKept /\ Iss!NoneLost /\ Iss!CredentialsDone
  BY DEF Iss!IssuanceInv
<1>2. /\ Iss!group /\ ~Iss!Created(e) /\ sn' = sn /\ anchorOf' = [anchorOf EXCEPT ![e] = sn + 1]
      /\ witsAt' = witsAt /\ anchored' = anchored /\ tpwe' = tpwe
      /\ Iss!Escrowed(e) /\ issuing' = issuing /\ wits' = wits /\ wigs' = wigs /\ cgms' = cgms
      /\ accepted' = accepted
      /\ tmse' = tmse \cup {e} /\ tede' = tede /\ ctel' = ctel /\ ccrd' = ccrd /\ saved' = saved
      /\ pcues' = pcues
      /\ rotated' = rotated /\ crashed' = crashed
  BY DEF Iss!CreateGroup, Iss!memory
<1>3. /\ sn \in Nat /\ Iss!Numbers \subseteq Nat /\ \A n \in Nat : n \in Iss!Numbers <=> n <= Iss!Cardinality(Iss!Events) + 1
      /\ Iss!Cardinality(Iss!Events) \in Nat /\ Iss!Cardinality(Iss!InLog) \in Nat /\ Iss!IsFiniteSet(Iss!InLog)
      /\ \A d \in Iss!Events : anchorOf[d] \in Nat
  BY <1>1, IssuerFacts
<1>4. e \notin Iss!InLog /\ anchorOf[e] = 0 /\ e \notin issuing.made
  BY <1>2 DEF Iss!InLog, Iss!Created
<1>5. sn + 1 \in Iss!Numbers
  <2>1. Iss!Cardinality(Iss!InLog) + 1 <= Iss!Cardinality(Iss!Events)
    BY <1>1, <1>4, IssuerFacts
  <2> QED
    BY <1>1, <1>3, <2>1 DEF Iss!Numbered
<1>6. /\ anchorOf' \in [Iss!Events -> Iss!Numbers] /\ anchorOf'[e] = sn + 1
      /\ \A d \in Iss!Events : d # e => anchorOf'[d] = anchorOf[d]
  BY <1>1, <1>2, <1>5 DEF Iss!TypeOK
<1>7. Iss!group' = Iss!group /\ \A d \in Iss!Events : Iss!Created(d)' <=> Iss!Created(d) \/ d = e
  <2>1. Iss!group' = Iss!group
    BY <1>2 DEF Iss!group
  <2>2. sn + 1 # 0
    BY <1>3
  <2> QED
    BY <1>2, <1>6, <2>1, <2>2 DEF Iss!Created
<1>8. \A d \in Iss!Events : Iss!Created(d) => anchorOf'[d] = anchorOf[d] /\ (Iss!Passed(d) => Iss!Passed(d)')
  <2> SUFFICES ASSUME NEW d \in Iss!Events, Iss!Created(d)
               PROVE  anchorOf'[d] = anchorOf[d] /\ (Iss!Passed(d) => Iss!Passed(d)')
    OBVIOUS
  <2>1. anchorOf'[d] = anchorOf[d]
    BY <1>2, <1>6
  <2> QED
    BY <1>2, <1>7, <2>1 DEF Iss!Passed
<1>9. /\ cmse \subseteq cmse' /\ cmse' \subseteq cmse \cup ({Iss!Issued(e)} \ {Nil})
      /\ cmse' = cmse \/ Iss!Issued(e) # Nil
  BY <1>1, <1>2, IssuedByOne DEF Iss!Escrowed, Iss!TypeOK
<1>10. Iss!TypeOK'
  <2>1. cmse' \subseteq Iss!Creds /\ cmse' \cap ccrd = {}
    <3>1. ASSUME Iss!Issued(e) # Nil, Iss!Issued(e) \in ccrd PROVE FALSE
      <4>1. Iss!IssueOf(Iss!Issued(e)) = e
        BY <3>1, IssuedByOne
      <4> QED
        BY <1>1, <1>4, <3>1, <4>1 DEF Iss!WaysKept
    <3> QED
      BY <1>1, <1>9, <3>1, IssuedByOne DEF Iss!TypeOK
  <2>2. tede \cap (tpwe \cup tmse') = {}
    BY <1>1, <1>2 DEF Iss!TypeOK
  <2> QED
    BY <1>1, <1>2, <1>5, <1>6, <1>7, <2>1, <2>2 DEF Iss!TypeOK
<1>11. Iss!Numbered'
  <2>1. Iss!InLog' = Iss!InLog
    BY <1>1, <1>2, <1>3, <1>4, <1>6 DEF Iss!InLog
  <2>4. \A d \in Iss!Events : anchorOf'[d] <= sn' + 1
    BY <1>1, <1>2, <1>3, <1>6 DEF Iss!Numbered
  <2>5. \A d \in issuing'.made : anchorOf'[d] = 0
    BY <1>1, <1>2, <1>4, <1>6 DEF Iss!Numbered, Iss!TypeOK, Iss!IssuanceAssumption
  <2> QED
    BY <1>1, <1>2, <1>7, <2>1, <2>4, <2>5 DEF Iss!Numbered
<1>12. Iss!WaysKept'
  <2>1. \A c \in cmse' \cup ccrd' : anchorOf'[Iss!IssueOf(c)] # 0
    <3> SUFFICES ASSUME NEW c \in cmse' \cup ccrd, Iss!IssueOf(c) # e PROVE anchorOf'[Iss!IssueOf(c)] # 0
      BY <1>2, <1>3, <1>6
    <3>1. c \in cmse \cup ccrd
      BY <1>9, IssuedByOne
    <3> QED
      BY <1>1, <1>6, <3>1, IssuedByOne DEF Iss!WaysKept, Iss!TypeOK
  <2>2. \A d \in (tede' \cup ctel') \ issuing'.made : Iss!Passed(d)'
    BY <1>1, <1>2, <1>8 DEF Iss!WaysKept, Iss!TypeOK
  <2> QED
    BY <1>1, <1>2, <1>7, <2>1, <2>2 DEF Iss!WaysKept
<1>13. Iss!NoneLost'
  BY <1>1, <1>2, <1>7, <1>8 DEF Iss!NoneLost
<1>14. Iss!CredentialsDone'
  <2> SUFFICES ASSUME NEW c \in ccrd
               PROVE  /\ c \in saved /\ Iss!IssueOf(c) \in accepted \cap ctel /\ Iss!Passed(Iss!IssueOf(c))'
                      /\ crashed = 0 => Iss!Pre(Iss!IssueOf(c)) \in pcues
    BY <1>2 DEF Iss!CredentialsDone, Iss!Passed
  <2>1. /\ c \in saved /\ Iss!IssueOf(c) \in accepted \cap ctel /\ Iss!Passed(Iss!IssueOf(c))
        /\ crashed = 0 => Iss!Pre(Iss!IssueOf(c)) \in pcues
    BY <1>1 DEF Iss!CredentialsDone, Iss!Passed
  <2>2. Iss!IssueOf(c) \in Iss!Events /\ Iss!Created(Iss!IssueOf(c))
    BY <1>1, <2>1 DEF Iss!TypeOK
  <2> QED
    BY <1>8, <2>1, <2>2
<1> QED
  BY <1>10, <1>11, <1>12, <1>13, <1>14 DEF Iss!IssuanceInv

(* The group has its signatures on the event that anchors one.             *)
LEMMA CompleteGroupKeeps ==
  ASSUME Iss!IssuanceAssumption, Iss!IssuanceInv, NEW e \in Iss!Events, Iss!CompleteGroup(e)
  PROVE  Iss!IssuanceInv'
<1>1. Iss!TypeOK /\ Iss!Numbered /\ Iss!WaysKept /\ Iss!NoneLost /\ Iss!CredentialsDone
  BY DEF Iss!IssuanceInv
<1>2. /\ Iss!group /\ Iss!Created(e) /\ anchorOf[e] = sn + 1 /\ sn' = sn + 1 /\ anchorOf' = anchorOf
      /\ witsAt' = witsAt /\ anchored' = anchored /\ tpwe' = tpwe /\ cgms' = [cgms EXCEPT ![sn + 1] = e]
      /\ issuing' = issuing /\ wits' = wits /\ wigs' = wigs /\ accepted' = accepted
      /\ tmse' = tmse /\ tede' = tede /\ ctel' = ctel /\ ccrd' = ccrd /\ saved' = saved /\ pcues' = pcues
      /\ cmse' = cmse /\ rotated' = rotated /\ crashed' = crashed
  BY DEF Iss!CompleteGroup, Iss!memory, Iss!db
<1>3. /\ sn \in Nat /\ Iss!Numbers \subseteq Nat /\ \A n \in Nat : n \in Iss!Numbers <=> n <= Iss!Cardinality(Iss!Events) + 1
      /\ Iss!Cardinality(Iss!Events) \in Nat /\ Iss!Cardinality(Iss!InLog) \in Nat /\ Iss!IsFiniteSet(Iss!InLog)
      /\ \A d \in Iss!Events : anchorOf[d] \in Nat
  BY <1>1, IssuerFacts
<1>4. e \notin Iss!InLog /\ sn + 1 \in Iss!Numbers
  BY <1>1, <1>2, <1>3 DEF Iss!InLog, Iss!TypeOK
<1>7. Iss!group' = Iss!group /\ \A d \in Iss!Events : Iss!Created(d)' <=> Iss!Created(d)
  BY <1>2 DEF Iss!group, Iss!Created
<1>8. /\ \A n \in 0..sn : cgms'[n] = cgms[n] /\ witsAt'[n] = witsAt[n]
      /\ witsAt' \in [Iss!Numbers -> SUBSET Iss!Everyone] /\ cgms' \in [Iss!Numbers -> Iss!Events \cup {Nil}]
      /\ \A n \in Iss!Numbers : wigs'[n] \subseteq witsAt'[n] /\ (n > sn' => cgms'[n] = Nil /\ witsAt'[n] = {})
      /\ \A d \in (tede' \cup ctel') \ issuing.made : Iss!Passed(d)'
      /\ Iss!CredentialsDone'
  <2>1. wits' \subseteq Iss!Everyone /\ rotated' \in BOOLEAN /\ ~rotated
    BY <1>1, <1>2 DEF Iss!TypeOK, Iss!Numbered
  <2>2. \A d \in Iss!Events : anchorOf'[d] = anchorOf[d] \/ ~Iss!Created(d)
    BY <1>2
  <2>3. anchorOf' \in [Iss!Events -> Iss!Numbers]
    BY <1>1, <1>2 DEF Iss!TypeOK
  <2> QED
    BY <1>2, <1>4, <2>1, <2>2, <2>3, LogKeeps
<1>10. Iss!TypeOK'
  BY <1>1, <1>2, <1>4, <1>7, <1>8 DEF Iss!TypeOK
<1>11. Iss!Numbered'
  <2>1. Iss!InLog \cup {e} \in SUBSET Iss!InLog' /\ Iss!InLog' \in SUBSET Iss!Events
    BY <1>2, <1>3 DEF Iss!InLog
  <2>2. Iss!Cardinality(Iss!InLog \cup {e}) = Iss!Cardinality(Iss!InLog) + 1
    BY <1>3, <1>4, FS_AddElement, IssuanceOperators
  <2>5. Iss!IsFiniteSet(Iss!InLog') /\ Iss!Cardinality(Iss!InLog') \in Nat
    BY <2>1, FS_Subset, FS_CardinalityType, IssuanceOperators DEF Iss!IssuanceAssumption
  <2>6. Iss!Cardinality(Iss!InLog \cup {e}) <= Iss!Cardinality(Iss!InLog')
    BY <2>1, <2>5, FS_Subset, IssuanceOperators
  <2>3. sn' <= Iss!Cardinality(Iss!InLog') + (IF rotated' THEN 1 ELSE 0)
    BY <1>1, <1>2, <1>3, <2>2, <2>5, <2>6 DEF Iss!Numbered
  <2>4. \A d \in Iss!Events : anchorOf'[d] <= sn' + 1
    BY <1>1, <1>2, <1>3 DEF Iss!Numbered
  <2>7. (\A d \in issuing'.made : anchorOf'[d] = 0) /\ ~rotated'
    BY <1>1, <1>2 DEF Iss!Numbered
  <2> QED
    BY <1>2, <1>7, <1>8, <2>3, <2>4, <2>7 DEF Iss!Numbered
<1>12. Iss!WaysKept'
  BY <1>1, <1>2, <1>7, <1>8 DEF Iss!WaysKept
<1>13. Iss!NoneLost'
  <2> SUFFICES ASSUME NEW d \in Iss!Events, Iss!Created(d), d \notin tpwe \cup tmse \cup tede \cup ctel
               PROVE  cgms'[anchorOf[d]] \notin {Nil, d}
    BY <1>2, <1>7 DEF Iss!NoneLost
  <2>1. cgms[anchorOf[d]] \notin {Nil, d} /\ anchorOf[d] \in Iss!Numbers
    BY <1>1 DEF Iss!NoneLost, Iss!TypeOK
  <2>2. anchorOf[d] \in 0..sn
    BY <1>1, <1>3, <2>1 DEF Iss!Numbered
  <2> QED
    BY <1>8, <2>1, <2>2
<1> QED
  BY <1>8, <1>10, <1>11, <1>12, <1>13 DEF Iss!IssuanceInv

(* The issuer rotates its witnesses.                                       *)
LEMMA RotateKeeps ==
  ASSUME Iss!IssuanceAssumption, Iss!IssuanceInv, Iss!Rotate
  PROVE  Iss!IssuanceInv'
<1>1. Iss!TypeOK /\ Iss!Numbered /\ Iss!WaysKept /\ Iss!NoneLost /\ Iss!CredentialsDone
  BY DEF Iss!IssuanceInv
<1>2. /\ ~Iss!group /\ ~rotated /\ rotated' = TRUE /\ sn' = sn + 1 /\ anchorOf' = anchorOf
      /\ wits' = Replacement /\ witsAt' = [witsAt EXCEPT ![sn'] = wits']
      /\ anchored' = anchored /\ tpwe' = tpwe /\ cgms' = cgms
      /\ issuing' = issuing /\ wigs' = wigs /\ accepted' = accepted
      /\ tmse' = tmse /\ tede' = tede /\ ctel' = ctel /\ ccrd' = ccrd /\ saved' = saved /\ pcues' = pcues
      /\ cmse' = cmse /\ crashed' = crashed
  BY DEF Iss!Rotate, Iss!memory, Iss!db
<1>3. /\ sn \in Nat /\ Iss!Numbers \subseteq Nat /\ \A n \in Nat : n \in Iss!Numbers <=> n <= Iss!Cardinality(Iss!Events) + 1
      /\ Iss!Cardinality(Iss!Events) \in Nat /\ Iss!Cardinality(Iss!InLog) \in Nat /\ Iss!IsFiniteSet(Iss!InLog)
      /\ \A d \in Iss!Events : anchorOf[d] \in Nat /\ Iss!Cardinality(Iss!InLog) <= Iss!Cardinality(Iss!Events)
  BY <1>1, IssuerFacts
<1>4. sn + 1 \in Iss!Numbers
  <2>1. Iss!Cardinality(Iss!InLog) <= Iss!Cardinality(Iss!Events)
    BY <1>1, IssuerFacts
  <2> QED
    BY <1>1, <1>2, <1>3, <2>1 DEF Iss!Numbered
<1>7. Iss!group' = Iss!group /\ \A d \in Iss!Events : Iss!Created(d)' <=> Iss!Created(d)
  BY <1>2 DEF Iss!group, Iss!Created
<1>8. /\ \A n \in 0..sn : cgms'[n] = cgms[n] /\ witsAt'[n] = witsAt[n]
      /\ witsAt' \in [Iss!Numbers -> SUBSET Iss!Everyone] /\ cgms' \in [Iss!Numbers -> Iss!Events \cup {Nil}]
      /\ \A n \in Iss!Numbers : wigs'[n] \subseteq witsAt'[n] /\ (n > sn' => cgms'[n] = Nil /\ witsAt'[n] = {})
      /\ \A d \in (tede' \cup ctel') \ issuing.made : Iss!Passed(d)'
      /\ Iss!CredentialsDone'
  <2>1. wits' \subseteq Iss!Everyone /\ rotated' \in BOOLEAN
    BY <1>2 DEF Iss!Everyone
  <2>2. \A d \in Iss!Events : anchorOf'[d] = anchorOf[d] \/ ~Iss!Created(d)
    BY <1>2
  <2>3. anchorOf' \in [Iss!Events -> Iss!Numbers]
    BY <1>1, <1>2 DEF Iss!TypeOK
  <2> QED
    BY <1>2, <1>4, <2>1, <2>2, <2>3, LogKeeps
<1>10. Iss!TypeOK'
  <2>1. wits' \subseteq Iss!Everyone
    BY <1>2 DEF Iss!Everyone
  <2> QED
    BY <1>1, <1>2, <1>4, <1>7, <1>8, <2>1 DEF Iss!TypeOK
<1>11. Iss!Numbered'
  <2>1. Iss!InLog \in SUBSET Iss!InLog' /\ Iss!InLog' \in SUBSET Iss!Events
    BY <1>2, <1>3 DEF Iss!InLog
  <2>5. Iss!IsFiniteSet(Iss!InLog') /\ Iss!Cardinality(Iss!InLog') \in Nat
    BY <2>1, FS_Subset, FS_CardinalityType, IssuanceOperators DEF Iss!IssuanceAssumption
  <2>6. Iss!Cardinality(Iss!InLog) <= Iss!Cardinality(Iss!InLog')
    BY <2>1, <2>5, FS_Subset, IssuanceOperators
  <2>3. sn' <= Iss!Cardinality(Iss!InLog') + (IF rotated' THEN 1 ELSE 0)
    BY <1>1, <1>2, <1>3, <2>5, <2>6 DEF Iss!Numbered
  <2>4. \A d \in Iss!Events : anchorOf'[d] <= sn'
    BY <1>1, <1>2, <1>3 DEF Iss!Numbered
  <2>7. \A d \in issuing'.made : anchorOf'[d] = 0
    BY <1>1, <1>2 DEF Iss!Numbered
  <2> QED
    BY <1>2, <1>7, <1>8, <2>3, <2>4, <2>7 DEF Iss!Numbered
<1>12. Iss!WaysKept'
  BY <1>1, <1>2, <1>7, <1>8 DEF Iss!WaysKept
<1>13. Iss!NoneLost'
  BY <1>1, <1>2, <1>7 DEF Iss!NoneLost
<1> QED
  BY <1>8, <1>10, <1>11, <1>12, <1>13 DEF Iss!IssuanceInv

(* A restart clears the queues of the Registrar and the Credentialer.      *)
LEMMA RestartKeeps ==
  ASSUME Iss!IssuanceAssumption, Iss!IssuanceInv, Iss!Restart
  PROVE  Iss!IssuanceInv'
<1>1. Iss!TypeOK /\ Iss!Numbered /\ Iss!WaysKept /\ Iss!NoneLost /\ Iss!CredentialsDone
  BY DEF Iss!IssuanceInv
<1>2. /\ Steady /\ crashed' = crashed + 1
      /\ anchored' = anchored /\ tpwe' = tpwe /\ accepted' = accepted /\ tmse' = tmse /\ tede' = tede
      /\ ctel' = ctel
      /\ ccrd' = ccrd /\ saved' = saved /\ cmse' = cmse
  BY DEF Iss!Restart, Iss!db, Steady
<1>3. /\ Iss!Numbered' /\ \A e : Iss!Created(e)' <=> Iss!Created(e)
      /\ \A e : Iss!Passed(e)' <=> Iss!Passed(e)
      /\ Iss!group' = Iss!group
      /\ sn' \in Iss!Numbers /\ anchorOf' \in [Iss!Events -> Iss!Numbers] /\ issuing' \in Issuers
      /\ rotated' \in BOOLEAN
      /\ wits' \subseteq Iss!Everyone /\ witsAt' \in [Iss!Numbers -> SUBSET Iss!Everyone]
      /\ wigs' \in [Iss!Numbers -> SUBSET Iss!Everyone] /\ cgms' \in [Iss!Numbers -> Iss!Events \cup {Nil}]
  BY <1>1, <1>2, SteadyKeeps
<1>4. /\ issuing' = issuing /\ sn' = sn /\ anchorOf' = anchorOf /\ wits' = wits /\ witsAt' = witsAt
      /\ wigs' = wigs /\ cgms' = cgms /\ rotated' = rotated /\ crashed' # 0 /\ crashed' \in Nat
  BY <1>1, <1>2 DEF Steady, Iss!issuer, Iss!TypeOK
<1>5. Iss!TypeOK'
  BY <1>1, <1>2, <1>3, <1>4 DEF Iss!TypeOK
<1>6. Iss!WaysKept'
  BY <1>1, <1>2, <1>3, <1>4 DEF Iss!WaysKept
<1>7. Iss!NoneLost'
  BY <1>1, <1>2, <1>3, <1>4 DEF Iss!NoneLost
<1>8. Iss!CredentialsDone'
  BY <1>1, <1>2, <1>3, <1>4 DEF Iss!CredentialsDone
<1> QED
  BY <1>3, <1>5, <1>6, <1>7, <1>8 DEF Iss!IssuanceInv

(* The initial states.                                                     *)
LEMMA IssuanceInit ==
  ASSUME Iss!IssuanceAssumption, Iss!Init
  PROVE  Iss!IssuanceInv
<1>1. /\ \A v \in Issuers : v.group \in BOOLEAN /\ v.made \subseteq Iss!Events
      /\ issuing \in Issuers /\ Iss!group \in BOOLEAN
  BY DEF Iss!IssuanceAssumption, Iss!Init, Iss!group
<1>2. Iss!Cardinality(Iss!Events) \in Nat /\ 0 \in Iss!Numbers /\ Iss!Numbers \subseteq Nat
  BY FS_CardinalityType, IssuanceOperators DEF Iss!IssuanceAssumption, Iss!Numbers
<1>3. /\ sn = 0 /\ rotated = FALSE /\ crashed = 0 /\ anchorOf \in [Iss!Events -> Iss!Numbers]
      /\ \A e \in Iss!Events : anchorOf[e] = 0
      /\ wits \subseteq Iss!Everyone /\ witsAt \in [Iss!Numbers -> SUBSET Iss!Everyone]
      /\ wigs \in [Iss!Numbers -> SUBSET Iss!Everyone] /\ cgms \in [Iss!Numbers -> Iss!Events \cup {Nil}]
      /\ \A n \in Iss!Numbers : witsAt[n] = {} /\ wigs[n] = {} /\ cgms[n] = Nil
  BY <1>2 DEF Iss!Init, Iss!Everyone
<1>4. /\ anchored = issuing.made /\ accepted = issuing.made /\ ctel = issuing.made /\ tpwe = {}
      /\ tmse = {} /\ tede = {}
      /\ cmse = {} /\ ccrd = {}
  BY DEF Iss!Init
<1>5. \A e \in Iss!Events : Iss!Created(e) <=> e \in issuing.made
  BY <1>3 DEF Iss!Created
<1>6. Iss!TypeOK
  BY <1>1, <1>2, <1>3, <1>4, <1>5 DEF Iss!TypeOK
<1>7. Iss!Numbered
  <2>1. Iss!IsFiniteSet(Iss!InLog) /\ Iss!Cardinality(Iss!InLog) \in Nat
    BY FS_Subset, FS_CardinalityType, IssuanceOperators DEF Iss!InLog, Iss!IssuanceAssumption
  <2>2. Iss!group \in BOOLEAN /\ issuing.made \subseteq Iss!Events
    BY <1>1
  <2>3. \A e \in Iss!Events : anchorOf[e] <= IF Iss!group THEN sn + 1 ELSE sn
    BY <1>3, <2>2
  <2>4. sn <= Iss!Cardinality(Iss!InLog) + (IF rotated THEN 1 ELSE 0) /\ 1..sn = {}
    BY <1>3, <2>1
  <2> QED
    BY <1>3, <2>2, <2>3, <2>4 DEF Iss!Numbered
<1>8. Iss!WaysKept /\ Iss!NoneLost /\ Iss!CredentialsDone
  BY <1>1, <1>4, <1>5 DEF Iss!WaysKept, Iss!NoneLost, Iss!CredentialsDone
<1> QED
  BY <1>6, <1>7, <1>8 DEF Iss!IssuanceInv

(* Every step.                                                             *)
LEMMA IssuanceNext ==
  ASSUME Iss!IssuanceAssumption, Iss!IssuanceInv, [Iss!Next]_(Iss!vars)
  PROVE  Iss!IssuanceInv'
<1>1. CASE UNCHANGED Iss!vars
  <2>1. /\ Steady /\ crashed' = crashed /\ UNCHANGED <<accepted, anchored, tpwe, tmse, tede, ctel, cmse, ccrd, saved, pcues>>
    BY <1>1 DEF Iss!vars, Steady, Iss!db, Iss!memory
  <2> QED
    BY <2>1, LoopKeeps DEF Iss!IssuanceInv, Iss!TypeOK, Iss!WaysKept
<1>2. ASSUME NEW n \in Iss!Numbers, Iss!Receipt(n) PROVE Iss!IssuanceInv'
  <2>1. PICK got \in SUBSET witsAt[n] : wigs' = [wigs EXCEPT ![n] = @ \cup got]
    BY <1>2 DEF Iss!Receipt
  <2> QED
    BY <1>2, <2>1, ReceiptsKeep DEF Iss!Receipt
<1>3. ASSUME NEW n \in Iss!Numbers, NEW w, Iss!ReceiptLate(n, w) PROVE Iss!IssuanceInv'
  <2>1. {w} \in SUBSET witsAt[n]
    BY <1>3 DEF Iss!ReceiptLate
  <2>2. wigs' = [wigs EXCEPT ![n] = @ \cup {w}]
    BY <1>3 DEF Iss!ReceiptLate
  <2>3. UNCHANGED <<issuing, sn, anchorOf, wits, witsAt, cgms, Iss!db, pcues, rotated, crashed>>
    BY <1>3 DEF Iss!ReceiptLate, Iss!memory
  <2> QED
    BY <2>1, <2>2, <2>3, ReceiptsKeep
<1>4. CASE Iss!Environment
  BY <1>3, <1>4, CreateSingleKeeps, CreateGroupKeeps, CompleteGroupKeeps, RotateKeeps, RestartKeeps DEF Iss!Environment
<1>5. CASE Iss!Loops
  BY <1>2, <1>5, LoopsKeep DEF Iss!Loops
<1> QED
  BY <1>1, <1>4, <1>5 DEF Iss!Next, Iss!Idle

(* The inductive invariant of what is issued.                              *)
THEOREM IssuanceInvariant ==
  ASSUME Iss!IssuanceAssumption
  PROVE  Iss!Spec => []Iss!IssuanceInv
<1>1. Iss!Init => Iss!IssuanceInv
  BY IssuanceInit
<1>2. Iss!IssuanceInv /\ [Iss!Next]_(Iss!vars) => Iss!IssuanceInv'
  BY IssuanceNext
<1> QED
  BY <1>1, <1>2, PTL DEF Iss!Spec

(* Nothing that was created is lost between the escrows, and a credential  *)
(* counts as complete only when it is (Registrar, Credentialer).           *)
THEOREM IssuedIsFollowed ==
  ASSUME Iss!IssuanceAssumption
  PROVE  Iss!Spec => [](Iss!NoneLost /\ Iss!CredentialsDone)
<1>1. Iss!IssuanceInv => Iss!NoneLost /\ Iss!CredentialsDone
  BY DEF Iss!IssuanceInv
<1> QED
  BY <1>1, IssuanceInvariant, PTL
=============================================================================
