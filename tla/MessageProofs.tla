---------------------------- MODULE MessageProofs ----------------------------
(***************************************************************************)
(* Proofs about Exchanges, for any messages, keys and crashes, and about   *)
(* Kram, Replies and Mailboxes, instanced below: Kram for any messages,    *)
(* deliveries and keys and any windows that the code takes, while the      *)
(* configuration stays; Replies for any replies, keys and ways to send     *)
(* them; Mailboxes for any letters, topics, timeouts and restarts.         *)
(***************************************************************************)
EXTENDS Exchanges, SequenceFacts, TLAPS

-----------------------------------------------------------------------------
(* Exchanges: what a verdict and an authentication say.                    *)

(* The keys of an establishment event that is known are finitely many.     *)
LEMMA KnownKeys ==
  ASSUME TypeOK, NEW m \in Msgs, NEW n \in Sns, n < kel[From(m)]
  PROVE  IsFiniteSet(KeysAt[From(m)][n])
<1>1. From(m) \in Aids
  BY DEF Aids
<1>2. n \in Nat
  BY ExchangesAssumption DEF Sns
<1>3. kel[From(m)] \in Nat /\ 0..kel[From(m)] - 1 \subseteq DOMAIN KeysAt[From(m)]
  BY <1>1 DEF TypeOK
<1>4. n \in DOMAIN KeysAt[From(m)]
  BY <1>2, <1>3, SMT
<1> QED
  BY <1>1, <1>4, ExchangesAssumption

(* More signatures complete a group as well.                               *)
LEMMA MoreComplete ==
  ASSUME TypeOK, NEW m \in Msgs, NEW n \in Sns, NEW S, NEW T, Complete(m, n, S),
         S \cap KeysAt[From(m)][n] \subseteq T
  PROVE  Complete(m, n, T)
<1> DEFINE K == KeysAt[From(m)][n]
<1>1. n < kel[From(m)] /\ Cardinality(S \cap K) >= Threshold
  BY DEF Complete
<1>2. IsFiniteSet(K)
  BY <1>1, KnownKeys
<1>3. IsFiniteSet(T \cap K) /\ IsFiniteSet(S \cap K) /\ S \cap K \subseteq T \cap K
  BY <1>2, FS_Subset
<1>4. Cardinality(S \cap K) <= Cardinality(T \cap K)
  BY <1>3, FS_Subset
<1>5. Cardinality(S \cap K) \in Nat /\ Cardinality(T \cap K) \in Nat /\ Threshold \in Nat
  BY <1>3, FS_CardinalityType, ExchangesAssumption
<1>6. Cardinality(T \cap K) >= Threshold
  BY <1>1, <1>4, <1>5
<1> QED
  BY <1>1, <1>6 DEF Complete

(* An accepted answer is to a saved message that has no other answer.      *)
LEMMA AcceptedAnswers ==
  ASSUME NEW m \in Msgs, NEW seal, Verdict(m, seal) = "accepted", Prior(m) # None
  PROVE  /\ Prior(m) \in exns /\ response(Prior(m)) = None
         /\ MsgData[m].thread = MsgData[Prior(m)].thread
         /\ MsgData[Prior(m)].to = From(m) /\ MsgData[m].to = From(Prior(m))
<1>1. InPlace(m, seal)
  BY DEF Verdict
<1>2. _verifyReplyChain(m)
  BY <1>1 DEF InPlace, InThread
<1> QED
  BY <1>2 DEF _verifyReplyChain

(* So it is not saved yet, nor is another answer to the same message.      *)
LEMMA PlaceFree ==
  ASSUME TypeOK, ThreadsLinear, NEW m \in Msgs, NEW seal, Verdict(m, seal) = "accepted",
         Prior(m) # None, NEW q \in exns
  PROVE  Prior(q) # Prior(m)
<1> SUFFICES ASSUME Prior(q) = Prior(m) PROVE FALSE
  OBVIOUS
<1>1. erpy[Prior(m)] = q
  BY DEF ThreadsLinear, Answers
<1>2. response(Prior(m)) = q
  BY <1>1 DEF response
<1>3. q # None
  BY ExchangesAssumption DEF TypeOK
<1> QED
  BY <1>2, <1>3, AcceptedAnswers

(* A sender who is authenticated is by what is kept of the evidence.       *)
LEMMA ProofKept ==
  ASSUME TypeOK, NEW m \in Msgs, NEW groups \in [Sns -> SUBSET Signers], NEW seal \in BOOLEAN,
         Authenticated(m, groups, seal), ~seal
  PROVE  \E n \in Sns : Complete(m, n, Valid(m, groups)[n])
<1>1. PICK n \in Sns : groups[n] # {} /\ Complete(m, n, groups[n])
  BY DEF Authenticated, Groups
<1>2. Valid(m, groups)[n] = groups[n] \cap KeysAt[From(m)][n]
  BY <1>1 DEF Valid
<1>3. Complete(m, n, Valid(m, groups)[n])
  BY <1>1, <1>2, MoreComplete
<1> QED
  BY <1>3

-----------------------------------------------------------------------------
(* Each action, part by part of the invariant.                             *)

LEMMA EmptyType == Empty \in [Sns -> SUBSET Signers]
  BY DEF Empty

LEMMA ValidType ==
  ASSUME NEW m, NEW groups \in [Sns -> SUBSET Signers]
  PROVE  Valid(m, groups) \in [Sns -> SUBSET Signers]
  BY DEF Valid

(* An entry of the escrow is filed or dropped: what is saved is left alone.*)
LEMMA FilingKeeps ==
  ASSUME ExchangesInv, NEW m \in Msgs, NEW groups \in [Sns -> SUBSET Signers],
         NEW seal \in BOOLEAN, escrowPSEvent(m, groups, seal) \/ Discard(m) \/ UNCHANGED stored,
         Quiet, UNCHANGED log
  PROVE  ExchangesInv'
<1> USE DEF log, stored, Quiet
<1>1. erpy' = erpy /\ exns' = exns /\ UNCHANGED <<kel, sealed, chain, notified, crashes>>
  BY DEF escrowPSEvent, Discard
<1>2. /\ esigs' \in [Msgs -> [Sns -> SUBSET Signers]] /\ ests' \subseteq Msgs
      /\ epse' \subseteq Msgs /\ stale' \subseteq epse'
  <2>1. CASE escrowPSEvent(m, groups, seal)
    <3>1. CASE m \in exns
      BY <2>1, <3>1 DEF escrowPSEvent, ExchangesInv, TypeOK
    <3>2. CASE m \notin exns
      <4>1. [n \in Sns |-> esigs[m][n] \cup groups[n]] \in [Sns -> SUBSET Signers]
        BY DEF ExchangesInv, TypeOK
      <4> QED
        BY <2>1, <3>2, <4>1 DEF escrowPSEvent, ExchangesInv, TypeOK
    <3> QED
      BY <3>1, <3>2
  <2>2. CASE Discard(m)
    BY <2>2, EmptyType DEF Discard, ExchangesInv, TypeOK
  <2>3. CASE UNCHANGED stored
    BY <2>3 DEF ExchangesInv, TypeOK
  <2> QED
    BY <2>1, <2>2, <2>3
<1>3. \A q \in exns : esigs'[q] = esigs[q] /\ (q \in ests' <=> q \in ests)
  BY EmptyType DEF escrowPSEvent, Discard, ExchangesInv, TypeOK
<1>4. TypeOK'
  BY <1>1, <1>2 DEF ExchangesInv, TypeOK
<1>5. ThreadsLinear' /\ AnswersHeardOnce' /\ HeardSaved'
  BY <1>1 DEF ExchangesInv, ThreadsLinear, Answers, AnswersHeardOnce, HeardSaved
<1>6. SavedProved'
  BY <1>1, <1>3 DEF ExchangesInv, SavedProved, SealKnown, Complete
<1> QED
  BY <1>4, <1>5, <1>6 DEF ExchangesInv

(* A message is saved, or the writing of it is cut short.                  *)
LEMMA SavingKeeps ==
  ASSUME ExchangesInv, NEW m \in Msgs, NEW groups \in [Sns -> SUBSET Signers],
         NEW seal \in BOOLEAN, Authenticated(m, groups, seal), Verdict(m, seal) = "accepted",
         Save(m, groups, seal), UNCHANGED log
  PROVE  ExchangesInv'
<1>1. PICK cut \in Cuts : /\ logEvent(m, groups, seal, cut)
                          /\ crashes' = IF cut = "none" THEN crashes ELSE crashes + 1
                          /\ crashes' <= MaxCrashes
  BY DEF Save
<1> DEFINE cleared == IF m \in epse \ exns THEN [esigs EXCEPT ![m] = Empty] ELSE esigs
           kept == IF m \in epse \ exns THEN ests \ {m} ELSE ests
<1>2. kel' = kel /\ sealed' = sealed /\ chain' = chain
  BY DEF log
<1>3. /\ cleared \in [Msgs -> [Sns -> SUBSET Signers]] /\ kept \subseteq Msgs
      /\ \A q \in Msgs \ {m} : cleared[q] = esigs[q] /\ (q \in kept <=> q \in ests)
      /\ m \in exns => cleared = esigs /\ kept = ests
  BY EmptyType DEF ExchangesInv, TypeOK
<1>4. \/ /\ cut = "cleared" /\ esigs' = cleared /\ ests' = kept /\ erpy' = erpy
      \/ /\ cut # "cleared"
         /\ esigs' = [cleared EXCEPT ![m] = [n \in Sns |-> @[n] \cup Valid(m, groups)[n]]]
         /\ ests' = IF seal THEN kept \cup {m} ELSE kept
         /\ erpy' = IF Prior(m) = None THEN erpy ELSE [erpy EXCEPT ![Prior(m)] = m]
  BY <1>1, Zenon DEF logEvent
<1>5. /\ exns' = IF cut \in {"message", "none"} THEN exns \cup {m} ELSE exns
      /\ IF cut = "none"
         THEN /\ epse' = epse \ {m} /\ stale' = stale \ {m}
              /\ notified' = [notified EXCEPT ![m] = IF @ = 2 THEN 2 ELSE @ + 1]
         ELSE UNCHANGED <<epse, stale, notified>>
  BY <1>1, Zenon DEF logEvent
<1> HIDE DEF cleared, kept
<1>6. Prior(m) # None => Prior(m) \in exns /\ Prior(m) \in Msgs
  BY AcceptedAnswers DEF ExchangesInv, TypeOK
<1>7. ASSUME Prior(m) # None, NEW q \in exns
      PROVE  q # m /\ Prior(q) # Prior(m)
  BY <1>7, PlaceFree DEF ExchangesInv
<1>8. /\ esigs' \in [Msgs -> [Sns -> SUBSET Signers]] /\ ests' \subseteq Msgs
      /\ \A q \in Msgs \ {m} : esigs'[q] = esigs[q] /\ (q \in ests' <=> q \in ests)
      /\ cut # "cleared" => /\ \A n \in Sns : esigs'[m][n] = cleared[m][n] \cup Valid(m, groups)[n]
                            /\ (m \in ests' <=> (m \in kept \/ seal))
  <2>1. [n \in Sns |-> cleared[m][n] \cup Valid(m, groups)[n]] \in [Sns -> SUBSET Signers]
    BY <1>3, ValidType
  <2> QED
    BY <1>3, <1>4, <2>1
<1>9. TypeOK'
  <2>1. crashes' \in 0..MaxCrashes
    <3>1. (crashes' = crashes \/ crashes' = crashes + 1) /\ crashes' <= MaxCrashes
      BY <1>1, Zenon
    <3>2. crashes \in 0..MaxCrashes /\ MaxCrashes \in Nat
      BY ExchangesAssumption DEF ExchangesInv, TypeOK
    <3> QED
      BY <3>1, <3>2
  <2>2. exns' \subseteq Msgs /\ epse' \subseteq Msgs /\ stale' \subseteq epse'
    BY <1>5 DEF ExchangesInv, TypeOK
  <2>3. notified' \in [Msgs -> 0..2]
    BY <1>5 DEF ExchangesInv, TypeOK
  <2>4. erpy' \in [Msgs -> Msgs \cup {None}]
        /\ \A p \in Msgs : erpy'[p] # None => Prior(erpy'[p]) = p
    BY <1>4, <1>6 DEF ExchangesInv, TypeOK
  <2> QED
    BY <1>2, <1>8, <2>1, <2>2, <2>3, <2>4 DEF ExchangesInv, TypeOK
<1>10. ThreadsLinear'
  <2> SUFFICES ASSUME NEW q \in exns', Prior(q) # None
               PROVE  Answers(q)'
    BY DEF ThreadsLinear
  <2>1. exns \subseteq exns' /\ (q = m /\ q \notin exns => cut # "cleared")
    BY <1>5
  <2>2. CASE q \in exns
    <3>1. Answers(q)
      BY <2>2 DEF ExchangesInv, ThreadsLinear
    <3>2. Prior(q) \in Msgs
      BY <2>2, <3>1 DEF Answers, ExchangesInv, TypeOK
    <3>3. CASE Prior(m) = None
      BY <1>4, <2>1, <3>1, <3>3 DEF Answers
    <3>4. CASE Prior(m) # None
      <4>1. Prior(q) # Prior(m)
        BY <1>7, <2>2, <3>4
      <4>2. erpy'[Prior(q)] = erpy[Prior(q)]
        BY <1>4, <3>2, <4>1 DEF ExchangesInv, TypeOK
      <4> QED
        BY <2>1, <3>1, <4>2 DEF Answers
    <3> QED
      BY <3>3, <3>4
  <2>3. CASE q \notin exns
    <3>1. q = m /\ cut # "cleared"
      BY <1>5, <2>3
    <3>2. erpy'[Prior(m)] = m
      BY <1>4, <1>6, <3>1 DEF ExchangesInv, TypeOK
    <3> QED
      BY <1>6, <2>1, <3>1, <3>2, AcceptedAnswers DEF Answers
  <2> QED
    BY <2>2, <2>3
<1>11. SavedProved'
  <2> SUFFICES ASSUME NEW q \in exns'
               PROVE  \/ q \in ests' /\ SealKnown(q)
                      \/ \E n \in Sns : Complete(q, n, esigs'[q][n])
    BY <1>2 DEF SavedProved, SealKnown, Complete
  <2>0. q \in Msgs
    BY <1>9 DEF TypeOK
  <2>1. CASE q # m
    <3>1. q \in exns
      BY <1>5, <2>1
    <3> QED
      BY <1>8, <2>0, <2>1, <3>1 DEF ExchangesInv, SavedProved
  <2>2. CASE q = m /\ m \in exns
    <3>1. \/ m \in ests /\ SealKnown(m)
          \/ \E n \in Sns : Complete(m, n, esigs[m][n])
      BY <2>2 DEF ExchangesInv, SavedProved
    <3>2. m \in ests => m \in ests'
      BY <1>3, <1>4, <2>2
    <3>3. \A n \in Sns : esigs[m][n] \subseteq esigs'[m][n]
      BY <1>3, <1>4, <1>8, <2>2
    <3>4. \A n \in Sns : Complete(m, n, esigs[m][n]) => Complete(m, n, esigs'[m][n])
      BY <3>3, MoreComplete DEF ExchangesInv
    <3> QED
      BY <2>2, <3>1, <3>2, <3>4
  <2>3. CASE q = m /\ m \notin exns
    <3>1. cut # "cleared"
      BY <1>5, <2>3
    <3>2. CASE seal
      BY <1>8, <2>3, <3>1, <3>2 DEF Authenticated
    <3>3. CASE ~seal
      <4>1. PICK n \in Sns : Complete(m, n, Valid(m, groups)[n])
        BY <3>3, ProofKept DEF ExchangesInv
      <4>2. Valid(m, groups)[n] \subseteq esigs'[m][n]
        BY <1>8, <3>1
      <4>3. Complete(m, n, esigs'[m][n])
        BY <4>1, <4>2, MoreComplete DEF ExchangesInv
      <4> QED
        BY <2>3, <4>3
    <3> QED
      BY <3>2, <3>3
  <2> QED
    BY <2>1, <2>2, <2>3
<1>12. HeardSaved'
  BY <1>5 DEF ExchangesInv, HeardSaved, TypeOK
<1>13. AnswersHeardOnce'
  <2> SUFFICES ASSUME NEW q \in Msgs, Prior(q) # None
               PROVE  notified'[q] <= 1
    BY DEF AnswersHeardOnce
  <2>1. CASE q = m /\ cut = "none"
    <3>1. m \notin exns
      BY <1>7, <2>1
    <3>2. notified[m] = 0
      BY <2>1, <3>1 DEF ExchangesInv, HeardSaved
    <3> QED
      BY <1>5, <2>1, <3>2 DEF ExchangesInv, TypeOK
  <2>2. CASE ~(q = m /\ cut = "none")
    BY <1>5, <2>2 DEF ExchangesInv, AnswersHeardOnce, TypeOK
  <2> QED
    BY <2>1, <2>2
<1> QED
  BY <1>9, <1>10, <1>11, <1>12, <1>13 DEF ExchangesInv

(* Key state and registry events arrive, and entries age.                  *)
LEMMA LearningKeeps ==
  ASSUME ExchangesInv, Arrive \/ (\E m \in Msgs : Age(m))
  PROVE  ExchangesInv'
<1>1. ASSUME NEW a \in Aids, LearnKeys(a)
      PROVE  ExchangesInv'
  <2> USE <1>1 DEF LearnKeys, stored
  <2>1. kel' \in [Aids -> Nat] /\ \A b \in Aids : kel[b] <= kel'[b]
    BY DEF ExchangesInv, TypeOK
  <2>2. ASSUME NEW b \in Aids, NEW i \in 0..kel'[b] - 1
        PROVE  i \in DOMAIN KeysAt[b]
    <3>1. kel[b] \in Nat /\ 0..kel[b] - 1 \subseteq DOMAIN KeysAt[b]
      BY DEF ExchangesInv, TypeOK
    <3>2. b = a => kel'[b] = kel[b] + 1 /\ kel[b] \in DOMAIN KeysAt[b]
      BY DEF ExchangesInv, TypeOK
    <3>3. b # a => kel'[b] = kel[b]
      BY DEF ExchangesInv, TypeOK
    <3> QED
      BY <3>1, <3>2, <3>3, SMT
  <2>3. TypeOK'
    BY <2>1, <2>2 DEF ExchangesInv, TypeOK
  <2>4. ASSUME NEW m \in Msgs, NEW n \in Sns, Complete(m, n, esigs[m][n])
        PROVE  Complete(m, n, esigs[m][n])'
    <3>1. From(m) \in Aids /\ n \in Nat /\ kel[From(m)] \in Nat /\ kel'[From(m)] \in Nat
      BY <2>1, ExchangesAssumption DEF Aids, Sns, ExchangesInv, TypeOK
    <3>2. n < kel'[From(m)]
      BY <2>1, <2>4, <3>1 DEF Complete
    <3> QED
      BY <2>4, <3>2 DEF Complete
  <2>5. SavedProved'
    BY <2>4 DEF ExchangesInv, SavedProved, SealKnown, TypeOK
  <2> QED
    BY <2>3, <2>5 DEF ExchangesInv, ThreadsLinear, Answers, HeardSaved, AnswersHeardOnce
<1>2. ASSUME NEW m \in Msgs, LearnSeal(m)
      PROVE  ExchangesInv'
  <2> USE <1>2 DEF LearnSeal, stored
  <2>1. kel[From(m)] - 1 \in Nat
    BY DEF ExchangesInv, TypeOK, Aids
  <2>2. TypeOK'
    BY <2>1 DEF ExchangesInv, TypeOK
  <2>3. SavedProved'
    <3>1. \A q \in Msgs : SealKnown(q) => SealKnown(q)'
      BY DEF SealKnown, ExchangesInv, TypeOK
    <3> QED
      BY <3>1 DEF ExchangesInv, SavedProved, Complete, TypeOK
  <2> QED
    BY <2>2, <2>3 DEF ExchangesInv, ThreadsLinear, Answers, HeardSaved, AnswersHeardOnce
<1>3. ASSUME NEW m \in Msgs, LearnChain(m) \/ Age(m)
      PROVE  ExchangesInv'
  <2> USE <1>3 DEF LearnChain, Age, stored, log
  <2>1. TypeOK'
    BY DEF ExchangesInv, TypeOK
  <2> QED
    BY <2>1 DEF ExchangesInv, ThreadsLinear, Answers, HeardSaved, AnswersHeardOnce, SavedProved,
                SealKnown, Complete
<1> QED
  BY <1>1, <1>2, <1>3 DEF Arrive

-----------------------------------------------------------------------------
(* What the threads of the system are saved as is linear and proved, what  *)
(* the user hears is saved, and an answer is heard of once: in every state *)
(* of Exchanger with IpexHandler, for any messages, keys and number of     *)
(* crashes between the writes of logEvent.                                 *)
THEOREM ExchangesInvariant == Spec => []ExchangesInv
<1>1. Init => ExchangesInv
  <2> SUFFICES ASSUME Init PROVE ExchangesInv
    OBVIOUS
  <2> USE DEF Init
  <2>1. TypeOK
    BY EmptyType, ExchangesAssumption DEF TypeOK
  <2> QED
    BY <2>1 DEF ExchangesInv, ThreadsLinear, SavedProved, HeardSaved, AnswersHeardOnce
<1>2. ExchangesInv /\ [Next]_vars => ExchangesInv'
  <2> SUFFICES ASSUME ExchangesInv, [Next]_vars PROVE ExchangesInv'
    OBVIOUS
  <2>1. ASSUME NEW d \in Deliveries, Deliver(d)
        PROVE  ExchangesInv'
    <3> DEFINE groups == [Empty EXCEPT ![d.sn] = d.sigs]
    <3>1. d.msg \in Msgs /\ d.seal \in BOOLEAN /\ UNCHANGED log
      BY <2>1, ExchangesAssumption DEF Deliver
    <3>2. groups \in [Sns -> SUBSET Signers]
      BY DEF Empty, Signers
    <3>3. \/ (escrowPSEvent(d.msg, groups, d.seal) \/ UNCHANGED stored) /\ Quiet
          \/ /\ Authenticated(d.msg, groups, d.seal) /\ Verdict(d.msg, d.seal) = "accepted"
             /\ Save(d.msg, groups, d.seal)
      BY <2>1, Zenon DEF Deliver
    <3> HIDE DEF groups
    <3> QED
      BY <3>1, <3>2, <3>3, FilingKeeps, SavingKeeps
  <2>2. ASSUME NEW m \in Msgs, Retry(m)
        PROVE  ExchangesInv'
    <3>1. esigs[m] \in [Sns -> SUBSET Signers] /\ (m \in ests) \in BOOLEAN /\ UNCHANGED log
      BY <2>2 DEF Retry, ExchangesInv, TypeOK
    <3>2. \/ (Discard(m) \/ UNCHANGED stored) /\ Quiet
          \/ /\ Authenticated(m, esigs[m], m \in ests) /\ Verdict(m, m \in ests) = "accepted"
             /\ Save(m, esigs[m], m \in ests)
      BY <2>2, Zenon DEF Retry
    <3> DEFINE seal == m \in ests
    <3>3. seal \in BOOLEAN
      OBVIOUS
    <3> QED
      BY <3>1, <3>2, <3>3, FilingKeeps, SavingKeeps
  <2>3. CASE UNCHANGED vars
    BY <2>3 DEF vars, log, stored, ExchangesInv, TypeOK, ThreadsLinear, Answers, SavedProved,
                SealKnown, Complete, HeardSaved, AnswersHeardOnce
  <2> QED
    BY <2>1, <2>2, <2>3, LearningKeeps DEF Next
<1> QED
  BY <1>1, <1>2, PTL DEF Spec

(* Threads are linear, each saved message has the evidence that proves its *)
(* sender, and the user hears of an answer once (Exchanger.logEvent).      *)
THEOREM ThreadsAreSound == Spec => []ThreadsSound
<1>1. ExchangesInv => ThreadsSound
  BY DEF ExchangesInv, ThreadsSound
<1> QED
  BY <1>1, ExchangesInvariant, PTL

(* Two saved messages never answer the same one (IpexHandler.response).    *)
THEOREM OneAnswerEach ==
  Spec => [](\A m, q \in exns : Prior(m) # None /\ Prior(m) = Prior(q) => m = q)
<1>1. ExchangesInv => \A m, q \in exns : Prior(m) # None /\ Prior(m) = Prior(q) => m = q
  BY DEF ExchangesInv, ThreadsLinear, Answers
<1> QED
  BY <1>1, ExchangesInvariant, PTL

-----------------------------------------------------------------------------
(* Kram, of data and variables of its own.                                 *)
CONSTANTS
  KramData, KramDeliveries, KramKeys, KramThreshold, Configs, Covers, Start, MaxTime
VARIABLES
  now, est, ksealed, conf, ctyp, pending, cache, partial, xdt, accepted

Krm == INSTANCE Kram WITH MsgData <- KramData, Deliveries <- KramDeliveries,
         KeysAt <- KramKeys, Threshold <- KramThreshold, sealed <- ksealed

-----------------------------------------------------------------------------
(* Windows                                                                 *)

(* The windows of a message are numbers in the order that is checked when  *)
(* they are configured (_parseValidateCtyp).                               *)
LEMMA WindowFacts ==
  ASSUME Krm!OneConfiguration, NEW m \in Krm!Msgs
  PROVE  /\ Krm!LagsOf(m) \in Krm!LagType /\ Krm!Window(m) \in Nat /\ Krm!Mdt(m) \in Int /\ Krm!Roomy(m)
         /\ Krm!LagsOf(m).sl <= Krm!Window(m) /\ Krm!LagsOf(m).sl <= Krm!LagsOf(m).psl
         /\ Krm!Window(m) <= Krm!LagsOf(m).ll /\ Krm!LagsOf(m).ll <= Krm!LagsOf(m).pll
<1> DEFINE l == Krm!LagsOf(m)
<1>1. l \in Krm!LagType /\ Krm!Mdt(m) \in Int /\ Krm!Roomy(m)
      /\ l.sl <= l.ll /\ l.sl <= l.psl /\ l.ll <= l.pll
  BY DEF Krm!OneConfiguration, Krm!Validated
<1>2. l.sl \in Nat /\ l.ll \in Nat
  BY <1>1 DEF Krm!LagType
<1>3. Krm!Window(m) \in {l.sl, l.ll}
  BY DEF Krm!Window
<1> HIDE DEF l
<1>4. Krm!Window(m) \in Nat /\ l.sl <= Krm!Window(m) /\ Krm!Window(m) <= l.ll
  BY <1>1, <1>2, <1>3
<1> QED BY <1>1, <1>4 DEF l

(* However a message is authenticated, its window covers the time in which *)
(* it is accepted, and its record is kept for its window.                  *)
LEMMA LagFacts ==
  ASSUME Krm!OneConfiguration, Krm!KramInv, NEW d \in KramDeliveries, est >= 0
  PROVE  LET m == d.msg
             l == Krm!LagsOf(m)
         IN /\ Krm!Lag(d, l) \in Nat /\ Krm!Lag(d, l) <= Krm!Window(m)
            /\ Krm!PruneLag(d, l) \in Nat /\ Krm!Window(m) <= Krm!PruneLag(d, l)
<1> DEFINE m == d.msg
           l == Krm!LagsOf(m)
<1>1. m \in Krm!Msgs
  BY DEF Krm!OneConfiguration
<1>2. /\ l \in Krm!LagType /\ Krm!Window(m) \in Nat /\ l.sl <= Krm!Window(m)
      /\ Krm!Window(m) <= l.ll /\ l.ll <= l.pll /\ l.sl <= l.psl
      /\ (Krm!InPieces(m) /\ Krm!AtOnce(m) => l.ll <= l.psl)
  BY <1>1, WindowFacts DEF Krm!Roomy
<1>3. l.sl \in Nat /\ l.ll \in Nat /\ l.psl \in Nat /\ l.pll \in Nat
  BY <1>2 DEF Krm!LagType
<1>4. est \in DOMAIN KramKeys
  BY DEF Krm!KramInv, Krm!TablesHeld
<1>5. CASE Krm!_resolveAuthType(d) = "asmk"
  <2>1. Krm!InPieces(m)
    BY <1>4, <1>5 DEF Krm!_resolveAuthType, Krm!MultiKey, Krm!InPieces
  <2>2. Krm!Window(m) = l.ll /\ Krm!Lag(d, l) = l.ll /\ Krm!PruneLag(d, l) = l.pll
    BY <1>5, <2>1 DEF Krm!Window, Krm!Lag, Krm!PruneLag
  <2> HIDE DEF l
  <2> QED BY <1>2, <1>3, <2>2 DEF l
<1>6. CASE Krm!_resolveAuthType(d) # "asmk"
  <2>1. Krm!AtOnce(m)
    BY <1>4, <1>6 DEF Krm!_resolveAuthType, Krm!MultiKey, Krm!SealValid, Krm!AtOnce
  <2>2. Krm!Lag(d, l) = l.sl /\ Krm!PruneLag(d, l) = l.psl
    BY <1>6 DEF Krm!Lag, Krm!PruneLag
  <2>3. Krm!Window(m) = (IF Krm!InPieces(m) THEN l.ll ELSE l.sl)
    BY DEF Krm!Window
  <2>4. Krm!Window(m) <= l.psl
    BY <1>2, <2>1, <2>3
  <2> HIDE DEF l
  <2> QED BY <1>2, <1>3, <2>2, <2>4 DEF l
<1> QED BY <1>5, <1>6

(* While nothing is staged, a message finds the windows as they are.       *)
LEMMA NothingStaged ==
  ASSUME Krm!OneConfiguration, Krm!Unchanged
  PROVE  /\ Krm!Reconciled = Configs[1]
         /\ \A m \in Krm!Msgs : Krm!_fetchCacheType(m) = Krm!LagsOf(m)
<1>1. Krm!Due = {}
  BY DEF Krm!Unchanged, Krm!Due
<1>2. Krm!Reconciled = Configs[1]
  BY <1>1 DEF Krm!Unchanged, Krm!OneConfiguration, Krm!Reconciled
<1> QED BY <1>2 DEF Krm!_fetchCacheType, Krm!LagsOf

(* A step that the configuration and the clock's kind survive.             *)
LEMMA ReconcileKeeps ==
  ASSUME Krm!OneConfiguration, Krm!Unchanged, Krm!reconcileConfig, now' = now
  PROVE  Krm!Unchanged'
<1>1. ctyp' = Configs[1]
  BY NothingStaged DEF Krm!reconcileConfig
<1>2. DOMAIN pending' = {}
  BY DEF Krm!reconcileConfig, Krm!Unchanged, Krm!Restrict
<1> QED BY <1>1, <1>2 DEF Krm!Unchanged, Krm!reconcileConfig

-----------------------------------------------------------------------------
(* What a step leaves                                                      *)

(* A message whose time is over stays so.                                  *)
LEMMA OverStays ==
  ASSUME Krm!OneConfiguration, now \in Int, now' \in Int, now <= now', NEW m \in Krm!Msgs, Krm!Over(m)
  PROVE  Krm!Over(m)'
<1>1. Krm!Over(m)' <=> now' > Krm!Mdt(m) + Krm!LagsOf(m).d + Krm!Window(m)
  BY DEF Krm!Over
<1>2. Krm!Mdt(m) \in Int /\ Krm!LagsOf(m).d \in Nat /\ Krm!Window(m) \in Nat
  BY WindowFacts DEF Krm!LagType
<1> QED BY <1>1, <1>2 DEF Krm!Over

(* An exchange that is over stays so, while its records do not come back.  *)
LEMMA GoneStays ==
  ASSUME Krm!OneConfiguration, now \in Int, now' \in Int, now <= now', NEW o \in Krm!Msgs, Krm!Opens(o), Krm!Gone(o),
         Krm!Rows(Krm!ThreadOf(o))' = {}, xdt'[Krm!ThreadOf(o)] = None
  PROVE  Krm!Gone(o)'
<1>1. Krm!Gone(o)' <=> now' > Krm!Mdt(o) + Krm!LagsOf(o).pxl
  BY DEF Krm!Gone
<1>2. Krm!Mdt(o) \in Int /\ Krm!LagsOf(o).pxl \in Nat
  BY WindowFacts DEF Krm!LagType
<1> QED BY <1>1, <1>2 DEF Krm!Gone

(* What is finished stays so, unless its exchange gets records again.      *)
LEMMA FinishedStays ==
  ASSUME Krm!OneConfiguration, now \in Int, now' \in Int, now <= now', NEW m \in Krm!Msgs, Krm!Finished(m),
         \A o \in Krm!Msgs : Krm!Opens(o) /\ Krm!Gone(o) =>
           Krm!Rows(Krm!ThreadOf(o))' = {} /\ xdt'[Krm!ThreadOf(o)] = None
  PROVE  Krm!Finished(m)'
<1>1. CASE Krm!Over(m)
  BY <1>1, OverStays DEF Krm!Finished
<1>2. CASE \E o \in Krm!Msgs : Krm!Opens(o) /\ Krm!ThreadOf(o) = Krm!ThreadOf(m) /\ Krm!Gone(o)
  <2>1. PICK o \in Krm!Msgs : Krm!Opens(o) /\ Krm!ThreadOf(o) = Krm!ThreadOf(m) /\ Krm!Gone(o)
    BY <1>2
  <2>2. Krm!Gone(o)'
    BY <2>1, GoneStays
  <2> QED BY <2>1, <2>2 DEF Krm!Finished, Krm!Opens
<1> QED BY <1>1, <1>2 DEF Krm!Finished

(* A step that leaves the tables of messages alone.                        *)
LEMMA IdleKeeps ==
  ASSUME Krm!OneConfiguration, Krm!KramInv, Krm!Unchanged', now <= now', est' \in {-1} \cup DOMAIN KramKeys,
         UNCHANGED Krm!cached
  PROVE  Krm!KramInv'
<1>1. Krm!TablesHeld'
  BY DEF Krm!KramInv, Krm!TablesHeld, Krm!cached
<1>2. Krm!RowsHeld'
  <2> SUFFICES ASSUME NEW m \in Krm!Msgs, cache[m] # None
               PROVE  Krm!RowHeld(m)'
    BY DEF Krm!RowsHeld, Krm!cached
  <2>1. Krm!RowHeld(m) /\ Krm!LagsOf(m).d \in Nat /\ Krm!Mdt(m) \in Int /\ now \in Int /\ now' \in Int
    BY WindowFacts DEF Krm!KramInv, Krm!RowsHeld, Krm!Unchanged, Krm!LagType
  <2>2. Krm!Mdt(m) <= now' + Krm!LagsOf(m).d
    BY <2>1 DEF Krm!RowHeld
  <2>3. Krm!ThreadOf(m) # None => cache[m].xdt <= now'
    BY <2>1 DEF Krm!RowHeld
  <2> QED BY <2>1, <2>2, <2>3 DEF Krm!RowHeld, Krm!cached
<1>3. xdt' = xdt /\ cache' = cache /\ \A x : Krm!Rows(x)' = Krm!Rows(x)
  BY DEF Krm!Rows, Krm!cached
<1>4. Krm!ThreadsHeld'
  <2>1. ASSUME NEW x \in Krm!Threads, xdt[x] # None
        PROVE  xdt[x] <= now'
    BY <2>1 DEF Krm!KramInv, Krm!ThreadsHeld, Krm!TablesHeld, Krm!Unchanged
  <2>2. ASSUME NEW o \in Krm!Msgs, Krm!Opens(o)
        PROVE  Krm!ThreadHeld(o)'
    BY <1>3, <2>2 DEF Krm!KramInv, Krm!ThreadsHeld, Krm!ThreadHeld
  <2>3. \A o \in Krm!Msgs : Krm!Opens(o)' <=> Krm!Opens(o)
    BY DEF Krm!Opens
  <2> QED BY <1>3, <2>1, <2>2, <2>3 DEF Krm!ThreadsHeld
<1>5. Krm!OnceHeld'
  <2> SUFFICES ASSUME NEW m \in Krm!Msgs
               PROVE  /\ partial[m] # None => cache[m] # None /\ accepted[m] = 0
                      /\ accepted[m] > 0 => accepted[m] = 1 /\ (cache[m] # None \/ Krm!Finished(m)')
    BY DEF Krm!OnceHeld, Krm!Waiting, Krm!cached
  <2>1. Krm!Finished(m) => Krm!Finished(m)'
    BY <1>3, FinishedStays DEF Krm!KramInv, Krm!Unchanged, Krm!Gone
  <2> QED BY <2>1 DEF Krm!KramInv, Krm!OnceHeld, Krm!Waiting
<1> QED BY <1>1, <1>2, <1>4, <1>5 DEF Krm!KramInv

-----------------------------------------------------------------------------
(* A delivery                                                              *)

(* What tells when an exchange began tells a time that has come, and the   *)
(* date of the message that opens it if there is only one.                 *)
LEMMA OpenedTime ==
  ASSUME Krm!OneConfiguration, Krm!KramInv, NEW m \in Krm!Msgs, Krm!ThreadOf(m) # None, Krm!Opened(m) # None,
         Krm!Mdt(m) <= now + Krm!LagsOf(m).d
  PROVE  /\ Krm!Opened(m) \in Int /\ Krm!Opened(m) <= now
         /\ \A o \in Krm!Msgs : Krm!Opens(o) /\ Krm!ThreadOf(o) = Krm!ThreadOf(m) => Krm!Opened(m) = Krm!Mdt(o)
<1> DEFINE x == Krm!ThreadOf(m)
<1>1. Krm!Mdt(m) \in Int /\ x \in Krm!Threads /\ Krm!LagsOf(m).d \in Nat /\ now \in Int /\ Start \in Int
  BY WindowFacts DEF Krm!Threads, Krm!ThreadOf, Krm!LagType, Krm!KramInv, Krm!Unchanged, Krm!OneConfiguration
<1>2. CASE KramData[m].opens # None /\ Krm!Opened(m) = Krm!Mdt(m)
  <2>1. Krm!LagsOf(m).d = 0 \/ Krm!Mdt(m) <= Start
    BY <1>2, WindowFacts DEF Krm!Roomy
  <2>2. Krm!Mdt(m) <= now
    BY <1>1, <2>1 DEF Krm!KramInv, Krm!Unchanged
  <2> QED BY <1>1, <1>2, <2>2 DEF Krm!Opens
<1>3. CASE Krm!Rows(x) # {} /\ Krm!Opened(m) = cache[CHOOSE q \in Krm!Rows(x) : TRUE].xdt
  <2> DEFINE q == CHOOSE q \in Krm!Rows(x) : TRUE
  <2>1. q \in Krm!Rows(x)
    BY <1>3
  <2> HIDE DEF q
  <2>2. q \in Krm!Msgs /\ Krm!ThreadOf(q) = x /\ cache[q] # None
    BY <2>1 DEF Krm!Rows
  <2>3. cache[q].xdt \in Int /\ cache[q].xdt <= now
    BY <2>2 DEF Krm!KramInv, Krm!RowsHeld, Krm!RowHeld
  <2>4. ASSUME NEW o \in Krm!Msgs, Krm!Opens(o), Krm!ThreadOf(o) = x
        PROVE  cache[q].xdt = Krm!Mdt(o)
    BY <2>1, <2>4 DEF Krm!KramInv, Krm!ThreadsHeld, Krm!ThreadHeld
  <2> QED BY <1>3, <2>3, <2>4 DEF q
<1>4. CASE xdt[x] # None /\ Krm!Opened(m) = xdt[x]
  <2>1. xdt[x] \in Int /\ xdt[x] <= now
    BY <1>1, <1>4 DEF Krm!KramInv, Krm!TablesHeld, Krm!ThreadsHeld
  <2>2. ASSUME NEW o \in Krm!Msgs, Krm!Opens(o), Krm!ThreadOf(o) = x
        PROVE  xdt[x] = Krm!Mdt(o)
    BY <1>4, <2>2 DEF Krm!KramInv, Krm!ThreadsHeld, Krm!ThreadHeld
  <2> QED BY <1>4, <2>1, <2>2
<1>5. \/ KramData[m].opens # None /\ Krm!Opened(m) = Krm!Mdt(m)
      \/ Krm!Rows(x) # {} /\ Krm!Opened(m) = cache[CHOOSE q \in Krm!Rows(x) : TRUE].xdt
      \/ xdt[x] # None /\ Krm!Opened(m) = xdt[x]
  BY DEF Krm!Opened, Krm!OneConfiguration
<1> QED BY <1>2, <1>3, <1>4, <1>5

(* What is taken in can be accepted still, so that its exchange is not     *)
(* over.                                                                   *)
LEMMA FreshNotGone ==
  ASSUME Krm!OneConfiguration, Krm!KramInv, NEW d \in KramDeliveries, Krm!Fresh(d),
         NEW o \in Krm!Msgs, Krm!Opens(o), Krm!ThreadOf(o) = Krm!ThreadOf(d.msg), Krm!Gone(o)
  PROVE  FALSE
<1> DEFINE m == d.msg
           l == Krm!LagsOf(m)
<1>1. m \in Krm!Msgs /\ est >= 0 /\ Krm!ThreadOf(m) # None
  BY DEF Krm!OneConfiguration, Krm!Fresh, Krm!Opens
<1>2. Krm!Timely(m, l.d, Krm!Lag(d, l)) /\ Krm!InExchange(m, l.xl)
  BY <1>1, NothingStaged DEF Krm!Fresh, Krm!KramInv
<1>3. KramData[m].opens # None
  <2>1. Krm!Opened(m) # None
    BY <1>1, <1>2 DEF Krm!InExchange
  <2> QED BY <2>1 DEF Krm!Opened, Krm!Gone, Krm!OneConfiguration
<1>4. m = o
  BY <1>1, <1>3 DEF Krm!Opens
<1>5. l.d + Krm!Window(m) <= l.pxl /\ now > Krm!Mdt(m) + l.pxl
  BY <1>4 DEF Krm!Opens, Krm!Gone
<1>6. now - l.d - Krm!Lag(d, l) <= Krm!Mdt(m)
  BY <1>2 DEF Krm!Timely, Krm!Within
<1>7. /\ Krm!Lag(d, l) \in Nat /\ Krm!Lag(d, l) <= Krm!Window(m) /\ Krm!Window(m) \in Nat
      /\ l.d \in Nat /\ l.pxl \in Nat /\ Krm!Mdt(m) \in Int /\ now \in Int
  BY <1>1, LagFacts, WindowFacts DEF Krm!LagType, Krm!KramInv, Krm!Unchanged
<1> HIDE DEF l, m
<1> QED BY <1>5, <1>6, <1>7

(* A message that is taken in is in its windows: the time to accept it is  *)
(* not over, so that it was not handed on before.                          *)
LEMMA FreshInTime ==
  ASSUME Krm!OneConfiguration, Krm!KramInv, NEW d \in KramDeliveries, Krm!Fresh(d)
  PROVE  LET m == d.msg IN
         /\ m \in Krm!Msgs /\ cache[m] = None /\ partial[m] = None /\ accepted[m] = 0
         /\ Krm!Mdt(m) <= now + Krm!LagsOf(m).d
         /\ Krm!ThreadOf(m) # None =>
                  /\ Krm!Opened(m) \in Int /\ Krm!Opened(m) <= now
                  /\ Krm!Within(Krm!Mdt(m), Krm!Opened(m), Krm!Opened(m) + Krm!LagsOf(m).xl)
                  /\ \A o \in Krm!Msgs : Krm!Opens(o) /\
                      Krm!ThreadOf(o) = Krm!ThreadOf(m) => Krm!Opened(m) = Krm!Mdt(o)
<1> DEFINE m == d.msg
           l == Krm!LagsOf(m)
<1>1. m \in Krm!Msgs /\ est >= 0
  BY DEF Krm!OneConfiguration, Krm!Fresh
<1>2. cache[m] = None /\ Krm!Timely(m, l.d, Krm!Lag(d, l)) /\ Krm!InExchange(m, l.xl)
  BY <1>1, NothingStaged DEF Krm!Fresh, Krm!KramInv
<1>3. /\ Krm!Lag(d, l) \in Nat /\ Krm!Lag(d, l) <= Krm!Window(m) /\ Krm!Window(m) \in Nat
      /\ l.d \in Nat /\ Krm!Mdt(m) \in Int /\ now \in Int
  BY <1>1, LagFacts, WindowFacts DEF Krm!LagType, Krm!KramInv, Krm!Unchanged
<1>4. Krm!Mdt(m) <= now + l.d /\ now - l.d - Krm!Lag(d, l) <= Krm!Mdt(m)
  BY <1>2 DEF Krm!Timely, Krm!Within
<1>5. ~Krm!Over(m)
  <2> HIDE DEF l
  <2>1. ~(now > Krm!Mdt(m) + l.d + Krm!Window(m))
    BY <1>3, <1>4
  <2> QED BY <2>1 DEF Krm!Over, l
<1>6. ~Krm!Finished(m)
  BY <1>5, FreshNotGone DEF Krm!Finished
<1>7. partial[m] = None /\ accepted[m] = 0
  BY <1>1, <1>2, <1>6 DEF Krm!KramInv, Krm!OnceHeld, Krm!Waiting, Krm!TablesHeld
<1>8. ASSUME Krm!ThreadOf(m) # None
      PROVE  /\ Krm!Opened(m) \in Int /\ Krm!Opened(m) <= now
             /\ Krm!Within(Krm!Mdt(m), Krm!Opened(m), Krm!Opened(m) + l.xl)
             /\ \A o \in Krm!Msgs : Krm!Opens(o) /\ Krm!ThreadOf(o) = Krm!ThreadOf(m) => Krm!Opened(m) = Krm!Mdt(o)
  <2>1. Krm!Opened(m) # None /\ Krm!Within(Krm!Mdt(m), Krm!Opened(m), Krm!Opened(m) + l.xl)
    BY <1>2, <1>8 DEF Krm!InExchange
  <2> QED BY <1>1, <1>4, <1>8, <2>1, OpenedTime
<1> QED BY <1>1, <1>2, <1>4, <1>7, <1>8

(* The signatures that verify are among those that came.                   *)
LEMMA VerifiedCame ==
  ASSUME NEW d \in KramDeliveries
  PROVE  Krm!_verifyAttachedSigs(d) \in SUBSET UNION {c.sigs : c \in KramDeliveries}
  BY DEF Krm!_verifyAttachedSigs

(* A new message leaves the tables and the invariant as they should be.    *)
LEMMA CacheKeeps ==
  ASSUME Krm!OneConfiguration, Krm!KramInv, Krm!Unchanged', NEW d \in KramDeliveries,
         Krm!Fresh(d), Krm!CacheNew(d), UNCHANGED <<now, est>>
  PROVE  Krm!KramInv'
<1> DEFINE m == d.msg
           l == Krm!LagsOf(m)
           x == Krm!ThreadOf(m)
           began == IF x = None THEN None ELSE Krm!Opened(m)
<1>1. /\ m \in Krm!Msgs /\ cache[m] = None /\ partial[m] = None /\ accepted[m] = 0
      /\ Krm!Mdt(m) <= now + l.d
      /\ x # None => /\ Krm!Opened(m) \in Int /\ Krm!Opened(m) <= now
                     /\ Krm!Within(Krm!Mdt(m), Krm!Opened(m), Krm!Opened(m) + l.xl)
                     /\ \A o \in Krm!Msgs : Krm!Opens(o) /\ Krm!ThreadOf(o) = x => Krm!Opened(m) = Krm!Mdt(o)
  BY FreshInTime
<1>2. Krm!_fetchCacheType(m) = l
  BY <1>1, NothingStaged DEF Krm!KramInv
<1>3. PICK done \in BOOLEAN :
        /\ cache' = [cache EXCEPT ![m] = [d |-> l.d, pml |-> Krm!PruneLag(d, l), pxl |-> l.pxl,
                                          xdt |-> began, rdt |-> IF done THEN Krm!Receipt(m) ELSE None]]
        /\ xdt' = IF x = None THEN xdt ELSE [xdt EXCEPT ![x] = began]
        /\ IF done THEN Krm!HandOn(m) /\ UNCHANGED partial
           ELSE /\ partial' = [partial EXCEPT ![m] = [sigs |-> Krm!_verifyAttachedSigs(d), est |-> est]]
                /\ UNCHANGED accepted
  BY <1>2 DEF Krm!CacheNew
<1> DEFINE row == [d |-> l.d, pml |-> Krm!PruneLag(d, l), pxl |-> l.pxl,
                   xdt |-> began, rdt |-> IF done THEN Krm!Receipt(m) ELSE None]
<1>4. l \in Krm!LagType /\ Krm!PruneLag(d, l) \in Nat /\ Krm!Window(m) <= Krm!PruneLag(d, l)
  BY <1>1, LagFacts, WindowFacts DEF Krm!Fresh
<1>5. row \in Krm!RowType /\ row # None
  <2>1. Krm!Receipt(m) \in Int \cup {None} /\ began \in Int \cup {None}
    BY <1>1 DEF Krm!Receipt, Krm!KramInv, Krm!Unchanged
  <2>2. row \in Krm!RowType
    BY <1>4, <2>1 DEF Krm!RowType, Krm!LagType
  <2> QED BY <2>2 DEF Krm!OneConfiguration
<1>6. /\ cache' \in [Krm!Msgs -> Krm!RowType \cup {None}] /\ cache'[m] = row
      /\ \A n \in Krm!Msgs \ {m} : cache'[n] = cache[n]
  BY <1>1, <1>3, <1>5 DEF Krm!KramInv, Krm!TablesHeld
<1>7. /\ accepted' \in [Krm!Msgs -> Nat] /\ accepted'[m] \in {0, 1}
      /\ \A n \in Krm!Msgs \ {m} : accepted'[n] = accepted[n]
  BY <1>1, <1>3 DEF Krm!HandOn, Krm!KramInv, Krm!TablesHeld
<1>8. /\ partial' \in [Krm!Msgs -> Krm!PieceType \cup {None}]
      /\ partial'[m] # None => accepted'[m] = 0
      /\ \A n \in Krm!Msgs \ {m} : partial'[n] = partial[n]
  <2>1. [sigs |-> Krm!_verifyAttachedSigs(d), est |-> est] \in Krm!PieceType
    BY VerifiedCame DEF Krm!KramInv, Krm!TablesHeld, Krm!PieceType
  <2>2. partial \in [Krm!Msgs -> Krm!PieceType \cup {None}] /\ accepted \in [Krm!Msgs -> Nat]
    BY DEF Krm!KramInv, Krm!TablesHeld
  <2>3. CASE done
    BY <1>1, <1>3, <2>2, <2>3
  <2>4. CASE ~done
    BY <1>1, <1>3, <2>1, <2>2, <2>4
  <2> QED BY <2>3, <2>4
<1>9. xdt' \in [Krm!Threads -> Int \cup {None}]
  BY <1>1, <1>3 DEF Krm!KramInv, Krm!TablesHeld
<1>10. Krm!TablesHeld'
  BY <1>6, <1>7, <1>8, <1>9 DEF Krm!KramInv, Krm!TablesHeld
<1>11. Krm!RowsHeld'
  <2> SUFFICES ASSUME NEW n \in Krm!Msgs, cache'[n] # None
               PROVE  Krm!RowHeld(n)'
    BY DEF Krm!RowsHeld
  <2>1. CASE n = m
    BY <1>1, <1>4, <1>6, <2>1 DEF Krm!RowHeld
  <2>2. CASE n # m
    <3>1. cache'[n] = cache[n] /\ Krm!RowHeld(n)
      BY <1>6, <2>2 DEF Krm!KramInv, Krm!RowsHeld
    <3> QED BY <3>1 DEF Krm!RowHeld
  <2> QED BY <2>1, <2>2
<1>12. \A o \in Krm!Msgs : Krm!Opens(o) /\ Krm!Gone(o) =>
          Krm!ThreadOf(o) # x /\ Krm!Rows(Krm!ThreadOf(o))' = {} /\ xdt'[Krm!ThreadOf(o)] = None
  <2> SUFFICES ASSUME NEW o \in Krm!Msgs, Krm!Opens(o), Krm!Gone(o)
               PROVE  Krm!ThreadOf(o) # x /\ Krm!Rows(Krm!ThreadOf(o))' = {} /\ xdt'[Krm!ThreadOf(o)] = None
    OBVIOUS
  <2>1. Krm!ThreadOf(o) # x
    BY FreshNotGone
  <2>2. Krm!Rows(Krm!ThreadOf(o))' = Krm!Rows(Krm!ThreadOf(o))
    BY <1>6, <2>1 DEF Krm!Rows
  <2>3. xdt'[Krm!ThreadOf(o)] = xdt[Krm!ThreadOf(o)]
    BY <1>3, <2>1 DEF Krm!KramInv, Krm!TablesHeld
  <2> QED BY <2>1, <2>2, <2>3 DEF Krm!Gone
<1>13. Krm!ThreadsHeld'
  <2>1. ASSUME NEW y \in Krm!Threads, xdt'[y] # None
        PROVE  xdt'[y] <= now
    BY <1>1, <1>3, <2>1 DEF Krm!KramInv, Krm!TablesHeld, Krm!ThreadsHeld
  <2>2. ASSUME NEW o \in Krm!Msgs, Krm!Opens(o), NEW n \in Krm!Msgs, Krm!ThreadOf(n) = Krm!ThreadOf(o),
            cache'[n] # None
        PROVE  cache'[n].xdt = Krm!Mdt(o)
    <3>1. CASE n = m
      BY <1>1, <1>6, <2>2, <3>1 DEF Krm!Opens
    <3>2. CASE n # m
      BY <1>6, <2>2, <3>2 DEF Krm!KramInv, Krm!ThreadsHeld, Krm!ThreadHeld, Krm!Rows
    <3> QED BY <3>1, <3>2
  <2>3. ASSUME NEW o \in Krm!Msgs, Krm!Opens(o)
        PROVE  xdt'[Krm!ThreadOf(o)] \in {Krm!Mdt(o), None}
    <3>1. xdt[Krm!ThreadOf(o)] \in {Krm!Mdt(o), None}
      BY <2>3 DEF Krm!KramInv, Krm!ThreadsHeld, Krm!ThreadHeld
    <3>2. xdt \in [Krm!Threads -> Int \cup {None}] /\ Krm!ThreadOf(o) \in Krm!Threads
      BY <2>3 DEF Krm!KramInv, Krm!TablesHeld, Krm!Opens, Krm!Threads, Krm!ThreadOf
    <3>3. CASE x = Krm!ThreadOf(o)
      BY <1>1, <1>3, <2>3, <3>2, <3>3 DEF Krm!Opens
    <3>4. CASE x # Krm!ThreadOf(o)
      BY <1>3, <3>1, <3>2, <3>4
    <3> QED BY <3>3, <3>4
  <2>4. \A o \in Krm!Msgs : Krm!Opens(o)' <=> Krm!Opens(o)
    BY DEF Krm!Opens
  <2>5. \A o \in Krm!Msgs : Krm!Opens(o) => Krm!ThreadHeld(o)'
    BY <2>2, <2>3 DEF Krm!ThreadHeld, Krm!Rows
  <2> QED BY <2>1, <2>4, <2>5 DEF Krm!ThreadsHeld
<1>14. Krm!OnceHeld'
  <2> SUFFICES ASSUME NEW n \in Krm!Msgs
               PROVE  /\ partial'[n] # None => cache'[n] # None /\ accepted'[n] = 0
                      /\ accepted'[n] > 0 => accepted'[n] = 1 /\ (cache'[n] # None \/ Krm!Finished(n)')
    BY DEF Krm!OnceHeld, Krm!Waiting
  <2>1. CASE n = m
    BY <1>5, <1>6, <1>7, <1>8, <2>1
  <2>2. CASE n # m
    <3>1. Krm!Finished(n) => Krm!Finished(n)'
      BY <1>12, FinishedStays DEF Krm!KramInv, Krm!Unchanged
    <3> QED BY <1>6, <1>7, <1>8, <2>2, <3>1 DEF Krm!KramInv, Krm!OnceHeld, Krm!Waiting
  <2> QED BY <2>1, <2>2
<1> QED BY <1>10, <1>11, <1>13, <1>14 DEF Krm!KramInv

(* The records of exchanges stay as they were, and so does what is over.   *)
LEMMA ThreadsKept ==
  ASSUME Krm!OneConfiguration, Krm!KramInv, UNCHANGED <<now, xdt>>,
         \A n \in Krm!Msgs : /\ cache'[n] # None <=> cache[n] # None
                             /\ cache'[n] # None => cache'[n].xdt = cache[n].xdt
  PROVE  Krm!ThreadsHeld' /\ \A n \in Krm!Msgs : Krm!Finished(n) => Krm!Finished(n)'
<1>1. \A x : Krm!Rows(x)' = Krm!Rows(x)
  BY DEF Krm!Rows
<1>2. \A o \in Krm!Msgs : Krm!Opens(o)' <=> Krm!Opens(o)
  BY DEF Krm!Opens
<1>3. \A o \in Krm!Msgs : Krm!ThreadHeld(o) => Krm!ThreadHeld(o)'
  BY <1>1 DEF Krm!ThreadHeld, Krm!Rows
<1>4. Krm!ThreadsHeld'
  BY <1>2, <1>3 DEF Krm!KramInv, Krm!ThreadsHeld
<1>5. \A n \in Krm!Msgs : Krm!Finished(n) => Krm!Finished(n)'
  BY <1>1, FinishedStays DEF Krm!KramInv, Krm!Unchanged, Krm!Gone
<1> QED BY <1>4, <1>5

(* Pieces of a message that waits: it is handed on at most as its record   *)
(* stays and nothing waits any more.                                       *)
LEMMA AccumulateKeeps ==
  ASSUME Krm!OneConfiguration, Krm!KramInv, Krm!Unchanged', NEW d \in KramDeliveries,
         Krm!Wanted(d), Krm!Accumulate(d), UNCHANGED <<now, est>>
  PROVE  Krm!KramInv'
<1> DEFINE m == d.msg
<1>1. m \in Krm!Msgs /\ cache[m] # None /\ partial[m] # None
  BY DEF Krm!Wanted, Krm!OneConfiguration
<1>2. cache[m] \in Krm!RowType /\ partial[m] \in Krm!PieceType /\ accepted[m] = 0
  BY <1>1 DEF Krm!KramInv, Krm!TablesHeld, Krm!OnceHeld, Krm!Waiting
<1>3. CASE UNCHANGED Krm!cached
  BY <1>3, IdleKeeps DEF Krm!KramInv, Krm!TablesHeld, Krm!Unchanged
<1>4. CASE Krm!Forget(m) /\ UNCHANGED <<cache, xdt, accepted>>
  <2>1. /\ partial' \in [Krm!Msgs -> Krm!PieceType \cup {None}]
        /\ \A n \in Krm!Msgs : partial'[n] # None => partial[n] # None
    BY <1>4 DEF Krm!Forget, Krm!KramInv, Krm!TablesHeld
  <2>2. Krm!TablesHeld' /\ Krm!RowsHeld'
    BY <1>4, <2>1 DEF Krm!KramInv, Krm!TablesHeld, Krm!RowsHeld, Krm!RowHeld
  <2>3. Krm!ThreadsHeld' /\ \A n \in Krm!Msgs : Krm!Finished(n) => Krm!Finished(n)'
    BY <1>4, ThreadsKept
  <2>4. Krm!OnceHeld'
    BY <1>4, <2>1, <2>3 DEF Krm!KramInv, Krm!OnceHeld, Krm!Waiting
  <2> QED BY <2>2, <2>3, <2>4 DEF Krm!KramInv
<1> DEFINE S == partial[m].sigs \cup Krm!_verifyAttachedSigs(d)
<1>5. CASE Krm!Pool(m, S)
  <2>1. S \in SUBSET UNION {c.sigs : c \in KramDeliveries}
    BY <1>2, VerifiedCame DEF Krm!PieceType
  <2>2. /\ partial' \in [Krm!Msgs -> Krm!PieceType \cup {None}] /\ xdt' = xdt
        /\ \A n \in Krm!Msgs \ {m} : partial'[n] = partial[n]
        /\ accepted' \in [Krm!Msgs -> Nat] /\ accepted'[m] \in {0, 1}
        /\ \A n \in Krm!Msgs \ {m} : accepted'[n] = accepted[n]
        /\ partial'[m] # None => accepted'[m] = 0
        /\ cache' \in [Krm!Msgs -> Krm!RowType \cup {None}] /\ cache'[m] # None
        /\ cache'[m].d = cache[m].d /\ cache'[m].pml = cache[m].pml
        /\ cache'[m].pxl = cache[m].pxl /\ cache'[m].xdt = cache[m].xdt
        /\ \A n \in Krm!Msgs \ {m} : cache'[n] = cache[n]
    <3> DEFINE row == [cache[m] EXCEPT !.rdt = Krm!Receipt(m)]
               piece == [partial[m] EXCEPT !.sigs = S]
    <3>1. row \in Krm!RowType /\ row # None
      <4>1. Krm!Receipt(m) \in Int \cup {None}
        BY DEF Krm!Receipt, Krm!KramInv, Krm!Unchanged
      <4>2. row \in Krm!RowType
        BY <1>2, <4>1 DEF Krm!RowType
      <4> QED BY <4>2 DEF Krm!OneConfiguration
    <3>2. piece \in Krm!PieceType
      BY <1>2, <2>1 DEF Krm!PieceType
    <3>3. cache \in [Krm!Msgs -> Krm!RowType \cup {None}] /\ accepted \in [Krm!Msgs -> Nat]
          /\ partial \in [Krm!Msgs -> Krm!PieceType \cup {None}]
      BY DEF Krm!KramInv, Krm!TablesHeld
    <3>4. /\ row.d = cache[m].d /\ row.pml = cache[m].pml
          /\ row.pxl = cache[m].pxl /\ row.xdt = cache[m].xdt
      BY <1>2 DEF Krm!RowType
    <3>5. CASE Krm!Satisfied(S)
      <4>1. /\ partial' = [partial EXCEPT ![m] = None]
            /\ accepted' = [accepted EXCEPT ![m] = @ + 1]
            /\ cache' = [cache EXCEPT ![m] = row] /\ xdt' = xdt
        BY <1>5, <3>5 DEF Krm!Pool, Krm!Forget, Krm!HandOn
      <4> HIDE DEF row
      <4> QED BY <1>1, <1>2, <3>1, <3>3, <3>4, <4>1
    <3>6. CASE ~Krm!Satisfied(S)
      <4>1. /\ partial' = [partial EXCEPT ![m] = piece]
            /\ accepted' = accepted /\ cache' = cache /\ xdt' = xdt
        BY <1>5, <3>6 DEF Krm!Pool
      <4> HIDE DEF piece
      <4> QED BY <1>1, <1>2, <3>2, <3>3, <4>1
    <3> QED BY <3>5, <3>6
  <2>3. Krm!TablesHeld'
    BY <2>2 DEF Krm!KramInv, Krm!TablesHeld
  <2>4. Krm!RowsHeld'
    <3> SUFFICES ASSUME NEW n \in Krm!Msgs, cache'[n] # None
                 PROVE  Krm!RowHeld(n)'
      BY DEF Krm!RowsHeld
    <3>1. cache[n] # None /\ Krm!RowHeld(n)
      BY <1>1, <2>2 DEF Krm!KramInv, Krm!RowsHeld
    <3>2. /\ cache'[n].d = cache[n].d /\ cache'[n].pml = cache[n].pml
          /\ cache'[n].pxl = cache[n].pxl /\ cache'[n].xdt = cache[n].xdt
      BY <2>2
    <3> QED BY <3>1, <3>2 DEF Krm!RowHeld
  <2>5. Krm!ThreadsHeld' /\ \A n \in Krm!Msgs : Krm!Finished(n) => Krm!Finished(n)'
    <3>1. \A n \in Krm!Msgs : /\ cache'[n] # None <=> cache[n] # None
                              /\ cache'[n] # None => cache'[n].xdt = cache[n].xdt
      BY <1>1, <2>2
    <3> QED BY <2>2, <3>1, ThreadsKept
  <2>6. Krm!OnceHeld'
    <3> SUFFICES ASSUME NEW n \in Krm!Msgs
                 PROVE  /\ partial'[n] # None => cache'[n] # None /\ accepted'[n] = 0
                        /\ accepted'[n] > 0 => accepted'[n] = 1 /\ (cache'[n] # None \/ Krm!Finished(n)')
      BY DEF Krm!OnceHeld, Krm!Waiting
    <3>1. CASE n = m
      BY <2>2, <3>1
    <3>2. CASE n # m
      BY <2>2, <2>5, <3>2 DEF Krm!KramInv, Krm!OnceHeld, Krm!Waiting
    <3> QED BY <3>1, <3>2
  <2> QED BY <2>3, <2>4, <2>5, <2>6 DEF Krm!KramInv
<1> QED BY <1>3, <1>4, <1>5 DEF Krm!Accumulate

-----------------------------------------------------------------------------
(* Pruning                                                                 *)

(* The record of a message without exchange is pruned when the message     *)
(* cannot be accepted any more.                                            *)
LEMMA ExpiredAlone ==
  ASSUME Krm!OneConfiguration, Krm!KramInv, NEW m \in Krm!Expired, Krm!ThreadOf(m) = None
  PROVE  Krm!Over(m)
<1> DEFINE l == Krm!LagsOf(m)
           c == cache[m]
<1>1. m \in Krm!Msgs /\ Krm!RowHeld(m) /\ c \in Krm!RowType /\ ~Krm!Within(Krm!Mdt(m), now - c.d - c.pml, now + c.d)
  BY DEF Krm!Expired, Krm!ExpiredBy, Krm!KramInv, Krm!RowsHeld, Krm!TablesHeld
<1>2. /\ l.d \in Nat /\ Krm!Window(m) \in Nat /\ Krm!Mdt(m) \in Int /\ now \in Int /\ c.pml \in Nat
      /\ c.d = l.d /\ Krm!Window(m) <= c.pml /\ Krm!Mdt(m) <= now + l.d
  BY <1>1, WindowFacts DEF Krm!KramInv, Krm!Unchanged, Krm!RowHeld, Krm!LagType, Krm!RowType
<1> HIDE DEF l, c
<1>3. now > Krm!Mdt(m) + l.d + Krm!Window(m)
  BY <1>1, <1>2 DEF Krm!Within
<1> QED BY <1>3 DEF Krm!Over, l

(* The record of a message of an exchange is pruned when the exchange is   *)
(* longer ago than its window.                                             *)
LEMMA ExpiredInExchange ==
  ASSUME Krm!OneConfiguration, Krm!KramInv, NEW m \in Krm!Expired, Krm!ThreadOf(m) # None
  PROVE  LET c == cache[m]
             l == Krm!LagsOf(m)
         IN /\ c.xdt \in Int /\ l.pxl \in Nat /\ now > c.xdt + l.pxl
            /\ Krm!Mdt(m) <= c.xdt + l.xl
<1> DEFINE l == Krm!LagsOf(m)
           c == cache[m]
<1>1. m \in Krm!Msgs /\ Krm!RowHeld(m) /\ ~Krm!Within(now, c.xdt, c.xdt + c.pxl)
  BY DEF Krm!Expired, Krm!ExpiredBy, Krm!KramInv, Krm!RowsHeld
<1>2. c.xdt \in Int /\ c.xdt <= now /\ c.pxl = l.pxl /\ Krm!Mdt(m) <= c.xdt + l.xl
  BY <1>1 DEF Krm!RowHeld, Krm!Within
<1>3. now \in Int /\ l.pxl \in Nat
  BY <1>1, WindowFacts DEF Krm!KramInv, Krm!Unchanged, Krm!LagType
<1> HIDE DEF l, c
<1> QED BY <1>1, <1>2, <1>3 DEF Krm!Within, l, c

(* What is pruned cannot be accepted any more.                             *)
LEMMA ExpiredIsFinished ==
  ASSUME Krm!OneConfiguration, Krm!KramInv, Krm!Prune, NEW m \in Krm!Expired
  PROVE  Krm!Finished(m)'
<1> DEFINE l == Krm!LagsOf(m)
           c == cache[m]
           x == Krm!ThreadOf(m)
<1>1. m \in Krm!Msgs /\ c # None /\ now' = now
  BY DEF Krm!Expired, Krm!Prune
<1>2. ASSUME Krm!Over(m)
      PROVE  Krm!Finished(m)'
  BY <1>1, <1>2 DEF Krm!Over, Krm!Finished
<1>3. CASE x = None
  BY <1>2, <1>3, ExpiredAlone
<1>4. CASE x # None /\ l.xl + l.d + Krm!Window(m) <= l.pxl
  <2>1. /\ c.xdt \in Int /\ now > c.xdt + l.pxl /\ Krm!Mdt(m) <= c.xdt + l.xl
        /\ l.d \in Nat /\ l.xl \in Nat /\ l.pxl \in Nat /\ Krm!Window(m) \in Nat
        /\ Krm!Mdt(m) \in Int /\ now \in Int
    BY <1>1, <1>4, ExpiredInExchange, WindowFacts DEF Krm!LagType, Krm!KramInv, Krm!Unchanged
  <2> HIDE DEF l, c
  <2>2. now > Krm!Mdt(m) + l.d + Krm!Window(m)
    BY <1>4, <2>1
  <2> QED BY <1>2, <2>2 DEF Krm!Over, l
<1>5. ASSUME NEW o \in Krm!Msgs, Krm!Opens(o), Krm!ThreadOf(o) = x
      PROVE  Krm!Finished(m)'
  <2>1. x # None /\ x \in Krm!Threads
    BY <1>1, <1>5 DEF Krm!Opens, Krm!Threads, Krm!ThreadOf
  <2>2. c.xdt = Krm!Mdt(o) /\ l.pxl = Krm!LagsOf(o).pxl
    BY <1>1, <1>5 DEF Krm!KramInv, Krm!ThreadsHeld, Krm!ThreadHeld, Krm!Rows, Krm!Opens
  <2>3. now > Krm!Mdt(o) + Krm!LagsOf(o).pxl
    BY <2>1, <2>2, ExpiredInExchange
  <2>4. Krm!Rows(x) \subseteq Krm!Expired
    <3> SUFFICES ASSUME NEW n \in Krm!Rows(x)
                 PROVE  n \in Krm!Expired
      OBVIOUS
    <3>1. n \in Krm!Msgs /\ Krm!ThreadOf(n) = x /\ cache[n] # None /\ Krm!RowHeld(n)
      BY DEF Krm!Rows, Krm!KramInv, Krm!RowsHeld
    <3>2. cache[n].xdt = Krm!Mdt(o) /\ cache[n].pxl = Krm!LagsOf(o).pxl
      BY <1>5, <3>1 DEF Krm!KramInv, Krm!ThreadsHeld, Krm!ThreadHeld, Krm!Opens, Krm!RowHeld
    <3>3. Krm!Mdt(o) \in Int /\ Krm!LagsOf(o).pxl \in Nat /\ now \in Int
      BY WindowFacts DEF Krm!LagType, Krm!KramInv, Krm!Unchanged
    <3>4. ~Krm!Within(now, cache[n].xdt, cache[n].xdt + cache[n].pxl)
      BY <2>3, <3>2, <3>3 DEF Krm!Within
    <3> QED BY <2>1, <3>1, <3>4 DEF Krm!Expired, Krm!ExpiredBy
  <2>5. xdt'[x] = None
    BY <2>1, <2>4 DEF Krm!Prune
  <2>6. Krm!Rows(x)' = {}
    BY <2>4 DEF Krm!Prune, Krm!Rows
  <2>7. Krm!Gone(o)'
    BY <1>1, <1>5, <2>3, <2>5, <2>6 DEF Krm!Gone
  <2> QED BY <1>5, <2>7 DEF Krm!Finished, Krm!Opens
<1>6. Krm!Roomy(m)
  BY <1>1, WindowFacts
<1> QED BY <1>3, <1>4, <1>5, <1>6 DEF Krm!Roomy

(* Pruning forgets what cannot come back.                                  *)
LEMMA PruneKeeps ==
  ASSUME Krm!OneConfiguration, Krm!KramInv, Krm!Prune
  PROVE  Krm!KramInv'
<1>1. Krm!Unchanged' /\ now' = now
  BY DEF Krm!Prune, Krm!KramInv, Krm!Unchanged, Krm!lags
<1>2. Krm!TablesHeld'
  BY DEF Krm!Prune, Krm!KramInv, Krm!TablesHeld
<1>3. \A m \in Krm!Msgs :
        /\ cache'[m] = (IF m \in Krm!Expired THEN None ELSE cache[m])
        /\ partial'[m] = (IF m \in Krm!Expired THEN None ELSE partial[m])
        /\ accepted'[m] = accepted[m]
  BY DEF Krm!Prune
<1>4. \A x \in Krm!Threads : xdt'[x] \in {xdt[x], None} /\ (xdt[x] = None => xdt'[x] = None)
  BY DEF Krm!Prune
<1>5. Krm!RowsHeld'
  <2> SUFFICES ASSUME NEW m \in Krm!Msgs, cache'[m] # None
               PROVE  Krm!RowHeld(m)'
    BY DEF Krm!RowsHeld
  <2>1. cache'[m] = cache[m] /\ Krm!RowHeld(m)
    BY <1>3 DEF Krm!KramInv, Krm!RowsHeld
  <2> QED BY <1>1, <2>1 DEF Krm!RowHeld
<1>6. \A x : Krm!Rows(x)' \subseteq Krm!Rows(x)
  BY <1>3 DEF Krm!Rows
<1>7. Krm!ThreadsHeld'
  <2>1. \A x \in Krm!Threads : xdt'[x] # None => xdt'[x] <= now'
    BY <1>1, <1>4 DEF Krm!KramInv, Krm!ThreadsHeld
  <2>2. ASSUME NEW o \in Krm!Msgs, Krm!Opens(o)
        PROVE  Krm!ThreadHeld(o)'
    <3>1. Krm!ThreadHeld(o) /\ Krm!ThreadOf(o) \in Krm!Threads
      BY <2>2 DEF Krm!KramInv, Krm!ThreadsHeld, Krm!Opens, Krm!Threads, Krm!ThreadOf
    <3>2. \A m \in Krm!Rows(Krm!ThreadOf(o))' : cache'[m] = cache[m]
      BY <1>3 DEF Krm!Rows
    <3>3. \A m \in Krm!Rows(Krm!ThreadOf(o))' : cache'[m].xdt = Krm!Mdt(o)
      BY <1>6, <3>1, <3>2 DEF Krm!ThreadHeld
    <3>4. xdt'[Krm!ThreadOf(o)] \in {Krm!Mdt(o), None}
      BY <1>4, <3>1 DEF Krm!ThreadHeld
    <3> QED BY <3>3, <3>4 DEF Krm!ThreadHeld
  <2>3. \A o \in Krm!Msgs : Krm!Opens(o)' <=> Krm!Opens(o)
    BY DEF Krm!Opens
  <2> QED BY <2>1, <2>2, <2>3 DEF Krm!ThreadsHeld
<1>8. \A o \in Krm!Msgs : Krm!Opens(o) /\ Krm!Gone(o) =>
        Krm!Rows(Krm!ThreadOf(o))' = {} /\ xdt'[Krm!ThreadOf(o)] = None
  BY <1>4, <1>6 DEF Krm!Gone, Krm!Opens, Krm!Threads, Krm!ThreadOf
<1>9. Krm!OnceHeld'
  <2> SUFFICES ASSUME NEW m \in Krm!Msgs
               PROVE  /\ partial'[m] # None => cache'[m] # None /\ accepted'[m] = 0
                      /\ accepted'[m] > 0 => accepted'[m] = 1 /\ (cache'[m] # None \/ Krm!Finished(m)')
    BY DEF Krm!OnceHeld, Krm!Waiting
  <2>1. Krm!Finished(m) => Krm!Finished(m)'
    BY <1>1, <1>8, FinishedStays DEF Krm!KramInv, Krm!Unchanged
  <2>2. m \in Krm!Expired => Krm!Finished(m)'
    BY ExpiredIsFinished
  <2> QED BY <1>3, <2>1, <2>2 DEF Krm!KramInv, Krm!OnceHeld, Krm!Waiting
<1> QED BY <1>1, <1>2, <1>5, <1>7, <1>9 DEF Krm!KramInv

-----------------------------------------------------------------------------
(* The theorems                                                            *)

(* The invariant holds at the start.                                       *)
LEMMA InitHeld ==
  ASSUME Krm!OneConfiguration, Krm!Init
  PROVE  Krm!KramInv
<1>1. Krm!Unchanged
  BY DEF Krm!Init, Krm!Unchanged, Krm!OneConfiguration
<1>2. Krm!TablesHeld /\ Krm!RowsHeld /\ Krm!OnceHeld
  BY DEF Krm!Init, Krm!TablesHeld, Krm!RowsHeld, Krm!OnceHeld, Krm!Waiting
<1>3. Krm!ThreadsHeld
  <2>1. \A o \in Krm!Msgs : Krm!Opens(o) => Krm!ThreadOf(o) \in Krm!Threads
    BY DEF Krm!Opens, Krm!Threads, Krm!ThreadOf
  <2> QED BY <2>1 DEF Krm!Init, Krm!ThreadsHeld, Krm!ThreadHeld, Krm!Rows
<1> QED BY <1>1, <1>2, <1>3 DEF Krm!KramInv

(* No step breaks it.                                                      *)
LEMMA NextHeld ==
  ASSUME Krm!OneConfiguration, Krm!KramInv, [Krm!Next]_(Krm!vars)
  PROVE  Krm!KramInv'
<1>1. ASSUME NEW d \in KramDeliveries, Krm!kramit(d)
      PROVE  Krm!KramInv'
  <2>1. Krm!Unchanged' /\ UNCHANGED <<now, est, ksealed>>
    BY <1>1, ReconcileKeeps DEF Krm!kramit, Krm!KramInv
  <2>2. CASE Krm!Fresh(d)
    BY <1>1, <2>1, <2>2, CacheKeeps DEF Krm!kramit
  <2>3. CASE ~Krm!Fresh(d) /\ Krm!Wanted(d)
    BY <1>1, <2>1, <2>3, AccumulateKeeps DEF Krm!kramit
  <2>4. CASE ~Krm!Fresh(d) /\ ~Krm!Wanted(d)
    BY <1>1, <2>1, <2>4, IdleKeeps DEF Krm!kramit, Krm!KramInv, Krm!TablesHeld, Krm!Unchanged
  <2> QED BY <2>2, <2>3, <2>4
<1>2. ASSUME NEW m \in Krm!Msgs, Krm!LearnSeal(m)
      PROVE  Krm!KramInv'
  BY <1>2, IdleKeeps DEF Krm!LearnSeal, Krm!lags, Krm!KramInv, Krm!TablesHeld, Krm!Unchanged
<1>3. CASE Krm!changeConfig
  <2>1. conf < Len(Configs)
    BY <1>3, Zenon DEF Krm!changeConfig
  <2> QED BY <2>1 DEF Krm!KramInv, Krm!Unchanged, Krm!OneConfiguration
<1>4. CASE Krm!Prune
  BY <1>4, PruneKeeps
<1>5. CASE Krm!LearnKeys
  <2>1. est' \in DOMAIN KramKeys
    BY <1>5 DEF Krm!LearnKeys, Krm!KramInv, Krm!TablesHeld
  <2> QED BY <1>5, <2>1, IdleKeeps DEF Krm!LearnKeys, Krm!lags, Krm!KramInv, Krm!Unchanged
<1>6. CASE Krm!Tick
  <2>1. now' \in Int /\ now <= now' /\ Start <= now'
    BY <1>6 DEF Krm!Tick, Krm!KramInv, Krm!Unchanged, Krm!OneConfiguration
  <2> QED BY <1>6, <2>1, IdleKeeps DEF Krm!Tick, Krm!lags, Krm!KramInv, Krm!TablesHeld, Krm!Unchanged
<1>7. CASE Krm!Restart
  <2>1. ctyp' = Configs[1] /\ DOMAIN pending' = {}
    BY <1>7 DEF Krm!Restart, Krm!KramInv, Krm!Unchanged, Krm!OneConfiguration
  <2> QED BY <1>7, <2>1, IdleKeeps DEF Krm!Restart, Krm!KramInv, Krm!TablesHeld, Krm!Unchanged
<1>8. CASE UNCHANGED Krm!vars
  BY <1>8, IdleKeeps DEF Krm!vars, Krm!lags, Krm!KramInv, Krm!TablesHeld, Krm!Unchanged
<1> QED BY <1>1, <1>2, <1>3, <1>4, <1>5, <1>6, <1>7, <1>8 DEF Krm!Next

(* The inductive invariant, for any configuration the code takes and any   *)
(* messages that meet the conditions on how they are authenticated, dated  *)
(* and opened.                                                             *)
THEOREM KramInvariant ==
  ASSUME Krm!OneConfiguration
  PROVE  Krm!Spec => []Krm!KramInv
<1> QED BY InitHeld, NextHeld, PTL DEF Krm!Spec

(* While the configuration stays, a message is handed on at most once,     *)
(* however often, in what pieces and how late it is delivered (kramit).    *)
THEOREM HandedOnOnce ==
  ASSUME Krm!OneConfiguration
  PROVE  Krm!Spec => []Krm!AcceptedOnce
<1>1. Krm!KramInv => Krm!AcceptedOnce
  BY DEF Krm!KramInv, Krm!OnceHeld, Krm!TablesHeld, Krm!AcceptedOnce
<1> QED BY <1>1, KramInvariant, PTL

(* The pieces of a message that is handed on were signed by keys of the    *)
(* event in force then: pieces by older keys are forgotten                 *)
(* (_accumulatePartial).                                                   *)
THEOREM PiecesAreOfOneEvent ==
  ASSUME Krm!OneConfiguration
  PROVE  Krm!Spec => Krm!PiecesOfOneEvent
<1>1. ASSUME Krm!KramInv, Krm!Next
      PROVE  Krm!PiecesAgree
  <2> SUFFICES ASSUME NEW m \in Krm!Msgs, accepted'[m] > accepted[m], partial[m] # None
               PROVE  partial[m].est = est
    BY DEF Krm!PiecesAgree, Krm!HandedOn
  <2>1. accepted' # accepted
    BY <1>1 DEF Krm!KramInv, Krm!TablesHeld
  <2>2. PICK d \in KramDeliveries : Krm!kramit(d)
    <3>1. ~Krm!changeConfig
      BY <2>1, Zenon DEF Krm!changeConfig, Krm!cached
    <3> QED BY <1>1, <2>1, <3>1 DEF Krm!Next, Krm!Prune, Krm!LearnKeys, Krm!LearnSeal, Krm!Tick, Krm!Restart,
        Krm!cached
  <2>3. CASE Krm!Fresh(d)
    <3>1. d.msg \in Krm!Msgs /\ partial[d.msg] = None
      BY <1>1, <2>3, FreshInTime
    <3>2. accepted' = [accepted EXCEPT ![d.msg] = @ + 1] \/ accepted' = accepted
      BY <2>2, <2>3 DEF Krm!kramit, Krm!CacheNew, Krm!HandOn
    <3>3. m = d.msg
      BY <2>1, <3>1, <3>2, <1>1 DEF Krm!KramInv, Krm!TablesHeld
    <3> QED BY <3>1, <3>3
  <2>4. CASE ~Krm!Fresh(d)
    <3>1. Krm!Wanted(d) /\ Krm!Accumulate(d)
      BY <2>1, <2>2, <2>4 DEF Krm!kramit, Krm!cached
    <3>2. partial[d.msg].est = est /\ accepted' = [accepted EXCEPT ![d.msg] = @ + 1]
      BY <2>1, <3>1 DEF Krm!Accumulate, Krm!cached, Krm!Pool, Krm!HandOn
    <3>3. m = d.msg
      BY <3>2, <1>1 DEF Krm!KramInv, Krm!TablesHeld
    <3> QED BY <3>2, <3>3
  <2> QED BY <2>3, <2>4
<1>2. UNCHANGED Krm!vars /\ Krm!KramInv => Krm!PiecesAgree
  BY DEF Krm!PiecesAgree, Krm!HandedOn, Krm!vars, Krm!cached, Krm!KramInv, Krm!TablesHeld
<1> QED BY <1>1, <1>2, KramInvariant, PTL DEF Krm!Spec, Krm!PiecesOfOneEvent

-----------------------------------------------------------------------------
(* Replies, of data and variables of its own.                              *)
CONSTANTS ReplyData, ReplyKeys, ReplyThreshold, ReplyDeliveries
VARIABLES rkel, held, tsgs, rpes, latest, since, rstale

Rep == INSTANCE Replies WITH KeysAt <- ReplyKeys, Threshold <- ReplyThreshold,
         Deliveries <- ReplyDeliveries, kel <- rkel, stale <- rstale

(* The sizes of sets, seen from the instance.                              *)
LEMMA ReplyOperators ==
  /\ \A S : Rep!Cardinality(S) = Cardinality(S)
  /\ \A S : Rep!IsFiniteSet(S) <=> IsFiniteSet(S)
  BY DEF Rep!Cardinality, Cardinality, Rep!IsFiniteSet, IsFiniteSet

(* What the tables can be while a reply is judged.                         *)
Waitable == {r \in Rep!Replies : ReplyData[r].trans}
TableType ==
  [held : SUBSET Rep!Replies, tsgs : [Rep!Replies -> [Rep!Sns -> SUBSET Rep!Signatures]],
   rpes : SUBSET Waitable, ok : Int, raised : BOOLEAN]
Consistent(t) ==
  t \in TableType /\ \A q \in Rep!Replies : Rep!SignedAt(t.tsgs, q) # {} => q \in t.held
(* What concerns other replies stays, and no signature of r goes.          *)
Others(s, t, r) ==
  \A q \in Rep!Replies : q # r => t.tsgs[q] = s.tsgs[q] /\ (q \in t.held <=> q \in s.held)
Keeps(s, t, r) == \A m \in Rep!Sns : s.tsgs[r][m] \subseteq t.tsgs[r][m]

(* The sequence numbers of the signer's events.                            *)
LEMMA SnsNat ==
  ASSUME Rep!RepliesAssumption
  PROVE  /\ Rep!Cardinality(Rep!Sns) \in Nat /\ Rep!Sns = 0..Rep!Cardinality(Rep!Sns) - 1
         /\ \A n \in Rep!Sns : n \in Nat /\ n \in Int
<1>1. Rep!Cardinality(Rep!Sns) \in Nat /\ Rep!Sns = 0..Rep!Cardinality(Rep!Sns) - 1
  BY FS_CardinalityType, ReplyOperators DEF Rep!RepliesAssumption
<1> HIDE DEF Rep!Sns
<1>2. \A n \in 0..Rep!Cardinality(Rep!Sns) - 1 : n \in Nat /\ n \in Int
  BY <1>1
<1> QED
  BY <1>1, <1>2

(* How many events are known is a number.                                  *)
LEMMA KnownNat ==
  ASSUME Rep!RepliesAssumption, Rep!TypeOK
  PROVE  rkel \in Nat
<1>1. Rep!Cardinality(Rep!Sns) \in Nat
  BY SnsNat
<1>2. rkel \in 0..Rep!Cardinality(Rep!Sns)
  BY DEF Rep!TypeOK
<1> QED
  BY <1>1, <1>2

(* A reply that goes takes its signatures with it.                         *)
LEMMA RemoveFacts ==
  ASSUME NEW s, Consistent(s), NEW r \in Rep!Replies
  PROVE  LET t == Rep!removeReply(s, r) IN
         /\ r # None => /\ t \in TableType /\ t.held = s.held \ {r} /\ Rep!SignedAt(t.tsgs, r) = {}
                        /\ Others(s, t, r) /\ t.rpes = s.rpes /\ t.ok = s.ok /\ t.raised = s.raised
                        /\ Consistent(t)
         /\ r = None => t = s
<1> SUFFICES ASSUME r # None
             PROVE  LET t == Rep!removeReply(s, r) IN
                    /\ t \in TableType /\ t.held = s.held \ {r} /\ Rep!SignedAt(t.tsgs, r) = {}
                    /\ Others(s, t, r) /\ t.rpes = s.rpes /\ t.ok = s.ok /\ t.raised = s.raised
                    /\ Consistent(t)
  BY DEF Rep!removeReply
<1> DEFINE t == Rep!removeReply(s, r)
           blank == [n \in Rep!Sns |-> {}]
<1>1. t = [s EXCEPT !.held = @ \ {r}, !.tsgs[r] = blank]
  BY DEF Rep!removeReply
<1>2. /\ s \in TableType /\ s.held \subseteq Rep!Replies
      /\ s.tsgs \in [Rep!Replies -> [Rep!Sns -> SUBSET Rep!Signatures]]
      /\ DOMAIN s = {"held", "tsgs", "rpes", "ok", "raised"}
  BY DEF Consistent, TableType
<1>3. /\ t.held = s.held \ {r} /\ t.tsgs = [s.tsgs EXCEPT ![r] = blank]
      /\ t.rpes = s.rpes /\ t.ok = s.ok /\ t.raised = s.raised
  BY <1>1, <1>2
<1>4. t = [held |-> t.held, tsgs |-> t.tsgs, rpes |-> t.rpes, ok |-> t.ok, raised |-> t.raised]
  BY <1>1, <1>2 DEF TableType
<1>5. /\ blank \in [Rep!Sns -> SUBSET Rep!Signatures]
      /\ t.tsgs \in [Rep!Replies -> [Rep!Sns -> SUBSET Rep!Signatures]]
  BY <1>2, <1>3
<1> HIDE DEF blank, t
<1>6. t \in TableType
  BY <1>2, <1>3, <1>4, <1>5 DEF TableType
<1>7. Rep!SignedAt(t.tsgs, r) = {}
  BY <1>2, <1>3 DEF Rep!SignedAt, blank
<1>8. Others(s, t, r)
  BY <1>2, <1>3 DEF Others
<1>9. Consistent(t)
  BY <1>3, <1>6, <1>7, <1>8 DEF Consistent, Others, Rep!SignedAt
<1> QED
  BY <1>3, <1>6, <1>7, <1>8, <1>9 DEF t

(* Signatures of a reply are added, and it is held.                        *)
LEMMA UpdateFacts ==
  ASSUME NEW s, Consistent(s), NEW r \in Rep!Replies, NEW n \in Rep!Sns, NEW sigs \in SUBSET Rep!Signatures
  PROVE  LET t == Rep!updateReply(s, r, n, sigs) IN
         /\ Consistent(t) /\ t.held = s.held \cup {r} /\ Others(s, t, r) /\ Keeps(s, t, r)
         /\ sigs \subseteq t.tsgs[r][n] /\ t.rpes = s.rpes /\ t.ok = s.ok /\ t.raised = s.raised
<1> DEFINE t == Rep!updateReply(s, r, n, sigs)
<1>1. t = [s EXCEPT !.held = @ \cup {r}, !.tsgs[r][n] = @ \cup sigs]
  BY DEF Rep!updateReply
<1>2. /\ s \in TableType /\ s.held \subseteq Rep!Replies
      /\ s.tsgs \in [Rep!Replies -> [Rep!Sns -> SUBSET Rep!Signatures]]
      /\ DOMAIN s = {"held", "tsgs", "rpes", "ok", "raised"}
  BY DEF Consistent, TableType
<1>3. /\ t.held = s.held \cup {r} /\ t.tsgs = [s.tsgs EXCEPT ![r][n] = @ \cup sigs]
      /\ t.rpes = s.rpes /\ t.ok = s.ok /\ t.raised = s.raised
  BY <1>1, <1>2
<1>4. t = [held |-> t.held, tsgs |-> t.tsgs, rpes |-> t.rpes, ok |-> t.ok, raised |-> t.raised]
  BY <1>1, <1>2 DEF TableType
<1>5. /\ t.tsgs \in [Rep!Replies -> [Rep!Sns -> SUBSET Rep!Signatures]]
      /\ t.tsgs[r][n] = s.tsgs[r][n] \cup sigs
      /\ \A m \in Rep!Sns : m # n => t.tsgs[r][m] = s.tsgs[r][m]
      /\ \A q \in Rep!Replies : q # r => t.tsgs[q] = s.tsgs[q]
  BY <1>2, <1>3
<1> HIDE DEF t
<1>6. t \in TableType
  BY <1>2, <1>3, <1>4, <1>5 DEF TableType
<1>7. Others(s, t, r) /\ Keeps(s, t, r)
  BY <1>3, <1>5 DEF Others, Keeps
<1>8. Consistent(t)
  BY <1>3, <1>6, <1>7 DEF Consistent, Others, Rep!SignedAt
<1> QED
  BY <1>3, <1>5, <1>7, <1>8 DEF t

(* A reply that waits keeps what came of it before.                        *)
LEMMA EscrowFacts ==
  ASSUME NEW s, Consistent(s), NEW r \in Waitable, NEW n \in Rep!Sns, NEW sigs \in SUBSET Rep!Signatures
  PROVE  LET t == Rep!escrowReply(s, r, n, sigs) IN
         /\ Consistent(t) /\ Others(s, t, r) /\ Keeps(s, t, r) /\ t.ok = s.ok /\ t.raised = s.raised
<1> DEFINE t == Rep!escrowReply(s, r, n, sigs)
           u == Rep!updateReply(s, r, n, sigs)
<1>1. r \in Rep!Replies
  BY DEF Waitable
<1>2. CASE sigs = {}
  BY <1>2 DEF Rep!escrowReply, Others, Keeps
<1>3. CASE sigs # {}
  <2>1. Consistent(u) /\ Others(s, u, r) /\ Keeps(s, u, r) /\ u.ok = s.ok /\ u.raised = s.raised
    BY <1>1, UpdateFacts
  <2>2. t = [u EXCEPT !.rpes = @ \cup {r}]
    BY <1>3 DEF Rep!escrowReply
  <2> HIDE DEF u, t
  <2>3. t \in TableType /\ t.held = u.held /\ t.tsgs = u.tsgs /\ t.ok = u.ok /\ t.raised = u.raised
    BY <2>1, <2>2 DEF Consistent, TableType
  <2> QED
    BY <2>1, <2>3 DEF Consistent, Others, Keeps, t
<1> QED
  BY <1>2, <1>3

(* One judgement: the reply is accepted with keys that are known, after    *)
(* the one before, which goes; or nothing but its own signatures changes.  *)
Approved(s, t, r, n, old) ==
  /\ t.ok = n /\ n < rkel /\ Rep!Cardinality(Rep!Verified(r, n, t.tsgs[r][n])) >= ReplyThreshold
  /\ Rep!Later(s, r, n, old)
(* What acceptReply does to the tables.                                    *)
LEMMA AcceptFacts ==
  ASSUME Rep!RepliesAssumption, rkel \in Nat,
         NEW s, Consistent(s), NEW r \in Waitable, NEW n \in Rep!Sns, NEW sigs \in SUBSET Rep!Signatures,
         NEW old \in Rep!Replies \cup {None}
  PROVE  LET t == Rep!acceptReply(s, r, n, sigs, old) IN
         /\ Consistent(t)
         /\ s.raised => t.raised
         /\ old # r => \/ t.raised
                       \/ Keeps(s, t, r) /\ Approved(s, t, r, n, old)
                       \/ Keeps(s, t, r) /\ t.ok = s.ok /\ Others(s, t, r)
<1> DEFINE t == Rep!acceptReply(s, r, n, sigs, old)
           good == Rep!Verified(r, n, sigs \cup s.tsgs[r][n])
           u == Rep!updateReply(s, r, n, good)
           v == Rep!removeReply(u, old)
<1>0. /\ r \in Rep!Replies /\ s.tsgs[r][n] \in SUBSET Rep!Signatures
      /\ good \in SUBSET Rep!Signatures /\ None \notin Rep!Replies
  BY DEF Waitable, Consistent, TableType, Rep!Verified, Rep!RepliesAssumption
<1>1. CASE s.raised \/ ~Rep!Later(s, r, n, old)
  BY <1>1 DEF Rep!acceptReply, Others, Keeps
<1>2. CASE ~s.raised /\ Rep!Later(s, r, n, old) /\ n >= rkel
  <2>1. t = Rep!escrowReply(s, r, n, sigs)
    BY <1>2 DEF Rep!acceptReply
  <2> HIDE DEF t
  <2> QED
    BY <1>2, <2>1, EscrowFacts DEF t
<1>3. CASE ~s.raised /\ Rep!Later(s, r, n, old) /\ ~(n >= rkel) /\ Rep!Cardinality(good) < ReplyThreshold
  <2>1. t = Rep!escrowReply(s, r, n, good)
    BY <1>3 DEF Rep!acceptReply
  <2> HIDE DEF t, good
  <2> QED
    BY <1>0, <1>3, <2>1, EscrowFacts DEF t
<1>4. CASE ~s.raised /\ Rep!Later(s, r, n, old) /\ ~(n >= rkel) /\ ~(Rep!Cardinality(good) < ReplyThreshold)
  <2>1. t = IF \E m \in Rep!SignedAt(v.tsgs, r) : m < n THEN [v EXCEPT !.raised = TRUE] ELSE [v EXCEPT !.ok = n]
    BY <1>4 DEF Rep!acceptReply
  <2>2. /\ Consistent(u) /\ Keeps(s, u, r) /\ good \subseteq u.tsgs[r][n]
    BY <1>0, UpdateFacts
  <2> HIDE DEF t, u, v, good
  <2>3. Consistent(v) /\ (old # r => v.tsgs[r] = u.tsgs[r])
    <3>1. CASE old = None
      BY <2>2, <3>1 DEF v, Rep!removeReply
    <3>2. CASE old # None
      <4>1. Consistent(v) /\ Others(u, v, old)
        BY <2>2, <3>2, RemoveFacts DEF v
      <4> QED
        BY <1>0, <4>1 DEF Others
    <3> QED
      BY <3>1, <3>2
  <2>4. n \in Int
    BY SnsNat
  <2>5. /\ t \in TableType /\ t.held = v.held /\ t.tsgs = v.tsgs
        /\ t.raised \/ t.ok = n
    BY <2>1, <2>3, <2>4 DEF Consistent, TableType
  <2>6. Consistent(t)
    BY <2>3, <2>5 DEF Consistent
  <2>7. ASSUME old # r, ~t.raised
        PROVE  Keeps(s, t, r) /\ Approved(s, t, r, n, old)
    <3>1. Keeps(s, t, r)
      BY <2>2, <2>3, <2>5, <2>7 DEF Keeps
    <3>2. good \subseteq Rep!Verified(r, n, t.tsgs[r][n])
      BY <2>2, <2>3, <2>5, <2>7 DEF good, Rep!Verified
    <3>3. Rep!IsFiniteSet(Rep!Verified(r, n, t.tsgs[r][n]))
      BY FS_Subset, ReplyOperators DEF Rep!Verified, Rep!RepliesAssumption
    <3>4. /\ Rep!Cardinality(good) <= Rep!Cardinality(Rep!Verified(r, n, t.tsgs[r][n]))
          /\ Rep!Cardinality(good) \in Nat
          /\ Rep!Cardinality(Rep!Verified(r, n, t.tsgs[r][n])) \in Nat
      BY <3>2, <3>3, FS_Subset, FS_CardinalityType, ReplyOperators
    <3>5. ReplyThreshold \in Nat /\ n \in Int
      BY <2>4 DEF Rep!RepliesAssumption
    <3> QED
      BY <1>4, <2>5, <2>7, <3>1, <3>4, <3>5 DEF Approved
  <2> QED
    BY <1>4, <2>6, <2>7 DEF t
<1> QED
  BY <1>1, <1>2, <1>3, <1>4

(* The tables as they are.                                                 *)
LEMMA TablesConsistent ==
  ASSUME Rep!TypeOK 
  PROVE  Consistent(Rep!Tables) /\ Rep!Tables.tsgs = tsgs /\ Rep!Tables.held = held /\ Rep!Tables.rpes = rpes
  BY DEF Rep!TypeOK, Consistent, TableType, Rep!Tables, Waitable

(* A reply under the same key is compared unless it is the reply itself.   *)
LEMMA OldFacts ==
  ASSUME Rep!TypeOK, NEW r \in Rep!Replies
  PROVE  /\ Rep!Old(r) \in Rep!Replies \cup {None} /\ latest[Rep!Key(r)] \in Rep!Replies \cup {None}
         /\ latest[Rep!Key(r)] # r => Rep!Old(r) = latest[Rep!Key(r)]
  BY DEF Rep!TypeOK, Rep!Old, Rep!Keys

(* That the reply before was accepted with keys c and before r.            *)
Follows(r, n) ==
  LET old == latest[Rep!Key(r)] IN
  \A c \in Nat : old # None /\ old \in held /\ Rep!SignedAt(tsgs, old) = {c} =>
    n > c \/ (n = c /\ Rep!Date(r) > Rep!Date(old))
(* What is later by the stored signatures follows what they say.           *)
LEMMA LaterFollows ==
  ASSUME Rep!RepliesAssumption, Rep!TypeOK, NEW r \in Rep!Replies, NEW n,
         Rep!Later(Rep!Tables, r, n, latest[Rep!Key(r)])
  PROVE  Follows(r, n)
<1> SUFFICES ASSUME NEW c \in Nat, latest[Rep!Key(r)] \in held, Rep!SignedAt(tsgs, latest[Rep!Key(r)]) = {c},
                    latest[Rep!Key(r)] # None
             PROVE  n > c \/ (n = c /\ Rep!Date(r) > Rep!Date(latest[Rep!Key(r)]))
  BY DEF Follows
<1>1. Rep!Min({c}) = c
  BY DEF Rep!Min
<1> QED
  BY <1>1 DEF Rep!Later, Rep!Tables

(* The groups of signatures of an escrowed reply, judged in order.         *)
JudgedReply(r, n, s) ==
  /\ Consistent(s)
  /\ latest[Rep!Key(r)] # r =>
       \/ s.raised
       \/ /\ Keeps(Rep!Tables, s, r)
          /\ \/ s.ok = -1 /\ Others(Rep!Tables, s, r)
             \/ /\ s.ok \in 0..n - 1 /\ s.ok < rkel /\ Follows(r, s.ok)
                /\ Rep!Cardinality(Rep!Verified(r, s.ok, s.tsgs[r][s.ok])) >= ReplyThreshold
(* The next group of signatures is judged like the ones before it.         *)
LEMMA JudgedNext ==
  ASSUME Rep!RepliesAssumption, Rep!TypeOK, NEW r \in Waitable, NEW n \in Rep!Sns, NEW s, JudgedReply(r, n, s)
  PROVE  JudgedReply(r, n + 1, Rep!acceptReply(s, r, n, tsgs[r][n], Rep!Old(r)))
<1> DEFINE t == Rep!acceptReply(s, r, n, tsgs[r][n], Rep!Old(r))
<1>0. /\ r \in Rep!Replies /\ tsgs[r][n] \in SUBSET Rep!Signatures /\ rkel \in Nat /\ n \in Nat
      /\ Rep!Old(r) \in Rep!Replies \cup {None}
  <2>1. r \in Rep!Replies /\ n \in Nat
    BY SnsNat DEF Waitable
  <2>2. tsgs[r][n] \in SUBSET Rep!Signatures /\ rkel \in Nat
    BY <2>1, KnownNat DEF Rep!TypeOK
  <2> QED
    BY <2>1, <2>2, OldFacts
<1>1. /\ Consistent(t)
      /\ s.raised => t.raised
      /\ Rep!Old(r) # r => \/ t.raised
                           \/ Keeps(s, t, r) /\ Approved(s, t, r, n, Rep!Old(r))
                           \/ Keeps(s, t, r) /\ t.ok = s.ok /\ Others(s, t, r)
  BY <1>0, AcceptFacts DEF JudgedReply
<1> HIDE DEF t
<1> SUFFICES ASSUME latest[Rep!Key(r)] # r, ~t.raised
             PROVE  /\ Keeps(Rep!Tables, t, r)
                    /\ \/ t.ok = -1 /\ Others(Rep!Tables, t, r)
                       \/ /\ t.ok \in 0..n /\ t.ok < rkel /\ Follows(r, t.ok)
                          /\ Rep!Cardinality(Rep!Verified(r, t.ok, t.tsgs[r][t.ok])) >= ReplyThreshold
  BY <1>0, <1>1 DEF JudgedReply, t
<1>2. Rep!Old(r) = latest[Rep!Key(r)] /\ Rep!Old(r) # r
  BY <1>0, OldFacts
<1>3. /\ Keeps(Rep!Tables, s, r) /\ Keeps(s, t, r)
      /\ \/ s.ok = -1 /\ Others(Rep!Tables, s, r)
         \/ /\ s.ok \in 0..n - 1 /\ s.ok < rkel /\ Follows(r, s.ok)
            /\ Rep!Cardinality(Rep!Verified(r, s.ok, s.tsgs[r][s.ok])) >= ReplyThreshold
  BY <1>1, <1>2 DEF JudgedReply
<1>4. Keeps(Rep!Tables, t, r)
  BY <1>3 DEF Keeps
<1>5. CASE Approved(s, t, r, n, Rep!Old(r))
  <2>1. /\ t.ok = n /\ n < rkel /\ Rep!Cardinality(Rep!Verified(r, n, t.tsgs[r][n])) >= ReplyThreshold
        /\ Rep!Later(s, r, n, latest[Rep!Key(r)])
    BY <1>2, <1>5 DEF Approved
  <2>2. Follows(r, n)
    <3>1. CASE s.ok = -1 /\ Others(Rep!Tables, s, r)
      <4>1. latest[Rep!Key(r)] # None => latest[Rep!Key(r)] \in Rep!Replies
        BY <1>0, OldFacts
      <4>2. Rep!Later(Rep!Tables, r, n, latest[Rep!Key(r)])
        <5>1. CASE latest[Rep!Key(r)] = None
          BY <5>1 DEF Rep!Later
        <5>2. CASE latest[Rep!Key(r)] # None
          <6>1. /\ Rep!SignedAt(s.tsgs, latest[Rep!Key(r)]) = Rep!SignedAt(Rep!Tables.tsgs, latest[Rep!Key(r)])
                /\ latest[Rep!Key(r)] \in s.held <=> latest[Rep!Key(r)] \in Rep!Tables.held
            BY <1>2, <3>1, <4>1, <5>2 DEF Others, Rep!SignedAt
          <6> QED
            BY <2>1, <6>1 DEF Rep!Later
        <5> QED
          BY <5>1, <5>2
      <4> QED
        BY <1>0, <4>2, LaterFollows
    <3>2. CASE s.ok \in 0..n - 1 /\ Follows(r, s.ok)
      BY <1>0, <3>2 DEF Follows
    <3> QED
      BY <1>3, <3>1, <3>2
  <2> QED
    BY <1>0, <1>4, <2>1, <2>2
<1>6. CASE t.ok = s.ok /\ Others(s, t, r)
  <2>1. CASE s.ok = -1 /\ Others(Rep!Tables, s, r)
    BY <1>4, <1>6, <2>1 DEF Others
  <2>2. CASE /\ s.ok \in 0..n - 1 /\ s.ok < rkel /\ Follows(r, s.ok)
             /\ Rep!Cardinality(Rep!Verified(r, s.ok, s.tsgs[r][s.ok])) >= ReplyThreshold
    <3>1. s.ok \in Rep!Sns /\ s.ok \in 0..n
      <4>1. n \in 0..Rep!Cardinality(Rep!Sns) - 1 /\ Rep!Cardinality(Rep!Sns) \in Nat
        BY SnsNat
      <4>2. s.ok \in 0..n /\ s.ok \in 0..Rep!Cardinality(Rep!Sns) - 1
        BY <1>0, <2>2, <4>1
      <4> QED
        BY <4>2, SnsNat
    <3>2. Rep!Verified(r, s.ok, s.tsgs[r][s.ok]) \subseteq Rep!Verified(r, s.ok, t.tsgs[r][s.ok])
      BY <1>3, <3>1 DEF Keeps, Rep!Verified
    <3>3. Rep!IsFiniteSet(Rep!Verified(r, s.ok, t.tsgs[r][s.ok]))
      BY <3>1, FS_Subset, ReplyOperators DEF Rep!Verified, Rep!RepliesAssumption
    <3>4. /\ Rep!Cardinality(Rep!Verified(r, s.ok, s.tsgs[r][s.ok]))
               <= Rep!Cardinality(Rep!Verified(r, s.ok, t.tsgs[r][s.ok]))
          /\ Rep!Cardinality(Rep!Verified(r, s.ok, s.tsgs[r][s.ok])) \in Nat
          /\ Rep!Cardinality(Rep!Verified(r, s.ok, t.tsgs[r][s.ok])) \in Nat
      BY <3>2, <3>3, FS_Subset, FS_CardinalityType, ReplyOperators
    <3>5. ReplyThreshold \in Nat
      BY DEF Rep!RepliesAssumption
    <3> QED
      BY <1>4, <1>6, <2>2, <3>1, <3>4, <3>5
  <2> QED
    BY <1>3, <2>1, <2>2
<1> QED
  BY <1>1, <1>2, <1>5, <1>6

(* The function that judges the groups in order is defined.                *)
LEMMA RetriedJudged ==
  ASSUME Rep!RepliesAssumption, Rep!TypeOK, NEW r \in Waitable
  PROVE  JudgedReply(r, Rep!Cardinality(Rep!Sns), Rep!Retried(r))
<1> DEFINE N == Rep!Cardinality(Rep!Sns)
           E(f, n) == IF n = 0 THEN Rep!Tables
                      ELSE IF n - 1 \notin Rep!SignedAt(tsgs, r) THEN f[n - 1]
                      ELSE Rep!acceptReply(f[n - 1], r, n - 1, tsgs[r][n - 1], Rep!Old(r))
           Is(f, m) == f = [n \in 0..m |-> E(f, n)]
           Bad == {m \in 0..N : ~ \E f : Is(f, m)}
<1>1. N \in Nat /\ Rep!Sns = 0..N - 1
  BY FS_CardinalityType, ReplyOperators DEF Rep!RepliesAssumption
<1>2. Bad = {}
  <2> SUFFICES ASSUME Bad # {} PROVE FALSE
    OBVIOUS
  <2>1. PICK m \in Bad : \A k \in Bad : m <= k
    <3>1. Bad \in SUBSET Nat
      BY <1>1
    <3> HIDE DEF Bad
    <3> QED
      BY <3>1, LeastExists
  <2>2. m \in 0..N /\ ~ \E f : Is(f, m)
    OBVIOUS
  <2>3. CASE m = 0
    <3>1. Is([n \in 0..0 |-> Rep!Tables], 0)
      OBVIOUS
    <3> QED
      BY <2>2, <2>3, <3>1
  <2>4. CASE m # 0
    <3>1. m - 1 \in 0..N /\ m - 1 \notin Bad /\ m \in Nat
      BY <1>1, <2>1, <2>2, <2>4
    <3>2. PICK g : Is(g, m - 1)
      BY <3>1
    <3> DEFINE f == [n \in 0..m |-> IF n < m THEN g[n] ELSE E(g, m)]
    <3>3. \A n \in 0..m : n # 0 => f[n - 1] = g[n - 1]
      BY <3>1
    <3>4. \A n \in 0..m - 1 : g[n] = E(g, n)
      <4> HIDE DEF E
      <4> QED
        BY <3>2
    <3> HIDE DEF f
    <3>5. \A n \in 0..m : E(f, n) = E(g, n)
      BY <3>1, <3>3
    <3>6. \A n \in 0..m : f[n] = E(f, n)
      <4> HIDE DEF E
      <4>1. \A n \in 0..m : f[n] = IF n < m THEN g[n] ELSE E(g, m)
        BY DEF f
      <4> QED
        BY <3>1, <3>4, <3>5, <4>1
    <3>7. Is(f, m)
      <4> HIDE DEF E
      <4>1. f = [n \in 0..m |-> f[n]]
        BY DEF f
      <4> QED
        BY <3>6, <4>1
    <3> QED
      BY <2>2, <3>7
  <2> QED
    BY <2>3, <2>4
<1>3. PICK f : f = (CHOOSE g : Is(g, N))
  OBVIOUS
<1>4. Is(f, N)
  <2>1. \E g : Is(g, N)
    BY <1>1, <1>2
  <2> HIDE DEF Is
  <2> QED
    BY <1>3, <2>1
<1>5. Rep!Retried(r) = f[N]
  BY <1>3 DEF Rep!Retried
<1> DEFINE Unlike == {m \in 0..N : ~JudgedReply(r, m, f[m])}
<1>6. \A n \in 0..N : f[n] = E(f, n)
  <2> HIDE DEF E
  <2> QED
    BY <1>4
<1>7. Unlike = {}
  <2> SUFFICES ASSUME Unlike # {} PROVE FALSE
    OBVIOUS
  <2>1. PICK m \in Unlike : \A k \in Unlike : m <= k
    <3>1. Unlike \in SUBSET Nat
      BY <1>1
    <3> HIDE DEF Unlike
    <3> QED
      BY <3>1, LeastExists
  <2>2. m \in 0..N /\ ~JudgedReply(r, m, f[m])
    OBVIOUS
  <2>3. CASE m = 0
    <3>1. f[0] = Rep!Tables
      BY <1>1, <1>6
    <3>2. Rep!Tables.ok = -1
      BY DEF Rep!Tables
    <3> QED
      BY <2>2, <2>3, <3>1, <3>2, TablesConsistent DEF JudgedReply, Keeps, Others
  <2>4. CASE m # 0
    <3>1. m - 1 \in 0..N /\ m - 1 \notin Unlike /\ m \in Nat /\ m - 1 \in Rep!Sns
      BY <1>1, <2>1, <2>2, <2>4
    <3>2. JudgedReply(r, m - 1, f[m - 1]) /\ m - 1 + 1 = m
      BY <3>1
    <3>3. CASE m - 1 \in Rep!SignedAt(tsgs, r)
      <4>1. f[m] = Rep!acceptReply(f[m - 1], r, m - 1, tsgs[r][m - 1], Rep!Old(r))
        BY <1>6, <2>2, <2>4, <3>3
      <4>2. JudgedReply(r, m - 1 + 1, f[m])
        BY <3>1, <3>2, <4>1, JudgedNext
      <4> QED
        BY <2>2, <3>2, <4>2
    <3>4. CASE m - 1 \notin Rep!SignedAt(tsgs, r)
      <4>1. f[m] = f[m - 1]
        BY <1>6, <2>2, <2>4, <3>4
      <4>2. 0..(m - 1) - 1 \subseteq 0..m - 1
        BY <3>1
      <4> QED
        BY <2>2, <3>2, <4>1, <4>2 DEF JudgedReply
    <3> QED
      BY <3>3, <3>4
  <2> QED
    BY <2>3, <2>4
<1>8. JudgedReply(r, N, f[N])
  BY <1>1, <1>7
<1> QED
  BY <1>5, <1>8

(* What is recorded of a reply.                                            *)
Recorded(r, s) == s.ok >= 0 /\ ~s.raised
(* What a handler stores and records has the type of the tables.           *)
LEMMA StoreKeeps ==
  ASSUME Rep!RepliesAssumption, Rep!TypeOK, NEW r \in Rep!Replies, NEW s, Consistent(s),
         NEW escrowed \in SUBSET s.rpes, Rep!Store(s, escrowed),
         Rep!Record(r, s) \/ UNCHANGED <<latest, since>>,
         ~ReplyData[r].trans => s.ok \in {-1, 0},
         UNCHANGED <<rkel, rstale>>
  PROVE  Rep!TypeOK'
<1>1. /\ held' \subseteq Rep!Replies /\ rpes' \subseteq Waitable
      /\ tsgs' \in [Rep!Replies -> [Rep!Sns -> SUBSET Rep!Signatures]]
      /\ \A q \in Rep!Replies : Rep!SignedAt(tsgs', q) # {} => q \in held'
      /\ s.ok \in Int
  BY DEF Rep!Store, Consistent, TableType
<1>2. /\ DOMAIN latest' = Rep!Keys /\ since' \in [Rep!Keys -> Nat]
      /\ \A k \in Rep!Keys : latest'[k] \in {None} \cup {q \in Rep!Replies : Rep!Key(q) = k}
      /\ \A k \in Rep!Keys : latest'[k] # None => ReplyData[latest'[k]].trans \/ since'[k] = 0
  <2>1. CASE UNCHANGED <<latest, since>>
    BY <2>1 DEF Rep!TypeOK
  <2>2. CASE /\ s.ok >= 0 /\ latest' = [latest EXCEPT ![Rep!Key(r)] = r]
             /\ since' = [since EXCEPT ![Rep!Key(r)] = s.ok]
    <3>1. Rep!Key(r) \in Rep!Keys /\ s.ok \in Nat
      BY <1>1, <2>2 DEF Rep!Keys
    <3> QED
      BY <2>2, <3>1 DEF Rep!TypeOK
  <2> QED
    BY <2>1, <2>2 DEF Rep!Record
<1> QED
  BY <1>1, <1>2 DEF Rep!TypeOK, Waitable

(* What a step that may record r has to show.                              *)
LEMMA RecordSucceeds ==
  ASSUME Rep!RepliesAssumption, Rep!TypeOK, Rep!TypeOK', NEW r \in Rep!Replies,
         NEW s, Rep!Record(r, s), rkel' = rkel,
         s.ok >= 0 /\ ~s.raised /\ latest[Rep!Key(r)] # r =>
           /\ Rep!AcceptedSigned(r)
           /\ Rep!Replaced(Rep!Key(r)) /\ Rep!Intact(Rep!Key(r)) => Rep!LaterThan(r, s.ok, Rep!Key(r))
  PROVE  Rep!SignsAndSucceeds
<1>1. CASE UNCHANGED <<latest, since>>
  BY <1>1 DEF Rep!SignsAndSucceeds, Rep!Signs, Rep!IntactLater, Rep!Replaced
<1>2. CASE /\ s.ok >= 0 /\ ~s.raised /\ latest' = [latest EXCEPT ![Rep!Key(r)] = r]
           /\ since' = [since EXCEPT ![Rep!Key(r)] = s.ok]
  <2>1. /\ Rep!Key(r) \in Rep!Keys /\ latest'[Rep!Key(r)] = r /\ since'[Rep!Key(r)] = s.ok
        /\ \A k \in Rep!Keys : k # Rep!Key(r) => latest'[k] = latest[k]
    BY <1>2 DEF Rep!TypeOK, Rep!Keys
  <2> QED
    BY <1>2, <2>1 DEF Rep!SignsAndSucceeds, Rep!Signs, Rep!IntactLater, Rep!Replaced
<1> QED
  BY <1>1, <1>2 DEF Rep!Record

(* A message, with signatures of a transferable identifier or not.         *)
LEMMA DeliverKeeps ==
  ASSUME Rep!RepliesAssumption, Rep!TypeOK, NEW m \in ReplyDeliveries, Rep!Deliver(m)
  PROVE  Rep!TypeOK' /\ Rep!SignsAndSucceeds
<1> DEFINE r == m.reply
           s == IF ReplyData[r].trans THEN Rep!acceptReply(Rep!Tables, r, m.sn, m.sigs, Rep!Old(r))
                ELSE Rep!acceptCouple(Rep!Tables, r, Rep!Old(r))
<1>1. r \in Rep!Replies /\ m.sn \in Rep!Sns /\ m.sigs \in SUBSET Rep!Signatures /\ m.sn \in Nat
  <2>1. r \in Rep!Replies /\ m.sn \in Rep!Sns /\ m.sigs \in SUBSET Rep!Signatures
    BY DEF Rep!RepliesAssumption, Rep!Signatures
  <2> QED
    BY <2>1, SnsNat
<1>2. Rep!Store(s, s.rpes) /\ Rep!Record(r, s) /\ UNCHANGED <<rkel, rstale>>
  BY DEF Rep!Deliver
<1>3. /\ Rep!Old(r) \in Rep!Replies \cup {None}
      /\ latest[Rep!Key(r)] # r => Rep!Old(r) = latest[Rep!Key(r)]
      /\ Consistent(Rep!Tables) /\ Rep!Tables.tsgs = tsgs /\ Rep!Tables.held = held
      /\ Rep!Tables.ok = -1 /\ ~Rep!Tables.raised
  BY <1>1, OldFacts, TablesConsistent DEF Rep!Tables
<1>4. CASE ReplyData[r].trans
  <2>1. s = Rep!acceptReply(Rep!Tables, r, m.sn, m.sigs, Rep!Old(r)) /\ r \in Waitable /\ rkel \in Nat
    BY <1>1, <1>4, KnownNat DEF Waitable
  <2> HIDE DEF s, r
  <2>2. /\ Consistent(s)
        /\ Rep!Old(r) # r => \/ s.raised
                             \/ Approved(Rep!Tables, s, r, m.sn, Rep!Old(r))
                             \/ s.ok = -1
    BY <1>1, <1>3, <2>1, AcceptFacts
  <2>3. Rep!TypeOK'
    BY <1>1, <1>2, <1>4, <2>2, StoreKeeps
  <2>4. ASSUME s.ok >= 0, ~s.raised, latest[Rep!Key(r)] # r
        PROVE  /\ Rep!AcceptedSigned(r)
               /\ Rep!Replaced(Rep!Key(r)) /\ Rep!Intact(Rep!Key(r)) => Rep!LaterThan(r, s.ok, Rep!Key(r))
    <3>1. Approved(Rep!Tables, s, r, m.sn, latest[Rep!Key(r)])
      BY <1>3, <2>2, <2>4
    <3>2. /\ s.ok = m.sn /\ m.sn \in 0..rkel - 1
          /\ Rep!Cardinality(Rep!Verified(r, m.sn, tsgs'[r][m.sn])) >= ReplyThreshold
          /\ Rep!Later(Rep!Tables, r, m.sn, latest[Rep!Key(r)])
      BY <1>1, <1>2, <2>1, <3>1 DEF Approved, Rep!Store
    <3>3. Rep!AcceptedSigned(r)
      BY <3>2 DEF Rep!AcceptedSigned, Rep!Enough
    <3>4. Follows(r, s.ok)
      BY <1>1, <3>2, LaterFollows
    <3>5. ASSUME Rep!Replaced(Rep!Key(r)), Rep!Intact(Rep!Key(r)) PROVE Rep!LaterThan(r, s.ok, Rep!Key(r))
      <4>1. /\ Rep!Key(r) \in Rep!Keys /\ latest[Rep!Key(r)] # None /\ latest[Rep!Key(r)] \in Rep!Replies
            /\ Rep!Key(latest[Rep!Key(r)]) = Rep!Key(r) /\ since[Rep!Key(r)] \in Nat
        BY <1>1, <3>5 DEF Rep!Replaced, Rep!TypeOK, Rep!Keys
      <4>2. ReplyData[latest[Rep!Key(r)]].trans
        BY <1>1, <1>4, <4>1 DEF Rep!RepliesAssumption
      <4>3. latest[Rep!Key(r)] \in held /\ Rep!SignedAt(tsgs, latest[Rep!Key(r)]) = {since[Rep!Key(r)]}
        BY <3>5, <4>2 DEF Rep!Intact
      <4> QED
        BY <3>4, <4>1, <4>3 DEF Follows, Rep!LaterThan
    <3> QED
      BY <3>3, <3>5
  <2> QED
    BY <1>1, <1>2, <2>3, <2>4, RecordSucceeds
<1>5. CASE ~ReplyData[r].trans
  <2>1. s = Rep!acceptCouple(Rep!Tables, r, Rep!Old(r))
    BY <1>5
  <2> DEFINE h == [Rep!Tables EXCEPT !.held = @ \cup {r}]
             g == Rep!removeReply(h, Rep!Old(r))
  <2> HIDE DEF s, r
  <2>2. Consistent(h) /\ h.ok = -1
    BY <1>1, <1>3 DEF Consistent, TableType, h, Rep!SignedAt
  <2>3. s = Rep!Tables \/ s = [g EXCEPT !.ok = 0]
    BY <2>1 DEF Rep!acceptCouple, g, h
  <2> HIDE DEF h
  <2>4. Consistent(g) /\ g.raised = h.raised
    <3>1. CASE Rep!Old(r) = None
      BY <2>2, <3>1 DEF Rep!removeReply, g
    <3>2. CASE Rep!Old(r) # None
      BY <1>3, <2>2, <3>2, RemoveFacts DEF g
    <3> QED
      BY <3>1, <3>2
  <2> HIDE DEF g
  <2>5. Consistent(s) /\ s.ok \in {-1, 0}
    <3>1. CASE s = Rep!Tables
      BY <1>3, <3>1
    <3>2. CASE s = [g EXCEPT !.ok = 0]
      <4>1. s \in TableType /\ s.held = g.held /\ s.tsgs = g.tsgs /\ s.ok = 0
        BY <2>4, <3>2 DEF Consistent, TableType
      <4> QED
        BY <2>4, <4>1 DEF Consistent
    <3> QED
      BY <2>3, <3>1, <3>2
  <2>6. Rep!TypeOK'
    BY <1>1, <1>2, <2>5, StoreKeeps
  <2>7. ASSUME s.ok >= 0, ~s.raised, latest[Rep!Key(r)] # r
        PROVE  /\ Rep!AcceptedSigned(r)
               /\ Rep!Replaced(Rep!Key(r)) /\ Rep!Intact(Rep!Key(r)) => Rep!LaterThan(r, s.ok, Rep!Key(r))
    <3>1. s.ok = 0 /\ s # Rep!Tables
      BY <1>3, <2>5, <2>7
    <3>2. ASSUME Rep!Replaced(Rep!Key(r)), Rep!Intact(Rep!Key(r)) PROVE Rep!LaterThan(r, s.ok, Rep!Key(r))
      <4>1. /\ Rep!Key(r) \in Rep!Keys /\ latest[Rep!Key(r)] # None /\ latest[Rep!Key(r)] \in Rep!Replies
            /\ Rep!Key(latest[Rep!Key(r)]) = Rep!Key(r) /\ latest[Rep!Key(r)] \in held
        BY <1>1, <3>2 DEF Rep!Replaced, Rep!TypeOK, Rep!Keys, Rep!Intact
      <4>2. ~ReplyData[latest[Rep!Key(r)]].trans
        BY <1>1, <1>5, <4>1 DEF Rep!RepliesAssumption, r
      <4>3. since[Rep!Key(r)] = 0
        BY <4>1, <4>2 DEF Rep!TypeOK
      <4>4. Rep!Old(r) = latest[Rep!Key(r)]
        BY <1>3, <2>7
      <4>5. ~(Rep!Date(r) <= Rep!Date(latest[Rep!Key(r)]))
        BY <1>3, <2>1, <3>1, <4>1, <4>4 DEF Rep!acceptCouple
      <4>6. Rep!Date(r) \in Int /\ Rep!Date(latest[Rep!Key(r)]) \in Int
        BY <1>1, <4>1 DEF Rep!RepliesAssumption
      <4> QED
        BY <3>1, <4>3, <4>5, <4>6 DEF Rep!LaterThan
    <3> QED
      BY <1>5, <3>2 DEF Rep!AcceptedSigned, r
  <2> QED
    BY <1>1, <1>2, <2>6, <2>7, RecordSucceeds
<1> QED
  BY <1>4, <1>5

(* A pass of the escrow over a reply that waits.                           *)
LEMMA RetryKeeps ==
  ASSUME Rep!RepliesAssumption, Rep!TypeOK, NEW r \in Rep!Replies, Rep!RetryEscrowed(r)
  PROVE  Rep!TypeOK' /\ Rep!SignsAndSucceeds
<1> DEFINE s == Rep!Retried(r)
           fallen == r \in rstale \/ r \notin held \/ Rep!SignedAt(tsgs, r) = {}
<1>1. r \in Waitable /\ rkel \in Nat /\ rkel' = rkel /\ rstale' = rstale
  BY KnownNat DEF Rep!RetryEscrowed, Rep!TypeOK, Waitable
<1>2. JudgedReply(r, Rep!Cardinality(Rep!Sns), s)
  BY <1>1, RetriedJudged
<1>3. r \in Rep!Replies /\ ReplyData[r].trans
  BY <1>1 DEF Waitable
<1>4. \/ /\ \E t \in {Rep!Tables, s} : Rep!Store(Rep!removeReply(t, r), t.rpes \ {r})
         /\ UNCHANGED <<latest, since>>
      \/ /\ ~s.raised /\ Rep!Record(r, s)
         /\ Rep!Store(s, s.rpes \ {r}) \/ Rep!Store(s, s.rpes)
  BY DEF Rep!RetryEscrowed
<1> HIDE DEF s
<1>5. CASE /\ \E t \in {Rep!Tables, s} : Rep!Store(Rep!removeReply(t, r), t.rpes \ {r})
           /\ UNCHANGED <<latest, since>>
  <2>1. PICK t \in {Rep!Tables, s} : Rep!Store(Rep!removeReply(t, r), t.rpes \ {r})
    BY <1>5
  <2>2. Consistent(t)
    BY <1>2, TablesConsistent DEF JudgedReply
  <2>3. r # None
    BY <1>3 DEF Rep!RepliesAssumption
  <2>4. Consistent(Rep!removeReply(t, r)) /\ Rep!removeReply(t, r).rpes = t.rpes
    BY <1>3, <2>2, <2>3, RemoveFacts
  <2>5. Rep!TypeOK'
    BY <1>1, <1>3, <1>5, <2>1, <2>4, StoreKeeps
  <2> QED
    BY <1>5, <2>5 DEF Rep!SignsAndSucceeds, Rep!Signs, Rep!IntactLater, Rep!Replaced
<1>6. CASE ~s.raised /\ Rep!Record(r, s) /\ (Rep!Store(s, s.rpes \ {r}) \/ Rep!Store(s, s.rpes))
  <2>1. Rep!TypeOK'
    BY <1>1, <1>2, <1>3, <1>6, StoreKeeps DEF JudgedReply
  <2>2. ASSUME s.ok >= 0, ~s.raised, latest[Rep!Key(r)] # r
        PROVE  /\ Rep!AcceptedSigned(r)
               /\ Rep!Replaced(Rep!Key(r)) /\ Rep!Intact(Rep!Key(r)) => Rep!LaterThan(r, s.ok, Rep!Key(r))
    <3>1. /\ s.ok \in 0..rkel - 1 /\ Follows(r, s.ok)
          /\ Rep!Cardinality(Rep!Verified(r, s.ok, s.tsgs[r][s.ok])) >= ReplyThreshold
      <4>1. Rep!Cardinality(Rep!Sns) \in Nat
        BY FS_CardinalityType, ReplyOperators DEF Rep!RepliesAssumption
      <4> QED
        BY <1>1, <1>2, <2>2, <4>1 DEF JudgedReply
    <3>2. Rep!AcceptedSigned(r)
      BY <1>1, <1>6, <3>1 DEF Rep!AcceptedSigned, Rep!Enough, Rep!Store
    <3>3. ASSUME Rep!Replaced(Rep!Key(r)), Rep!Intact(Rep!Key(r)) PROVE Rep!LaterThan(r, s.ok, Rep!Key(r))
      <4>1. /\ Rep!Key(r) \in Rep!Keys /\ latest[Rep!Key(r)] # None /\ latest[Rep!Key(r)] \in Rep!Replies
            /\ Rep!Key(latest[Rep!Key(r)]) = Rep!Key(r) /\ since[Rep!Key(r)] \in Nat
        BY <1>3, <3>3 DEF Rep!Replaced, Rep!TypeOK, Rep!Keys
      <4>2. ReplyData[latest[Rep!Key(r)]].trans
        BY <1>3, <4>1 DEF Rep!RepliesAssumption
      <4>3. latest[Rep!Key(r)] \in held /\ Rep!SignedAt(tsgs, latest[Rep!Key(r)]) = {since[Rep!Key(r)]}
        BY <3>3, <4>2 DEF Rep!Intact
      <4> QED
        BY <3>1, <4>1, <4>3 DEF Follows, Rep!LaterThan
    <3> QED
      BY <3>2, <3>3
  <2> QED
    BY <1>1, <1>3, <1>6, <2>1, <2>2, RecordSucceeds
<1> QED
  BY <1>4, <1>5, <1>6

(* No step breaks the types, the signing or the order.                     *)
LEMMA RepliesNext ==
  ASSUME Rep!RepliesAssumption, Rep!TypeOK, [Rep!Next]_(Rep!vars)
  PROVE  Rep!TypeOK' /\ Rep!SignsAndSucceeds
<1>1. CASE Rep!LearnEvent \/ (\E r \in Rep!Replies : Rep!Age(r)) \/ UNCHANGED Rep!vars
  <2>1. UNCHANGED <<held, tsgs, rpes, latest, since>> /\ rstale' \subseteq Rep!Replies
    BY <1>1 DEF Rep!LearnEvent, Rep!Age, Rep!vars, Rep!stored, Rep!TypeOK
  <2>2. rkel' \in 0..Rep!Cardinality(Rep!Sns)
    <3>1. CASE Rep!LearnEvent
      <4>1. rkel \in 0..Rep!Cardinality(Rep!Sns) - 1 /\ rkel' = rkel + 1 /\ Rep!Cardinality(Rep!Sns) \in Nat
        BY <3>1, SnsNat DEF Rep!LearnEvent
      <4> QED
        BY <4>1
    <3>2. CASE rkel' = rkel
      BY <3>2 DEF Rep!TypeOK
    <3> QED
      BY <1>1, <3>1, <3>2 DEF Rep!Age, Rep!vars
  <2> QED
    BY <2>1, <2>2 DEF Rep!TypeOK, Rep!SignsAndSucceeds, Rep!Signs, Rep!IntactLater, Rep!Replaced
<1> QED
  BY <1>1, DeliverKeeps, RetryKeeps DEF Rep!Next

(* Types; a reply that is signed is held.                                  *)
THEOREM RepliesTyped ==
  ASSUME Rep!RepliesAssumption
  PROVE  Rep!Spec => []Rep!TypeOK
<1>1. Rep!Init => Rep!TypeOK
  <2> SUFFICES ASSUME Rep!Init PROVE Rep!TypeOK
    OBVIOUS
  <2>1. /\ tsgs \in [Rep!Replies -> [Rep!Sns -> SUBSET Rep!Signatures]]
        /\ \A r \in Rep!Replies : Rep!SignedAt(tsgs, r) = {}
    BY DEF Rep!Init, Rep!SignedAt
  <2>3. rkel \in 0..Rep!Cardinality(Rep!Sns)
    BY SnsNat DEF Rep!Init
  <2>2. since \in [Rep!Keys -> Nat] /\ DOMAIN latest = Rep!Keys /\ \A k \in Rep!Keys : latest[k] = None
    BY DEF Rep!Init
  <2> QED
    BY <2>1, <2>2, <2>3 DEF Rep!Init, Rep!TypeOK
<1>2. Rep!TypeOK /\ [Rep!Next]_(Rep!vars) => Rep!TypeOK'
  BY RepliesNext
<1> QED
  BY <1>1, <1>2, PTL DEF Rep!Spec

(* What replaces a reply is signed by enough of the keys of one event of   *)
(* its signer's log, and is later than what it replaces, or under later    *)
(* keys, as long as what was stored of that is intact (acceptReply).       *)
THEOREM RepliesInOrder ==
  ASSUME Rep!RepliesAssumption
  PROVE  Rep!Spec => [][Rep!SignsAndSucceeds]_(Rep!vars)
<1>1. Rep!TypeOK /\ [Rep!Next]_(Rep!vars) => [Rep!SignsAndSucceeds]_(Rep!vars)
  BY RepliesNext
<1> QED
  BY <1>1, RepliesTyped, PTL DEF Rep!Spec

-----------------------------------------------------------------------------
(* Mailboxes and their readers, for any topics, letters and orders to send *)
(* them in, over the variables of module Mailboxes.                        *)
CONSTANTS Topics, Letters, Orders, Homeless, MaxTimeouts, MaxRestarts
VARIABLES evts, tpcs, msgs, writing, topics, events, fetched, pinning, tops, parsed, timeouts,
          restarts, outages
Box == INSTANCE Mailboxes WITH crashes <- outages

(* The operators of its library are those of this module.                  *)
LEMMA MailboxesOperators ==
  /\ \A S : Box!IsFiniteSet(S) <=> IsFiniteSet(S)
  /\ \A S : Box!Cardinality(S) = Cardinality(S)
  /\ \A s : Box!ToSet(s) = ToSet(s)
<1>1. \A S : Box!IsFiniteSet(S) <=> IsFiniteSet(S)
  BY DEF Box!IsFiniteSet, IsFiniteSet
<1>2. \A S : Box!Cardinality(S) = Cardinality(S)
  BY DEF Box!Cardinality, Cardinality
<1>3. \A s : Box!ToSet(s) = ToSet(s)
  BY DEF Box!ToSet, ToSet
<1> QED
  BY <1>1, <1>2, <1>3

-----------------------------------------------------------------------------
(* Entries of mailboxes                                                    *)

(* How much of a topic is settled.                                         *)
LEMMA SettledFacts ==
  ASSUME Box!TypeOK, Box!OnePlaceEach, NEW t \in Topics
  PROVE  Len(tpcs[t]) \in Nat /\ Box!Settled(t) \in Nat /\ Box!Settled(t) <= Len(tpcs[t]) /\
      Len(tpcs[t]) - 1 <= Box!Settled(t)
<1>1. tpcs[t] \in Seq(DOMAIN Letters) /\ Len(tpcs[t]) \in Nat
  BY LenProperties DEF Box!TypeOK
<1>2. CASE writing # Box!Nothing /\ Box!Topic(Head(writing)) = t
  <2>1. tpcs[t] # <<>>
    BY <1>2 DEF Box!OnePlaceEach
  <2>2. Len(tpcs[t]) \in Nat \ {0}
    BY <1>1, <2>1, EmptySeq
  <2> QED
    BY <1>2, <2>2 DEF Box!Settled
<1>3. CASE ~(writing # Box!Nothing /\ Box!Topic(Head(writing)) = t)
  BY <1>1, <1>3 DEF Box!Settled
<1> QED
  BY <1>2, <1>3

(* What is stored is settled.                                              *)
LEMMA StoredFacts ==
  ASSUME Box!TypeOK, Box!OnePlaceEach, NEW t \in Topics, NEW e \in Box!Stored(t)
  PROVE  /\ e \in Box!Items /\ e.topic = t /\ e.n \in 0..Len(tpcs[t]) - 1 /\ e.n < Box!Settled(t) /\ Box!Here(t, e.n)
         /\ e = Box!Entry(t, e.n)
<1>1. PICK n \in 0..Len(tpcs[t]) - 1 : e = Box!Entry(t, n) /\ Box!Here(t, n)
  BY DEF Box!Stored
<1>2. Len(tpcs[t]) \in Nat /\ Box!Settled(t) \in Nat /\ Box!Settled(t) <= Len(tpcs[t]) /\
          Len(tpcs[t]) - 1 <= Box!Settled(t)
  BY SettledFacts
<1>3. e \in Box!Items /\ e.topic = t /\ e.n = n /\ n \in Nat
  BY <1>1, <1>2 DEF Box!Entry, Box!Items
<1>4. n < Box!Settled(t)
  <2>1. CASE writing # Box!Nothing /\ Box!Topic(Head(writing)) = t
    <3>1. Head(writing) \notin msgs /\ tpcs[t][Len(tpcs[t])] = Head(writing)
      BY <2>1 DEF Box!OnePlaceEach
    <3>2. tpcs[t][n + 1] \in msgs
      BY <1>1 DEF Box!Here
    <3>3. n + 1 # Len(tpcs[t])
      BY <3>1, <3>2
    <3> QED
      BY <1>2, <1>3, <2>1, <3>3 DEF Box!Settled
  <2>2. CASE ~(writing # Box!Nothing /\ Box!Topic(Head(writing)) = t)
    BY <1>2, <1>3, <2>2 DEF Box!Settled
  <2> QED
    BY <2>1, <2>2
<1> QED
  BY <1>1, <1>3, <1>4

(* An entry that left the mailbox is stored in its topic.                  *)
LEMMA LeftIsStored ==
  ASSUME Box!TypeOK, Box!OnePlaceEach, NEW e \in Box!Read \cup Box!ToSet(events) \cup Box!ToSet(pinning)
  PROVE  e \in Box!Items /\ e.topic \in Topics /\ e \in Box!Stored(e.topic) /\ e.n \in Nat /\
      e.n < Box!Settled(e.topic)
<1>1. PICK t \in Topics : e \in Box!Stored(t)
  BY DEF Box!OnePlaceEach
<1> QED
  BY <1>1, StoredFacts DEF Box!Items

(* What is in a mailbox when the mailbox does not change.                  *)
LEMMA SameStored ==
  ASSUME UNCHANGED <<Box!sender, Box!mailbox>>
  PROVE  /\ \A t \in Topics : Box!Stored(t)' = Box!Stored(t) /\ Box!Settled(t)' = Box!Settled(t)
         /\ \A t \in Topics : \A n \in Int : Box!Here(t, n)' = Box!Here(t, n)
<1>1. \A t \in Topics : Box!Stored(t)' = Box!Stored(t) /\ Box!Settled(t)' = Box!Settled(t)
  BY DEF Box!sender, Box!mailbox, Box!Stored, Box!Settled, Box!Here
<1> QED
  BY <1>1 DEF Box!Here, Box!sender, Box!mailbox

-----------------------------------------------------------------------------
(* Going upwards                                                           *)

(* With one more at the end.                                               *)
LEMMA UpwardsAppend ==
  ASSUME NEW s \in Seq(Box!Items), NEW e \in Box!Items, Box!Upwards(s), Box!Precedes(Box!ToSet(s), {e})
  PROVE  Box!Upwards(Append(s, e))
<1>1. /\ Len(s) \in Nat /\ DOMAIN s = 1..Len(s) /\ DOMAIN Append(s, e) = 1..Len(s) + 1
      /\ \A i \in 1..Len(s) : Append(s, e)[i] = s[i]
      /\ Append(s, e)[Len(s) + 1] = e
  BY AppendProperties, LenProperties
<1> SUFFICES ASSUME NEW i \in 1..Len(s) + 1, NEW j \in 1..Len(s) + 1, i < j
             PROVE  Box!Before(Append(s, e)[i], Append(s, e)[j])
  BY <1>1 DEF Box!Upwards
<1>2. CASE j = Len(s) + 1
  <2>1. i \in 1..Len(s) /\ Append(s, e)[i] = s[i] /\ Append(s, e)[j] = e
    BY <1>1, <1>2
  <2>2. s[i] \in Box!ToSet(s)
    BY <1>1, <2>1 DEF Box!ToSet
  <2> QED
    BY <2>1, <2>2 DEF Box!Precedes
<1>3. CASE j # Len(s) + 1
  BY <1>1, <1>3 DEF Box!Upwards
<1> QED
  BY <1>2, <1>3

(* Without the first.                                                      *)
LEMMA UpwardsTail ==
  ASSUME NEW s \in Seq(Box!Items), s # <<>>, Box!Upwards(s)
  PROVE  Box!Upwards(Tail(s)) /\ Box!Precedes({Head(s)}, Box!ToSet(Tail(s)))
<1>1. /\ Tail(s) \in Seq(Box!Items) /\ Len(Tail(s)) = Len(s) - 1 /\ Head(s) = s[1]
      /\ \A i \in 1..Len(Tail(s)) : Tail(s)[i] = s[i + 1]
  BY HeadTailProperties, TailIn, MailboxesOperators
<1>2. /\ Len(s) \in Nat \ {0} /\ DOMAIN s = 1..Len(s) /\ DOMAIN Tail(s) = 1..Len(Tail(s)) /\ Len(Tail(s)) \in Nat
  BY <1>1, LenProperties, EmptySeq
<1>3. Box!Upwards(Tail(s))
  <2> SUFFICES ASSUME NEW i \in 1..Len(Tail(s)), NEW j \in 1..Len(Tail(s)), i < j
               PROVE  Box!Before(Tail(s)[i], Tail(s)[j])
    BY <1>2 DEF Box!Upwards
  <2>1. i + 1 \in DOMAIN s /\ j + 1 \in DOMAIN s /\ i + 1 < j + 1
    BY <1>1, <1>2
  <2>2. Box!Before(s[i + 1], s[j + 1])
    BY <2>1 DEF Box!Upwards
  <2> QED
    BY <1>1, <2>2
<1>4. Box!Precedes({Head(s)}, Box!ToSet(Tail(s)))
  <2> SUFFICES ASSUME NEW i \in 1..Len(Tail(s)) PROVE Box!Before(Head(s), Tail(s)[i])
    BY <1>2 DEF Box!Precedes, Box!ToSet
  <2>1. 1 \in DOMAIN s /\ i + 1 \in DOMAIN s /\ 1 < i + 1
    BY <1>1, <1>2
  <2>2. Box!Before(s[1], s[i + 1])
    BY <2>1 DEF Box!Upwards
  <2> QED
    BY <1>1, <2>2
<1> QED
  BY <1>3, <1>4

(* One after the other.                                                    *)
LEMMA UpwardsBoth ==
  ASSUME NEW s \in Seq(Box!Items), NEW u \in Seq(Box!Items), Box!Upwards(s), Box!Upwards(u),
         Box!Precedes(Box!ToSet(s), Box!ToSet(u))
  PROVE  Box!Upwards(s \o u)
<1>1. /\ s \o u \in Seq(Box!Items) /\ Len(s \o u) = Len(s) + Len(u)
      /\ \A i \in 1..Len(s) + Len(u) : (s \o u)[i] = IF i <= Len(s) THEN s[i] ELSE u[i - Len(s)]
  BY ConcatProperties
<1>2. /\ Len(s) \in Nat /\ Len(u) \in Nat /\ DOMAIN s = 1..Len(s) /\ DOMAIN u = 1..Len(u)
      /\ DOMAIN (s \o u) = 1..Len(s) + Len(u)
  BY <1>1, LenProperties
<1> SUFFICES ASSUME NEW i \in 1..Len(s) + Len(u), NEW j \in 1..Len(s) + Len(u), i < j
             PROVE  Box!Before((s \o u)[i], (s \o u)[j])
  BY <1>2 DEF Box!Upwards
<1>3. CASE j <= Len(s)
  <2>1. i \in DOMAIN s /\ j \in DOMAIN s /\ (s \o u)[i] = s[i] /\ (s \o u)[j] = s[j]
    BY <1>1, <1>2, <1>3
  <2> QED
    BY <2>1 DEF Box!Upwards
<1>4. CASE i <= Len(s) /\ j > Len(s)
  <2>1. i \in DOMAIN s /\ j - Len(s) \in DOMAIN u /\ (s \o u)[i] = s[i] /\ (s \o u)[j] = u[j - Len(s)]
    BY <1>1, <1>2, <1>4
  <2>2. s[i] \in Box!ToSet(s) /\ u[j - Len(s)] \in Box!ToSet(u)
    BY <2>1 DEF Box!ToSet
  <2> QED
    BY <2>1, <2>2 DEF Box!Precedes
<1>5. CASE i > Len(s)
  <2>1. /\ i - Len(s) \in DOMAIN u /\ j - Len(s) \in DOMAIN u /\ i - Len(s) < j - Len(s)
        /\ (s \o u)[i] = u[i - Len(s)] /\ (s \o u)[j] = u[j - Len(s)]
    BY <1>1, <1>2, <1>5
  <2> QED
    BY <2>1 DEF Box!Upwards
<1> QED
  BY <1>2, <1>3, <1>4, <1>5

-----------------------------------------------------------------------------
(* The mailbox                                                             *)

(* At the start nothing is stored or asked for.                            *)
LEMMA MailboxesInit == ASSUME Box!MailboxesAssumption, Box!Init PROVE Box!MailboxesInv
<1>1. PICK t0 \in Topics : TRUE
  BY DEF Box!MailboxesAssumption
<1>2. evts \in Seq(DOMAIN Letters) /\ Box!IsInjective(evts)
  BY DEF Box!Init, Box!MailboxesAssumption
<1>3. /\ \A t \in Topics : tpcs[t] = <<>> /\ Box!Settled(t) = 0 /\ Box!Stored(t) = {}
      /\ Len(<<>>) = 0 /\ Box!ToSet(<<>>) = {} /\ DOMAIN <<>> = {}
  BY DEF Box!Init, Box!Settled, Box!Stored, Box!ToSet, Box!Nothing
<1>4. Box!TypeOK
  BY <1>2, <1>3 DEF Box!TypeOK, Box!Init, Box!IsInjective, Box!NoStream, Box!Nothing
<1>5. Box!OnePlaceEach
  BY <1>3 DEF Box!OnePlaceEach, Box!Init, Box!Read, Box!Nothing
<1>6. Box!AllBelow
  BY <1>3 DEF Box!AllBelow, Box!Init, Box!Nothing
<1>7. Box!AllUpwards
  BY <1>3 DEF Box!AllUpwards, Box!Init, Box!Upwards, Box!Precedes, Box!Read, Box!Nothing, Box!NoStream
<1> QED
  BY <1>4, <1>5, <1>6, <1>7 DEF Box!MailboxesInv

(* What the types and the places of messages say of the mailbox alone.     *)
SenderTyped ==
  /\ evts \in Seq(DOMAIN Letters) /\ Box!IsInjective(evts)
  /\ tpcs \in [Topics -> Seq(DOMAIN Letters)] /\ msgs \subseteq DOMAIN Letters
  /\ \A t \in Topics : Box!IsInjective(tpcs[t]) /\ \A i \in DOMAIN tpcs[t] : Box!Topic(tpcs[t][i]) = t
  /\ writing \in Seq(DOMAIN Letters) /\ Len(writing) <= 1
SenderOnce ==
  /\ \A t \in Topics : Box!ToSet(evts) \cap Box!ToSet(tpcs[t]) = {}
  /\ \A m \in msgs : m \in Box!ToSet(tpcs[Box!Topic(m)])
  /\ writing # Box!Nothing =>
       LET m == Head(writing) IN
       m \notin msgs /\ tpcs[Box!Topic(m)] # <<>> /\ tpcs[Box!Topic(m)][Len(tpcs[Box!Topic(m)])] = m

(* No crash so far, when there is none still.                              *)
LEMMA NoCrashYet ==
  ASSUME NEW a \in Nat, NEW b \in Nat, NEW c \in Nat, c >= b, a + c = 0
  PROVE  a + b = 0
OBVIOUS

(* A step of the sender or of the mailbox: what it adds is above all that  *)
(* was settled.                                                            *)
LEMMA SenderKeeps ==
  ASSUME Box!MailboxesAssumption, Box!MailboxesInv, UNCHANGED Box!client, restarts' = restarts,
         outages' \in Nat, outages' >= outages, topics' = topics \/ topics' = Box!NoStream,
         SenderTyped', SenderOnce',
         restarts + outages' = 0 =>
           topics' = topics /\ \A t \in Topics : \A n \in 0..Box!Settled(t)' - 1 : Box!Here(t, n)',
         \A t \in Topics :
           /\ Box!Settled(t)' \in Nat /\ Box!Settled(t) <= Box!Settled(t)' /\ Box!Stored(t) \subseteq Box!Stored(t)'
           /\ \A e \in Box!Stored(t)' : e \in Box!Stored(t) \/ (e.n \in Nat /\ e.n >= Box!Settled(t))
  PROVE  Box!MailboxesInv'
<1>1. /\ Box!TypeOK /\ Box!OnePlaceEach /\ events' = events /\ fetched' = fetched /\ pinning' = pinning
      /\ tops' = tops /\ parsed' = parsed /\ Box!Read' = Box!Read
  BY DEF Box!MailboxesInv, Box!client, Box!Read
<1>2. \A t \in Topics : Box!Settled(t) \in Nat
  BY <1>1, SettledFacts
<1>3. Box!TypeOK'
  <2>1. \A t \in Topics : tops'[t] \in -1..Box!Settled(t)' - 1
    BY <1>1, <1>2 DEF Box!TypeOK
  <2>2. topics' # Box!NoStream => topics' \in [Topics -> Nat] /\ \A t \in Topics : topics'[t] \in 0..Box!Settled(t)'
    BY <1>1, <1>2 DEF Box!TypeOK
  <2> QED
    BY <1>1, <2>1, <2>2 DEF Box!TypeOK, SenderTyped
<1>4. Box!OnePlaceEach'
  <2>1. Box!Read' \cup Box!ToSet(events') \cup Box!ToSet(pinning') \subseteq UNION {Box!Stored(t)' : t \in Topics}
    <3> SUFFICES ASSUME NEW e \in Box!Read \cup Box!ToSet(events) \cup Box!ToSet(pinning)
                 PROVE  \E t \in Topics : e \in Box!Stored(t)'
      BY <1>1
    <3> QED
      BY <1>1, LeftIsStored
  <2> QED
    BY <2>1 DEF Box!OnePlaceEach, SenderOnce
<1>5. ASSUME NEW t \in Topics, NEW e \in Box!Stored(t)', NEW k \in Int, k < Box!Settled(t), e.n <= k
      PROVE  e \in Box!Stored(t)
  BY <1>2, <1>5
<1>6. restarts' = 0 => Box!AllBelow'
  <2> SUFFICES ASSUME restarts = 0, Box!AllBelow PROVE Box!AllBelow'
    BY DEF Box!MailboxesInv
  <2>1. ASSUME NEW t \in Topics, NEW e \in Box!Stored(t)', e.n <= tops[t] PROVE e \in Box!Read
    <3>1. tops[t] \in Int /\ tops[t] < Box!Settled(t)
      BY <1>1, <1>2 DEF Box!TypeOK
    <3> QED
      BY <1>5, <2>1, <3>1 DEF Box!AllBelow
  <2>2. ASSUME NEW p \in Box!ToSet(pinning), NEW e \in Box!Stored(p.topic)', e.n <= p.n PROVE e \in Box!Read
    <3>1. p.topic \in Topics /\ p.n \in Int /\ p.n < Box!Settled(p.topic)
      BY <1>1, LeftIsStored
    <3> QED
      BY <1>5, <2>2, <3>1 DEF Box!AllBelow
  <2>3. ASSUME topics' # Box!NoStream, NEW t \in Topics, NEW e \in Box!Stored(t)', e.n < topics'[t]
        PROVE  e \in Box!Read \cup Box!ToSet(events)
    <3>1. topics' = topics /\ topics[t] \in Int /\ topics[t] <= Box!Settled(t)
      BY <1>1, <1>2, <2>3 DEF Box!TypeOK
    <3>2. e \in Box!Stored(t)
      BY <1>2, <2>3, <3>1
    <3> QED
      BY <2>3, <3>1, <3>2 DEF Box!AllBelow
  <2>4. ASSUME NEW i \in DOMAIN events, NEW e \in Box!Stored(events[i].topic)', e.n <= events[i].n
        PROVE  e \in Box!Read \cup Box!Upto(i)
    <3>1. events[i] \in Box!ToSet(events)
      BY DEF Box!ToSet
    <3>2. events[i].topic \in Topics /\ events[i].n \in Int /\ events[i].n < Box!Settled(events[i].topic)
      BY <1>1, <3>1, LeftIsStored
    <3>3. PICK t \in Topics : t = events[i].topic
      BY <3>2
    <3>4. e \in Box!Stored(t)' /\ events[i].n \in Int /\ events[i].n < Box!Settled(t) /\ e.n <= events[i].n
      BY <1>1, <2>4, <3>2, <3>3
    <3>5. e \in Box!Stored(t)
      BY ONLY <1>5, <3>4
    <3> QED
      BY <2>4, <3>3, <3>5 DEF Box!AllBelow
  <2>5. \A i : Box!Upto(i)' = Box!Upto(i)
    BY <1>1 DEF Box!Upto
  <2> QED
    BY <1>1, <2>1, <2>2, <2>3, <2>4, <2>5 DEF Box!AllBelow
<1>7. restarts' + outages' = 0 => Box!AllUpwards'
  <2>1. restarts \in Nat /\ outages \in Nat
    BY <1>1 DEF Box!TypeOK
  <2> SUFFICES ASSUME restarts + outages' = 0 PROVE Box!AllUpwards'
    OBVIOUS
  <2>3. restarts + outages = 0
    BY <2>1, NoCrashYet
  <2>4. restarts + outages = 0 => Box!AllUpwards
    BY DEF Box!MailboxesInv
  <2>2. Box!AllUpwards /\ topics' = topics
    BY <2>3, <2>4
  <2> QED
    BY <1>1, <2>2 DEF Box!AllUpwards
<1> QED
  BY <1>3, <1>4, <1>6, <1>7 DEF Box!MailboxesInv

(* What the invariant says of the sender and of the mailbox.               *)
LEMMA MailboxesParts ==
  ASSUME Box!MailboxesInv
  PROVE  /\ SenderTyped /\ SenderOnce /\ Box!TypeOK /\ Box!OnePlaceEach
         /\ \A t \in Topics : Box!Settled(t) \in Nat /\ Len(tpcs[t]) \in Nat /\ Box!Settled(t) <= Len(tpcs[t])
         /\ restarts + outages = 0 => \A t \in Topics : \A n \in 0..Box!Settled(t) - 1 : Box!Here(t, n)
         /\ outages \in Nat /\ restarts \in Nat
<1>1. Box!TypeOK /\ Box!OnePlaceEach
  BY DEF Box!MailboxesInv
<1>2. restarts + outages = 0 => \A t \in Topics : \A n \in 0..Box!Settled(t) - 1 : Box!Here(t, n)
  BY DEF Box!MailboxesInv, Box!AllUpwards
<1> QED
  BY <1>1, <1>2, SettledFacts DEF Box!TypeOK, Box!OnePlaceEach, SenderTyped, SenderOnce

(* Without the first of different entries.                                 *)
LEMMA TailInjective ==
  ASSUME NEW S, NEW s \in Seq(S), s # <<>>, Box!IsInjective(s)
  PROVE  Box!IsInjective(Tail(s)) /\ Head(s) \notin Box!ToSet(Tail(s))
<1>1. /\ Tail(s) \in Seq(S) /\ Len(Tail(s)) = Len(s) - 1 /\ Head(s) = s[1]
      /\ \A i \in 1..Len(Tail(s)) : Tail(s)[i] = s[i + 1]
  BY HeadTailProperties, TailIn, MailboxesOperators
<1>2. /\ Len(s) \in Nat \ {0} /\ DOMAIN s = 1..Len(s) /\ DOMAIN Tail(s) = 1..Len(Tail(s)) /\ Len(Tail(s)) \in Nat
  BY <1>1, LenProperties, EmptySeq
<1>3. \A i \in DOMAIN Tail(s) : i + 1 \in DOMAIN s /\ i + 1 # 1 /\ Tail(s)[i] = s[i + 1]
  BY <1>1, <1>2
<1>4. 1 \in DOMAIN s
  BY <1>2
<1>5. Head(s) \notin Box!ToSet(Tail(s))
  BY <1>1, <1>3, <1>4 DEF Box!IsInjective, Box!ToSet
<1>6. Box!IsInjective(Tail(s))
  <2> SUFFICES ASSUME NEW i \in DOMAIN Tail(s), NEW j \in DOMAIN Tail(s), Tail(s)[i] = Tail(s)[j] PROVE i = j
    BY DEF Box!IsInjective
  <2>1. i + 1 = j + 1
    BY <1>3 DEF Box!IsInjective
  <2> QED
    BY <1>2, <2>1
<1> QED
  BY <1>5, <1>6

(* What is dropped was never stored.                                       *)
LEMMA DropHomelessKeeps == ASSUME Box!MailboxesAssumption, Box!MailboxesInv, Box!DropHomeless PROVE Box!MailboxesInv'
<1>1. /\ evts # <<>> /\ evts' = Tail(evts)
      /\ UNCHANGED <<writing, Box!mailbox, topics, Box!client, Box!bounds>>
  BY DEF Box!DropHomeless
<1>2. Tail(evts) \in Seq(DOMAIN Letters) /\ Box!IsInjective(Tail(evts)) /\
          Box!ToSet(Tail(evts)) \subseteq Box!ToSet(evts)
  BY <1>1, MailboxesParts, TailIn, TailInjective, MailboxesOperators DEF SenderTyped
<1>3. SenderTyped' /\ SenderOnce'
  BY <1>1, <1>2, MailboxesParts DEF SenderTyped, SenderOnce, Box!mailbox
<1>4. /\ \A t \in Topics : Box!Settled(t)' = Box!Settled(t) /\ Box!Stored(t)' = Box!Stored(t)
      /\ \A t \in Topics : \A n \in Int : Box!Here(t, n)' = Box!Here(t, n)
  BY <1>1 DEF Box!mailbox, Box!Settled, Box!Stored, Box!Here
<1> QED
  BY <1>1, <1>3, <1>4, MailboxesParts, SenderKeeps DEF Box!bounds

(* An entry without its text is not yet stored.                            *)
LEMMA AppendTopicKeeps == ASSUME Box!MailboxesAssumption, Box!MailboxesInv, Box!AppendTopic PROVE Box!MailboxesInv'
<1> DEFINE m == Head(evts)
           t0 == Box!Topic(m)
<1>1. /\ writing = Box!Nothing /\ evts # <<>> /\ tpcs' = [tpcs EXCEPT ![t0] = Append(@, m)] /\ writing' = <<m>>
      /\ evts' = Tail(evts) /\ UNCHANGED <<msgs, topics, Box!client, Box!bounds>>
  BY DEF Box!AppendTopic
<1>2. /\ m \in DOMAIN Letters /\ m \in Box!ToSet(evts) /\ t0 \in Topics /\ m \notin Box!ToSet(evts')
      /\ Tail(evts) \in Seq(DOMAIN Letters) /\ Box!IsInjective(Tail(evts)) /\
          Box!ToSet(Tail(evts)) \subseteq Box!ToSet(evts)
  BY <1>1, MailboxesParts, TailIn, TailInjective, MailboxesOperators DEF SenderTyped, Box!MailboxesAssumption
<1>3. \A t \in Topics : m \notin Box!ToSet(tpcs[t])
  BY <1>2, MailboxesParts DEF SenderOnce
<1> DEFINE s == tpcs[t0]
           u == Append(s, m)
<1>4. s \in Seq(DOMAIN Letters) /\ tpcs \in [Topics -> Seq(DOMAIN Letters)]
  BY <1>2, MailboxesParts DEF SenderTyped
<1>5. /\ u \in Seq(DOMAIN Letters) /\ Len(u) = Len(s) + 1 /\ Len(s) \in Nat /\ DOMAIN s = 1..Len(s)
      /\ DOMAIN u = 1..Len(s) + 1 /\ u[Len(s) + 1] = m /\ \A i \in 1..Len(s) : u[i] = s[i]
  BY <1>2, <1>4, AppendProperties, LenProperties
<1>6. Box!ToSet(u) = Box!ToSet(s) \cup {m} /\ u # <<>>
  <2>1. ToSet(u) = ToSet(s) \cup {m}
    BY <1>2, <1>4, AppendToSet
  <2>2. u # <<>>
    BY <1>2, <1>4, AppendProperties
  <2> QED
    BY <2>1, <2>2, MailboxesOperators
<1>7. Box!IsInjective(u) /\ \A i \in DOMAIN u : Box!Topic(u[i]) = t0
  <2>1. Box!IsInjective(s) /\ \A i \in DOMAIN s : Box!Topic(s[i]) = t0 /\ s[i] # m
    BY <1>2, <1>3, MailboxesParts DEF SenderTyped, Box!ToSet
  <2> HIDE DEF s, u, m
  <2> QED
    BY <1>5, <2>1 DEF Box!IsInjective
<1>8. m \notin msgs
  BY <1>3, MailboxesParts DEF SenderOnce, SenderTyped, Box!MailboxesAssumption
<1>9. tpcs' \in [Topics -> Seq(DOMAIN Letters)] /\ tpcs'[t0] = u /\ \A t \in Topics \ {t0} : tpcs'[t] = tpcs[t]
  BY <1>1, <1>2, <1>4, <1>5
<1>10. writing' \in Seq(DOMAIN Letters) /\ Len(writing') = 1 /\ Head(writing') = m /\ writing' # Box!Nothing
  BY <1>1, <1>2 DEF Box!Nothing
<1> HIDE DEF s, u, m
<1>11. SenderTyped'
  <2>1. evts' \in Seq(DOMAIN Letters) /\ Box!IsInjective(evts') /\ msgs' \subseteq DOMAIN Letters
    BY <1>1, <1>2, MailboxesParts DEF SenderTyped
  <2>2. \A t \in Topics : Box!IsInjective(tpcs'[t]) /\ \A i \in DOMAIN tpcs'[t] : Box!Topic(tpcs'[t][i]) = t
    <3> SUFFICES ASSUME NEW t \in Topics
                 PROVE  Box!IsInjective(tpcs'[t]) /\ \A i \in DOMAIN tpcs'[t] : Box!Topic(tpcs'[t][i]) = t
      OBVIOUS
    <3>1. CASE t = t0
      BY <3>1, <1>7, <1>9
    <3>2. CASE t # t0
      BY <3>2, <1>9, MailboxesParts DEF SenderTyped
    <3> QED
      BY <3>1, <3>2
  <2> QED
    BY <1>9, <1>10, <2>1, <2>2 DEF SenderTyped
<1>12. SenderOnce'
  <2>1. \A t \in Topics : Box!ToSet(evts') \cap Box!ToSet(tpcs'[t]) = {}
    BY <1>1, <1>2, <1>6, <1>9, MailboxesParts DEF SenderOnce, s
  <2>2. \A x \in msgs' : x \in Box!ToSet(tpcs'[Box!Topic(x)])
    <3> SUFFICES ASSUME NEW x \in msgs PROVE x \in Box!ToSet(tpcs'[Box!Topic(x)])
      BY <1>1
    <3>1. x \in Box!ToSet(tpcs[Box!Topic(x)]) /\ Box!Topic(x) \in Topics
      BY MailboxesParts DEF SenderOnce, SenderTyped, Box!MailboxesAssumption
    <3> QED
      BY <1>6, <1>9, <3>1 DEF s
  <2>3. m \notin msgs' /\ tpcs'[t0] # <<>> /\ tpcs'[t0][Len(tpcs'[t0])] = m
    BY <1>1, <1>5, <1>6, <1>8, <1>9
  <2> QED
    BY <1>10, <2>1, <2>2, <2>3 DEF SenderOnce
<1>13. \A t \in Topics : Box!Settled(t)' = Box!Settled(t)
  BY <1>1, <1>5, <1>9, <1>10 DEF Box!Settled, s
<1>14. \A t \in Topics : \A n \in 0..Len(tpcs[t]) - 1 : Box!Here(t, n)' = Box!Here(t, n)
  <2> SUFFICES ASSUME NEW t \in Topics, NEW n \in 0..Len(tpcs[t]) - 1 PROVE tpcs'[t][n + 1] = tpcs[t][n + 1]
    BY <1>1 DEF Box!Here
  <2>1. CASE t = t0
    <3>1. n + 1 \in 1..Len(s)
      BY <2>1, <1>5 DEF s
    <3> QED
      BY <2>1, <3>1, <1>5, <1>9 DEF s
  <2>2. CASE t # t0
    BY <2>2, <1>9
  <2> QED
    BY <2>1, <2>2
<1>15. \A t \in Topics : Box!Stored(t)' = Box!Stored(t)
  <2> SUFFICES ASSUME NEW t \in Topics PROVE Box!Stored(t)' = Box!Stored(t)
    OBVIOUS
  <2>1. CASE t # t0
    BY <2>1, <1>9, <1>14 DEF Box!Stored, Box!Entry
  <2>2. CASE t = t0
    <3>1. Len(tpcs'[t]) - 1 = Len(s) /\ Len(tpcs[t]) = Len(s) /\ tpcs'[t][Len(s) + 1] = m
      BY <2>2, <1>5, <1>9 DEF s
    <3>2. {i \in 0..Len(tpcs'[t]) - 1 : Box!Here(t, i)'} = {i \in 0..Len(tpcs[t]) - 1 : Box!Here(t, i)}
      <4>1. ASSUME NEW i \in 0..Len(s), Box!Here(t, i)' PROVE i \in 0..Len(s) - 1 /\ Box!Here(t, i)
        <5>1. tpcs'[t][i + 1] \in msgs
          BY <4>1, <1>1 DEF Box!Here
        <5>2. i # Len(s)
          BY <5>1, <3>1, <1>8
        <5>3. Len(s) \in Nat
          BY <1>5
        <5>4. i \in 0..Len(s) - 1
          BY <5>2, <5>3
        <5> QED
          BY <4>1, <5>4, <3>1, <1>14
      <4>2. ASSUME NEW i \in 0..Len(s) - 1, Box!Here(t, i) PROVE i \in 0..Len(s) /\ Box!Here(t, i)'
        BY <4>2, <3>1, <1>5, <1>14
      <4> QED
        BY <3>1, <4>1, <4>2
    <3> QED
      BY <3>2 DEF Box!Stored, Box!Entry
  <2> QED
    BY <2>1, <2>2
<1>16. restarts + outages' = 0 => \A t \in Topics : \A n \in 0..Box!Settled(t)' - 1 : Box!Here(t, n)'
  BY <1>1, <1>13, <1>14, MailboxesParts DEF Box!bounds
<1> QED
  BY <1>1, <1>11, <1>12, <1>13, <1>15, <1>16, MailboxesParts, SenderKeeps DEF Box!bounds

(* The entry that becomes readable is the last of its topic.               *)
LEMMA StoreMsgKeeps == ASSUME Box!MailboxesAssumption, Box!MailboxesInv, Box!StoreMsg PROVE Box!MailboxesInv'
<1> DEFINE m == Head(writing)
           t0 == Box!Topic(m)
<1>1. /\ writing # Box!Nothing /\ msgs' = msgs \cup {m} /\ writing' = Box!Nothing
      /\ UNCHANGED <<evts, tpcs, topics, Box!client, Box!bounds>>
  BY DEF Box!StoreMsg
<1>2. /\ m \in DOMAIN Letters /\ t0 \in Topics /\ m \notin msgs /\ tpcs[t0] # <<>>
      /\ tpcs[t0][Len(tpcs[t0])] = m
  <2>1. m \in DOMAIN Letters
    BY <1>1, MailboxesParts, HeadTailProperties DEF SenderTyped, Box!Nothing
  <2> QED
    BY <1>1, <2>1, MailboxesParts DEF SenderOnce, Box!MailboxesAssumption
<1>3. \A t \in Topics : tpcs[t] \in Seq(DOMAIN Letters) /\ Len(tpcs[t]) \in Nat /\ DOMAIN tpcs[t] = 1..Len(tpcs[t])
  BY MailboxesParts, LenProperties DEF SenderTyped
<1>4. Len(tpcs[t0]) \in Nat \ {0}
  BY <1>2, <1>3, EmptySeq
<1>5. SenderTyped'
  BY <1>1, <1>2, MailboxesParts DEF SenderTyped, Box!Nothing
<1>6. SenderOnce'
  <2>1. Len(tpcs[t0]) \in DOMAIN tpcs[t0]
    BY <1>2, <1>3, <1>4
  <2>2. m \in Box!ToSet(tpcs[t0])
    BY <1>2, <2>1 DEF Box!ToSet
  <2> QED
    BY <1>1, <2>2, MailboxesParts DEF SenderOnce
<1> HIDE DEF m
<1>7. \A t \in Topics : \A i \in 1..Len(tpcs[t]) : tpcs[t][i] = m => t = t0 /\ i = Len(tpcs[t])
  <2> SUFFICES ASSUME NEW t \in Topics, NEW i \in 1..Len(tpcs[t]), tpcs[t][i] = m
               PROVE  t = t0 /\ i = Len(tpcs[t])
    OBVIOUS
  <2>1. i \in DOMAIN tpcs[t] /\ Box!IsInjective(tpcs[t]) /\ Box!Topic(tpcs[t][i]) = t
    BY <1>3, MailboxesParts DEF SenderTyped
  <2>2. t = t0
    BY <2>1
  <2>3. Len(tpcs[t]) \in DOMAIN tpcs[t] /\ tpcs[t][Len(tpcs[t])] = m
    BY <2>2, <1>2, <1>3, <1>4
  <2> QED
    BY <2>1, <2>2, <2>3 DEF Box!IsInjective
<1>8. \A t \in Topics : Box!Settled(t)' = Len(tpcs[t]) /\
          Box!Settled(t) = IF t = t0 THEN Len(tpcs[t]) - 1 ELSE Len(tpcs[t])
  BY <1>1 DEF Box!Settled, m
<1>9. \A t \in Topics : Box!Stored(t) \subseteq Box!Stored(t)'
  BY <1>1 DEF Box!Stored, Box!Here, Box!Entry
<1>10. \A t \in Topics : \A e \in Box!Stored(t)' : e \in Box!Stored(t) \/ (e.n \in Nat /\ e.n >= Box!Settled(t))
  <2> SUFFICES ASSUME NEW t \in Topics, NEW e \in Box!Stored(t)'
  PROVE e \in Box!Stored(t) \/ (e.n \in Nat /\ e.n >= Box!Settled(t))
    OBVIOUS
  <2>1. PICK n \in 0..Len(tpcs[t]) - 1 : e = Box!Entry(t, n) /\ tpcs[t][n + 1] \in msgs \cup {m}
    BY <1>1 DEF Box!Stored, Box!Here, Box!Entry
  <2>2. Len(tpcs[t]) \in Nat /\ n \in Nat /\ n + 1 \in 1..Len(tpcs[t]) /\ e.n = n
    BY <1>3, <2>1 DEF Box!Entry
  <2>3. CASE tpcs[t][n + 1] = m
    <3>1. t = t0 /\ n + 1 = Len(tpcs[t])
      BY <1>7, <2>2, <2>3
    <3>2. n >= Box!Settled(t)
      BY <3>1, <1>8, <2>2
    <3> QED
      BY <2>2, <3>2
  <2>4. CASE tpcs[t][n + 1] \in msgs
    BY <2>1, <2>4 DEF Box!Stored, Box!Here
  <2> QED
    BY <2>1, <2>3, <2>4
<1>11. ASSUME restarts + outages = 0 PROVE \A t \in Topics : \A n \in 0..Box!Settled(t)' - 1 : Box!Here(t, n)'
  <2> SUFFICES ASSUME NEW t \in Topics, NEW n \in 0..Len(tpcs[t]) - 1 PROVE tpcs[t][n + 1] \in msgs \cup {m}
    BY <1>1, <1>8 DEF Box!Here
  <2>1. CASE n \in 0..Box!Settled(t) - 1
    BY <2>1, <1>11, MailboxesParts DEF Box!Here
  <2>2. CASE n \notin 0..Box!Settled(t) - 1
    <3>1. Len(tpcs[t]) \in Nat /\ (t = t0 \/ Box!Settled(t) = Len(tpcs[t]))
      BY <1>3, <1>8
    <3>2. t = t0
      BY <3>1, <2>2
    <3>3. n = Len(tpcs[t]) - 1
      BY <3>1, <3>2, <2>2, <1>8
    <3> QED
      BY <3>1, <3>2, <3>3, <1>2
  <2> QED
    BY <2>1, <2>2
<1>12. \A t \in Topics : Box!Settled(t)' \in Nat /\ Box!Settled(t) <= Box!Settled(t)'
  BY <1>3, <1>8
<1> QED
  BY <1>1, <1>5, <1>6, <1>9, <1>10, <1>11, <1>12, MailboxesParts, SenderKeeps DEF Box!bounds

(* A crash between the two writes settles an entry that never reads.       *)
LEMMA RestartMailboxKeeps == ASSUME Box!MailboxesAssumption, Box!MailboxesInv, Box!RestartMailbox
  PROVE Box!MailboxesInv'
<1>1. /\ outages' = outages + 1 /\ writing' = Box!Nothing /\ topics' = Box!NoStream
      /\ UNCHANGED <<evts, Box!mailbox, Box!client, timeouts, restarts>>
  BY DEF Box!RestartMailbox
<1>2. SenderTyped' /\ SenderOnce'
  BY <1>1, MailboxesParts DEF SenderTyped, SenderOnce, Box!mailbox, Box!Nothing
<1>3. \A t \in Topics : Box!Settled(t)' = Len(tpcs[t]) /\ Box!Stored(t)' = Box!Stored(t)
  BY <1>1 DEF Box!Settled, Box!Stored, Box!Here, Box!mailbox
<1>4. \A t \in Topics : Box!Settled(t)' \in Nat /\ Box!Settled(t) <= Box!Settled(t)'
  BY <1>3, MailboxesParts
<1>5. outages' \in Nat /\ outages' >= outages /\ restarts + outages' # 0
  BY <1>1, MailboxesParts
<1> QED
  BY <1>1, <1>2, <1>3, <1>4, <1>5, SenderKeeps

-----------------------------------------------------------------------------
(* The stream and the poller                                               *)

(* A step that leaves the mailbox alone leaves what is stored.             *)
LEMMA MailboxSame ==
  ASSUME Box!MailboxesInv, UNCHANGED <<Box!sender, Box!mailbox>>
  PROVE  /\ Box!TypeOK /\ Box!OnePlaceEach /\ SenderTyped' /\ SenderOnce'
         /\ \A t \in Topics : Box!Stored(t)' = Box!Stored(t) /\ Box!Settled(t)' = Box!Settled(t) /\
             Box!Settled(t) \in Nat
         /\ Box!AllUpwards => \A t \in Topics : \A n \in 0..Box!Settled(t)' - 1 : Box!Here(t, n)'
<1>1. SenderTyped' /\ SenderOnce'
  BY MailboxesParts DEF SenderTyped, SenderOnce, Box!sender, Box!mailbox
<1>2. \A t \in Topics : Box!Stored(t)' = Box!Stored(t) /\ Box!Settled(t)' = Box!Settled(t) /\ Box!Settled(t) \in Nat
  BY SameStored, MailboxesParts
<1>3. Box!AllUpwards => \A t \in Topics : \A n \in 0..Box!Settled(t)' - 1 : Box!Here(t, n)'
  BY <1>2, SameStored DEF Box!AllUpwards
<1> QED
  BY <1>1, <1>2, <1>3, SameStored, MailboxesParts

(* The types and places after such a step.                                 *)
LEMMA ClientTyped ==
  ASSUME Box!MailboxesInv, UNCHANGED <<Box!sender, Box!mailbox>>, events' \in Seq(Box!Items),
         fetched' \in Seq(Box!Items),
         parsed' \in Seq(Box!Items), pinning' \in Seq(Box!Items), Len(pinning') <= 1, tops' \in [Topics -> Int],
         \A t \in Topics : tops'[t] \in -1..Box!Settled(t) - 1,
         topics' # Box!NoStream => topics' \in [Topics -> Nat] /\ \A t \in Topics : topics'[t] \in 0..Box!Settled(t),
         restarts' \in Nat, outages' \in Nat,
         Box!Read' \cup Box!ToSet(events') \cup Box!ToSet(pinning') \subseteq UNION {Box!Stored(t) : t \in Topics}
  PROVE  Box!TypeOK' /\ Box!OnePlaceEach'
<1>1. \A t \in Topics : Box!Stored(t)' = Box!Stored(t) /\ Box!Settled(t)' = Box!Settled(t)
  BY MailboxSame
<1>2. Box!TypeOK'
  BY <1>1, MailboxSame DEF Box!TypeOK, SenderTyped
<1>3. Box!Read' \cup Box!ToSet(events') \cup Box!ToSet(pinning') \subseteq UNION {Box!Stored(t)' : t \in Topics}
  BY <1>1
<1> QED
  BY <1>2, <1>3, MailboxSame DEF Box!OnePlaceEach, SenderOnce

(* A stream begins above what is recorded, which was read.                 *)
LEMMA ConnectKeeps == ASSUME Box!MailboxesAssumption, Box!MailboxesInv, Box!Connect PROVE Box!MailboxesInv'
<1>1. /\ topics = Box!NoStream /\ pinning = Box!Nothing /\ topics' = [t \in Topics |-> tops[t] + 1]
      /\ UNCHANGED <<Box!sender, Box!mailbox, Box!client, Box!bounds>>
  BY DEF Box!Connect, Box!QueryFrom
<1>2. /\ events' = events /\ fetched' = fetched /\ parsed' = parsed /\ pinning' = pinning /\ tops' = tops
      /\ Box!Read' = Box!Read /\ restarts' = restarts /\ outages' = outages /\ UNCHANGED <<Box!sender, Box!mailbox>>
  BY <1>1 DEF Box!client, Box!bounds, Box!Read
<1>3. /\ Box!TypeOK /\ Box!OnePlaceEach
      /\ \A t \in Topics : tops[t] \in Int /\ tops[t] + 1 \in 0..Box!Settled(t) /\ tops[t] + 1 \in Nat
  BY <1>2, MailboxSame DEF Box!TypeOK
<1>4. Box!TypeOK' /\ Box!OnePlaceEach'
  <2>1. topics' \in [Topics -> Nat] /\ \A t \in Topics : topics'[t] \in 0..Box!Settled(t)
    BY <1>1, <1>3
  <2> QED
    BY <1>2, <1>3, <2>1, ClientTyped DEF Box!TypeOK, Box!OnePlaceEach
<1>5. ASSUME restarts' = 0 PROVE Box!AllBelow'
  <2>1. Box!AllBelow /\ \A t \in Topics : Box!Stored(t)' = Box!Stored(t)
    BY <1>2, <1>5, MailboxSame DEF Box!MailboxesInv
  <2>2. ASSUME NEW t \in Topics, NEW e \in Box!Stored(t), e.n < topics'[t] PROVE e \in Box!Read
    <3>1. e.n \in Nat /\ e.n <= tops[t]
      BY <1>1, <1>3, <2>2, StoredFacts DEF Box!Items
    <3> QED
      BY <2>1, <3>1 DEF Box!AllBelow
  <2>3. Box!ToSet(pinning') = {} /\ \A i : Box!Upto(i)' = Box!Upto(i)
    BY <1>1, <1>2 DEF Box!ToSet, Box!Nothing, Box!Upto
  <2>4. \A i \in DOMAIN events : events[i].topic \in Topics
    BY <1>3, LeftIsStored DEF Box!ToSet
  <2> QED
    BY <1>2, <2>1, <2>2, <2>3, <2>4 DEF Box!AllBelow
<1>6. ASSUME restarts' + outages' = 0 PROVE Box!AllUpwards'
  <2>1. Box!AllUpwards
    BY <1>2, <1>6 DEF Box!MailboxesInv
  <2>2. Box!ToSet(pinning) = {} /\ events = <<>> /\ Box!ToSet(events) = {}
    BY <1>1, <2>1 DEF Box!ToSet, Box!Nothing, Box!AllUpwards
  <2>3. \A e \in Box!Read : e.topic \in Topics /\ e.n \in Nat /\ e.n <= tops[e.topic]
    BY <1>3, <2>1, <2>2, LeftIsStored DEF Box!AllUpwards
  <2>4. \A e \in Box!Read : e.n < topics'[e.topic]
    BY <1>1, <1>3, <2>3
  <2>5. \A t \in Topics : tops[t] < topics'[t]
    BY <1>1, <1>3
  <2>6. \A t \in Topics : \A n \in 0..Box!Settled(t)' - 1 : Box!Here(t, n)'
    BY <1>2, <2>1, MailboxSame
  <2> QED
    BY <1>2, <2>1, <2>2, <2>4, <2>5, <2>6 DEF Box!AllUpwards
<1> QED
  BY <1>4, <1>5, <1>6 DEF Box!MailboxesInv

(* The first entry of the stream is read next, and then its ordinal.       *)
LEMMA TakeEventKeeps == ASSUME Box!MailboxesAssumption, Box!MailboxesInv, Box!TakeEvent PROVE Box!MailboxesInv'
<1> DEFINE e == Head(events)
           rest == Tail(events)
<1>1. /\ pinning = Box!Nothing /\ events # <<>> /\ events' = rest
      /\ fetched' = Append(fetched, e) /\ pinning' = <<e>> /\ tops' = tops /\ topics' = topics /\ parsed' = parsed
      /\ UNCHANGED <<Box!sender, Box!mailbox>> /\ restarts' = restarts /\ outages' = outages
  BY DEF Box!TakeEvent, Box!bounds
<1>2. Box!TypeOK /\ Box!OnePlaceEach /\ events \in Seq(Box!Items) /\ fetched \in Seq(Box!Items) /\
          parsed \in Seq(Box!Items)
  BY MailboxesParts DEF Box!TypeOK
<1>3. /\ rest \in Seq(Box!Items) /\ e \in Box!Items /\ Box!ToSet(events) = {e} \cup Box!ToSet(rest)
      /\ e = events[1] /\ 1 \in DOMAIN events /\ \A i \in DOMAIN rest : i + 1 \in DOMAIN events /\
          rest[i] = events[i + 1]
  <2>1. /\ rest \in Seq(Box!Items) /\ e \in Box!Items /\ Box!ToSet(events) = {e} \cup Box!ToSet(rest) /\ e = events[1]
    BY <1>1, <1>2, HeadAndRest, TailIn, MailboxesOperators
  <2>2. Len(rest) = Len(events) - 1 /\ \A i \in 1..Len(rest) : rest[i] = events[i + 1]
    BY <1>1, <1>2, HeadTailProperties
  <2>3. Len(events) \in Nat \ {0} /\ DOMAIN events = 1..Len(events) /\ DOMAIN rest = 1..Len(rest) /\ Len(rest) \in Nat
    BY <1>1, <1>2, <2>1, LenProperties, EmptySeq
  <2> QED
    BY <2>1, <2>2, <2>3
<1>4. fetched' \in Seq(Box!Items) /\ Box!ToSet(fetched') = Box!ToSet(fetched) \cup {e} /\
          Box!Read' = Box!Read \cup {e}
  BY <1>1, <1>2, <1>3, AppendToSet, AppendProperties, MailboxesOperators DEF Box!Read
<1> HIDE DEF e, rest
<1>5. pinning' \in Seq(Box!Items) /\ Len(pinning') = 1 /\ Box!ToSet(pinning') = {e}
  BY <1>1, <1>3 DEF Box!ToSet
<1>6. Box!ToSet(pinning) = {}
  BY <1>1 DEF Box!ToSet, Box!Nothing
<1>7. Box!TypeOK' /\ Box!OnePlaceEach'
  <2>1. Box!Read' \cup Box!ToSet(events') \cup Box!ToSet(pinning') \subseteq UNION {Box!Stored(t) : t \in Topics}
    BY <1>1, <1>2, <1>3, <1>4, <1>5 DEF Box!OnePlaceEach
  <2>2. /\ tops' \in [Topics -> Int] /\ \A t \in Topics : tops'[t] \in -1..Box!Settled(t) - 1
        /\ topics' # Box!NoStream => topics' \in [Topics -> Nat] /\ \A t \in Topics : topics'[t] \in 0..Box!Settled(t)
        /\ restarts' \in Nat /\ outages' \in Nat
    BY <1>1, <1>2 DEF Box!TypeOK
  <2>3. events' \in Seq(Box!Items) /\ parsed' \in Seq(Box!Items) /\ Len(pinning') <= 1
    BY <1>1, <1>2, <1>3, <1>5
  <2> QED
    BY <1>1, <1>4, <1>5, <2>1, <2>2, <2>3, ClientTyped
<1>8. \A t \in Topics : Box!Stored(t)' = Box!Stored(t)
  BY <1>1, MailboxSame
<1>9. e.topic \in Topics /\ e.n \in Nat /\ \A i \in DOMAIN rest : rest[i].topic \in Topics
  BY <1>1, <1>2, <1>3, LeftIsStored DEF Box!ToSet, Box!Items
<1>10. ASSUME restarts' = 0 PROVE Box!AllBelow'
  <2>1. Box!AllBelow
    BY <1>1, <1>10 DEF Box!MailboxesInv
  <2>2. ASSUME NEW x \in Box!Stored(e.topic), x.n <= e.n PROVE x \in Box!Read'
    <3>1. Box!Upto(1) = {e}
      BY <1>3 DEF Box!Upto
    <3> QED
      BY <1>3, <1>4, <2>1, <2>2, <3>1 DEF Box!AllBelow
  <2>3. ASSUME NEW i \in DOMAIN rest, NEW x \in Box!Stored(rest[i].topic), x.n <= rest[i].n
        PROVE  x \in Box!Read' \cup Box!Upto(i)'
    <3>1. i + 1 \in DOMAIN events /\ rest[i] = events[i + 1]
      BY <1>3
    <3>2. x \in Box!Read \cup Box!Upto(i + 1)
      BY <2>1, <2>3, <3>1 DEF Box!AllBelow
    <3>3. i \in Nat /\ DOMAIN rest = 1..Len(rest) /\ Len(rest) \in Nat
      BY <1>3, LenProperties
    <3>4. Box!Upto(i + 1) \subseteq {e} \cup Box!Upto(i)'
      <4> SUFFICES ASSUME NEW j \in 1..i + 1 PROVE events[j] \in {e} \cup {rest[k] : k \in 1..i}
        BY <1>1 DEF Box!Upto
      <4>1. CASE j = 1
        BY <4>1, <1>3
      <4>2. CASE j # 1
        <5>1. j - 1 \in 1..i /\ j - 1 \in DOMAIN rest /\ (j - 1) + 1 = j
          BY <4>2, <3>3
        <5> QED
          BY <5>1, <1>3
      <4> QED
        BY <4>1, <4>2
    <3> QED
      BY <1>4, <3>2, <3>4
  <2>4. \A t \in Topics : \A x \in Box!Stored(t) : x.n <= tops[t] => x \in Box!Read'
    BY <1>4, <2>1 DEF Box!AllBelow
  <2>5. topics # Box!NoStream => \A t \in Topics : \A x \in Box!Stored(t) : x.n < topics[t] =>
            x \in Box!Read' \cup Box!ToSet(rest)
    BY <1>3, <1>4, <2>1 DEF Box!AllBelow
  <2> QED
    BY <1>1, <1>5, <1>8, <1>9, <2>2, <2>3, <2>4, <2>5 DEF Box!AllBelow
<1>11. ASSUME restarts' + outages' = 0 PROVE Box!AllUpwards'
  <2>1. Box!AllUpwards
    BY <1>1, <1>11 DEF Box!MailboxesInv
  <2>2. Box!Upwards(rest) /\ Box!Precedes({e}, Box!ToSet(rest))
    BY <1>1, <1>2, <2>1, UpwardsTail DEF Box!AllUpwards, e, rest
  <2>3. Box!Precedes(Box!Read, {e}) /\ Box!Precedes(Box!Read, Box!ToSet(rest)) /\ tops[e.topic] < e.n
    BY <1>3, <2>1 DEF Box!AllUpwards, Box!Precedes
  <2>4. Box!Upwards(fetched')
    <3>1. Box!Precedes(Box!ToSet(fetched), {e}) /\ Box!Upwards(fetched)
      BY <2>1, <2>3 DEF Box!Precedes, Box!Read, Box!AllUpwards
    <3> QED
      BY <1>1, <1>2, <1>3, <3>1, UpwardsAppend
  <2>5. Box!Precedes(Box!ToSet(parsed'), Box!ToSet(fetched')) /\ Box!Precedes(Box!Read', Box!ToSet(events'))
    BY <1>1, <1>4, <2>1, <2>2, <2>3 DEF Box!Precedes, Box!Read, Box!AllUpwards
  <2>6. \A x \in Box!Read' : x \in Box!ToSet(pinning') \/ x.n <= tops[x.topic]
    BY <1>4, <1>5, <1>6, <2>1 DEF Box!AllUpwards
  <2>7. topics # Box!NoStream
    BY <1>1, <2>1 DEF Box!AllUpwards
  <2>8. \A x \in Box!Read' \cup Box!ToSet(rest) : x.n < topics[x.topic]
    BY <1>3, <1>4, <2>1, <2>7 DEF Box!AllUpwards
  <2>9. \A t \in Topics : \A n \in 0..Box!Settled(t)' - 1 : Box!Here(t, n)'
    BY <1>1, <2>1, MailboxSame
  <2>10. Box!Upwards(parsed') /\ Box!Upwards(events')
    BY <1>1, <2>1, <2>2 DEF Box!AllUpwards
  <2>11. \A x \in Box!ToSet(rest) : tops[x.topic] < x.n
    BY <1>3, <2>1 DEF Box!AllUpwards
  <2>12. \A t \in Topics : tops[t] < topics[t]
    BY <2>1, <2>7 DEF Box!AllUpwards
  <2> QED
    BY <1>1, <1>4, <1>5, <2>3, <2>4, <2>5, <2>6, <2>7, <2>8, <2>9, <2>10, <2>11, <2>12 DEF Box!AllUpwards
<1> QED
  BY <1>7, <1>10, <1>11 DEF Box!MailboxesInv

(* An ordinal is recorded after its entry, and those below it, were read.  *)
LEMMA PinTopicsKeeps == ASSUME Box!MailboxesAssumption, Box!MailboxesInv, Box!PinTopics PROVE Box!MailboxesInv'
<1> DEFINE e == Head(pinning)
<1>1. /\ pinning # Box!Nothing /\ pinning' = Box!Nothing /\ tops' = [tops EXCEPT ![e.topic] = e.n]
      /\ events' = events /\ fetched' = fetched /\ topics' = topics /\ parsed' = parsed /\ Box!Read' = Box!Read
      /\ UNCHANGED <<Box!sender, Box!mailbox>> /\ restarts' = restarts /\ outages' = outages
  BY DEF Box!PinTopics, Box!bounds, Box!Read
<1>2. Box!TypeOK /\ Box!OnePlaceEach /\ pinning \in Seq(Box!Items) /\ Len(pinning) <= 1 /\ tops \in [Topics -> Int]
  BY MailboxesParts DEF Box!TypeOK
<1>3. Box!ToSet(pinning) = {e} /\ e \in Box!Items
  BY <1>1, <1>2, OnlyOne, MailboxesOperators DEF Box!Nothing
<1> HIDE DEF e
<1>4. e.topic \in Topics /\ e.n \in Nat /\ e.n < Box!Settled(e.topic)
  BY <1>2, <1>3, LeftIsStored
<1>5. tops' \in [Topics -> Int] /\ tops'[e.topic] = e.n /\ \A t \in Topics \ {e.topic} : tops'[t] = tops[t]
  BY <1>1, <1>2, <1>4
<1>6. /\ Box!ToSet(pinning') = {} /\ pinning' \in Seq(Box!Items) /\ Len(pinning') = 0
      /\ \A t \in Topics : Box!Stored(t)' = Box!Stored(t) /\ Box!Settled(t) \in Nat
  BY <1>1, MailboxSame DEF Box!ToSet, Box!Nothing
<1>7. Box!TypeOK' /\ Box!OnePlaceEach'
  <2>1. \A t \in Topics : tops'[t] \in -1..Box!Settled(t) - 1
    <3> SUFFICES ASSUME NEW t \in Topics PROVE tops'[t] \in -1..Box!Settled(t) - 1
      OBVIOUS
    <3>1. Box!Settled(t) \in Nat
      BY <1>6
    <3>2. CASE t = e.topic
      BY <3>1, <3>2, <1>4, <1>5
    <3>3. CASE t # e.topic
      <4>1. tops[t] \in -1..Box!Settled(t) - 1 /\ tops'[t] = tops[t]
        BY <3>3, <1>2, <1>5 DEF Box!TypeOK
      <4> QED
        BY <4>1
    <3> QED
      BY <3>2, <3>3
  <2>2. Box!Read' \cup Box!ToSet(events') \cup Box!ToSet(pinning') \subseteq UNION {Box!Stored(t) : t \in Topics}
    BY <1>1, <1>2, <1>6 DEF Box!OnePlaceEach
  <2>3. /\ topics' # Box!NoStream => topics' \in [Topics -> Nat] /\ \A t \in Topics : topics'[t] \in 0..Box!Settled(t)
        /\ restarts' \in Nat /\ outages' \in Nat
    BY <1>1, <1>2 DEF Box!TypeOK
  <2>4. /\ events' \in Seq(Box!Items) /\ parsed' \in Seq(Box!Items) /\ fetched' \in Seq(Box!Items)
        /\ Len(pinning') <= 1 /\ tops' \in [Topics -> Int] /\ pinning' \in Seq(Box!Items)
    BY <1>1, <1>2, <1>5, <1>6 DEF Box!TypeOK
  <2> QED
    BY <1>1, <2>1, <2>2, <2>3, <2>4, ClientTyped
<1>8. ASSUME restarts' = 0 PROVE Box!AllBelow'
  <2>1. Box!AllBelow
    BY <1>1, <1>8 DEF Box!MailboxesInv
  <2>2. \A t \in Topics : \A x \in Box!Stored(t) : x.n <= tops'[t] => x \in Box!Read
    BY <1>3, <1>5, <2>1 DEF Box!AllBelow
  <2>3. \A i \in DOMAIN events : events[i].topic \in Topics /\ Box!Upto(i)' = Box!Upto(i)
    BY <1>1, <1>2, LeftIsStored DEF Box!ToSet, Box!Upto
  <2> QED
    BY <1>1, <1>6, <2>1, <2>2, <2>3 DEF Box!AllBelow
<1>9. ASSUME restarts' + outages' = 0 PROVE Box!AllUpwards'
  <2>1. Box!AllUpwards
    BY <1>1, <1>9 DEF Box!MailboxesInv
  <2>2. e \in Box!Read /\ tops[e.topic] < e.n
    BY <1>3, <2>1 DEF Box!AllUpwards
  <2>3. \A x \in Box!Read : x.topic \in Topics /\ x.n \in Nat /\ x.n <= tops'[x.topic]
    <3> SUFFICES ASSUME NEW x \in Box!Read PROVE x.topic \in Topics /\ x.n \in Nat /\ x.n <= tops'[x.topic]
      OBVIOUS
    <3>1. x.topic \in Topics /\ x.n \in Nat /\ (x = e \/ x.n <= tops[x.topic])
      BY <1>2, <1>3, <2>1, LeftIsStored DEF Box!AllUpwards
    <3>2. tops[x.topic] \in Int /\ tops[e.topic] \in Int
      BY <1>2, <1>4, <3>1
    <3> QED
      BY <1>4, <1>5, <2>2, <3>1, <3>2
  <2>4. \A x \in Box!ToSet(events) : tops'[x.topic] < x.n
    <3> SUFFICES ASSUME NEW x \in Box!ToSet(events) PROVE tops'[x.topic] < x.n
      OBVIOUS
    <3>1. x.topic \in Topics /\ tops[x.topic] < x.n /\ Box!Before(e, x)
      BY <1>2, <2>1, <2>2, LeftIsStored DEF Box!AllUpwards, Box!Precedes
    <3> QED
      BY <1>5, <3>1 DEF Box!Before
  <2>5. topics # Box!NoStream => \A t \in Topics : tops'[t] < topics[t]
    BY <1>5, <2>1, <2>2 DEF Box!AllUpwards
  <2>6. \A t \in Topics : \A n \in 0..Box!Settled(t)' - 1 : Box!Here(t, n)'
    BY <1>1, <2>1, MailboxSame
  <2> QED
    BY <1>1, <1>6, <2>1, <2>3, <2>4, <2>5, <2>6 DEF Box!AllUpwards
<1> QED
  BY <1>7, <1>8, <1>9 DEF Box!MailboxesInv

(* What the stream had brought is asked for again.                         *)
LEMMA TimeoutStreamKeeps == ASSUME Box!MailboxesAssumption, Box!MailboxesInv, Box!TimeoutStream
  PROVE Box!MailboxesInv'
<1>1. /\ topics' = Box!NoStream /\ events' = <<>> /\ fetched' = fetched /\ parsed' = parsed /\ pinning' = pinning
      /\ tops' = tops /\ Box!Read' = Box!Read /\ restarts' = restarts /\ outages' = outages /\
          UNCHANGED <<Box!sender, Box!mailbox>>
  BY DEF Box!TimeoutStream, Box!Read
<1>2. Box!TypeOK /\ Box!OnePlaceEach /\ Box!ToSet(events') = {} /\ events' \in Seq(Box!Items) /\ DOMAIN events' = {}
  BY <1>1, MailboxesParts DEF Box!ToSet
<1>3. Box!TypeOK' /\ Box!OnePlaceEach'
  <2>1. Box!Read' \cup Box!ToSet(events') \cup Box!ToSet(pinning') \subseteq UNION {Box!Stored(t) : t \in Topics}
    BY <1>1, <1>2 DEF Box!OnePlaceEach
  <2>2. /\ tops' \in [Topics -> Int] /\ \A t \in Topics : tops'[t] \in -1..Box!Settled(t) - 1
        /\ restarts' \in Nat /\ outages' \in Nat /\ parsed' \in Seq(Box!Items) /\ fetched' \in Seq(Box!Items)
        /\ pinning' \in Seq(Box!Items) /\ Len(pinning') <= 1
    BY <1>1, <1>2 DEF Box!TypeOK
  <2> QED
    BY <1>1, <1>2, <2>1, <2>2, ClientTyped
<1>4. \A t \in Topics : Box!Stored(t)' = Box!Stored(t)
  BY <1>1, MailboxSame
<1>5. \A p \in Box!ToSet(pinning) : p.topic \in Topics
  BY <1>2, LeftIsStored
<1>6. ASSUME restarts' = 0 PROVE Box!AllBelow'
  <2>1. Box!AllBelow
    BY <1>1, <1>6 DEF Box!MailboxesInv
  <2> QED
    BY <1>1, <1>2, <1>4, <1>5, <2>1 DEF Box!AllBelow
<1>7. ASSUME restarts' + outages' = 0 PROVE Box!AllUpwards'
  <2>1. Box!AllUpwards
    BY <1>1, <1>7 DEF Box!MailboxesInv
  <2>2. \A t \in Topics : \A n \in 0..Box!Settled(t)' - 1 : Box!Here(t, n)'
    BY <1>1, <2>1, MailboxSame
  <2>3. Box!Upwards(events') /\ Box!Precedes(Box!Read', Box!ToSet(events'))
    BY <1>2 DEF Box!Upwards, Box!Precedes
  <2> QED
    BY <1>1, <1>2, <2>1, <2>2, <2>3 DEF Box!AllUpwards
<1> QED
  BY <1>3, <1>6, <1>7 DEF Box!MailboxesInv

(* The parser takes what was fetched first.                                *)
LEMMA ParseFetchedKeeps == ASSUME Box!MailboxesAssumption, Box!MailboxesInv, Box!ParseFetched PROVE Box!MailboxesInv'
<1> DEFINE e == Head(fetched)
           rest == Tail(fetched)
<1>1. /\ fetched # <<>> /\ fetched' = rest /\ parsed' = Append(parsed, e)
      /\ topics' = topics /\ events' = events /\ pinning' = pinning
      /\ tops' = tops /\ restarts' = restarts /\ outages' = outages /\ UNCHANGED <<Box!sender, Box!mailbox>>
  BY DEF Box!ParseFetched, Box!bounds
<1>2. Box!TypeOK /\ Box!OnePlaceEach /\ fetched \in Seq(Box!Items) /\ parsed \in Seq(Box!Items)
  BY MailboxesParts DEF Box!TypeOK
<1>3. rest \in Seq(Box!Items) /\ e \in Box!Items /\ Box!ToSet(fetched) = {e} \cup Box!ToSet(rest)
  BY <1>1, <1>2, HeadAndRest, MailboxesOperators
<1>4. /\ parsed' \in Seq(Box!Items) /\ Box!ToSet(parsed') = Box!ToSet(parsed) \cup {e} /\ Box!Read' = Box!Read
  BY <1>1, <1>2, <1>3, AppendToSet, AppendProperties, MailboxesOperators DEF Box!Read
<1> HIDE DEF e, rest
<1>5. Box!TypeOK' /\ Box!OnePlaceEach'
  <2>1. Box!Read' \cup Box!ToSet(events') \cup Box!ToSet(pinning') \subseteq UNION {Box!Stored(t) : t \in Topics}
    BY <1>1, <1>2, <1>4 DEF Box!OnePlaceEach
  <2>2. /\ tops' \in [Topics -> Int] /\ \A t \in Topics : tops'[t] \in -1..Box!Settled(t) - 1
        /\ topics' # Box!NoStream => topics' \in [Topics -> Nat] /\ \A t \in Topics : topics'[t] \in 0..Box!Settled(t)
        /\ restarts' \in Nat /\ outages' \in Nat /\ events' \in Seq(Box!Items)
        /\ pinning' \in Seq(Box!Items) /\ Len(pinning') <= 1
    BY <1>1, <1>2 DEF Box!TypeOK
  <2> QED
    BY <1>1, <1>3, <1>4, <2>1, <2>2, ClientTyped
<1>6. \A t \in Topics : Box!Stored(t)' = Box!Stored(t)
  BY <1>1, MailboxSame
<1>7. \A p \in Box!ToSet(pinning) \cup Box!ToSet(events) : p.topic \in Topics
  BY <1>2, LeftIsStored
<1>8. \A i \in DOMAIN events : events[i].topic \in Topics /\ Box!Upto(i)' = Box!Upto(i)
  BY <1>1, <1>7 DEF Box!ToSet, Box!Upto
<1>9. ASSUME restarts' = 0 PROVE Box!AllBelow'
  <2>1. Box!AllBelow
    BY <1>1, <1>9 DEF Box!MailboxesInv
  <2> QED
    BY <1>1, <1>4, <1>6, <1>7, <1>8, <2>1 DEF Box!AllBelow
<1>10. ASSUME restarts' + outages' = 0 PROVE Box!AllUpwards'
  <2>1. Box!AllUpwards
    BY <1>1, <1>10 DEF Box!MailboxesInv
  <2>2. \A t \in Topics : \A n \in 0..Box!Settled(t)' - 1 : Box!Here(t, n)'
    BY <1>1, <2>1, MailboxSame
  <2>3. Box!Upwards(rest) /\ Box!Precedes({e}, Box!ToSet(rest))
    BY <1>1, <1>2, <2>1, UpwardsTail DEF Box!AllUpwards, e, rest
  <2>4. Box!Precedes(Box!ToSet(parsed), {e}) /\ Box!Precedes(Box!ToSet(parsed), Box!ToSet(rest)) /\
            Box!Upwards(parsed)
    BY <1>3, <2>1 DEF Box!AllUpwards, Box!Precedes
  <2>5. Box!Upwards(parsed') /\ Box!Precedes(Box!ToSet(parsed'), Box!ToSet(fetched'))
    <3>1. Box!Upwards(parsed')
      BY <1>1, <1>2, <1>3, <2>4, UpwardsAppend
    <3> QED
      BY <1>1, <1>4, <2>3, <2>4, <3>1 DEF Box!Precedes
  <2> QED
    BY <1>1, <1>4, <2>1, <2>2, <2>3, <2>5 DEF Box!AllUpwards
<1> QED
  BY <1>5, <1>9, <1>10 DEF Box!MailboxesInv

(* A restart of the reader forgets what waits.                             *)
LEMMA RestartClientKeeps == ASSUME Box!MailboxesAssumption, Box!MailboxesInv, Box!RestartClient
  PROVE Box!MailboxesInv'
<1>1. /\ topics' = Box!NoStream /\ events' = <<>> /\ fetched' = <<>> /\ pinning' = Box!Nothing /\ parsed' = parsed
      /\ tops' = tops /\ restarts' = restarts + 1 /\ outages' = outages /\ UNCHANGED <<Box!sender, Box!mailbox>>
  BY DEF Box!RestartClient
<1>2. Box!TypeOK /\ Box!OnePlaceEach /\ restarts \in Nat /\ outages \in Nat
  BY MailboxesParts
<1>3. /\ Box!ToSet(events') = {} /\ Box!ToSet(fetched') = {} /\ Box!ToSet(pinning') = {} /\
          Box!Read' \subseteq Box!Read
      /\ events' \in Seq(Box!Items) /\ fetched' \in Seq(Box!Items) /\ pinning' \in Seq(Box!Items) /\ Len(pinning') = 0
  BY <1>1 DEF Box!ToSet, Box!Nothing, Box!Read
<1>4. restarts' \in Nat /\ outages' \in Nat /\ restarts' # 0 /\ restarts' + outages' # 0
  BY <1>1, <1>2
<1>5. Box!TypeOK' /\ Box!OnePlaceEach'
  <2>1. Box!Read' \cup Box!ToSet(events') \cup Box!ToSet(pinning') \subseteq UNION {Box!Stored(t) : t \in Topics}
    BY <1>2, <1>3 DEF Box!OnePlaceEach
  <2>2. /\ tops' \in [Topics -> Int] /\ \A t \in Topics : tops'[t] \in -1..Box!Settled(t) - 1
        /\ parsed' \in Seq(Box!Items) /\ Len(pinning') <= 1
    BY <1>1, <1>2, <1>3 DEF Box!TypeOK
  <2> QED
    BY <1>1, <1>3, <1>4, <2>1, <2>2, ClientTyped
<1> QED
  BY <1>4, <1>5 DEF Box!MailboxesInv

-----------------------------------------------------------------------------
(* What the stream brings                                                  *)

(* What a topic has from the stream's ordinal on.                          *)
LEMMA IterFacts ==
  ASSUME Box!TypeOK, Box!OnePlaceEach, topics # Box!NoStream, NEW t \in Topics
  PROVE  LET C == Box!cloneTopicIter(t, topics[t]) IN
         /\ topics[t] \in Nat /\ Box!Settled(t) \in Nat /\ topics[t] <= Box!Settled(t)
         /\ C \subseteq topics[t]..Box!Settled(t) - 1 /\ \A n \in C : Box!Entry(t, n) \in Box!Stored(t)
         /\ Box!IsFiniteSet(C) /\ Box!Cardinality(C) \in Nat /\ topics[t] + Box!Cardinality(C) <= Box!Settled(t)
         /\ (\A n \in 0..Box!Settled(t) - 1 : Box!Here(t, n)) => topics[t] + Box!Cardinality(C) = Box!Settled(t)
<1> DEFINE C == Box!cloneTopicIter(t, topics[t])
           I == topics[t]..Box!Settled(t) - 1
<1>1. /\ topics[t] \in Nat /\ topics[t] <= Box!Settled(t) /\ Box!Settled(t) \in Nat
      /\ Len(tpcs[t]) \in Nat /\ Box!Settled(t) <= Len(tpcs[t])
  BY SettledFacts DEF Box!TypeOK
<1>2. ASSUME NEW n \in C PROVE n \in I /\ Box!Entry(t, n) \in Box!Stored(t)
  <2>1. n \in topics[t]..Len(tpcs[t]) - 1 /\ Box!Here(t, n)
    BY DEF Box!cloneTopicIter
  <2>2. n \in 0..Len(tpcs[t]) - 1 /\ n \in Nat /\ topics[t] <= n
    BY <1>1, <2>1
  <2>3. Box!Entry(t, n) \in Box!Stored(t)
    BY <2>1, <2>2 DEF Box!Stored
  <2>4. Box!Entry(t, n).n < Box!Settled(t)
    BY <2>3, StoredFacts
  <2>5. n < Box!Settled(t)
    BY <2>4 DEF Box!Entry
  <2> QED
    BY <1>1, <2>2, <2>3, <2>5
<1>3. Box!IsFiniteSet(I) /\ Box!Cardinality(I) = Box!Settled(t) - topics[t]
  <2>1. topics[t] \in Int /\ Box!Settled(t) - 1 \in Int
    BY <1>1
  <2>2. Box!IsFiniteSet(I) /\
            Box!Cardinality(I) = IF topics[t] > Box!Settled(t) - 1 THEN 0 ELSE (Box!Settled(t) - 1) - topics[t] + 1
    BY <2>1, FS_Interval, MailboxesOperators
  <2> QED
    BY <1>1, <2>2
<1>4. C \in SUBSET I
  BY <1>2
<1>5. Box!IsFiniteSet(C) /\ Box!Cardinality(C) <= Box!Cardinality(I) /\ Box!Cardinality(C) \in Nat
  BY <1>3, <1>4, FS_Subset, FS_CardinalityType, MailboxesOperators
<1>6. topics[t] + Box!Cardinality(C) <= Box!Settled(t)
  BY <1>1, <1>3, <1>5
<1>7. ASSUME \A n \in 0..Box!Settled(t) - 1 : Box!Here(t, n) PROVE topics[t] + Box!Cardinality(C) = Box!Settled(t)
  <2>1. ASSUME NEW n \in I PROVE n \in C
    <3>1. n \in 0..Box!Settled(t) - 1 /\ n \in topics[t]..Len(tpcs[t]) - 1
      BY <1>1
    <3> QED
      BY <1>7, <3>1 DEF Box!cloneTopicIter
  <2>2. C = I
    BY <1>4, <2>1
  <2> QED
    BY <1>1, <1>3, <2>2
<1> QED
  BY <1>1, <1>2, <1>5, <1>6, <1>7

(* What is due is finite, stored, and not before the stream's ordinal.     *)
LEMMA DueFacts ==
  ASSUME Box!MailboxesAssumption, Box!TypeOK, Box!OnePlaceEach, topics # Box!NoStream
  PROVE  /\ Box!IsFiniteSet(Box!Due) /\ Box!Cardinality(Box!Due) \in Nat
         /\ \A e \in Box!Due :
              /\ e \in Box!Items /\ e.topic \in Topics /\ e.n \in Nat
              /\ e \in Box!Stored(e.topic) /\ topics[e.topic] <= e.n /\ e.n < Box!Settled(e.topic)
         /\ \A t \in Topics : \A e \in Box!Stored(t) : e.n >= topics[t] => e \in Box!Due
<1> DEFINE C(t) == Box!cloneTopicIter(t, topics[t])
           D(t) == {Box!Entry(t, n) : n \in C(t)}
<1>1. ASSUME NEW t \in Topics PROVE Box!IsFiniteSet(D(t))
  <2> DEFINE f == [n \in C(t) |-> Box!Entry(t, n)]
  <2>1. Box!IsFiniteSet(C(t))
    BY IterFacts
  <2>2. f \in Surjection(C(t), D(t))
    BY DEF Surjection
  <2> QED
    BY <2>1, <2>2, FS_Surjection, MailboxesOperators
<1>2. Box!IsFiniteSet({D(t) : t \in Topics})
  <2> DEFINE g == [t \in Topics |-> D(t)]
  <2>1. g \in Surjection(Topics, {D(t) : t \in Topics})
    BY DEF Surjection
  <2> QED
    BY <2>1, FS_Surjection, MailboxesOperators DEF Box!MailboxesAssumption
<1>3. Box!Due = UNION {D(t) : t \in Topics}
  BY DEF Box!Due
<1>4. Box!IsFiniteSet(Box!Due)
  <2> DEFINE T == {D(t) : t \in Topics}
  <2>1. \A x \in T : Box!IsFiniteSet(x)
    BY <1>1
  <2> HIDE DEF T
  <2>2. Box!IsFiniteSet(UNION T)
    BY <1>2, <2>1, FS_UNION, MailboxesOperators DEF T
  <2> QED
    BY <1>3, <2>2 DEF T
<1>5. ASSUME NEW e \in Box!Due
      PROVE  /\ e \in Box!Items /\ e.topic \in Topics /\ e.n \in Nat
             /\ e \in Box!Stored(e.topic) /\ topics[e.topic] <= e.n /\ e.n < Box!Settled(e.topic)
  <2>1. PICK t \in Topics : \E n \in C(t) : e = Box!Entry(t, n)
    BY <1>3
  <2>2. PICK n \in C(t) : e = Box!Entry(t, n)
    BY <2>1
  <2>3. e.topic = t /\ e.n = n
    BY <2>2 DEF Box!Entry
  <2>4. n \in topics[t]..Box!Settled(t) - 1 /\ Box!Entry(t, n) \in Box!Stored(t) /\ topics[t] \in Nat /\
            Box!Settled(t) \in Nat
    BY IterFacts
  <2>5. n \in Nat /\ topics[t] <= n /\ n < Box!Settled(t)
    BY <2>4
  <2>6. e \in Box!Items
    BY <2>2, <2>5 DEF Box!Entry, Box!Items
  <2> QED
    BY <2>2, <2>3, <2>4, <2>5, <2>6
<1>6. ASSUME NEW t \in Topics, NEW e \in Box!Stored(t), e.n >= topics[t] PROVE e \in Box!Due
  <2>1. e.n \in 0..Len(tpcs[t]) - 1 /\ Box!Here(t, e.n) /\ e = Box!Entry(t, e.n) /\ topics[t] \in Nat /\
            Len(tpcs[t]) \in Nat
    BY StoredFacts, SettledFacts, IterFacts
  <2>2. e.n \in topics[t]..Len(tpcs[t]) - 1
    BY <1>6, <2>1
  <2>3. e.n \in C(t)
    BY <2>1, <2>2 DEF Box!cloneTopicIter
  <2> QED
    BY <1>3, <2>1, <2>3
<1> QED
  BY <1>4, <1>5, <1>6, FS_CardinalityType, MailboxesOperators

(* What comes in turn goes upwards.                                        *)
LEMMA InTurnUpwards ==
  ASSUME NEW s \in Seq(Box!Items), Box!InTurn(s)
  PROVE  Box!Upwards(s)
BY DEF Box!InTurn, Box!Upwards, Box!Before

(* A turn of the stream brings all that can be read from its ordinals on.  *)
LEMMA NextItemsKeeps == ASSUME Box!MailboxesAssumption, Box!MailboxesInv, Box!NextItems PROVE Box!MailboxesInv'
<1>1. PICK items \in [1..Box!Cardinality(Box!Due) -> Box!Due] :
        Box!ToSet(items) = Box!Due /\ Box!InTurn(items) /\ events' = events \o items
  BY DEF Box!NextItems
<1>2. /\ topics # Box!NoStream /\
          topics' = [t \in Topics |-> topics[t] + Box!Cardinality(Box!cloneTopicIter(t, topics[t]))]
      /\ fetched' = fetched /\ parsed' = parsed /\ pinning' = pinning
      /\ tops' = tops /\ Box!Read' = Box!Read /\ restarts' = restarts /\ outages' = outages /\
          UNCHANGED <<Box!sender, Box!mailbox>>
  BY DEF Box!NextItems, Box!bounds, Box!Read
<1>3. Box!TypeOK /\ Box!OnePlaceEach /\ events \in Seq(Box!Items)
  BY MailboxesParts DEF Box!TypeOK
<1>4. /\ \A e \in Box!Due :
           /\ e \in Box!Items /\ e.topic \in Topics /\ e.n \in Nat
           /\ e \in Box!Stored(e.topic) /\ topics[e.topic] <= e.n /\ e.n < Box!Settled(e.topic)
      /\ \A t \in Topics : \A e \in Box!Stored(t) : e.n >= topics[t] => e \in Box!Due
      /\ Box!Cardinality(Box!Due) \in Nat
  BY <1>2, <1>3, DueFacts
<1>5. items \in Seq(Box!Items) /\ DOMAIN items = 1..Box!Cardinality(Box!Due) /\ Len(items) = Box!Cardinality(Box!Due)
  <2>1. items \in [1..Box!Cardinality(Box!Due) -> Box!Items]
    BY <1>4
  <2> QED
    BY <1>4, <2>1, SeqDef, LenProperties
<1>6. events' \in Seq(Box!Items) /\ Box!ToSet(events') = Box!ToSet(events) \cup Box!Due
  BY <1>1, <1>3, <1>5, BothParts, MailboxesOperators
<1>7. /\ Len(events) \in Nat /\ DOMAIN events = 1..Len(events) /\ DOMAIN events' = 1..Len(events) + Len(items)
      /\ \A i \in 1..Len(events) : events'[i] = events[i]
      /\ \A i \in 1..Len(items) : events'[Len(events) + i] = items[i]
  <2>1. /\ Len(events') = Len(events) + Len(items) /\ Len(items) \in Nat /\ Len(events) \in Nat
        /\ \A i \in 1..Len(events) + Len(items) :
             events'[i] = IF i <= Len(events) THEN events[i] ELSE items[i - Len(events)]
    BY <1>1, <1>3, <1>5, ConcatProperties, LenProperties
  <2>2. DOMAIN events' = 1..Len(events') /\ DOMAIN events = 1..Len(events)
    BY <1>3, <1>6, LenProperties
  <2>3. \A i \in 1..Len(events) : events'[i] = events[i]
    BY <2>1
  <2>4. \A i \in 1..Len(items) : events'[Len(events) + i] = items[i]
    <3> SUFFICES ASSUME NEW i \in 1..Len(items) PROVE events'[Len(events) + i] = items[i]
      OBVIOUS
    <3>1. Len(events) + i \in 1..Len(events) + Len(items) /\ ~(Len(events) + i <= Len(events))
          /\ (Len(events) + i) - Len(events) = i
      BY <2>1
    <3> QED
      BY <2>1, <3>1
  <2> QED
    BY <2>1, <2>2, <2>3, <2>4
<1>8. \A t \in Topics : topics[t] \in Nat /\ topics'[t] \in Nat /\ topics[t] <= topics'[t] /\
          topics'[t] <= Box!Settled(t)
      /\ Box!Settled(t) \in Nat
  <2> SUFFICES ASSUME NEW t \in Topics
               PROVE  topics[t] \in Nat /\ topics'[t] \in Nat /\ topics[t] <= topics'[t] /\
                   topics'[t] <= Box!Settled(t)
                      /\ Box!Settled(t) \in Nat
    OBVIOUS
  <2> DEFINE c == Box!Cardinality(Box!cloneTopicIter(t, topics[t]))
  <2>1. topics[t] \in Nat /\ c \in Nat /\ Box!Settled(t) \in Nat /\ topics[t] + c <= Box!Settled(t) /\
            topics'[t] = topics[t] + c
    BY <1>2, <1>3, IterFacts
  <2> HIDE DEF c
  <2> QED
    BY <2>1
<1>9. Box!TypeOK' /\ Box!OnePlaceEach'
  <2>1. Box!Read' \cup Box!ToSet(events') \cup Box!ToSet(pinning') \subseteq UNION {Box!Stored(t) : t \in Topics}
    BY <1>2, <1>3, <1>4, <1>6 DEF Box!OnePlaceEach
  <2>2. /\ tops' \in [Topics -> Int] /\ \A t \in Topics : tops'[t] \in -1..Box!Settled(t) - 1
        /\ restarts' \in Nat /\ outages' \in Nat /\ parsed' \in Seq(Box!Items) /\ fetched' \in Seq(Box!Items)
        /\ pinning' \in Seq(Box!Items) /\ Len(pinning') <= 1
    BY <1>2, <1>3 DEF Box!TypeOK
  <2>3. topics' \in [Topics -> Nat]
    BY <1>2, <1>8
  <2>4. \A t \in Topics : topics'[t] \in 0..Box!Settled(t)
    BY <1>8
  <2> QED
    BY <1>2, <1>6, <2>1, <2>2, <2>3, <2>4, ClientTyped
<1>10. \A t \in Topics : Box!Stored(t)' = Box!Stored(t)
  BY <1>2, MailboxSame
<1>11. \A p \in Box!ToSet(pinning) \cup Box!ToSet(events) \cup Box!Read : p.topic \in Topics /\ p.n \in Nat
  BY <1>3, LeftIsStored
<1>12. ASSUME restarts' = 0 PROVE Box!AllBelow'
  <2>1. Box!AllBelow
    BY <1>2, <1>12 DEF Box!MailboxesInv
  <2>2. ASSUME NEW t \in Topics, NEW e \in Box!Stored(t) PROVE e \in Box!Read \cup Box!ToSet(events) \/ e \in Box!Due
    <3>1. e.n \in Nat /\ topics[t] \in Nat
      BY <1>3, <1>8, StoredFacts DEF Box!Items
    <3>2. CASE e.n < topics[t]
      BY <3>2, <1>2, <2>1 DEF Box!AllBelow
    <3>3. CASE e.n >= topics[t]
      BY <3>3, <1>4
    <3> QED
      BY <3>1, <3>2, <3>3
  <2>3. \A i \in 1..Len(events) : Box!Upto(i)' = Box!Upto(i)
    BY <1>7 DEF Box!Upto
  <2>4. ASSUME NEW i \in 1..Len(events), NEW e \in Box!Stored(events[i].topic), e.n <= events[i].n
        PROVE  e \in Box!Read \cup Box!Upto(i)'
    BY <1>7, <2>1, <2>3, <2>4 DEF Box!AllBelow
  <2>5. ASSUME NEW j \in 1..Len(items), NEW i \in DOMAIN events', i = Len(events) + j,
               NEW e \in Box!Stored(items[j].topic), e.n <= items[j].n
        PROVE  e \in Box!Read \cup Box!Upto(i)'
    <3>1. items[j] \in Box!Due /\ items[j].topic \in Topics /\ items[j].n \in Nat
      BY <1>4, <1>5
    <3>2. e.topic = items[j].topic /\ e.n \in Nat
      BY <1>3, <3>1, StoredFacts DEF Box!Items
    <3>3. CASE e \in Box!Read
      BY <3>3
    <3>4. CASE e \in Box!ToSet(events)
      <4>1. PICK k \in 1..Len(events) : e = events[k]
        BY <1>7, <3>4 DEF Box!ToSet
      <4>2. k \in 1..i /\ e = events'[k]
        BY <1>5, <1>7, <2>5, <4>1
      <4> QED
        BY <4>2 DEF Box!Upto
    <3>5. CASE e \in Box!Due
      <4>1. PICK k \in 1..Len(items) : e = items[k]
        BY <1>1, <1>5, <3>5 DEF Box!ToSet
      <4>2. Len(items) \in Nat /\ DOMAIN items = 1..Len(items)
        BY <1>4, <1>5
      <4>3. ~(j < k)
        <5>1. j < k => items[j].n < items[k].n
          BY <1>1, <3>2, <4>1, <4>2 DEF Box!InTurn
        <5> QED
          BY <2>5, <3>1, <3>2, <4>1, <5>1
      <4>4. Len(events) + k \in 1..i
        BY <1>7, <2>5, <4>2, <4>3
      <4> QED
        BY <1>7, <4>1, <4>4 DEF Box!Upto
    <3> QED
      BY <3>1, <2>2, <3>3, <3>4, <3>5
  <2>6. ASSUME NEW i \in DOMAIN events', NEW e \in Box!Stored(events'[i].topic), e.n <= events'[i].n
        PROVE  e \in Box!Read \cup Box!Upto(i)'
    <3>1. CASE i \in 1..Len(events)
      BY <3>1, <1>7, <2>4, <2>6
    <3>2. CASE i \notin 1..Len(events)
      <4>1. PICK j \in 1..Len(items) : i = Len(events) + j
        <5> DEFINE j == i - Len(events)
        <5>1. j \in 1..Len(items) /\ i = Len(events) + j
          BY <3>2, <1>4, <1>5, <1>7
        <5> QED
          BY <5>1
      <4>2. events'[i] = items[j]
        BY <1>7, <4>1
      <4> QED
        BY <2>5, <2>6, <4>1, <4>2
    <3> QED
      BY <3>1, <3>2
  <2>7. \A i \in DOMAIN events' : events'[i].topic \in Topics
    BY <1>4, <1>6, <1>11 DEF Box!ToSet
  <2>8. \A t \in Topics : \A e \in Box!Stored(t) : e \in Box!Read \cup Box!ToSet(events')
    BY <1>6, <2>2
  <2> QED
    BY <1>2, <1>10, <1>11, <2>1, <2>6, <2>7, <2>8 DEF Box!AllBelow
<1>13. ASSUME restarts' + outages' = 0 PROVE Box!AllUpwards'
  <2>1. Box!AllUpwards
    BY <1>2, <1>13 DEF Box!MailboxesInv
  <2>2. \A t \in Topics : \A n \in 0..Box!Settled(t)' - 1 : Box!Here(t, n)'
    BY <1>2, <2>1, MailboxSame
  <2>3. \A e \in Box!Read \cup Box!ToSet(events) : e.n < topics[e.topic]
    BY <1>2, <2>1 DEF Box!AllUpwards
  <2>4. Box!Precedes(Box!Read \cup Box!ToSet(events), Box!Due)
    BY <1>4, <1>8, <1>11, <2>3 DEF Box!Precedes, Box!Before
  <2>5. Box!Upwards(events')
    <3>1. Box!Upwards(items) /\ Box!Upwards(events) /\ Box!Precedes(Box!ToSet(events), Box!ToSet(items))
      BY <1>1, <1>5, <2>1, <2>4, InTurnUpwards DEF Box!AllUpwards, Box!Precedes
    <3> QED
      BY <1>1, <1>3, <1>5, <3>1, UpwardsBoth
  <2>6. Box!Precedes(Box!Read', Box!ToSet(events'))
    BY <1>2, <1>6, <2>1, <2>4 DEF Box!AllUpwards, Box!Precedes
  <2>7. \A t \in Topics : tops[t] \in Int /\ tops[t] < topics[t] /\ tops[t] < topics'[t]
    BY <1>2, <1>3, <1>8, <2>1 DEF Box!AllUpwards, Box!TypeOK
  <2>8. \A e \in Box!ToSet(events') : tops[e.topic] < e.n
    <3>1. \A e \in Box!Due : tops[e.topic] < e.n
      BY <1>4, <1>8, <2>7
    <3> QED
      BY <1>6, <2>1, <3>1 DEF Box!AllUpwards
  <2>9. \A e \in Box!Read' \cup Box!ToSet(events') : e.n < topics'[e.topic]
    <3>1. \A e \in Box!Read \cup Box!ToSet(events) : e.n < topics'[e.topic]
      BY <1>8, <1>11, <2>3
    <3>2. ASSUME NEW e \in Box!Due PROVE e.n < topics'[e.topic]
      <4>1. \A n \in 0..Box!Settled(e.topic) - 1 : Box!Here(e.topic, n)
        BY <1>4, <2>1 DEF Box!AllUpwards
      <4>2. topics'[e.topic] = Box!Settled(e.topic)
        BY <1>2, <1>3, <1>4, <4>1, IterFacts
      <4> QED
        BY <1>4, <4>2
    <3> QED
      BY <1>2, <1>6, <3>1, <3>2
  <2>10. topics' # Box!NoStream
    <3>1. DOMAIN topics' = Topics /\ Topics # {}
      BY <1>2 DEF Box!MailboxesAssumption
    <3> QED
      BY <3>1 DEF Box!NoStream
  <2> QED
    BY <1>2, <2>1, <2>2, <2>5, <2>6, <2>7, <2>8, <2>9, <2>10 DEF Box!AllUpwards
<1> QED
  BY <1>9, <1>12, <1>13 DEF Box!MailboxesInv

-----------------------------------------------------------------------------
(* The invariant                                                           *)

(* Steps of others.                                                        *)
LEMMA MailboxesStutter == ASSUME Box!MailboxesInv, UNCHANGED Box!vars PROVE Box!MailboxesInv'
<1>1. /\ UNCHANGED <<evts, writing, tpcs, msgs, topics, events, fetched, pinning, tops, parsed, restarts, outages>>
      /\ UNCHANGED <<Box!sender, Box!mailbox>>
  BY DEF Box!vars, Box!mailbox, Box!client, Box!bounds, Box!sender
<1>2. \A t \in Topics : Box!Stored(t)' = Box!Stored(t) /\ Box!Settled(t)' = Box!Settled(t)
  BY <1>1, SameStored
<1>3. Box!Read' = Box!Read /\ (\A i : Box!Upto(i)' = Box!Upto(i)) /\
          \A t \in Topics : \A n \in Int : Box!Here(t, n)' = Box!Here(t, n)
  BY <1>1 DEF Box!Read, Box!Upto, Box!Here
<1>4. Box!TypeOK /\ Box!OnePlaceEach
  BY DEF Box!MailboxesInv
<1>5. \A p \in Box!ToSet(pinning) \cup Box!ToSet(events) : p.topic \in Topics
  BY <1>4, LeftIsStored
<1>6. \A i \in DOMAIN events : events[i].topic \in Topics
  BY <1>5 DEF Box!ToSet
<1>7. Box!TypeOK' /\ Box!OnePlaceEach'
  BY <1>1, <1>2, <1>3, <1>4 DEF Box!TypeOK, Box!OnePlaceEach
<1>8. Box!AllBelow => Box!AllBelow'
  BY <1>1, <1>2, <1>3, <1>5, <1>6 DEF Box!AllBelow
<1>9. Box!AllUpwards => Box!AllUpwards'
  BY <1>1, <1>2, <1>3 DEF Box!AllUpwards
<1> QED
  BY <1>1, <1>7, <1>8, <1>9 DEF Box!MailboxesInv

(* Every step keeps the invariant.                                         *)
LEMMA MailboxesStep == ASSUME Box!MailboxesAssumption, Box!MailboxesInv, [Box!Next]_(Box!vars) PROVE Box!MailboxesInv'
BY MailboxesStutter, DropHomelessKeeps, AppendTopicKeeps, StoreMsgKeeps, RestartMailboxKeeps, ConnectKeeps,
   NextItemsKeeps,
   TakeEventKeeps, PinTopicsKeeps, ParseFetchedKeeps, TimeoutStreamKeeps, RestartClientKeeps DEF Box!Next,
       Box!Loops, Box!Idle

(* The invariant holds of every behaviour of senders, mailboxes and their  *)
(* readers.                                                                *)
THEOREM MailboxesInvariant == ASSUME Box!MailboxesAssumption PROVE Box!Spec => []Box!MailboxesInv
<1>1. Box!Init => Box!MailboxesInv
  BY MailboxesInit
<1>2. Box!MailboxesInv /\ [Box!Next]_(Box!vars) => Box!MailboxesInv'
  BY MailboxesStep
<1> QED
  BY <1>1, <1>2, PTL DEF Box!Spec

(* No message is passed over, and they are parsed in order.                *)
LEMMA InvariantNothing == ASSUME Box!MailboxesInv PROVE Box!NoneSkipped /\ Box!InOrder
<1>1. Box!NoneSkipped
  BY DEF Box!MailboxesInv, Box!NoneSkipped, Box!AllBelow
<1>2. ASSUME restarts + outages = 0 PROVE Box!Upwards(parsed)
  BY <1>2 DEF Box!MailboxesInv, Box!AllUpwards
<1>3. Box!InOrder
  BY <1>2 DEF Box!InOrder, Box!Upwards, Box!Before
<1> QED
  BY <1>1, <1>3

THEOREM MailInOrder == ASSUME Box!MailboxesAssumption PROVE Box!Spec => [](Box!NoneSkipped /\ Box!InOrder)
<1>1. Box!MailboxesInv => Box!NoneSkipped /\ Box!InOrder
  BY InvariantNothing
<1> QED
  BY <1>1, MailboxesInvariant, PTL
=============================================================================
