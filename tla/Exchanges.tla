------------------------------ MODULE Exchanges ------------------------------
(* Exchanges: peer/exchanging.py (Exchanger) with the handler of           *)
(* acdc/ipexing.py (IpexHandler).  A message is saved when its sender has  *)
(* signed or sealed it and the handler accepts its place in a thread; it   *)
(* waits in epse for key state, signatures or registry events.  Whether    *)
(* the graph it discloses is as it should be is for module Disclosure.     *)
EXTENDS Integers, Sequences, FiniteSets

CONSTANTS
  MsgData,     \* a record for each message: verb, prior, thread, from, to, ax, chained
  GraphHolds(_),  \* whether the graph of a message, if it has one, is as it should be
  Deliveries,  \* a message, signatures with the number of their keys, a seal
  KeysAt,      \* keys of a sender by number of the establishment event
  Threshold, MaxCrashes, None

Msgs == DOMAIN MsgData
From(m) == MsgData[m].from
Prior(m) == MsgData[m].prior
Verb(m) == MsgData[m].verb
Aids == {From(m) : m \in Msgs}
Sns == UNION {DOMAIN KeysAt[a] : a \in Aids}
Signers == UNION {d.sigs : d \in Deliveries}

ASSUME ExchangesAssumption ==
  /\ None \notin Msgs /\ Threshold \in Nat /\ MaxCrashes \in Nat
  /\ \A d \in Deliveries : d.msg \in Msgs /\ d.seal \in BOOLEAN
  /\ \A a \in Aids : \A n \in DOMAIN KeysAt[a] : n \in Nat /\ IsFiniteSet(KeysAt[a][n])

VARIABLES
  kel,       \* how many establishment events of each sender are known
  sealed,    \* the number of the establishment event in force where a message is sealed
  chain,     \* messages whose registry events are known
  esigs,     \* signatures by number of their keys
  ests,      \* messages whose source seal is stored
  epse,      \* escrow
  stale,     \* entries older than TimeoutPSE
  erpy,      \* the response saved for a message
  exns,      \* saved messages
  notified,  \* how often the handler gave notice of a message
  crashes
log == <<kel, sealed, chain>>
stored == <<esigs, ests, epse, stale, erpy, exns>>
vars == <<log, stored, notified, crashes>>

-----------------------------------------------------------------------------
(* The place of a message in its thread: IpexHandler.verify.               *)
PreviousRoutes ==
  [offer |-> {"apply"}, agree |-> {"offer"}, grant |-> {"apply", "agree"}, admit |-> {"grant"},
   spurn |-> {"apply", "offer", "agree", "grant"}]
responseSettled(m) ==  \* slip: an answer does not count while the escrow has it
  IF erpy[m] \in exns \ epse THEN erpy[m] ELSE None
response(m) == IF erpy[m] \in exns THEN erpy[m] ELSE None
_verifyReplyChain(m) ==
  LET p == Prior(m) IN
  /\ p \in exns /\ Verb(m) # "apply" /\ Verb(p) \in PreviousRoutes[Verb(m)]
  /\ ~(Verb(m) = "spurn" /\ Verb(p) = "grant" /\ Prior(p) # None)
  /\ MsgData[m].to = From(p) /\ From(m) = MsgData[p].to /\ MsgData[m].thread = MsgData[p].thread
  /\ response(p) = None
InThread(m) ==
  IF Prior(m) = None THEN Verb(m) \in {"apply", "offer", "grant"} ELSE _verifyReplyChain(m)
Anchored(m) == MsgData[m].ax \/ (Prior(m) # None /\ MsgData[Prior(m)].ax)
Negotiated(m) ==
  LET prior == MsgData[Prior(m)].ax IN
  /\ Prior(m) # None /\ Verb(m) \in {"agree", "grant", "admit"} => MsgData[m].ax = prior
  /\ Prior(m) # None /\ Verb(m) = "offer" => (prior => MsgData[m].ax)
_verifySourceAnchor(m, seal) == seal /\ sealed[m] = kel[From(m)] - 1
AnchorHolds(m, seal) ==
  Verb(m) \in {"agree", "admit", "grant"} /\ Anchored(m) => _verifySourceAnchor(m, seal)
(* The credential's registry is judged after its place and its graph, and  *)
(* before a grant's seal.                                                  *)
InPlace(m, seal) ==
  /\ InThread(m) /\ Negotiated(m) /\ GraphHolds(m)
  /\ Verb(m) # "grant" => AnchorHolds(m, seal)
Verdict(m, seal) ==
  IF ~InPlace(m, seal) THEN "refused"
  ELSE IF MsgData[m].chained /\ m \notin chain THEN "missingChain"
  ELSE IF AnchorHolds(m, seal) THEN "accepted" ELSE "refused"

(* The sender's authentication: a seal that is there, else every group of  *)
(* signatures complete.                                                    *)
Complete(m, n, sigs) ==
  n < kel[From(m)] /\ Cardinality(sigs \cap KeysAt[From(m)][n]) >= Threshold
Groups(groups) == {n \in Sns : groups[n] # {}}
Valid(m, groups) == [n \in Sns |-> IF Complete(m, n, groups[n])
                                   THEN groups[n] \cap KeysAt[From(m)][n] ELSE {}]
SealKnown(m) == sealed[m] # None
Authenticated(m, groups, seal) ==
  IF seal THEN SealKnown(m)
  ELSE Groups(groups) # {} /\ \A n \in Groups(groups) : Complete(m, n, groups[n])

-----------------------------------------------------------------------------
(* escrowPSEvent; a saved message is not escrowed.                         *)
escrowPSEvent(m, groups, seal) ==
  IF m \in exns THEN UNCHANGED stored
  ELSE /\ esigs' = [esigs EXCEPT ![m] = [n \in Sns |-> @[n] \cup groups[n]]]
       /\ ests' = IF seal THEN ests \cup {m} ELSE ests
       /\ epse' = epse \cup {m} /\ UNCHANGED <<stale, erpy, exns>>
Empty == [n \in Sns |-> {}]
DiscardKept(m) ==  \* slip: the entry stays when its evidence is dropped
  /\ esigs' = [esigs EXCEPT ![m] = Empty] /\ ests' = ests \ {m}
  /\ UNCHANGED <<epse, stale, erpy, exns>>
Discard(m) ==
  /\ epse' = epse \ {m} /\ stale' = stale \ {m}
  /\ IF m \in exns THEN UNCHANGED <<esigs, ests>>
     ELSE esigs' = [esigs EXCEPT ![m] = Empty] /\ ests' = ests \ {m}
  /\ UNCHANGED <<erpy, exns>>
(* logEvent and the handler.  The evidence kept for the escrow gives way   *)
(* to what was verified; a crash can cut the writing short.                *)
Cuts == {"cleared", "evidence", "message", "none"}
logEvent(m, groups, seal, cut) ==
  LET cleared == IF m \in epse \ exns THEN [esigs EXCEPT ![m] = Empty] ELSE esigs
      kept == IF m \in epse \ exns THEN ests \ {m} ELSE ests
  IN /\ IF cut = "cleared" THEN esigs' = cleared /\ ests' = kept /\ UNCHANGED erpy
        ELSE /\ esigs' = [cleared EXCEPT ![m] = [n \in Sns |-> @[n] \cup Valid(m, groups)[n]]]
             /\ ests' = IF seal THEN kept \cup {m} ELSE kept
             /\ erpy' = IF Prior(m) = None THEN erpy ELSE [erpy EXCEPT ![Prior(m)] = m]
     /\ exns' = IF cut \in {"message", "none"} THEN exns \cup {m} ELSE exns
     /\ IF cut = "none"
        THEN /\ epse' = epse \ {m} /\ stale' = stale \ {m}
             /\ notified' = [notified EXCEPT ![m] = IF @ = 2 THEN 2 ELSE @ + 1]
        ELSE UNCHANGED <<epse, stale, notified>>
Save(m, groups, seal) ==
  \E cut \in Cuts :
    /\ logEvent(m, groups, seal, cut)
    /\ crashes' = IF cut = "none" THEN crashes ELSE crashes + 1
    /\ crashes' <= MaxCrashes
Quiet == UNCHANGED <<notified, crashes>>
(* processEvent of a message with signatures, a seal or both.              *)
Deliver(d) ==
  LET m == d.msg
      groups == [Empty EXCEPT ![d.sn] = d.sigs]
      verdict == Verdict(m, d.seal)
  IN /\ IF ~Authenticated(m, groups, d.seal) \/ verdict = "missingChain"
        THEN escrowPSEvent(m, groups, d.seal) /\ Quiet
        ELSE IF verdict = "accepted" THEN Save(m, groups, d.seal)
        ELSE UNCHANGED stored /\ Quiet
     /\ UNCHANGED log
(* processEscrowPartialSigned for an entry, with what is stored of it.     *)
Retry(m) ==
  LET verdict == Verdict(m, m \in ests) IN
  /\ m \in epse
  /\ IF m \in exns \cup stale THEN Discard(m) /\ Quiet
     ELSE IF ~Authenticated(m, esigs[m], m \in ests) \/ verdict = "missingChain"
     THEN UNCHANGED stored /\ Quiet
     ELSE IF verdict = "accepted" THEN Save(m, esigs[m], m \in ests)
     ELSE Discard(m) /\ Quiet
  /\ UNCHANGED log

(* The rest of the system: key state and registry events arrive; time.     *)
LearnKeys(a) ==
  /\ kel[a] \in DOMAIN KeysAt[a] /\ kel' = [kel EXCEPT ![a] = @ + 1]
  /\ UNCHANGED <<sealed, chain, stored, notified, crashes>>
LearnSeal(m) ==
  /\ sealed[m] = None /\ kel[From(m)] > 0
  /\ sealed' = [sealed EXCEPT ![m] = kel[From(m)] - 1]
  /\ UNCHANGED <<kel, chain, stored, notified, crashes>>
LearnChain(m) ==
  /\ MsgData[m].chained /\ m \notin chain /\ chain' = chain \cup {m}
  /\ UNCHANGED <<kel, sealed, stored, notified, crashes>>
Age(m) ==
  /\ m \in epse \ stale /\ stale' = stale \cup {m}
  /\ UNCHANGED <<log, esigs, ests, epse, erpy, exns, notified, crashes>>

Init ==
  /\ kel = [a \in Aids |-> 0] /\ sealed = [m \in Msgs |-> None] /\ chain = {}
  /\ esigs = [m \in Msgs |-> Empty] /\ ests = {} /\ epse = {} /\ stale = {}
  /\ erpy = [m \in Msgs |-> None] /\ exns = {} /\ crashes = 0 /\ notified = [m \in Msgs |-> 0]
Arrive == \/ \E a \in Aids : LearnKeys(a)
          \/ \E m \in Msgs : LearnSeal(m) \/ LearnChain(m)
Next == \/ \E d \in Deliveries : Deliver(d)
        \/ \E m \in Msgs : Retry(m) \/ Age(m)
        \/ Arrive
Spec == Init /\ [][Next]_vars /\ \A m \in Msgs : WF_vars(Retry(m))

-----------------------------------------------------------------------------
(* Properties                                                              *)

TypeOK ==
  /\ kel \in [Aids -> Nat] /\ \A a \in Aids : 0..kel[a] - 1 \subseteq DOMAIN KeysAt[a]
  /\ sealed \in [Msgs -> Nat \cup {None}] /\ chain \subseteq Msgs
  /\ esigs \in [Msgs -> [Sns -> SUBSET Signers]] /\ ests \subseteq Msgs
  /\ epse \subseteq Msgs /\ stale \subseteq epse /\ exns \subseteq Msgs
  /\ erpy \in [Msgs -> Msgs \cup {None}] /\ \A p \in Msgs : erpy[p] # None => Prior(erpy[p]) = p
  /\ notified \in [Msgs -> 0..2] /\ crashes \in 0..MaxCrashes

(* What is saved answers what is saved, of the other party, once, however  *)
(* messages were ordered, repeated, escrowed or cut short by a crash.      *)
Answers(m) ==
  LET p == Prior(m) IN
  /\ p \in exns /\ erpy[p] = m
  /\ MsgData[m].thread = MsgData[p].thread /\ MsgData[p].to = From(m) /\ MsgData[m].to = From(p)
ThreadsLinear ==
  \A m \in exns : Prior(m) # None => Answers(m)

(* The evidence stored with a saved message still proves its sender.       *)
SavedProved ==
  \A m \in exns : \/ m \in ests /\ SealKnown(m)
                  \/ \E n \in Sns : Complete(m, n, esigs[m][n])

(* The user hears of an answer once at most.                               *)
AnswersHeardOnce == \A m \in Msgs : Prior(m) # None => notified[m] <= 1

(* Threads are linear, proved and told of once.                            *)
ThreadsSound == ThreadsLinear /\ SavedProved /\ AnswersHeardOnce

(* An answer the user heard of is saved.                                   *)
HeardSaved == \A m \in Msgs : Prior(m) # None /\ notified[m] # 0 => m \in exns
ExchangesInv == TypeOK /\ ThreadsLinear /\ SavedProved /\ HeardSaved /\ AnswersHeardOnce

(* A message in escrow that can be judged leaves it.                       *)
Judged(m) ==
  m \in epse /\ (m \in stale \/ (/\ Authenticated(m, esigs[m], m \in ests)
                                  /\ Verdict(m, m \in ests) # "missingChain"))
ExchangesResolve == \A m \in Msgs : []<>~Judged(m)
=============================================================================
