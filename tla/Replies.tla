------------------------------ MODULE Replies ------------------------------
(* Replies: core/routing.py, and the handlers for end roles and locations  *)
(* of core/eventing.py.  A signed reply replaces the one accepted before   *)
(* it under the same key if it is later; one whose signer's keys are not   *)
(* known yet, or that has too few signatures, waits in rpes.               *)
EXTENDS Integers, FiniteSets, FiniteSetsExt

CONSTANTS
  ReplyData,   \* a record for each reply: key, kind, date, trans
  KeysAt,      \* the signer's keys, by sequence number from 0 up
  Threshold,   \* how many signatures a reply needs
  Deliveries,  \* messages: a reply, signatures and the sn of their keys
  None

Replies == DOMAIN ReplyData
Key(r) == ReplyData[r].key
Date(r) == ReplyData[r].date
Keys == {Key(r) : r \in Replies}
Sns == DOMAIN KeysAt

VARIABLES
  kel,     \* how many of the signer's events are known
  held,    \* rpys, sdts and scgs: replies whose artifacts are stored
  tsgs,    \* signatures of a reply, by the sn of their keys
  rpes,    \* replies in escrow
  latest,  \* eans and lans: the reply accepted last under a key
  since,   \* the sn of the keys it was accepted with
  stale    \* replies whose date lies more than TimeoutRPE back
stored == <<held, tsgs, rpes>>
vars == <<kel, stored, latest, since, stale>>

-----------------------------------------------------------------------------
(* Revery.acceptReply, on a record of the tables.                          *)
Tables == [held |-> held, tsgs |-> tsgs, rpes |-> rpes, ok |-> -1, raised |-> FALSE]
SignedAt(t, r) == {n \in Sns : t[r][n] # {}}
removeReply(s, r) ==
  IF r = None THEN s
  ELSE [s EXCEPT !.held = @ \ {r}, !.tsgs[r] = [n \in Sns |-> {}]]
updateReply(s, r, n, sigs) ==
  [s EXCEPT !.held = @ \cup {r}, !.tsgs[r][n] = @ \cup sigs]
escrowReply(s, r, n, sigs) ==
  IF sigs = {} THEN s ELSE [updateReply(s, r, n, sigs) EXCEPT !.rpes = @ \cup {r}]

Later(s, r, n, old) ==
  \/ old = None \/ SignedAt(s.tsgs, old) = {}
  \/ n > Min(SignedAt(s.tsgs, old))
  \/ n = Min(SignedAt(s.tsgs, old)) /\ (old \in s.held => Date(r) > Date(old))
Verified(r, n, sigs) == sigs \cap KeysAt[n]
(* The old reply is removed after the new one is stored.  Signatures of r  *)
(* by earlier keys should be trimmed, which raises an error.               *)
acceptReply(s, r, n, sigs, old) ==
  IF s.raised \/ ~Later(s, r, n, old) THEN s
  ELSE IF n >= kel THEN escrowReply(s, r, n, sigs)
  ELSE LET good == Verified(r, n, sigs \cup s.tsgs[r][n]) IN
    IF Cardinality(good) < Threshold THEN escrowReply(s, r, n, good)
    ELSE LET t == removeReply(updateReply(s, r, n, good), old) IN
      IF \E m \in SignedAt(t.tsgs, r) : m < n THEN [t EXCEPT !.raised = TRUE]
      ELSE [t EXCEPT !.ok = n]
(* With a signature of a nontransferable identifier.                       *)
acceptCouple(s, r, old) ==
  IF old # None /\ old \in s.held /\ Date(r) <= Date(old) THEN s
  ELSE [removeReply([s EXCEPT !.held = @ \cup {r}], old) EXCEPT !.ok = 0]

(* The handlers: that of end roles does not compare a reply with itself.   *)
Old(r) ==
  IF ReplyData[r].kind = "end" /\ latest[Key(r)] = r THEN None ELSE latest[Key(r)]
Store(s, escrowed) ==
  /\ held' = s.held /\ tsgs' = s.tsgs /\ rpes' = escrowed
Record(r, s) ==
  IF s.ok >= 0 /\ ~s.raised
  THEN latest' = [latest EXCEPT ![Key(r)] = r] /\ since' = [since EXCEPT ![Key(r)] = s.ok]
  ELSE UNCHANGED <<latest, since>>
(* processReply for a message.                                             *)
Deliver(m) ==
  LET r == m.reply
      s == IF ReplyData[r].trans THEN acceptReply(Tables, r, m.sn, m.sigs, Old(r))
           ELSE acceptCouple(Tables, r, Old(r)) IN
  /\ Store(s, s.rpes) /\ Record(r, s)
  /\ UNCHANGED <<kel, stale>>
(* processEscrowReply for an entry: every group of signatures in turn.     *)
Retried(r) ==
  LET After[n \in 0..Cardinality(Sns)] ==
        IF n = 0 THEN Tables
        ELSE IF n - 1 \notin SignedAt(tsgs, r) THEN After[n - 1]
        ELSE acceptReply(After[n - 1], r, n - 1, tsgs[r][n - 1], Old(r))
  IN After[Cardinality(Sns)]
RetryEscrowed(r) ==
  /\ r \in rpes
  /\ LET s == Retried(r)
         gone == r \in stale \/ r \notin held \/ SignedAt(tsgs, r) = {}
     IN IF gone \/ s.raised
        THEN /\ LET t == IF gone THEN Tables ELSE s IN Store(removeReply(t, r), t.rpes \ {r})
             /\ UNCHANGED <<latest, since>>
        ELSE /\ Store(s, IF s.ok >= 0 THEN s.rpes \ {r} ELSE s.rpes) /\ Record(r, s)
  /\ UNCHANGED <<kel, stale>>
(* The signer's next establishment event is accepted.                      *)
LearnEvent ==
  /\ kel \in Sns /\ kel' = kel + 1
  /\ UNCHANGED <<stored, latest, since, stale>>
(* Time passes; the older reply is stale first.                            *)
Age(r) ==
  /\ r \in rpes \ stale /\ stale' = stale \cup {q \in Replies : Date(q) <= Date(r)}
  /\ UNCHANGED <<kel, stored, latest, since>>

Init ==
  /\ kel = 0 /\ held = {} /\ rpes = {} /\ stale = {}
  /\ tsgs = [r \in Replies |-> [n \in Sns |-> {}]]
  /\ latest = [k \in Keys |-> None] /\ since = [k \in Keys |-> 0]
RetryAny == \E r \in Replies : RetryEscrowed(r)
Next == \/ \E m \in Deliveries : Deliver(m)
        \/ \E r \in Replies : RetryEscrowed(r) \/ Age(r)
        \/ LearnEvent
(* A pass over the escrow visits every entry.                              *)
Spec == Init /\ [][Next]_vars /\ \A r \in Replies : WF_vars(RetryEscrowed(r))

-----------------------------------------------------------------------------
(* Properties                                                              *)

Signatures == UNION {m.sigs : m \in Deliveries}
TypeOK ==
  /\ kel \in 0..Cardinality(Sns) /\ held \subseteq Replies /\ stale \subseteq Replies
  /\ rpes \subseteq {r \in Replies : ReplyData[r].trans}
  /\ tsgs \in [Replies -> [Sns -> SUBSET Signatures]]
  /\ \A r \in Replies : SignedAt(tsgs, r) # {} => r \in held
  /\ DOMAIN latest = Keys /\ since \in [Keys -> Nat]
  /\ \A k \in Keys : latest[k] \in {None} \cup {r \in Replies : Key(r) = k}
  /\ \A k \in Keys : latest[k] # None => ReplyData[latest[k]].trans \/ since[k] = 0

(* The signer's log has its keys in order; who may sign under a key is     *)
(* transferable or not once and for all.                                   *)
RepliesAssumption ==
  /\ None \notin Replies /\ Threshold \in Nat \ {0} /\ IsFiniteSet(Sns)
  /\ Sns = 0..Cardinality(Sns) - 1 /\ \A n \in Sns : IsFiniteSet(KeysAt[n])
  /\ \A r \in Replies : Date(r) \in Int /\ ReplyData[r].trans \in BOOLEAN
  /\ \A q, r \in Replies : Key(q) = Key(r) => ReplyData[q].trans = ReplyData[r].trans
  /\ \A m \in Deliveries : m.reply \in Replies /\ m.sn \in Sns

(* A reply that takes the place of another was signed by enough of the     *)
(* keys of one event of the signer's log, in one message or in pieces.     *)
Enough(r) == \E n \in 0..kel - 1 : Cardinality(Verified(r, n, tsgs'[r][n])) >= Threshold
AcceptedSigned(r) == ReplyData[r].trans => r \notin held' \/ Enough(r)
Signs == \A k \in Keys : latest'[k] # latest[k] => AcceptedSigned(latest'[k])
RepliesSigned == [][Signs]_vars

(* The order of acceptReply's docstring, of the reply accepted before, and *)
(* the keys it was accepted with.                                          *)
LaterThan(r, n, k) ==
  n > since[k] \/ (n = since[k] /\ Date(r) > Date(latest[k]))
Replaced(k) == latest[k] # None /\ latest'[k] # latest[k]
RepliesLater == [][\A k \in Keys : Replaced(k) => LaterThan(latest'[k], since'[k], k)]_vars

(* It holds while what is stored of the reply accepted before is what it   *)
(* was accepted with.                                                      *)
Intact(k) ==
  /\ latest[k] \in held
  /\ ReplyData[latest[k]].trans => SignedAt(tsgs, latest[k]) = {since[k]}
IntactLater(k) == Replaced(k) /\ Intact(k) => LaterThan(latest'[k], since'[k], k)
LatestGivesWay == [][\A k \in Keys : IntactLater(k)]_vars
SignsAndSucceeds == Signs /\ \A k \in Keys : IntactLater(k)

(* A reply in escrow that is later and signed by enough known keys is      *)
(* accepted or leaves.                                                     *)
Ready(r) ==
  /\ r \in rpes
  /\ \/ r \in stale
     \/ \E n \in 0..kel - 1 : /\ Cardinality(Verified(r, n, tsgs[r][n])) >= Threshold
                            /\ Later(Tables, r, n, Old(r))
RepliesResolve == \A r \in Replies : []<>~Ready(r)
=============================================================================
