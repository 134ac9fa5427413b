----------------------------- MODULE TxnStates -----------------------------
(* Notices of the state of a registry and of a credential in it: how a     *)
(* host makes them of its own logs, and how another takes them in          *)
(* (Tevery.processReplyRegistryTxnState, processReplyCredentialTxnState).  *)
(* One that comes before what it tells of waits in the broker's escrows    *)
(* (db/escrowing.py).                                                      *)
EXTENDS Integers, SequencesExt, FiniteSets

CONSTANTS
  RegistryUpdates,   \* events of the registry: records [event, baks]
  CredentialUpdates, \* events of the credential: records [event, ra], ra the
                 \* place of the registry event the update names, from 1, or 0
  Issuer, Witnesses, Watchers,   \* sources of notices
  NoticeWorlds,  \* [backed, lax, told, odd, old, again, asks]: whether the registry
                 \* has backers; whether sources are not checked; the notices to
                 \* come, as [kind, from, n] for the state of a log of n events, and
                 \* those that no such log gives rise to; whether notices get too
                 \* old, and come again; whether others ask
  MaxReloads

VARIABLES
  about,     \* the world
  kevers,    \* whether the issuer's log is known
  tels,      \* how many events of each log are accepted
  tever,     \* how many events of the registry the Tever counts
  waiting,   \* the broker's escrowdb: notices by type of escrow
  saved,     \* saiderdb: the notices accepted last, one of a kind from a source
  past,      \* history: all notices accepted so far
  arrived,   \* history: all notices that have come
  asked,     \* cues: queries for what a notice lacks
  answered,  \* cue: the reply or replay to the last query of another
  aged,      \* notices of more than an hour ago
  reloads
logs == <<kevers, tels, tever>>
broker == <<waiting, saved, past>>
noticeVars == <<about, logs, broker, arrived, asked, answered, aged, reloads>>

Kinds == {"registry", "credential"}
LogOf(k) == IF k = "registry" THEN RegistryUpdates ELSE CredentialUpdates
BaksAt(n) == IF about.backed THEN RegistryUpdates[n].baks ELSE {}
Baks == UNION {RegistryUpdates[n].baks : n \in DOMAIN RegistryUpdates}
Sources == {Issuer} \cup Witnesses \cup Watchers \cup Baks

-----------------------------------------------------------------------------
(* What a host with n events of the log makes (Tever.state, vcState).      *)
Notice(k, n, from, e, b, ra) ==
  [kind |-> k, sn |-> n - 1, from |-> from, event |-> e, b |-> b, ra |-> ra, signed |-> TRUE]
state(from, n) == Notice("registry", n, from, RegistryUpdates[n].event, BaksAt(n), 0)
vcState(from, n) ==
  Notice("credential", n, from, CredentialUpdates[n].event, {},
         IF about.backed THEN CredentialUpdates[n].ra ELSE 0)
Told ==
  {IF t.kind = "registry" THEN state(t.from, t.n) ELSE vcState(t.from, t.n) : t \in about.told}
Notices == Told \cup about.odd

(* A registry notice is held against the backers that it names itself.     *)
Backers(n) ==
  IF ~about.backed THEN Witnesses
  ELSE IF n.kind = "registry" THEN n.b ELSE BaksAt(tever)
Trusted(n) == about.lax \/ n.from \in {Issuer} \cup Backers(n) \cup Watchers
Stale(n) == n.kind = "registry" /\ tever > 0 /\ n.sn < tever - 1
(* Broker.current gives the digest of an event, so that acceptReply finds  *)
(* no date to compare with, and any signed notice is later.                *)
Refused(n) == ~Trusted(n) \/ Stale(n) \/ ~n.signed
Mismatch(n) == LogOf(n.kind)[n.sn + 1].event # n.event

-----------------------------------------------------------------------------
(* from is the escrow a notice is retried from, or "arrival".              *)
Query(x, n) ==
  CASE x \in {"registry-mae", "credential-mae"} -> [kin |-> "query", of |-> IF x = "registry-mae" THEN Issuer ELSE n.from]
    [] x \in {"registry-ooo", "credential-mre"} -> [kin |-> "telquery", of |-> "registry"]
    [] x = "credential-ooo" -> [kin |-> "telquery", of |-> "credential"]
Without(n, from) == [x \in DOMAIN waiting |-> IF x = from THEN waiting[x] \ {n} ELSE waiting[x]]
escrowStateNotice(x, n, from) ==
  /\ waiting' = [Without(n, IF from = x THEN "none" ELSE from) EXCEPT ![x] = @ \cup {n}]
  /\ asked' = IF n \in waiting[x] THEN asked ELSE asked \cup {Query(x, n)}
  /\ UNCHANGED <<saved, past>>
updateReply(n, from) ==
  /\ saved' = {m \in saved : m.kind # n.kind \/ m.from # n.from} \cup {n}
  /\ past' = past \cup {n}
  /\ waiting' = Without(n, from)
  /\ UNCHANGED asked
Drop(n, from) == waiting' = Without(n, from) /\ UNCHANGED <<saved, past, asked>>

processReplyRegistryTxnState(n, from) ==
  \/ ~kevers /\ escrowStateNotice("registry-mae", n, from)
  \/ kevers /\ Refused(n) /\ Drop(n, from)
  \/ /\ kevers /\ ~Refused(n) /\ n.sn >= tels.registry
     /\ escrowStateNotice("registry-ooo", n, from)
  \/ /\ kevers /\ ~Refused(n) /\ n.sn < tels.registry
     /\ IF Mismatch(n) THEN Drop(n, from) ELSE updateReply(n, from)

MissingRegistry(n) == tever = 0 \/ tever < n.ra
processReplyCredentialTxnState(n, from) ==
  \/ MissingRegistry(n) /\ escrowStateNotice("credential-mre", n, from)
  \/ ~MissingRegistry(n) /\ ~kevers /\ escrowStateNotice("credential-mae", n, from)
  \/ ~MissingRegistry(n) /\ kevers /\ Refused(n) /\ Drop(n, from)
  \/ /\ ~MissingRegistry(n) /\ kevers /\ ~Refused(n) /\ n.sn >= tels.credential
     /\ escrowStateNotice("credential-ooo", n, from)
  \/ /\ ~MissingRegistry(n) /\ kevers /\ ~Refused(n) /\ n.sn < tels.credential
     /\ IF Mismatch(n) THEN Drop(n, from) ELSE updateReply(n, from)

processReply(n, from) ==
  \/ n.kind = "registry" /\ processReplyRegistryTxnState(n, from)
  \/ n.kind = "credential" /\ processReplyCredentialTxnState(n, from)

-----------------------------------------------------------------------------
ReceiveNotice(n) ==
  /\ n \in Notices /\ (n \in arrived => about.again)
  /\ processReply(n, "arrival")
  /\ arrived' = arrived \cup {n}
  /\ UNCHANGED <<about, logs, answered, aged, reloads>>

(* Broker.processEscrowState, one entry.                                   *)
processEscrowState(x, n) ==
  /\ n \in waiting[x]
  /\ IF n \in aged THEN Drop(n, x) ELSE processReply(n, x)
  /\ UNCHANGED <<about, logs, arrived, answered, aged, reloads>>
AgeNotice(n) ==
  /\ about.old /\ n \notin aged /\ aged' = aged \cup {n}
  /\ UNCHANGED <<about, logs, broker, arrived, asked, answered, reloads>>

(* The logs: the issuer's, and the events of the registry and of the       *)
(* credential, each anchored in it.  A reloaded Tever starts at the        *)
(* inception again, whatever the log holds.                                *)
LearnIssuer ==
  /\ ~kevers /\ kevers' = TRUE
  /\ UNCHANGED <<about, tels, tever, broker, arrived, asked, answered, aged, reloads>>
AcceptUpdate(k) ==
  /\ kevers
  /\ \/ /\ k = "registry" /\ tever < Len(RegistryUpdates)
        /\ tever' = tever + 1
        /\ tels' = [tels EXCEPT !.registry = IF @ > tever THEN @ ELSE tever + 1]
     \/ /\ k = "credential" /\ tever > 0 /\ tels.credential < Len(CredentialUpdates)
        /\ about.backed => CredentialUpdates[tels.credential + 1].ra <= tever
        /\ tels' = [tels EXCEPT !.credential = @ + 1]
        /\ UNCHANGED tever
  /\ UNCHANGED <<about, kevers, broker, arrived, asked, answered, aged, reloads>>
Reload ==
  /\ reloads < MaxReloads /\ reloads' = reloads + 1
  /\ tever' = IF tever > 0 THEN 1 ELSE 0
  /\ asked' = {} /\ answered' = {}
  /\ UNCHANGED <<about, kevers, tels, broker, arrived, aged>>

(* Tevery.processQuery: the logs are replayed in order; the state of the   *)
(* registry is told, and that of a credential never, because vcState has   *)
(* no parameter of the name it is called with.                             *)
clonePreIter(k, n) == SubSeq([i \in DOMAIN LogOf(k) |-> LogOf(k)[i].event], 1, n)
processQuery(r, vci) ==
  /\ about.asks
  /\ \/ /\ r = "tels" /\ tels.registry > 0
        /\ answered' = {[registry |-> clonePreIter("registry", tels.registry),
                         credential |-> IF vci THEN clonePreIter("credential", tels.credential) ELSE <<>>]}
     \/ r = "tsn" /\ tever > 0 /\ answered' = {state(Issuer, tever)}
  /\ UNCHANGED <<about, logs, broker, arrived, asked, aged, reloads>>

Types == {"registry-mae", "registry-ooo", "credential-mre", "credential-mae", "credential-ooo"}
Init ==
  /\ about \in NoticeWorlds
  /\ kevers = FALSE /\ tels = [k \in Kinds |-> 0] /\ tever = 0
  /\ waiting = [x \in Types |-> {}]
  /\ saved = {} /\ past = {} /\ arrived = {} /\ asked = {} /\ answered = {} /\ aged = {} /\ reloads = 0
Idle == UNCHANGED noticeVars
Retry == \E x \in Types : \E n \in waiting[x] : processEscrowState(x, n)
Next ==
  \/ \E n \in Notices : ReceiveNotice(n) \/ AgeNotice(n)
  \/ Retry \/ LearnIssuer \/ Reload \/ Idle
  \/ \E k \in Kinds : AcceptUpdate(k)
  \/ \E r \in {"tels", "tsn"}, vci \in BOOLEAN : processQuery(r, vci)
(* Each pass of processEscrows retries every entry.                        *)
Spec == Init /\ [][Next]_noticeVars /\ WF_noticeVars(Retry)

-----------------------------------------------------------------------------
(* Properties                                                              *)

TypeOK ==
  /\ about \in NoticeWorlds /\ kevers \in BOOLEAN /\ reloads \in Nat
  /\ tels \in [Kinds -> Nat] /\ \A k \in Kinds : tels[k] <= Len(LogOf(k))
  /\ tever \in 0..tels.registry
  /\ waiting \in [Types -> SUBSET Notices] /\ arrived \cup aged \cup past \subseteq Notices
  /\ saved \subseteq past
  /\ \A m, n \in saved : m.kind = n.kind /\ m.from = n.from => m = n

(* A host tells of what it accepted; other notices have a place, too.      *)
NoticesAssumption ==
  /\ \A k \in Kinds : LogOf(k) \in Seq(ToSet(LogOf(k)))
  /\ \A w \in NoticeWorlds :
       /\ \A t \in w.told : t.kind \in Kinds /\ t.n \in DOMAIN LogOf(t.kind)
       /\ \A n \in w.odd : n.kind \in Kinds /\ n.sn \in Nat

(* A notice that is saved was signed by its source and tells of an event   *)
(* that was accepted at its place; the source of one about a credential is *)
(* the issuer, a watcher, or a witness or backer of some time.             *)
NoticesTrue ==
  \A n \in past :
    /\ kevers /\ n.signed /\ n.sn < tels[n.kind]
    /\ LogOf(n.kind)[n.sn + 1].event = n.event
    /\ n.kind = "credential" /\ ~about.lax =>
         n.from \in {Issuer} \cup Watchers \cup (IF about.backed THEN Baks ELSE Witnesses)

(* What has come and is true of the logs is saved, or waits; else it was   *)
(* older than the registry or than an hour, or of a backer at another time.*)
Always(n) == n \in Told /\ n.from \in {Issuer} \cup Watchers
Overtaken(n) == n.kind = "registry" /\ n.sn < tels.registry - 1
NoticesKept ==
  \A n \in arrived : Always(n) /\ n \notin aged =>
    \/ n \in past \/ Overtaken(n)
    \/ \E x \in Types : n \in waiting[x]

(* What waits was asked for, unless a restart has dropped the cue.         *)
WaitingAsked ==
  reloads = 0 => \A x \in Types : \A n \in waiting[x] : Query(x, n) \in asked

(* The state of the registry that a source is known to have told of goes   *)
(* back only when the registry was reloaded, and the answer to a query is  *)
(* what was accepted.                                                      *)
NoticeForward ==
  reloads = 0 => \A m \in saved, n \in saved' :
    m.kind = "registry" /\ n.kind = "registry" /\ m.from = n.from => n.sn >= m.sn
RegistryForward == [][NoticeForward]_noticeVars
AnswersHeld ==
  \A a \in answered :
    \/ \E n \in 1..tels.registry : a = state(Issuer, n)
    \/ \E n \in 1..tels.registry, m \in 0..tels.credential, vci \in BOOLEAN :
         a = [registry |-> clonePreIter("registry", n),
              credential |-> IF vci THEN clonePreIter("credential", m) ELSE <<>>]
(* A Tever that was not reloaded has counted every event.                  *)
Counted == reloads = 0 => tever = tels.registry
NoticesInv == TypeOK /\ NoticesTrue /\ NoticesKept /\ WaitingAsked /\ Counted /\ AnswersHeld

(* A notice whose event has come leaves the escrows.                       *)
Servable(x, n) ==
  \/ x = "registry-mae" /\ kevers
  \/ x = "registry-ooo" /\ n.sn < tels.registry
  \/ x = "credential-mre" /\ ~MissingRegistry(n)
  \/ x = "credential-mae" /\ kevers
  \/ x = "credential-ooo" /\ n.sn < tels.credential
NoneServable ==
  about.again \/ \A x \in Types : \A n \in waiting[x] : ~Servable(x, n) /\ n \notin aged
NoticesResolve == []<>NoneServable
=============================================================================
