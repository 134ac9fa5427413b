----------------------------- MODULE Mailboxes ------------------------------
(* Mailboxes: a Poster forwards messages to the mailbox of a recipient     *)
(* (app/forwarding.py), the Mailboxer keeps them by topic and ordinal      *)
(* (app/storing.py), and a Poller of the recipient reads them through an   *)
(* event stream from where it left off (app/indirecting.py).               *)
EXTENDS Integers, Sequences, FiniteSets, SequencesExt

CONSTANTS
  Topics,
  Letters,     \* what is sent: a record with a topic for each message
  Orders,      \* the sequences in which they may be sent
  Homeless,    \* messages whose recipient has no end role that is known
  MaxTimeouts,
  MaxRestarts

Topic(m) == Letters[m].topic

(* A message is sent once: its text is found by its digest.                *)
MailboxesAssumption ==
  /\ IsFiniteSet(Topics) /\ Topics # {} /\ \A m \in DOMAIN Letters : Topic(m) \in Topics
  /\ \A o \in Orders : o \in Seq(DOMAIN Letters) /\ IsInjective(o)

VARIABLES
  evts,      \* Poster.evts: messages to be delivered
  tpcs,      \* Mailboxer.tpcs: digests by topic and ordinal, from 0
  msgs,      \* Mailboxer.msgs: the messages whose text is stored
  writing,   \* the entry of tpcs whose message is not yet in msgs
  topics,    \* the ordinals of the open event stream, or none
  events,    \* client.events: what the stream has brought
  fetched,   \* Poller.msgs and MailboxDirector.ims: entries yet to be parsed
  pinning,   \* the entry whose ordinal is not yet recorded
  tops,      \* db.tops: the latest ordinal by topic, -1 before the first
  parsed,    \* the entries that were parsed, in order
  timeouts, restarts, crashes
sender == <<evts, writing>>
mailbox == <<tpcs, msgs>>
client == <<events, fetched, pinning, tops, parsed>>
bounds == <<timeouts, restarts, crashes>>
vars == <<evts, writing, mailbox, topics, client, bounds>>

NoStream == [t \in {} |-> 0]
Entry(t, n) == [topic |-> t, n |-> n]
Nothing == <<>>
Here(t, n) == tpcs[t][n + 1] \in msgs

-----------------------------------------------------------------------------
(* Poster.deliverDo and ForwardHandler.handle                              *)
(* A message whose recipient has no end role is dropped.                   *)
DropHomeless ==
  /\ evts # <<>> /\ Head(evts) \in Homeless /\ evts' = Tail(evts)
  /\ UNCHANGED <<writing, mailbox, topics, client, bounds>>
(* storeMsg writes two tables, each in a transaction of its own.           *)
AppendTopic ==
  /\ writing = Nothing /\ evts # <<>> /\ Head(evts) \notin Homeless
  /\ LET m == Head(evts) IN tpcs' = [tpcs EXCEPT ![Topic(m)] = Append(@, m)] /\ writing' = <<m>>
  /\ evts' = Tail(evts)
  /\ UNCHANGED <<msgs, topics, client, bounds>>
StoreMsg ==
  /\ writing # Nothing /\ msgs' = msgs \cup {Head(writing)} /\ writing' = Nothing
  /\ UNCHANGED <<evts, tpcs, topics, client, bounds>>

-----------------------------------------------------------------------------
(* The stream                                                              *)

(* Poller.eventDo asks for what comes after the latest ordinals.           *)
QueryFromZero(t) == IF tops[t] < 0 THEN 0 ELSE tops[t] + 2  \* slip: one too far
QueryFrom(t) == tops[t] + 1
Connect ==
  /\ topics = NoStream /\ pinning = Nothing
  /\ topics' = [t \in Topics |-> QueryFrom(t)]
  /\ UNCHANGED <<sender, mailbox, client, bounds>>
CloneAfter(t, fn) == {n \in fn + 1..Len(tpcs[t]) - 1 : Here(t, n)}  \* slip: it starts after fn
(* Mailboxer.cloneTopicIter: the ordinals from one on, without those whose *)
(* message is not stored.                                                  *)
cloneTopicIter(t, fn) == {n \in fn..Len(tpcs[t]) - 1 : Here(t, n)}
(* MailboxIterable: the topics one after another, each in the order of its *)
(* ordinals; the ordinal of the stream counts what it sent.                *)
Due == UNION {{Entry(t, n) : n \in cloneTopicIter(t, topics[t])} : t \in Topics}
InTurn(s) ==
  \A i, j \in DOMAIN s : i < j /\ s[i].topic = s[j].topic =>
    s[i].n < s[j].n /\ \A k \in i..j : s[k].topic = s[i].topic
NextItems ==
  /\ topics # NoStream /\ Due # {}
  /\ \E items \in [1..Cardinality(Due) -> Due] :
       ToSet(items) = Due /\ InTurn(items) /\ events' = events \o items
  /\ topics' = [t \in Topics |-> topics[t] + Cardinality(cloneTopicIter(t, topics[t]))]
  /\ UNCHANGED <<sender, mailbox, fetched, pinning, tops, parsed, bounds>>
(* The poller keeps the message, and then the ordinal it came with.        *)
TakeEvent ==
  /\ pinning = Nothing /\ events # <<>> /\ events' = Tail(events)
  /\ fetched' = Append(fetched, Head(events)) /\ pinning' = <<Head(events)>>
  /\ UNCHANGED <<sender, mailbox, topics, tops, parsed, bounds>>
PinTopics ==
  /\ pinning # Nothing /\ pinning' = Nothing
  /\ tops' = [tops EXCEPT ![Head(pinning).topic] = Head(pinning).n]
  /\ UNCHANGED <<sender, mailbox, topics, events, fetched, parsed, bounds>>
(* After thirty seconds the poller opens another stream.                   *)
TimeoutStream ==
  /\ timeouts < MaxTimeouts /\ timeouts' = timeouts + 1
  /\ topics # NoStream /\ pinning = Nothing
  /\ topics' = NoStream /\ events' = <<>>
  /\ UNCHANGED <<sender, mailbox, fetched, pinning, tops, parsed, restarts, crashes>>
(* MailboxDirector.pollDo and its parser.                                  *)
ParseFetched ==
  /\ fetched # <<>> /\ fetched' = Tail(fetched) /\ parsed' = Append(parsed, Head(fetched))
  /\ UNCHANGED <<sender, mailbox, topics, events, pinning, tops, bounds>>

(* The recipient restarts: its queues are in memory.                       *)
RestartClient ==
  /\ restarts < MaxRestarts /\ restarts' = restarts + 1
  /\ topics' = NoStream /\ events' = <<>> /\ fetched' = <<>> /\ pinning' = Nothing
  /\ UNCHANGED <<sender, mailbox, tops, parsed, timeouts, crashes>>
(* The mailbox restarts, perhaps between its two writes.                   *)
RestartMailbox ==
  /\ crashes < MaxRestarts /\ crashes' = crashes + 1
  /\ writing' = Nothing /\ topics' = NoStream
  /\ UNCHANGED <<evts, mailbox, client, timeouts, restarts>>
Idle == UNCHANGED vars

Init ==
  /\ evts \in Orders /\ writing = Nothing
  /\ tpcs = [t \in Topics |-> <<>>] /\ msgs = {}
  /\ topics = NoStream /\ events = <<>> /\ fetched = <<>> /\ pinning = Nothing
  /\ tops = [t \in Topics |-> -1] /\ parsed = <<>>
  /\ timeouts = 0 /\ restarts = 0 /\ crashes = 0

Loops ==
  \/ DropHomeless \/ AppendTopic \/ StoreMsg
  \/ Connect \/ NextItems \/ TakeEvent \/ PinTopics \/ ParseFetched
Next ==
  \/ Loops \/ TimeoutStream \/ RestartClient \/ RestartMailbox \/ Idle
(* The doers of both sides take turns.                                     *)
Spec == Init /\ [][Next]_vars /\ WF_vars(Loops)
-----------------------------------------------------------------------------
(* Properties                                                              *)

Items == [topic : Topics, n : Nat]
Read == ToSet(parsed) \cup ToSet(fetched)
Stored(t) == {Entry(t, n) : n \in {i \in 0..Len(tpcs[t]) - 1 : Here(t, i)}}
\* The entries of a topic, without the one whose message is being stored.
Settled(t) == IF writing # Nothing /\ Topic(Head(writing)) = t THEN Len(tpcs[t]) - 1 ELSE Len(tpcs[t])
TypeOK ==
  /\ evts \in Seq(DOMAIN Letters) /\ IsInjective(evts)
  /\ tpcs \in [Topics -> Seq(DOMAIN Letters)] /\ msgs \subseteq DOMAIN Letters
  /\ \A t \in Topics : IsInjective(tpcs[t]) /\ \A i \in DOMAIN tpcs[t] : Topic(tpcs[t][i]) = t
  /\ writing \in Seq(DOMAIN Letters) /\ Len(writing) <= 1
  /\ events \in Seq(Items) /\ fetched \in Seq(Items) /\ parsed \in Seq(Items)
  /\ pinning \in Seq(Items) /\ Len(pinning) <= 1
  /\ tops \in [Topics -> Int] /\ \A t \in Topics : tops[t] \in -1..Settled(t) - 1
  /\ topics # NoStream => topics \in [Topics -> Nat] /\ \A t \in Topics : topics[t] \in 0..Settled(t)
  /\ restarts \in Nat /\ crashes \in Nat

(* No message is passed over: what is at or below the recorded ordinal was *)
(* parsed or waits for the parser, while the recipient does not restart    *)
(* (Poller.eventDo).                                                       *)
NoneSkipped ==
  restarts = 0 => \A t \in Topics : \A e \in Stored(t) :
    e.n <= tops[t] => e \in Read

(* The messages of a topic are parsed in the order they were stored in,    *)
(* and a message again only after the recipient or the mailbox restarted.  *)
InOrder ==
  restarts + crashes = 0 => \A i, j \in DOMAIN parsed :
    i < j /\ parsed[i].topic = parsed[j].topic => parsed[i].n < parsed[j].n

(* What these rest on.  A message is in one place: it waits to be sent, or *)
(* stands in its topic, where the last may yet have to be stored.          *)
OnePlaceEach ==
  /\ \A t \in Topics : ToSet(evts) \cap ToSet(tpcs[t]) = {}
  /\ \A m \in msgs : m \in ToSet(tpcs[Topic(m)])
  /\ writing # Nothing =>
       LET m == Head(writing) IN
       m \notin msgs /\ tpcs[Topic(m)] # <<>> /\ tpcs[Topic(m)][Len(tpcs[Topic(m)])] = m
  /\ Read \cup ToSet(events) \cup ToSet(pinning) \subseteq UNION {Stored(t) : t \in Topics}
(* What lies below the recorded ordinals, below an ordinal that is being   *)
(* recorded and below the stream's was read or comes first in the stream.  *)
Upto(i) == {events[j] : j \in 1..i}
AllBelow ==
  /\ \A t \in Topics : \A e \in Stored(t) : e.n <= tops[t] => e \in Read
  /\ \A p \in ToSet(pinning) : \A e \in Stored(p.topic) : e.n <= p.n => e \in Read
  /\ topics # NoStream =>
       \A t \in Topics : \A e \in Stored(t) : e.n < topics[t] => e \in Read \cup ToSet(events)
  /\ \A i \in DOMAIN events : \A e \in Stored(events[i].topic) :
       e.n <= events[i].n => e \in Read \cup Upto(i)
(* Without a crash nothing is missing from a topic, and what was parsed,   *)
(* what waits, what the stream brings and what it will bring go upwards.   *)
Before(e, f) == e.topic = f.topic => e.n < f.n
Upwards(s) == \A i, j \in DOMAIN s : i < j => Before(s[i], s[j])
Precedes(S, T) == \A e \in S, f \in T : Before(e, f)
AllUpwards ==
  /\ \A t \in Topics : \A n \in 0..Settled(t) - 1 : Here(t, n)
  /\ Upwards(parsed) /\ Upwards(fetched) /\ Upwards(events)
  /\ Precedes(ToSet(parsed), ToSet(fetched)) /\ Precedes(Read, ToSet(events))
  /\ \A e \in Read : e \in ToSet(pinning) \/ e.n <= tops[e.topic]
  /\ \A e \in ToSet(pinning) : e \in Read /\ tops[e.topic] < e.n
  /\ \A e \in ToSet(events) : tops[e.topic] < e.n
  /\ topics = NoStream => events = <<>>
  /\ topics # NoStream => \A t \in Topics : tops[t] < topics[t]
  /\ topics # NoStream => \A e \in Read \cup ToSet(events) : e.n < topics[e.topic]
MailboxesInv ==
  /\ TypeOK /\ OnePlaceEach
  /\ restarts = 0 => AllBelow
  /\ restarts + crashes = 0 => AllUpwards

(* Every message that is stored is parsed, if the recipient does not       *)
(* restart.                                                                *)
AllRead == restarts = 0 => \A t \in Topics : Stored(t) \subseteq ToSet(parsed)
MailArrives == []<>AllRead
=============================================================================
