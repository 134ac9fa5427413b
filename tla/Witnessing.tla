----------------------------- MODULE Witnessing -----------------------------
(* Witness communication: app/agenting.py, the Receiptor and the           *)
(* WitnessReceiptor of a controller, with the ends of its witnesses        *)
(* (app/indirecting.py): a request for a receipt is answered at once, what *)
(* is streamed to a witness waits for its parser, and the receipt of an    *)
(* event accepted from there comes back through the controller's mailbox.  *)
EXTENDS Integers, Sequences, FiniteSets, SequencesExt

CONSTANTS
  Worlds,    \* which of the two is used, the controller's log, whose address is known
  Witnesses

(* An event has a list of witnesses, and those that a rotation adds.       *)
WitnessingAssumption ==
  /\ IsFiniteSet(Witnesses)
  /\ \A x \in Worlds : x.log \in Seq([ilk : STRING, wits : Seq(Witnesses), adds : SUBSET Witnesses])

VARIABLES
  world,    \* the world of this behaviour
  last,     \* number of the controller's latest event, from 1
  queue,    \* msgs: events to be receipted
  task,     \* the event under way: the doer's local variables
  finished, \* cues: events that are done, with the witnesses that answered
  wigs,     \* receipts the controller holds, in the order they came
  failed,   \* an error has ended the doer
  has,      \* the events a witness accepted: those up to a number
  late,     \* out-of-order events a witness holds
  inbox,    \* what was streamed to a witness
  knows,    \* receipts of other witnesses that a witness holds
  mail      \* receipts in the controller's mailbox
doer == <<queue, task, finished, failed>>
witness == <<has, late, inbox, knows>>
vars == <<world, last, doer, wigs, witness, mail>>

NoTask == [step |-> "none"]
Event(n) == world.log[n]
Wits(n) == Event(n).wits
Task(n, step, todo) == [n |-> n, step |-> step, todo |-> todo, rcts |-> {}, got |-> <<>>]
Stream(w, items) == inbox' = [inbox EXCEPT ![w] = @ \o items]
EventItem(n) == [n |-> n, from |-> {}]
ReceiptsItem(n, from) == [n |-> n, from |-> from]
Log == [n \in 1..last |-> EventItem(n)]   \* clonePreIter

(* An event is made and given to the doer.                                 *)
Make ==
  /\ last < Len(world.log) /\ last' = last + 1 /\ queue' = Append(queue, last')
  /\ UNCHANGED <<world, task, finished, failed, wigs, witness, mail>>
(* processReceipt at the controller: a receipt is added once.              *)
Receipted(n, w) ==
  IF w \in ToSet(Wits(n)) \ ToSet(wigs[n]) THEN [wigs EXCEPT ![n] = Append(@, w)] ELSE wigs
ReadMail(n, w) ==
  /\ <<n, w>> \in mail /\ mail' = mail \ {<<n, w>>} /\ wigs' = Receipted(n, w)
  /\ UNCHANGED <<world, last, doer, witness>>

-----------------------------------------------------------------------------
(* A witness                                                               *)

Listed(w, n) == n > 0 /\ w \in ToSet(Wits(n))
(* kvy.processEvent: in order, out of order, or seen before.               *)
Reads(w, n) ==
  /\ has' = IF has[w] = n - 1 THEN [has EXCEPT ![w] = n] ELSE has
  /\ late' = [late EXCEPT ![w] = IF has[w] < n - 1 THEN @ \cup {n} ELSE @ \ {n}]
(* Respondant.cueDo answers the cue of an accepted event.                  *)
Responds(w, n) == IF has'[w] = n /\ has[w] # n /\ Listed(w, n) THEN mail \cup {<<n, w>>} ELSE mail
(* HttpEnd and WitnessStart.msgDo: what was streamed is parsed in turn.    *)
ParseNext(w) ==
  /\ inbox[w] # <<>> /\ inbox' = [inbox EXCEPT ![w] = Tail(@)]
  /\ LET i == Head(inbox[w]) IN
       IF i.from = {}
       THEN Reads(w, i.n) /\ mail' = Responds(w, i.n) /\ UNCHANGED knows
       ELSE knows' = [knows EXCEPT ![w] = @ \cup {<<i.n, v>> : v \in i.from}] /\ UNCHANGED <<has, late, mail>>
  /\ UNCHANGED <<world, last, doer, wigs>>
(* WitnessStart.escrowDo.                                                  *)
Unescrow(w) ==
  LET n == has[w] + 1 IN
  /\ n \in late[w] /\ late' = [late EXCEPT ![w] = @ \ {n}]
  /\ has' = [has EXCEPT ![w] = n] /\ mail' = Responds(w, n)
  /\ UNCHANGED <<world, last, doer, wigs, inbox, knows>>
(* ReceiptEnd.on_post: the event is read and, if the witness then knows    *)
(* the identifier and is among its latest witnesses, receipted.            *)
Answers(w) == Listed(w, has'[w])

-----------------------------------------------------------------------------
(* Receiptor: witDo, receipt and catchup                                   *)

Sync == world.doer = "Receiptor" /\ ~failed
StartReceiptor ==
  /\ Sync /\ task = NoTask /\ queue # <<>>
  /\ LET n == Head(queue) IN
       IF Wits(n) = <<>>
       THEN finished' = finished \cup {[n |-> n, rcts |-> {}]} /\ UNCHANGED task
       ELSE /\ task' = Task(n, "catchup", IF Event(n).ilk = "rot" THEN SetToSeq(Event(n).adds) ELSE <<>>)
            /\ UNCHANGED finished
  /\ queue' = Tail(queue)
  /\ UNCHANGED <<world, last, failed, wigs, witness, mail>>
catchup ==
  /\ Sync /\ task.step = "catchup" /\ task.todo # <<>>
  /\ LET w == Head(task.todo) IN
       IF w \in world.known
       THEN Stream(w, Log) /\ task' = [task EXCEPT !.todo = Tail(@)] /\ UNCHANGED failed
       ELSE failed' = TRUE /\ UNCHANGED <<inbox, task>>
  /\ UNCHANGED <<world, last, queue, finished, wigs, has, late, knows, mail>>
StartRequests ==
  /\ Sync /\ task.step = "catchup" /\ task.todo = <<>>
  /\ task' = [task EXCEPT !.step = "request", !.todo = Wits(task.n)]
  /\ UNCHANGED <<world, last, queue, finished, failed, wigs, witness, mail>>
(* A witness whose address is unknown has no client and is passed over.    *)
RequestReceipt ==
  /\ Sync /\ task.step = "request" /\ task.todo # <<>>
  /\ LET w == Head(task.todo) IN
       IF w \in world.known
       THEN /\ Reads(w, task.n)
            /\ wigs' = IF Answers(w) THEN Receipted(task.n, w) ELSE wigs
            /\ task' = [task EXCEPT !.todo = Tail(@), !.rcts = IF Answers(w) THEN @ \cup {w} ELSE @]
       ELSE task' = [task EXCEPT !.todo = Tail(@)] /\ UNCHANGED <<has, late, wigs>>
  /\ UNCHANGED <<world, last, queue, finished, failed, inbox, knows, mail>>
(* The receipts held now go to each witness that answered.                 *)
StartPropagation ==
  /\ Sync /\ task.step = "request" /\ task.todo = <<>>
  /\ task' = [task EXCEPT !.step = "propagate", !.todo = SetToSeq(task.rcts), !.got = wigs[task.n]]
  /\ UNCHANGED <<world, last, queue, finished, failed, wigs, witness, mail>>
Propagated(w) == ToSet(task.got) \ {w}
Propagate ==
  /\ Sync /\ task.step = "propagate" /\ task.todo # <<>>
  /\ LET w == Head(task.todo) IN
       IF Propagated(w) = {} THEN UNCHANGED inbox
       ELSE Stream(w, <<ReceiptsItem(task.n, Propagated(w))>>)
  /\ task' = [task EXCEPT !.todo = Tail(@)]
  /\ UNCHANGED <<world, last, queue, finished, failed, wigs, has, late, knows, mail>>
Finish ==
  /\ Sync /\ task.step = "propagate" /\ task.todo = <<>>
  /\ finished' = finished \cup {[n |-> task.n, rcts |-> task.rcts]} /\ task' = NoTask
  /\ UNCHANGED <<world, last, queue, failed, wigs, witness, mail>>

-----------------------------------------------------------------------------
(* WitnessReceiptor.receiptDo, for the latest witness list                 *)

Async == world.doer = "WitnessReceiptor"
Latest == Wits(last)
StartWitnessReceiptor ==
  /\ Async /\ task = NoTask /\ queue # <<>> /\ queue' = Tail(queue)
  /\ LET n == Head(queue) IN
       IF Latest = <<>> THEN UNCHANGED <<task, finished>>
       ELSE IF Len(wigs[n]) = Len(Latest)
       THEN finished' = finished \cup {[n |-> n, rcts |-> {}]} /\ UNCHANGED task
       ELSE task' = Task(n, "send", Latest) /\ UNCHANGED finished
  /\ UNCHANGED <<world, last, failed, wigs, witness, mail>>
SendEvent ==
  /\ Async /\ task.step = "send" /\ task.todo # <<>>
  /\ LET w == Head(task.todo)
         new == Event(task.n).ilk \in {"icp", "dip"} \/ w \in Event(task.n).adds IN
       Stream(w, (IF new THEN Log ELSE <<>>) \o <<EventItem(task.n)>>)
  /\ task' = [task EXCEPT !.todo = Tail(@)]
  /\ UNCHANGED <<world, last, queue, finished, failed, wigs, has, late, knows, mail>>
AllReceipts ==
  /\ Async /\ task.step = "send" /\ task.todo = <<>> /\ Len(wigs[task.n]) = Len(Latest)
  /\ task' = [task EXCEPT !.step = "exchange", !.todo = Latest, !.got = wigs[task.n]]
  /\ UNCHANGED <<world, last, queue, finished, failed, wigs, witness, mail>>
(* The i-th receipt is taken for that of the i-th witness.                 *)
Others(w) == {task.got[i] : i \in {j \in DOMAIN task.got : Latest[j] # w}}
ExchangeReceipts ==
  /\ Async /\ task.step = "exchange" /\ task.todo # <<>>
  /\ LET w == Head(task.todo) IN
       IF Others(w) = {} THEN UNCHANGED inbox ELSE Stream(w, <<ReceiptsItem(task.n, Others(w))>>)
  /\ task' = [task EXCEPT !.todo = Tail(@)]
  /\ UNCHANGED <<world, last, queue, finished, failed, wigs, has, late, knows, mail>>
FinishExchange ==
  /\ Async /\ task.step = "exchange" /\ task.todo = <<>>
  /\ finished' = finished \cup {[n |-> task.n, rcts |-> ToSet(Latest)]} /\ task' = NoTask
  /\ UNCHANGED <<world, last, queue, failed, wigs, witness, mail>>

Idle == UNCHANGED vars
Init ==
  /\ world \in Worlds /\ last = 0
  /\ queue = <<>> /\ task = NoTask /\ finished = {} /\ failed = FALSE
  /\ wigs = [n \in DOMAIN world.log |-> <<>>]
  /\ has = [w \in Witnesses |-> 0] /\ late = [w \in Witnesses |-> {}]
  /\ inbox = [w \in Witnesses |-> <<>>] /\ knows = [w \in Witnesses |-> {}] /\ mail = {}

Doer ==
  \/ StartReceiptor \/ catchup \/ StartRequests \/ RequestReceipt \/ StartPropagation \/ Propagate \/ Finish
  \/ StartWitnessReceiptor \/ SendEvent \/ AllReceipts \/ ExchangeReceipts \/ FinishExchange
Parsers ==
  \/ \E w \in Witnesses : ParseNext(w) \/ Unescrow(w)
  \/ \E n \in DOMAIN world.log, w \in Witnesses : ReadMail(n, w)
Next == Make \/ Doer \/ Parsers \/ Idle
(* The doers of the controller and of the witnesses take turns.            *)
Spec == Init /\ [][Next]_vars /\ WF_vars(Doer \/ Parsers)
-----------------------------------------------------------------------------
(* Properties                                                              *)

Item == [n : 1..last, from : SUBSET Witnesses]
Steps == {"catchup", "request", "propagate", "send", "exchange"}
Tasks ==
  [n : 1..last, step : Steps, todo : Seq(Witnesses), rcts : SUBSET Witnesses, got : Seq(Witnesses)]
TypeOK ==
  /\ world \in Worlds /\ last \in 0..Len(world.log)
  /\ queue \in Seq(1..last) /\ task \in Tasks \cup {NoTask}
  /\ finished \subseteq [n : 1..last, rcts : SUBSET Witnesses]
  /\ wigs \in [DOMAIN world.log -> Seq(Witnesses)]
  /\ \A n \in DOMAIN wigs : ToSet(wigs[n]) \subseteq ToSet(Wits(n)) /\ Cardinality(ToSet(wigs[n])) = Len(wigs[n])
  /\ has \in [Witnesses -> 0..last] /\ late \in [Witnesses -> SUBSET (1..last)]
  /\ \A w \in Witnesses : late[w] \subseteq has[w] + 1..last
  /\ inbox \in [Witnesses -> Seq(Item)] /\ knows \in [Witnesses -> SUBSET ((1..last) \X Witnesses)]
  /\ mail \subseteq (1..last) \X Witnesses

(* Once the witnesses of an event have answered the Receiptor and parsed   *)
(* what came, each knows the receipts of all that answered (receipt).      *)
Exchanged(t) == \A w \in t.rcts : \A v \in t.rcts \ {w} : <<t.n, v>> \in knows[w]
Quiet == \A w \in Witnesses : inbox[w] = <<>>
ReceiptsExchanged == Quiet /\ world.doer = "Receiptor" => \A t \in finished : Exchanged(t)

(* What makes it so: a witness that answered is receipted at the           *)
(* controller, and has or is being sent the receipts of the others, unless *)
(* its turn is still to come.                                              *)
Sent(w, n, v) == <<n, v>> \in knows[w] \/ \E i \in ToSet(inbox[w]) : i.n = n /\ v \in i.from
AllSent(n, rcts, to) == \A w \in to : \A v \in rcts \ {w} : Sent(w, n, v)
PropagatesAll ==
  world.doer = "Receiptor" =>
    /\ \A t \in finished : AllSent(t.n, t.rcts, t.rcts)
    /\ task # NoTask => task.rcts \subseteq ToSet(wigs[task.n])
    /\ task.step = "request" => ToSet(task.todo) \subseteq ToSet(Wits(task.n))
    /\ task.step = "propagate" =>
         /\ task.rcts \subseteq ToSet(task.got)
         /\ AllSent(task.n, task.rcts, task.rcts \ ToSet(task.todo))
WitnessingInv == TypeOK /\ PropagatesAll

(* In the end every witness of the latest event has the whole log, also    *)
(* one that a rotation added, unless the rotation is a delegated one or    *)
(* its address is unknown.                                                 *)
Served == ToSet(Latest) \subseteq world.known /\ \A n \in 1..last : Event(n).ilk # "drt"
AllServed ==
  queue = <<>> /\ task = NoTask /\ last > 0 /\ Served => \A w \in ToSet(Latest) : has[w] = last
WitnessesServed == []<>AllServed

(* The docstring of Receiptor.receipt, also of a delegated rotation.       *)
CatchesUp == Quiet /\ task = NoTask /\ queue = <<>> =>
  \A t \in finished : \A w \in t.rcts : has[w] >= t.n

(* The docstring of ReceiptEnd: an event that needs to be escrowed is not  *)
(* receipted, so a receipt means that the witness accepted the event.      *)
ReceiptsOfAccepted == \A n \in DOMAIN wigs : \A w \in ToSet(wigs[n]) : has[w] >= n

(* The docstring of WitnessReceiptor: it is done when all witnesses have   *)
(* been sent the entire receipt set.                                       *)
EntireSetSent == Quiet /\ Async => \A t \in finished : Exchanged(t)
=============================================================================
