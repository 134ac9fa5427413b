---------------------------- MODULE MCCoordination ----------------------------
(* Small instances of Groups, Joining, Anchorer, Witnessing, Mailboxes,    *)
(* Oobiery and Watching for TLC; the initial state chooses the component a *)
(* behaviour is about.                                                     *)
EXTENDS Joining

Step(n, delegated) == [sn |-> n, delegated |-> delegated]
(* Groups: two proposals for one place and what follows one of them, and a *)
(* delegated event with one that follows it.                               *)
GroupLog == [a |-> Step(1, FALSE), b |-> Step(1, FALSE), c |-> Step(2, FALSE), d |-> Step(1, TRUE)]
GroupWorlds ==
  {[me |-> m, wits |-> w, proposed |-> p] :
     m \in {"m1", "m2"}, w \in {{}, {"w"}}, p \in {{"a", "b"}, {"a", "c"}, {"c", "d"}}}

(* Joining: every kind of proposal; members that know different things of  *)
(* each other, two proposals at once, and a command that is run again.     *)
JoiningMembers == <<"m1", "m2", "m3">>
GroupMembers == ToSet(JoiningMembers)
Same == [m \in GroupMembers |-> [s \in GroupMembers |-> 1]]
Apart == [Same EXCEPT !["m2"]["m3"] = 0]
Behind == [Same EXCEPT !["m1"]["m2"] = 0, !["m1"]["m3"] = 0]
Root == <<[route |-> "icp", at |-> 0, keys |-> <<1, 1, 1>>, data |-> "g"]>>
Order(m, route, data) == [by |-> m, route |-> route, data |-> data]
Joint(seen, log, todo, n) ==
  [seen |-> seen, log |-> log, orders |-> todo, aborts |-> n, has |-> {"m1", "m2"},
   lone |-> n = 0 /\ Cardinality(todo) = 1 /\ \A o \in todo : o.route \in {"icp", "ixn", "rot"}]
JoinWorlds ==
  {Joint(v, <<>>, {Order("m1", "icp", "x")}, 0) : v \in {Same, Apart}}
    \cup {Joint(v, Root, {Order("m1", "rot", "x")}, 0) : v \in {Same, Behind}}
    \cup {Joint(Same, Root, {Order("m1", r, "x")}, 0) : r \in {"ixn", "rpy", "vcp", "iss", "rev"}}
    \cup {Joint(Same, Root, {Order("m1", "vcp", "x"), Order("m2", "vcp", "y")}, 0)}
    \cup {Joint(Same, <<>>, {Order("m1", "icp", "x"), Order("m2", "icp", "y")}, 0)}
    \cup {Joint(Same, <<>>, {Order("m1", "icp", "x")}, 1)}

(* Anchorer: a delegated inception and rotation with an interaction event  *)
(* between them.                                                           *)
DelegateLog == [dip |-> Step(0, TRUE), ixn |-> Step(1, FALSE), drt |-> Step(2, TRUE)]
DelegateWorlds == {[wits |-> w, proxied |-> p] : w \in {{}, {"w1", "w2"}}, p \in BOOLEAN}

(* Witnessing: rotations that cut, add and restore witnesses, plain and    *)
(* delegated, and witnesses whose address is unknown.                      *)
Entry(ilk, wits, adds) == [ilk |-> ilk, wits |-> wits, adds |-> adds]
Rotates(ilk) ==
  <<Entry("icp", <<"w1", "w2">>, {}), Entry("ixn", <<"w1", "w2">>, {}), Entry(ilk, <<"w2", "w3">>, {"w3"})>>
Restores ==
  <<Entry("icp", <<"w1", "w2">>, {}), Entry("rot", <<"w1">>, {}), Entry("rot", <<"w1", "w2">>, {"w2"})>>
Alone == <<Entry("icp", <<>>, {})>>
Use(doer, log, known) == [doer |-> doer, log |-> log, known |-> known]
Every == {"w1", "w2", "w3"}
WitnessWorlds ==
  {Use("Receiptor", Rotates("rot"), {"w1", "w3"}), Use("Receiptor", Rotates("rot"), {"w1", "w2"}),
   Use("Receiptor", Rotates("drt"), Every), Use("Receiptor", Restores, Every), Use("Receiptor", Alone, Every),
   Use("WitnessReceiptor", Rotates("rot"), Every), Use("WitnessReceiptor", Alone, Every)}

(* Mailboxes: two topics, and a message for nobody.                        *)
Topical(t) == [topic |-> t]
Mail == [a |-> Topical("x"), b |-> Topical("x"), c |-> Topical("y"), 
         d |-> Topical("x"), z |-> Topical("y")]
MailOrders == {<<"a", "z", "c", "b">>, <<"a", "b", "d">>}

(* Oobiery: answers of every kind, and a list of two URLs.                 *)
Hosts ==
  [wit |-> {"missing", "cesr"}, ctrl |-> {"cesr", "refused"}, multi |-> {"list", "wrongList"},
   schema |-> {"schema", "wrongSchema"}, odd |-> {"cesr"}, far |-> {"cesr"}]

(* Watching: every task; sources of one log, sources of which one has      *)
(* another event at one place, and a controller that knows nothing.        *)
Watched == [a |-> 0, b |-> 1, c |-> 2, x |-> 1]
Honest == [w1 |-> <<"a", "b">>, w2 |-> <<"a", "b">>]
Longer == [w1 |-> <<"a", "b", "c">>, w2 |-> <<"a", "b", "c">>]
Forked == [w1 |-> <<"a", "b">>, w2 |-> <<"a", "x">>]
WatchOrders ==
  {[wit |-> "w2", add |-> FALSE, date |-> 1], [wit |-> "w2", add |-> TRUE, date |-> 2]}
Watch(task, log, branch, toad, others, orders) ==
  [task |-> task, log |-> log, branch |-> branch, has |-> IF others = <<>> THEN 0 ELSE 1,
   toad |-> toad, want |-> 1, others |-> others,
   expires |-> IF others = <<>> THEN 1 ELSE 0, orders |-> orders]
WatchTasks ==
  {Watch(t, l, Honest, 0, <<>>, {}) : t \in {"noticer", "logs", "anchor"}, l \in {<<>>, <<"a">>}}
  \cup {Watch(t, <<>>, Honest, 0, <<"oobi">>, {}) : t \in {"logs", "anchor"}}
  \cup {Watch(t, <<"a">>, Forked, 0, <<"ksn">>, {}) : t \in {"noticer", "watch"}}
  \cup {Watch("watch", <<"a", "b">>, Honest, 0, <<"ksn">>, {})}
  \cup {Watch("adjudicate", <<"a">>, Forked, n, <<"ksn", "ksn", "logs">>, {}) : n \in 1..2}
  \cup {Watch("adjudicate", <<"a">>, Longer, 0, <<"ksn", "ksn">>, WatchOrders)}

-----------------------------------------------------------------------------
VARIABLES part,
  setting, senders, replayed, sigs, kel, gpse, gdee, gpwe, cgms, wigs, requests, cues,
  delegating, anchored, approved, restarts, sn, dpwe, dune, dpub, cdel, aess, msgs,
  publisher, failed, sent, sealed, published, last, queue, task, finished, has, late,
  inbox, knows, mail, evts, tpcs, writing, topics, events, fetched, pinning, tops,
  parsed, timeouts, crashes, oobis, coobi, eoobi, moobi, roobi, clients, stuck, gone,
  asked, known, full, qnfs, queries, notices, replays, klog, knas, ksns, stage, want,
  heard, pending, states, verdict, wwas, expired
grpVars == <<setting, senders, replayed, sigs, kel, gpse, gdee, gpwe, cgms, wigs,
             requests, cues, delegating, anchored, approved, restarts>>
ancVars == <<setting, sn, dpwe, dune, dpub, cdel, aess, wigs, msgs, cues, publisher,
             failed, sent, sealed, published, restarts>>
witVars == <<setting, last, queue, task, finished, wigs, failed, has, late, inbox, knows,
             mail>>
boxVars == <<evts, tpcs, msgs, writing, topics, events, fetched, pinning, tops, parsed,
             timeouts, restarts, crashes>>
oobVars == <<oobis, coobi, eoobi, moobi, roobi, clients, stuck, gone, asked, restarts>>
watVars == <<setting, known, full, qnfs, queries, notices, replays, klog, knas, ksns,
             cues, stage, want, heard, pending, states, verdict, wwas, asked, expired>>
allVars == <<part, vars, watVars, grpVars, ancVars, witVars, boxVars, oobVars>>

Grp == INSTANCE Groups WITH GroupEvents <- GroupLog, Members <- <<"m1", "m2", "m3">>,
         Threshold <- 2, Worlds <- GroupWorlds, world <- setting, MaxRestarts <- 1, None <- "nil"
Anc == INSTANCE Anchorer WITH OwnEvents <- DelegateLog, Worlds <- DelegateWorlds, world <- setting,
         MaxRestarts <- 1, None <- "nil"
Wit == INSTANCE Witnessing WITH Worlds <- WitnessWorlds, world <- setting, Witnesses <- Every
Box == INSTANCE Mailboxes WITH Topics <- {"x", "y"}, Letters <- Mail, Orders <- MailOrders,
         Homeless <- {"z"}, MaxTimeouts <- 1, MaxRestarts <- 1
Oob == INSTANCE Oobiery WITH Web <- Hosts, Lists <- [multi |-> {"wit", "ctrl"}],
         Malformed <- {"odd"}, Unreachable <- {"far"}, MaxAsked <- 5, MaxRestarts <- 1

Wat == INSTANCE Watching WITH KeyEvents <- Watched, Sources <- {"w1", "w2"},
         WatchWorlds <- WatchTasks, world <- setting, None <- "nil"

ASSUME MailboxesSound == Box!MailboxesAssumption
ASSUME JoiningSound == JoiningAssumption
ASSUME GroupsSound == Grp!GroupsAssumption
ASSUME AnchorerSound == Anc!AnchorerAssumption
ASSUME OobierySound == Oob!OobieryAssumption
ASSUME WitnessingSound == Wit!WitnessingAssumption
ASSUME WatchingSound == Wat!WatchingAssumption

(* The variables only one component has, in behaviours about another one; *)
(* components share the variables that have one name.                      *)
grpOnly == <<senders, replayed, sigs, kel, gpse, gdee, gpwe, cgms, requests, delegating,
             anchored, approved>>
ancOnly == <<sn, dpwe, dune, dpub, cdel, aess, publisher, sent, sealed, published>>
witOnly == <<last, queue, task, finished, has, late, inbox, knows, mail>>
boxOnly == <<evts, tpcs, writing, topics, events, fetched, pinning, tops, parsed,
             timeouts, crashes>>
oobOnly == <<oobis, coobi, eoobi, moobi, roobi, clients, stuck, gone>>
watOnly == <<known, full, qnfs, queries, notices, replays, klog, knas, ksns, stage, want,
             heard, pending, states, verdict, wwas, expired>>
JoiUnused == Init /\ world = CHOOSE w \in Worlds : TRUE
WatUnused ==
  /\ known = 0 /\ full = 0 /\ qnfs = 0 /\ queries = 0 /\ notices = 0 /\ replays = 0
  /\ klog = 0 /\ knas = 0 /\ ksns = 0 /\ stage = 0 /\ want = 0 /\ heard = 0
  /\ pending = 0 /\ states = 0 /\ verdict = 0 /\ wwas = 0 /\ expired = 0
GrpUnused ==
  /\ senders = 0 /\ replayed = 0 /\ sigs = 0 /\ kel = 0 /\ gpse = 0 /\ gdee = 0
  /\ gpwe = 0 /\ cgms = 0 /\ requests = 0 /\ delegating = 0 /\ anchored = 0
  /\ approved = 0
AncUnused ==
  /\ sn = 0 /\ dpwe = 0 /\ dune = 0 /\ dpub = 0 /\ cdel = 0 /\ aess = 0 /\ publisher = 0
  /\ sent = 0 /\ sealed = 0 /\ published = 0
WitUnused ==
  /\ last = 0 /\ queue = 0 /\ task = 0 /\ finished = 0 /\ has = 0 /\ late = 0
  /\ inbox = 0 /\ knows = 0 /\ mail = 0
BoxUnused ==
  /\ evts = 0 /\ tpcs = 0 /\ writing = 0 /\ topics = 0 /\ events = 0 /\ fetched = 0
  /\ pinning = 0 /\ tops = 0 /\ parsed = 0 /\ timeouts = 0 /\ crashes = 0
OobUnused ==
  /\ oobis = 0 /\ coobi = 0 /\ eoobi = 0 /\ moobi = 0 /\ roobi = 0 /\ clients = 0
  /\ stuck = 0 /\ gone = 0
AnyInit ==
  \/ /\ part = "group" /\ Grp!Init /\ JoiUnused /\ AncUnused /\ WitUnused /\ BoxUnused /\ OobUnused
     /\ WatUnused /\ msgs = 0 /\ failed = 0 /\ asked = 0
  \/ /\ part = "anchorer" /\ Anc!Init /\ JoiUnused /\ GrpUnused /\ WitUnused /\ BoxUnused
     /\ OobUnused /\ WatUnused /\ asked = 0
  \/ /\ part = "witnesses" /\ Wit!Init /\ JoiUnused /\ GrpUnused /\ AncUnused /\ BoxUnused
     /\ OobUnused /\ WatUnused /\ cues = 0 /\ restarts = 0 /\ msgs = 0 /\ asked = 0
  \/ /\ part = "mailboxes" /\ Box!Init /\ JoiUnused /\ GrpUnused /\ AncUnused /\ WitUnused
     /\ OobUnused /\ WatUnused /\ setting = 0 /\ wigs = 0 /\ cues = 0 /\ failed = 0
     /\ asked = 0
  \/ /\ part = "oobis" /\ Oob!Init /\ JoiUnused /\ GrpUnused /\ AncUnused /\ WitUnused /\ BoxUnused
     /\ WatUnused /\ setting = 0 /\ wigs = 0 /\ cues = 0 /\ msgs = 0 /\ failed = 0
  \/ /\ part = "watching" /\ Wat!Init /\ JoiUnused /\ GrpUnused /\ AncUnused /\ WitUnused /\ BoxUnused
     /\ OobUnused /\ wigs = 0 /\ msgs = 0 /\ failed = 0 /\ restarts = 0
  \/ /\ part = "joining" /\ Init /\ GrpUnused /\ AncUnused /\ WitUnused /\ BoxUnused
     /\ OobUnused /\ WatUnused /\ setting = 0 /\ wigs = 0 /\ cues = 0 /\ msgs = 0
     /\ failed = 0 /\ asked = 0 /\ restarts = 0
GrpOn == part = "group" /\ UNCHANGED <<part, vars, ancOnly, witOnly, boxOnly, oobOnly, watOnly,
                    msgs, failed, asked>>
AncOn == part = "anchorer" /\ UNCHANGED <<part, vars, grpOnly, witOnly, boxOnly, oobOnly,
                    watOnly, asked>>
WitOn == part = "witnesses" /\ UNCHANGED <<part, vars, grpOnly, ancOnly, boxOnly, oobOnly,
                    watOnly, cues, restarts, msgs, asked>>
BoxOn == part = "mailboxes" /\ UNCHANGED <<part, vars, grpOnly, ancOnly, witOnly, oobOnly,
                    watOnly, setting, wigs, cues, failed, asked>>
OobOn == part = "oobis" /\ UNCHANGED <<part, vars, grpOnly, ancOnly, witOnly, boxOnly, watOnly,
                    setting, wigs, cues, msgs, failed>>
WatOn == part = "watching" /\ UNCHANGED <<part, vars, grpOnly, ancOnly, witOnly, boxOnly,
                    oobOnly, wigs, msgs, failed, restarts>>
JoiOn == part = "joining" /\ UNCHANGED <<part, grpOnly, ancOnly, witOnly, boxOnly, oobOnly,
                    watOnly, setting, wigs, cues, msgs, failed, asked, restarts>>
AnyNext ==
  \/ \E e \in DOMAIN GroupLog : GrpOn /\ Grp!Propose(e)
  \/ \E e \in DOMAIN GroupLog, m \in {"m1", "m2", "m3"} : GrpOn /\ Grp!Receive(e, m)
  \/ \E e \in DOMAIN GroupLog : GrpOn /\ Grp!ReceiveSigned(e)
  \/ \E e \in DOMAIN GroupLog : GrpOn /\ Grp!DelegatorSeals(e)
  \/ \E e \in DOMAIN GroupLog : GrpOn /\ Grp!Accept(e)
  \/ \E e \in DOMAIN GroupLog : GrpOn /\ Grp!Receipt(e)
  \/ \E e \in DOMAIN GroupLog : GrpOn /\ Grp!GetReceipts(e)
  \/ \E e \in DOMAIN GroupLog : GrpOn /\ Grp!AnchorerDone(e)
  \/ GrpOn /\ Grp!processPartialSignedEscrow
  \/ GrpOn /\ Grp!processDelegateEscrow
  \/ GrpOn /\ Grp!processPartialWitnessEscrow
  \/ GrpOn /\ Grp!Restart
  \/ GrpOn /\ Grp!Idle
  \/ \E e \in DOMAIN DelegateLog : AncOn /\ Anc!Make(e)
  \/ \E e \in DOMAIN DelegateLog : AncOn /\ Anc!processPartialWitnessEscrow(e)
  \/ \E e \in DOMAIN DelegateLog : AncOn /\ Anc!processUnanchoredEscrow(e)
  \/ \E e \in DOMAIN DelegateLog : AncOn /\ Anc!processWitnessPublication(e)
  \/ \E e \in DOMAIN DelegateLog : AncOn /\ Anc!DelegatorSeals(e)
  \/ \E e \in DOMAIN DelegateLog, w \in {"w1", "w2"} : AncOn /\ w \in Anc!Wits /\ Anc!ReceiptLate(e, w)
  \/ AncOn /\ Anc!Receipt
  \/ AncOn /\ Anc!PublisherDone
  \/ AncOn /\ Anc!Restart
  \/ AncOn /\ Anc!Idle
  \/ WitOn /\ Wit!Make
  \/ WitOn /\ Wit!StartReceiptor
  \/ WitOn /\ Wit!catchup
  \/ WitOn /\ Wit!StartRequests
  \/ WitOn /\ Wit!RequestReceipt
  \/ WitOn /\ Wit!StartPropagation
  \/ WitOn /\ Wit!Propagate
  \/ WitOn /\ Wit!Finish
  \/ WitOn /\ Wit!StartWitnessReceiptor
  \/ WitOn /\ Wit!SendEvent
  \/ WitOn /\ Wit!AllReceipts
  \/ WitOn /\ Wit!ExchangeReceipts
  \/ WitOn /\ Wit!FinishExchange
  \/ WitOn /\ Wit!Idle
  \/ \E w \in Every : WitOn /\ Wit!ParseNext(w)
  \/ \E w \in Every : WitOn /\ Wit!Unescrow(w)
  \/ \E n \in 1..3, w \in Every : WitOn /\ Wit!ReadMail(n, w)
  \/ BoxOn /\ Box!DropHomeless
  \/ BoxOn /\ Box!AppendTopic
  \/ BoxOn /\ Box!StoreMsg
  \/ BoxOn /\ Box!Connect
  \/ BoxOn /\ Box!NextItems
  \/ BoxOn /\ Box!TakeEvent
  \/ BoxOn /\ Box!PinTopics
  \/ BoxOn /\ Box!ParseFetched
  \/ BoxOn /\ Box!TimeoutStream
  \/ BoxOn /\ Box!RestartClient
  \/ BoxOn /\ Box!RestartMailbox
  \/ BoxOn /\ Box!Idle
  \/ \E u \in DOMAIN Hosts : OobOn /\ Oob!Resolve(u)
  \/ \E u \in DOMAIN Hosts : OobOn /\ Oob!ForceResolve(u)
  \/ \E u \in DOMAIN Hosts : OobOn /\ Oob!processOobis(u)
  \/ \E u \in DOMAIN Hosts : OobOn /\ Oob!processClients(u)
  \/ \E u \in DOMAIN Hosts : OobOn /\ Oob!processRetries(u)
  \/ \E u \in DOMAIN Hosts : OobOn /\ Oob!processMOOBIs(u)
  \/ \E u \in DOMAIN Hosts, a \in Oob!Answers : OobOn /\ Oob!Answer(u, a)
  \/ OobOn /\ Oob!Restart
  \/ OobOn /\ Oob!Idle
  \/ WatOn /\ \E q \in queries : Wat!processQuery(q)
  \/ WatOn /\ \E q \in qnfs : Wat!Expire(q)
  \/ WatOn /\ \E m \in notices : Wat!processReplyKeyStateNotice(m)
  \/ WatOn /\ \E m \in replays : Wat!processReplay(m)
  \/ \E w \in {"w1", "w2"} : WatOn /\ Wat!processQueryNotFound(w)
  \/ \E w \in {"w1", "w2"} : WatOn /\ Wat!Learn(w)
  \/ \E w \in {"w1", "w2"} : WatOn /\ Wat!Witness(w)
  \/ \E w \in {"w1", "w2"} : WatOn /\ Wat!AskOther(w)
  \/ \E w \in {"w1", "w2"} : WatOn /\ Wat!ResolveOther(w)
  \/ \E o \in WatchOrders : WatOn /\ Wat!processReplyAddWatched(o)
  \/ WatOn /\ Wat!KeyStateNoticer
  \/ WatOn /\ Wat!NoticeSaved
  \/ WatOn /\ Wat!LogQuerier
  \/ WatOn /\ Wat!SeqNoQuerier
  \/ WatOn /\ Wat!AnchorQuerier
  \/ WatOn /\ Wat!adjudicate
  \/ WatOn /\ Wat!WatchAsk
  \/ WatOn /\ Wat!WatchRead
  \/ WatOn /\ Wat!watchDo
  \/ WatOn /\ Wat!Idle
  \/ JoiOn /\ \E o \in world.orders : Propose(o)
  \/ \E m \in GroupMembers : JoiOn /\ \E x \in posted[m] : Receive(m, x)
  \/ \E m \in GroupMembers : JoiOn /\ \E x \in held[m] : Accept(m, x[1])
  \/ \E m \in GroupMembers : JoiOn /\ incept(m)
  \/ \E m \in GroupMembers : JoiOn /\ joinInteract(m)
  \/ \E m \in GroupMembers : JoiOn /\ joinRotate(m)
  \/ \E m \in GroupMembers : JoiOn /\ rpy(m)
  \/ \E m \in GroupMembers : JoiOn /\ vcp(m)
  \/ \E m \in GroupMembers : JoiOn /\ iss(m)
  \/ \E m \in GroupMembers : JoiOn /\ rev(m)
  \/ \E m \in GroupMembers : JoiOn /\ startCounselor(m)
  \/ \E m \in GroupMembers : JoiOn /\ Abort(m)
  \/ JoiOn /\ Idle

(* The fairness of each component, for its own behaviours.                 *)
AnyFairness ==
  /\ WF_grpVars(part = "group" /\ Grp!Loops)
  /\ WF_ancVars(part = "anchorer" /\ Anc!Loops)
  /\ WF_witVars(part = "witnesses" /\ (Wit!Doer \/ Wit!Parsers))
  /\ WF_boxVars(part = "mailboxes" /\ Box!Loops)
  /\ WF_oobVars(part = "oobis" /\ Oob!SteadyTurn)
  /\ WF_watVars(part = "watching" /\ Wat!Steady)
  /\ WF_vars(part = "joining" /\ Working)
AnySpec == AnyInit /\ [][AnyNext]_allVars /\ AnyFairness

-----------------------------------------------------------------------------
(* What each component states, of the behaviours that are about it.        *)

(* What counts as completed is: an event of a group with witnesses         *)
(* (Counselor), a delegation (Anchorer), a list of URLs (processMOOBIs),   *)
(* the exchange of an event's receipts (Receiptor).                        *)
CompletedSoundly ==
  /\ part = "group" => Grp!CompletedAccepted
  /\ part = "anchorer" => Anc!CompletedSealed
  /\ part = "witnesses" => Wit!ReceiptsExchanged
  /\ part = "oobis" => Oob!ListResolved
  /\ part = "watching" => Wat!UpdateAgreed /\ Wat!DuplicityReal
  /\ part = "joining" => LogsAgree

(* Types and the inductive invariants of Groups, Anchorer, Oobiery,        *)
(* Witnessing, Watching, Mailboxes: the Anchorer has an event in one       *)
(* escrow or completed; what members of a group propose is read as local   *)
(* once the local member agrees, and only then (Multiplexor.add); no URL   *)
(* that was asked for is lost (Oobiery); what a source is taken to have it *)
(* had.  No message of a mailbox is passed over or read out of order       *)
(* (Poller.eventDo); a member waits because members disagree, and for no   *)
(* other reason (JoinDoer).                                                *)
NothingPassedOver ==
  /\ part = "group" => Grp!GroupsInv
  /\ part = "anchorer" => Anc!AnchorerInv
  /\ part = "witnesses" => Wit!WitnessingInv
  /\ part = "mailboxes" => Box!MailboxesInv /\ Box!NoneSkipped /\ Box!InOrder
  /\ part = "oobis" => Oob!OobieryInv
  /\ part = "watching" => Wat!WatchingInv /\ Wat!NoticesOwn
  /\ part = "joining" => TypeOK /\ StuckApart

(* What was begun comes to its end under the conditions each component     *)
(* states: group events and delegations complete, witnesses have the whole *)
(* log, messages arrive, URLs get their result.                            *)
WorkFinishes ==
  /\ []<>(part = "group" => Grp!AllCompleted)
  /\ []<>(part = "anchorer" => Anc!AllCompleted)
  /\ []<>(part = "witnesses" => Wit!AllServed)
  /\ []<>(part = "mailboxes" => Box!AllRead)
  /\ []<>(part = "oobis" => Oob!AllResolved)
  /\ []<>(part = "watching" => Wat!Finished)
  /\ []<>(part = "joining" => AllLogged)
=============================================================================
