------------------------------ MODULE MCMessages ------------------------------
(* Small instances of Replies, Kram, and Exchanges with Disclosure for     *)
(* TLC; the initial state chooses the component a behaviour is about, and  *)
(* the messages.                                                           *)
EXTENDS Exchanges, TLC

(* Replies: two replies each to one location, one role and, without a      *)
(* signature of a transferable identifier, one location; whole and in      *)
(* pieces, by keys of two events.                                          *)
Reply(k, kind, d, t) == [key |-> k, kind |-> kind, date |-> d, trans |-> t]
ReplyLog ==
  [l1 |-> Reply("loc", "loc", 1, TRUE), l2 |-> Reply("loc", "loc", 2, TRUE),
   e1 |-> Reply("end", "end", 1, TRUE), e2 |-> Reply("end", "end", 2, TRUE),
   n1 |-> Reply("non", "loc", 1, FALSE), n2 |-> Reply("non", "loc", 2, FALSE)]
TwoKeys == (0 :> {"a", "b"}) @@ (1 :> {"a", "c"})
Signed(r, n, s) == [reply |-> r, sn |-> n, sigs |-> s]
Answered ==
  {Signed("l1", 0, {"a"}), Signed("l1", 0, {"b"}), Signed("l1", 1, {"a", "c"}),
   Signed("l2", 0, {"a", "b"}), Signed("l2", 1, {"b", "c"}), Signed("l2", 1, {"a"}),
   Signed("e1", 0, {"a", "b"}), Signed("e1", 1, {"a", "c"}), Signed("e2", 0, {"a"}),
   Signed("e2", 0, {"a", "b"}), Signed("n1", 0, {}), Signed("n2", 0, {})}
ReplyTalks == {<<"l1", "l2">>, <<"e1", "e2">>, <<"n1", "n2">>}

(* Kram: a query, the opening of an exchange that may be sealed, and an    *)
(* answer in it that comes in pieces; the windows grow once.               *)
Query(t) == [mdt |-> t, ctypes |-> <<"qry", "~">>, x |-> None, opens |-> None]
Part(t, o, ty) == [mdt |-> t, ctypes |-> ty, x |-> "x", opens |-> o]
KramLog ==
  [q |-> Query(3), p |-> Part(2, "xip", <<"xip", "~">>), r |-> Part(3, None, <<"exn", "~">>)]
Sent(m, s, g) == [msg |-> m, seal |-> s, sigs |-> g]
Pieces ==
  {Sent("q", FALSE, {"a"}), Sent("q", FALSE, {"b"}), Sent("q", FALSE, {"c"}), Sent("p", TRUE, {}),
   Sent("r", FALSE, {"b"}), Sent("r", FALSE, {"a", "c"})}
Lags(d, sl, ll, xl, psl, pll, pxl) ==
  [d |-> d, sl |-> sl, ll |-> ll, xl |-> xl, psl |-> psl, pll |-> pll, pxl |-> pxl]
Windows ==
  <<("~" :> Lags(0, 1, 1, 1, 2, 2, 3)) @@ ("qry" :> Lags(1, 1, 1, 1, 2, 2, 3)),
    ("~" :> Lags(0, 1, 1, 1, 2, 2, 3)) @@ ("qry" :> Lags(1, 2, 2, 2, 3, 3, 3))
      @@ ("exn" :> Lags(0, 2, 2, 2, 3, 3, 4))>>
Covering == ("~" :> {"~", "qry", "exn"}) @@ ("qry" :> {"qry"}) @@ ("exn" :> {"exn"})

(* Exchanges: a thread that is granted or negotiated, with a graph of      *)
(* three credentials, by a sender who rotates.                             *)
Say(v, p, f, t, ax, g, c) ==
  [verb |-> v, prior |-> p, thread |-> "x", from |-> f, to |-> t, ax |-> ax, graph |-> g, chained |-> c]
Leaf(n, ops, s) == [kind |-> "leaf", n |-> n, ops |-> ops, s |-> s]
Group(o, s, parts) == [kind |-> "group", o |-> o, s |-> s, parts |-> parts]
Credential(r, e, s) == [issuer |-> r, issuee |-> e, schema |-> s, fits |-> {"s0"}]
Held == [a |-> Credential("X", "Y", "s1"), b |-> Credential("Y", "X", "s2"), c |-> Credential("Z", "X", "s2")]
Edges ==
  [a |-> Group("OR", None, {Leaf("b", {"I2I"}, None), Leaf("c", {"NI2I"}, "s0")}),
   b |-> Group("AND", "s2", {Leaf("c", {"E1E"}, None)}), c |-> None]
Graph(nests) == [origin |-> "a", nests |-> nests, edges |-> Edges, data |-> Held]
ExchangeLog ==
  [ap |-> Say("apply", None, "X", "Y", FALSE, None, FALSE),
   gr |-> Say("grant", "ap", "Y", "X", FALSE, Graph(<<"a", "b", "c">>), TRUE),
   gx |-> Say("grant", "ap", "Y", "X", FALSE, Graph(<<"a", "c">>), FALSE),
   of |-> Say("offer", "ap", "Y", "X", TRUE, Graph(<<"a", "c">>), FALSE),
   ox |-> Say("offer", "ap", "Y", "X", TRUE, Graph(<<"c", "a">>), FALSE),
   oy |-> Say("offer", "ap", "Y", "X", FALSE,
              [Graph(<<"a", "b", "c">>) EXCEPT !.edges.a = None], FALSE),
   ag |-> Say("agree", "of", "X", "Y", TRUE, None, FALSE),
   sp |-> Say("spurn", "gr", "X", "Y", FALSE, None, FALSE),
   ad |-> Say("admit", "gr", "X", "Y", FALSE, None, FALSE)]
Schemas == {"s0", "s1"}
Dis == INSTANCE Disclosure
Grants(m) == Verb(m) = "grant"
Disclosing == [m \in Msgs |-> Dis!Discloses(MsgData[m].graph, Grants(m))]
Disclosed(m) == Disclosing[m]
Brought(m, sn, s, seal) == [msg |-> m, sn |-> sn, sigs |-> s, seal |-> seal]
Both == {"a", "b"}
Exchanged ==
  {Brought(m, 0, Both, FALSE) : m \in {"ap", "of", "ad", "ox", "oy", "gx", "sp"}}
    \cup {Brought("gr", 0, {"a"}, FALSE), Brought("gr", 0, {"b"}, FALSE), Brought("ag", 0, {}, TRUE),
          Brought("ad", 1, {"a", "c"}, FALSE)}
SenderKeys == [X |-> TwoKeys, Y |-> (0 :> {"a", "b"})]
Threads ==
  {<<"ap", "gr", "ad">>, <<"ap", "of", "ag">>, <<"gr", "ap", "of">>, <<"gr", "sp", "ap">>,
   <<"ap", "oy", "gx">>, <<"ap", "ox", "ad">>}
-----------------------------------------------------------------------------
VARIABLES part, talk, held, tsgs, rpes, latest, since,
  now, est, conf, ctyp, pending, cache, partial, xdt, accepted
repVars == <<kel, held, tsgs, rpes, latest, since, stale>>
krmVars == <<now, est, sealed, conf, ctyp, pending, cache, partial, xdt,
    accepted>>
msgVars == <<part, talk, repVars, krmVars, vars>>

Rep == INSTANCE Replies WITH ReplyData <- ReplyLog, KeysAt <- TwoKeys, Threshold <- 2,
         Deliveries <- Answered
Krm == INSTANCE Kram WITH MsgData <- KramLog, Deliveries <- Pieces, KeysAt <- TwoKeys,
         Threshold <- (0 :> 2) @@ (1 :> 2), Configs <- Windows, Covers <- Covering,
         Start <- 2, MaxTime <- 9

(* The windows are of the kind the code takes, and have the room for each  *)
(* message that MessageProofs asks for.                                    *)
ASSUME WindowsRoomy ==
  /\ \A i \in DOMAIN Windows : \A c \in DOMAIN Windows[i] : Krm!Validated(Windows[i][c])
  /\ \A m \in DOMAIN KramLog : Krm!Roomy(m)

(* The signer's log has its keys in order, as MessageProofs asks for.      *)
ASSUME RepliesSound == Rep!RepliesAssumption

(* The variables only one component has, in behaviours about another one; *)
(* components share the variables that have one name.                      *)
repOnly == <<held, tsgs, rpes, latest, since>>
krmOnly == <<now, est, conf, ctyp, pending, cache, partial, xdt, accepted>>
excOnly == <<chain, esigs, ests, epse, erpy, exns, notified, crashes>>
RepUnused ==
  /\ held = 0 /\ tsgs = 0 /\ rpes = 0 /\ latest = 0 /\ since = 0
KrmUnused ==
  /\ now = 0 /\ est = 0 /\ conf = 0 /\ ctyp = 0 /\ pending = 0 /\ cache = 0
  /\ partial = 0 /\ xdt = 0 /\ accepted = 0
ExcUnused ==
  /\ chain = {} /\ esigs = 0 /\ ests = {} /\ epse = {} /\ erpy = 0 /\ exns = {}
  /\ notified = [m \in Msgs |-> 0] /\ crashes = 0
MsgInit ==
  \/ /\ part = "replies" /\ Rep!Init /\ KrmUnused /\ ExcUnused /\ sealed = 0
     /\ talk \in ReplyTalks
  \/ /\ part = "windows" /\ Krm!Init /\ RepUnused /\ ExcUnused /\ kel = 0 /\ stale = 0
     /\ talk = <<>>
  \/ /\ part = "exchanges" /\ Init /\ RepUnused /\ KrmUnused
     /\ talk \in Threads
RepOn == part = "replies" /\ UNCHANGED <<part, talk, krmOnly, excOnly, sealed>>
KrmOn == part = "windows" /\ UNCHANGED <<part, talk, repOnly, excOnly, kel, stale>>
ExcOn == part = "exchanges" /\ UNCHANGED <<part, talk, repOnly, krmOnly>>
Said == {talk[i] : i \in DOMAIN talk}
MsgNext ==
  \/ \E m \in Answered : m.reply \in Said /\ RepOn /\ Rep!Deliver(m)
  \/ \E r \in DOMAIN ReplyLog : RepOn /\ Rep!RetryEscrowed(r)
  \/ \E r \in DOMAIN ReplyLog : RepOn /\ Rep!Age(r)
  \/ RepOn /\ Rep!LearnEvent
  \/ \E d \in Pieces : KrmOn /\ Krm!kramit(d)
  \/ \E m \in DOMAIN KramLog : m = "p" /\ KrmOn /\ Krm!LearnSeal(m)
  \/ KrmOn /\ Krm!changeConfig
  \/ KrmOn /\ Krm!Prune
  \/ KrmOn /\ Krm!LearnKeys
  \/ KrmOn /\ Krm!Tick
  \/ KrmOn /\ Krm!Restart
  \/ \E d \in Exchanged : d.msg \in Said /\ ExcOn /\ Deliver(d)
  \/ \E m \in DOMAIN ExchangeLog : ExcOn /\ Retry(m)
  \/ \E m \in DOMAIN ExchangeLog : ExcOn /\ Age(m)
  \/ \E a \in {"X", "Y"} : ExcOn /\ LearnKeys(a)
  \/ \E m \in DOMAIN ExchangeLog : m \in {"ag"} \cap Said /\ ExcOn /\ LearnSeal(m)
  \/ \E m \in DOMAIN ExchangeLog : m \in Said /\ ExcOn /\ LearnChain(m)

(* Each pass visits every entry of an escrow.  The entries of a behaviour  *)
(* are those of its talk.                                                  *)
Visits(i) ==
  \/ i \in DOMAIN talk /\ RepOn /\ Rep!RetryEscrowed(talk[i])
  \/ i \in DOMAIN talk /\ ExcOn /\ Retry(talk[i])
Fairness == WF_msgVars(Visits(1)) /\ WF_msgVars(Visits(2)) /\ WF_msgVars(Visits(3))
MsgSpec == MsgInit /\ [][MsgNext]_msgVars /\ Fairness

-----------------------------------------------------------------------------
(* What each component states, of the behaviours that are about it.        *)

(* Types; a message that waits for signatures has a record, one inside its *)
(* windows is handed on once, the messages of an exchange agree on its     *)
(* beginning, and windows stay nested (kramit, changeConfig); what a saved *)
(* message discloses is one whole graph (IpexHandler.verify).              *)
StoredSound ==
  /\ part = "replies" => Rep!TypeOK
  /\ part = "windows" =>
       /\ Krm!TypeOK /\ Krm!WaitsOrDone /\ Krm!OneBeginning /\ Krm!WindowsNested /\ Krm!Appliable
       /\ Krm!AcceptedOnce /\ (conf = 1 => Krm!KramInv)
  /\ part = "exchanges" =>
       ExchangesInv /\ \A m \in exns : Dis!Whole(MsgData[m].graph, Grants(m))

(* What replaces a reply is signed and later (acceptReply); a message that *)
(* came in pieces was signed by the keys of one event (kramit).            *)
SignedInOrder ==
  [][/\ part = "replies" => Rep!SignsAndSucceeds
     /\ part = "windows" => Krm!PiecesAgree]_msgVars

(* A reply or an exchange message that waits and can be judged is judged   *)
(* or dropped (processEscrowReply, processEscrow).  A message that waits   *)
(* in Kram for more signatures may wait for ever.                          *)
Settled(i) ==
  /\ part = "replies" /\ i \in DOMAIN talk => ~Rep!Ready(talk[i])
  /\ part = "exchanges" /\ i \in DOMAIN talk => ~Judged(talk[i])
MessagesResolve == []<>Settled(1) /\ []<>Settled(2) /\ []<>Settled(3)
=============================================================================
