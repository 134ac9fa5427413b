--------------------------- MODULE MCTransactions ---------------------------
(* Small instances of Registry, Credentials, Issuance, TxnStates, Builders *)
(* and BlindRegistry with Vetting for TLC; the initial state chooses the   *)
(* component a behaviour is about, and the variables of the others keep    *)
(* their values.                                                           *)
EXTENDS Registry

(* Registry: a registry r without backers and its credential c; a registry *)
(* s with backers that change, and its credential d.                       *)
Tel(pre, reg, sn, ilk, prior, ra) ==
  [pre |-> pre, reg |-> reg, sn |-> sn, ilk |-> ilk, prior |-> prior, ra |-> ra,
   cuts |-> {}, adds |-> {}, toad |-> 0]
RegistryEv ==
  [vcp |-> Tel("r", "r", 0, "vcp", "nil", "nil"),
   iss |-> Tel("c", "r", 0, "iss", "nil", "nil"),
   rev |-> Tel("c", "r", 1, "rev", "iss", "nil"),
   revx |-> Tel("c", "r", 1, "rev", "vcp", "nil"),
   bvcp |-> [Tel("s", "s", 0, "vcp", "nil", "nil") EXCEPT !.adds = {"b1", "b2"}, !.toad = 1],
   vrt |-> [Tel("s", "s", 1, "vrt", "bvcp", "nil") EXCEPT !.cuts = {"b1"}, !.adds = {"b3"}, !.toad = 2],
   bis |-> Tel("d", "s", 0, "bis", "nil", "vrt"),
   brv |-> Tel("d", "s", 1, "brv", "bis", "vrt")]
Kel(sn, prior, seals) == [sn |-> sn, prior |-> prior, seals |-> seals]
RegistryKel ==
  [k0 |-> Kel(0, "nil", <<>>), k1 |-> Kel(1, "k0", <<"vcp">>), k2 |-> Kel(2, "k1", <<"iss">>),
   k3 |-> Kel(3, "k2", <<"rev">>), k3x |-> Kel(3, "k2", <<"revx">>),
   s1 |-> Kel(1, "k0", <<"bvcp">>), s2 |-> Kel(2, "s1", <<"vrt">>),
   s3 |-> Kel(3, "s2", <<"bis">>)]
Msg(e, a, bigs) == [event |-> e, anchor |-> a, bigs |-> bigs]
Comes(msgs, kel) == [msgs |-> msgs, kel |-> kel, local |-> FALSE]
RegistryTraffics ==
  { Comes({Msg("vcp", "k1", {}), Msg("iss", "k2", {}), Msg("iss", "k1", {}), Msg("rev", "k3", {})},
          {"k0", "k1", "k2", "k3"}),
    Comes({Msg("vcp", "k1", {}), Msg("iss", "k2", {}), Msg("rev", "k3", {}), Msg("revx", "k3x", {})},
          {"k0", "k1", "k2", "k3", "k3x"}),
    Comes({Msg("bvcp", "s1", {"b1"}), Msg("vrt", "s2", {"b1", "b3"}), Msg("vrt", "s2", {"b2", "b3"}),
           Msg("bis", "s3", {"b2", "b3"}), Msg("vrt", "nil", {"b2"})},
          {"k0", "s1", "s2", "s3"}),
    [Comes({Msg("bvcp", "s1", {}), Msg("vrt", "s2", {"b3"}), Msg("bis", "s3", {})},
           {"k0", "s1", "s2", "s3"}) EXCEPT !.local = TRUE] }
RegistryPlaces == <<<<"c", 0>>, <<"c", 1>>, <<"d", 0>>, <<"d", 1>>, <<"r", 0>>, <<"s", 0>>, <<"s", 1>>>>

(* Credentials: a chain of three with edges of every kind, and one whose   *)
(* issuer does not own the far node.                                       *)
Edge(node, ops, schema) == [node |-> node, ops |-> ops, schema |-> schema]
Cred(reg, issuer, issuee, schema, edges) ==
  [reg |-> reg, issuer |-> issuer, issuee |-> issuee, schema |-> schema, edges |-> edges]
ChainOf ==
  [root |-> Cred("r", "gleif", "qvi", "s", <<>>),
   leaf |-> Cred("r", "qvi", "le", "s", <<Edge("root", <<"NI2I", "I2I">>, "t")>>),
   fake |-> Cred("q", "le", "qvi", "s", <<Edge("root", <<"E1E", "NI2I", "I2I">>, "s")>>),
   peer |-> Cred("r", "le", "qvi", "s", <<Edge("leaf", <<>>, "s"), Edge("root", <<"E1E">>, "s")>>)]
World(cs, done, aging) == [creds |-> cs, saved |-> done, timed |-> aging]
ChainWorlds ==
  {World(<<"root", "leaf">>, {}, FALSE), World(<<"fake", "root">>, {}, FALSE),
   World(<<"peer", "leaf", "root">>, {"root"}, FALSE),
   World(<<"leaf", "root">>, {"root"}, TRUE)}
ChainMeets == {<<"root", "s">>, <<"root", "t">>, <<"leaf", "s">>, <<"fake", "s">>, <<"peer", "s">>}

(* Issuance: a registry and its credentials, alone and in a group.         *)
Made(pre, sn, cred, ilk) == [pre |-> pre, sn |-> sn, cred |-> cred, ilk |-> ilk]
IssuanceEvents ==
  [vcp |-> Made("r", 0, "nil", "vcp"), iss |-> Made("c", 0, "c", "iss"),
   rev |-> Made("c", 1, "nil", "rev"), iss2 |-> Made("d", 0, "d", "iss")]
IssuanceWorlds ==
  {[group |-> FALSE, makes |-> {"vcp", "iss"}, made |-> {}],
   [group |-> FALSE, makes |-> {"iss", "rev"}, made |-> {"vcp"}],
   [group |-> TRUE, makes |-> {"iss", "iss2", "rev"}, made |-> {"vcp"}]}

(* BlindRegistry: updates of one controller; of two members of a group;    *)
(* and seals that a recovery of the log moves.                             *)
Blind(n, p, td) == [sn |-> n, prior |-> p, reg |-> "r", td |-> td, dt |-> n]
BlindEv ==
  [rip |-> Blind(0, "nil", "nil"), u1 |-> Blind(1, "rip", "c"), u2 |-> Blind(2, "u1", "nil"),
   x1 |-> Blind(1, "rip", "g"), x2 |-> Blind(2, "x1", "c")]
Seal(n, p, es) == [sn |-> n, prior |-> p, seals |-> es]
BlindKel ==
  [k0 |-> Seal(0, "nil", {}), k1 |-> Seal(1, "k0", {"rip"}), k2 |-> Seal(2, "k1", {"u1", "x2"}),
   k3 |-> Seal(3, "k2", {"u2", "x1"}), r2 |-> Seal(2, "k1", {"x1"}), r3 |-> Seal(3, "r2", {"u1"})]
Blinds(own, theirs, kel, slow) == [makes |-> own, others |-> theirs, kel |-> kel, slow |-> slow]
Blindings ==
  {Blinds({"rip", "u1", "u2", "x1", "x2"}, {}, {"k0", "k1", "k2", "k3"}, {"k2"}),
   Blinds({"rip", "u1", "u2"}, {"x1", "x2"}, {"k0", "k1", "k2", "k3"}, {}),
   Blinds({"rip", "u1"}, {"x1"}, {"k0", "k1", "k2", "r2", "r3"}, {})}

(* TxnStates: a registry of two events with a credential revoked, told of  *)
(* by the issuer, witnesses, backers and a watcher.                        *)
NoticeRegistry == <<[event |-> "bvcp", baks |-> {"b1", "b2"}], [event |-> "vrt", baks |-> {"b2"}]>>
NoticeCredential == <<[event |-> "bis", ra |-> 1], [event |-> "brv", ra |-> 2]>>
Tells(k, s, n) == [kind |-> k, from |-> s, n |-> n]
Odd(k, s, n, e, signs) ==
  [kind |-> k, sn |-> n, from |-> s, event |-> e, b |-> {"b2"}, ra |-> 0, signed |-> signs]
Telling(backs, told, odd, ages, again, asks) ==
  [backed |-> backs, lax |-> asks, told |-> told, odd |-> odd, old |-> ages, again |-> again, asks |-> asks]
Tellings ==
  {Telling(TRUE, {Tells("registry", "b2", 1), Tells("registry", "b2", 2)}, {}, FALSE, TRUE, FALSE),
   Telling(TRUE, {Tells("credential", "b1", 1), Tells("credential", "i", 2)},
                 {Odd("credential", "x", 0, "bis", TRUE)}, FALSE, FALSE, FALSE),
   Telling(FALSE, {Tells("registry", "i", 2), Tells("credential", "w", 2)},
                  {Odd("registry", "i", 1, "fork", TRUE)}, TRUE, FALSE, FALSE),
   Telling(TRUE, {Tells("registry", "h", 1)},
                 {Odd("credential", "h", 0, "fork", TRUE), Odd("credential", "i", 0, "bis", FALSE)},
                 FALSE, FALSE, TRUE)}

(* Builders: witness lists of up to five, thresholds at and past a bound,  *)
(* and events of other software, one with too large a next threshold.      *)
Asks(k, t, n, nx, toad, cuts, adds) ==
  [keys |-> k, kt |-> t, next |-> n, nt |-> nx, toad |-> toad, cuts |-> cuts, adds |-> adds,
   nb |-> FALSE]
Default == 99
BackerLists == {<<>>, <<"w1">>, <<"w2">>, <<"w1", "w2">>, <<"w2", "w2">>, <<"w3", "w4", "w5">>}
BuilderRequests ==
  {Asks(1, Default, 1, Default, t, c, a) : t \in {Default, 0, 1, 2, 4}, c \in BackerLists, a \in BackerLists}
  \cup {[Asks(1, Default, 1, Default, Default, <<>>, a) EXCEPT !.nb = TRUE] : a \in BackerLists}
  \cup {Asks(k, t, n, nx, Default, <<>>, <<>>) : k \in {1, 2}, t \in 0..2, n \in 0..2, nx \in {2, Default}}
ForeignRequests ==
  {Asks(1, 1, 1, 1, 0, <<>>, <<>>), Asks(1, 1, 1, 2, 0, <<>>, <<>>), Asks(1, 2, 1, 1, 0, <<>>, <<>>),
   Asks(2, 1, 2, 1, 1, <<>>, <<"w1">>), Asks(2, 1, 2, 1, 1, <<"w1">>, <<"w2">>),
   [Asks(2, 1, 2, 1, 1, <<>>, <<"w2">>) EXCEPT !.nb = TRUE]}

-----------------------------------------------------------------------------
ASSUME RegistrySound == RegistryAssumption

VARIABLES part,
  timed, world, known, tel, cached, reger, old, cues, todo,
  makes, sn, anchorOf, wits, witsAt, wigs, cgms, accepted, anchored, tpwe, tmse, tede, ctel,
  cmse, ccrd, saved, msgs, rcues, posts, pcues, rotated, crashes,
  own, log, seen, sealed, store, named, regk, stops,
  about, kevers, reached, counted, waiting, stated, past, arrived, asked, answered, aged, reloads,
  ledger, head, recorded, made
creVars == <<timed, world, known, tel, cached, reger, old, cues, todo>>
issVars == <<makes, sn, anchorOf, wits, witsAt, wigs, cgms, accepted, anchored, tpwe, tmse, tede, ctel,
             cmse, ccrd, saved, msgs, rcues, posts, pcues, rotated, crashes>>
bliVars == <<own, log, seen, sealed, store, named, regk, stops>>
txnVars == <<about, kevers, reached, counted, waiting, stated, past, arrived, asked, answered, aged,
             reloads>>
bldVars == <<ledger, head, recorded, made>>
allVars == <<part, vars, creVars, issVars, bliVars, txnVars, bldVars>>

Cre == INSTANCE Credentials WITH Credentials <- ChainOf, Worlds <- ChainWorlds, Meets <- ChainMeets,
         Outdated <- {}, Nobody <- "nil"
Iss == INSTANCE Issuance WITH TelEvents <- IssuanceEvents, Worlds <- IssuanceWorlds,
         Witnesses <- {"w1", "w2"}, Replacement <- {"w1"}, MaxRestarts <- 1, None <- "nil",
         world <- makes, tels <- accepted, ancs <- anchored, restarts <- crashes
Bli == INSTANCE BlindRegistry WITH TelEvents <- BlindEv, KelEvents <- BlindKel,
         BlindWorlds <- Blindings, MaxSn <- 2, MaxCrashes <- 1, MaxWrites <- 9, None <- "nil",
         world <- own, kels <- log, wigs <- sealed, crashes <- stops
Txn == INSTANCE TxnStates WITH RegistryUpdates <- NoticeRegistry,
         CredentialUpdates <- NoticeCredential, Issuer <- "i", Witnesses <- {"w"}, Watchers <- {"h"}, NoticeWorlds <- Tellings,
         MaxReloads <- 1, tels <- reached, tever <- counted,
         saved <- stated
Bld == INSTANCE Builders WITH Requests <- BuilderRequests, Foreign <- ForeignRequests,
         MaxSn <- 2, Unset <- Default, kever <- head, states <- recorded
Vet == INSTANCE Vetting WITH TelEvents <- BlindEv, KelEvents <- BlindKel, None <- "nil"

ASSUME CredentialsSound == Cre!CredentialsAssumption
ASSUME NoticesSound == Txn!NoticesAssumption
ASSUME IssuanceSound == Iss!IssuanceAssumption

(* The variables of the components a behaviour is not about.               *)
RegIdle == Init /\ traffic = CHOOSE t \in Traffics : TRUE
CreIdle ==
  /\ timed = 0 /\ world = 0 /\ known = 0 /\ tel = 0 /\ cached = 0 /\ reger = 0 /\ old = 0
  /\ cues = 0 /\ todo = 0
IssIdle ==
  /\ makes = 0 /\ sn = 0 /\ anchorOf = 0 /\ wits = 0 /\ witsAt = 0 /\ wigs = 0 /\ cgms = 0
  /\ accepted = 0 /\ anchored = 0 /\ tpwe = 0 /\ tmse = 0 /\ tede = 0 /\ ctel = 0 /\ cmse = 0
  /\ ccrd = 0 /\ saved = 0 /\ msgs = 0 /\ rcues = 0 /\ posts = 0 /\ pcues = 0 /\ rotated = 0
  /\ crashes = 0
BliIdle ==
  /\ own = 0 /\ log = 0 /\ seen = 0 /\ sealed = 0 /\ store = 0 /\ named = 0 /\ regk = 0
  /\ stops = 0
TxnIdle ==
  /\ about = 0 /\ kevers = 0 /\ reached = 0 /\ counted = 0 /\ waiting = 0 /\ stated = 0 /\ past = 0
  /\ arrived = 0 /\ asked = 0 /\ answered = 0 /\ aged = 0 /\ reloads = 0
BldIdle == ledger = 0 /\ head = 0 /\ recorded = 0 /\ made = 0
AnyInit ==
  \/ part = "registry" /\ Init /\ CreIdle /\ IssIdle /\ BliIdle /\ TxnIdle /\ BldIdle
  \/ part = "credentials" /\ Cre!Init /\ RegIdle /\ IssIdle /\ BliIdle /\ TxnIdle /\ BldIdle
  \/ part = "issuance" /\ Iss!Init /\ RegIdle /\ CreIdle /\ BliIdle /\ TxnIdle /\ BldIdle
  \/ part = "blinds" /\ Bli!Init /\ RegIdle /\ CreIdle /\ IssIdle /\ TxnIdle /\ BldIdle
  \/ part = "notices" /\ Txn!Init /\ RegIdle /\ CreIdle /\ IssIdle /\ BliIdle /\ BldIdle
  \/ part = "builders" /\ Bld!Init /\ RegIdle /\ CreIdle /\ IssIdle /\ BliIdle /\ TxnIdle
RegOn == part = "registry" /\ UNCHANGED <<part, creVars, issVars, bliVars, txnVars, bldVars>>
CreOn == part = "credentials" /\ UNCHANGED <<part, vars, issVars, bliVars, txnVars, bldVars>>
IssOn == part = "issuance" /\ UNCHANGED <<part, vars, creVars, bliVars, txnVars, bldVars>>
BliOn == part = "blinds" /\ UNCHANGED <<part, vars, creVars, issVars, txnVars, bldVars>>
TxnOn == part = "notices" /\ UNCHANGED <<part, vars, creVars, issVars, bliVars, bldVars>>
BldOn == part = "builders" /\ UNCHANGED <<part, vars, creVars, issVars, bliVars, txnVars>>
AnyNext ==
  \/ \E m \in traffic.msgs : RegOn /\ Receive(m)
  \/ \E k \in traffic.kel : RegOn /\ Anchor(k)
  \/ RegOn /\ StartLoop
  \/ RegOn /\ RetryItem
  \/ RegOn /\ Restart
  \/ \E c \in DOMAIN ChainOf : CreOn /\ c \in Cre!Present /\ Cre!Receive(c)
  \/ \E c \in DOMAIN ChainOf : CreOn /\ c \in Cre!Present /\ Cre!LearnEvent(c)
  \/ CreOn /\ Cre!processEscrows
  \/ CreOn /\ Cre!NextTable
  \/ CreOn /\ Cre!RetryNext
  \/ \E x \in {"mre", "mse", "mce"}, c \in DOMAIN ChainOf : CreOn /\ c \in Cre!Present /\ Cre!Expire(x, c)
  \/ \E r \in {"r", "q"} : CreOn /\ r \in Cre!Registries /\ Cre!LearnRegistry(r)
  \/ \E s \in {"s", "t"} : CreOn /\ s \in Cre!Schemas /\ Cre!LearnSchema(s)
  \/ \E e \in DOMAIN IssuanceEvents : IssOn /\ Iss!CreateSingle(e)
  \/ \E e \in DOMAIN IssuanceEvents : IssOn /\ Iss!CreateGroup(e)
  \/ \E e \in DOMAIN IssuanceEvents : IssOn /\ Iss!CompleteGroup(e)
  \/ IssOn /\ Iss!Rotate
  \/ \E n \in 1..5, w \in {"w1", "w2"} : IssOn /\ Iss!ReceiptLate(n, w)
  \/ IssOn /\ Iss!Restart
  \/ \E n \in 1..5 : IssOn /\ Iss!Receipt(n)
  \/ \E e \in DOMAIN IssuanceEvents : IssOn /\ Iss!processWitnessEscrow(e)
  \/ \E e \in DOMAIN IssuanceEvents : IssOn /\ Iss!processMultisigEscrow(e)
  \/ \E e \in DOMAIN IssuanceEvents : IssOn /\ Iss!dropMultisigEscrow(e)
  \/ \E e \in DOMAIN IssuanceEvents : IssOn /\ Iss!processDisseminationEscrow(e)
  \/ \E e \in DOMAIN IssuanceEvents : IssOn /\ Iss!Accept(e)
  \/ \E p \in {"r", "c", "d"} : IssOn /\ Iss!Publish(p)
  \/ \E c \in {"c", "d"} : IssOn /\ Iss!processCredentialMissingSigEscrow(c)
  \/ IssOn /\ Iss!Idle
  \/ \E k \in DOMAIN BlindKel : BliOn /\ Bli!Accept(k)
  \/ \E k \in DOMAIN BlindKel : BliOn /\ Bli!Witness(k)
  \/ \E e \in DOMAIN BlindEv : BliOn /\ Bli!makeRegistry(e)
  \/ \E e \in DOMAIN BlindEv : BliOn /\ Bli!_blind(e)
  \/ \E e \in DOMAIN BlindEv : BliOn /\ Bli!Receive(e)
  \/ \E e \in DOMAIN BlindEv : BliOn /\ \E c \in {Bli!Couple(i) : i \in DOMAIN log} \cup {Bli!NoCouple} :
       Bli!anchorMsg(e, c)
  \/ BliOn /\ Bli!Escrows
  \/ TxnOn /\ \E n \in Txn!Notices : Txn!ReceiveNotice(n)
  \/ TxnOn /\ \E n \in Txn!Notices : Txn!AgeNotice(n)
  \/ TxnOn /\ Txn!Retry
  \/ TxnOn /\ Txn!LearnIssuer
  \/ TxnOn /\ Txn!Reload
  \/ TxnOn /\ Txn!Idle
  \/ \E k \in {"registry", "credential"} : TxnOn /\ Txn!AcceptUpdate(k)
  \/ \E r \in {"tels", "tsn"}, vci \in BOOLEAN : TxnOn /\ Txn!processQuery(r, vci)
  \/ BldOn /\ Bld!Make
  \/ BldOn /\ Bld!TakeMade
  \/ BldOn /\ Bld!RefuseMade
  \/ BldOn /\ Bld!TakeForeign
  \/ BldOn /\ Bld!Idle

(* The fairness of each component, for its own behaviours; no doer runs    *)
(* the escrows of blinded registries.                                      *)
AnyFairness ==
  /\ WF_vars(part = "registry" /\ StartLoop)
  /\ WF_vars(part = "registry" /\ RetryItem)
  /\ WF_creVars(part = "credentials" /\ (Cre!processEscrows \/ Cre!NextTable \/ Cre!RetryNext))
  /\ WF_issVars(part = "issuance" /\ Iss!Loops)
  /\ WF_txnVars(part = "notices" /\ Txn!Retry)
AnySpec == AnyInit /\ [][AnyNext]_allVars /\ AnyFairness

-----------------------------------------------------------------------------
(* What each component states, of the behaviours that are about it.        *)
AllTyped ==
  /\ TypeOK
  /\ part = "credentials" => Cre!TypeOK
  /\ part = "issuance" => Iss!TypeOK
  /\ part = "blinds" => Bli!TypeOK
  /\ part = "notices" => Txn!TypeOK
  /\ part = "builders" => Bld!TypeOK
RegistryComplete == []<>(part = "registry" => AllAccepted)
(* What the registry accepted, a verifier accepts from the same log while  *)
(* the seals are in it; two updates told for one place are refused; and    *)
(* what the registry binds at a time is its latest update by then that is  *)
(* not vacuous, if all later ones are disclosed (vet, vetBinds).           *)
Taken == {store.tels[i] : i \in DOMAIN store.tels}
Told == Taken \ {"rip"}
Claims == [e \in DOMAIN BlindEv |-> store.ancs[e].kel]
VetAgrees ==
  (Taken # {} /\ \A e \in Taken : Bli!KelAt(store.ancs[e].sn) = store.ancs[e].kel) =>
    /\ Vet!vet(log, seen, "rip", Told, Claims) = store.tels[Len(store.tels)]
    /\ \A now \in 0..2, target \in {"c", "g"} :
         LET binds == {e \in Told : Vet!sn(e) <= now /\ ~Vet!Vacuous(e)}
             latest == {e \in binds : \A f \in binds : Vet!sn(f) <= Vet!sn(e) /\ BlindEv[e].td = target}
             Vetted(disclosed) ==
               Vet!vetBinds(log, seen, "rip", Told, Claims, disclosed, target, now, TRUE)
         IN /\ \A e \in latest :
                 Vetted(Told) = e /\ Vetted(Told \ {e}) = "nil"
            /\ latest = {} => Vetted(Told) = "nil"
DuplicityRefused ==
  \A updates \in SUBSET (store.evts \ {"rip"}) :
    Vet!vet(log, seen, "rip", updates, Claims) # "nil" =>
      \A e, f \in updates : Vet!sn(e) = Vet!sn(f) => e = f
LogsSound ==
  /\ AllTyped
  /\ part = "registry" => LogsChained
  /\ part = "blinds" => Bli!ChainSealed /\ VetAgrees /\ DuplicityRefused
  /\ part = "notices" => Txn!NoticesTrue /\ Txn!AnswersHeld /\ Txn!Counted
  /\ part = "builders" => Bld!MadeTaken /\ Bld!StateRecorded /\ Bld!DefaultImmune
NotOverRevoked ==
  /\ [][part = "credentials" => \A c \in reger'.saved \ reger.saved : \A e \in Cre!EdgesOf(c) :
       Cre!Status(e.node) = "issued"]_creVars
  /\ [][part = "notices" => Txn!NoticeForward]_txnVars
CredentialsComplete == []<>(part = "credentials" => Cre!AllSaved)
StaleLeave == []<>(part = "credentials" => Cre!NothingStale)
(* No event of a registry, no credential, no staged update that is on its  *)
(* way is lost, and a credential is saved with its chain only, what waits  *)
(* for a part of it having asked for that (Registrar, Credentialer,        *)
(* Verifier.processCredential, the store of blinded registries, of which   *)
(* one pass of the escrows accepts all it can).                            *)
NoneLost ==
  /\ part = "credentials" => Cre!ChainsComplete /\ Cre!WaitingAsked
  /\ part = "issuance" => Iss!Numbered /\ Iss!WaysKept /\ Iss!NoneLost /\ Iss!CredentialsDone
  /\ part = "blinds" => Bli!StagedKept /\ Bli!OwnUpdatesFollow /\ Bli!OnePassAccepts
  /\ part = "notices" => Txn!NoticesKept /\ Txn!WaitingAsked
NoticesResolve == []<>(part = "notices" => Txn!NoneServable)
IssuanceCompletes == []<>(part = "issuance" => Iss!AllCompleted)
(* What waits in an escrow that a doer visits is served once all it needs  *)
(* has come, or leaves in time.                                            *)
EscrowsResolve == RegistryComplete /\ CredentialsComplete /\ StaleLeave /\ IssuanceCompletes
  /\ NoticesResolve
=============================================================================
