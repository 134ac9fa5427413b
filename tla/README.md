# KERI in TLA+

Specifications, model checks and proofs for the Python reference implementation
of KERI (`src/src/keri`). Source positions are `file:line` under
`src/src/keri`; `EV` is `core/eventing.py`.

1. The system - 2. The project and its plan - 3. Modules and code - 4. Runs -
5. Theorems - 6. What is not modelled - 7. Where the code and its documents
disagree - 8. Running

## 1. The system

A *controller* owns an identifier and publishes its *key event log* (KEL): an
inception event, then rotations and interactions, each naming its predecessor by
digest. *Validators* (other controllers, witnesses, watchers, mailboxes) keep a
copy of the logs they hear of. Events reach them through a stream parser, in any
order, in pieces and more than once; what cannot be judged yet waits in an
*escrow* table and is retried on every turn of a cooperative scheduler
(`hio` doers). All state is in LMDB tables, one transaction per table
operation; everything runs in one thread, so that a handler is atomic with
respect to other handlers but not with respect to a crash. On the logs rest
*registries* of credentials, whose events are sealed in the issuer's log, and
conversations between controllers, groups and delegators.

| Component | State it keeps | Operations | What is hard |
|---|---|---|---|
| `core/eventing.py` Kever, Kevery | key state of each identifier, the log tables, the event escrows | `processEvent`, `update`, `valSigsWigsDel`, `logEvent`, `processEscrows` | order of arrival, pieces, recovery rotations that cut the chain back, timeouts, local and remote sources |
| receipts (`processReceipt`, ures, uwes, vres, pwes) | receipts and witness signatures, four escrows | receive, attach, retry | receipts before the event, witness lists that change |
| delegation (`validateDelegation`, PDE, delegables) | seals, `aess` | accept a delegated event against the delegator's log | two logs that refer to each other, superseding recovery on both |
| builders (`incept`, `rotate`, `state`) | none | make an event | checks made twice, by the maker and by the taker |
| `core/routing.py` Router, Revery | reply tables, reply escrow | acceptance by date and signer | late, repeated and re-signed replies |
| `core/kraming.py` | request cache with windows | intake, partial signatures, pruning, reconfiguration | time against a late repeat |
| `core/parsing.py` | stream state | extraction of messages and attachments | a stream cut anywhere |
| `db/*` | LMDB tables, browser tables | put, pin, add, rem, iterators | ordered keys that begin each other, sets kept under numbered keys, crash between transactions |
| `vdr/*` Tevery, Reger, Verifier, Broker, Registrar, Credentialer | registry and credential events, escrows, notices | accept, verify, issue, answer | three logs that wait for each other, restart |
| `acdc/*` | blinded registries, IPEX conversations | stage, anchor, vet; apply to admit | an anchor that a recovery moves, order of messages, crash between writes |
| `peer/exchanging.py` | exchange messages, their escrow | `processEvent`, `processEscrow` | messages signed in pieces, one answer each |
| `app/habbing.py`, `app/keeping.py` | identifiers, keys and their parameters | make, rotate, delete, passcode | two stores, stopped between any two writes |
| `app/grouping.py`, `cli/commands/multisig` | proposals, `gpse`, `gdee`, `gpwe`, `cgms` | propose, join, complete | several members that propose at once |
| `app/delegating.py` Anchorer | `dpwe`, `dune`, `dpub` | begin, three escrow loops | waits for receipts, the seal and the publication |
| `app/agenting.py`, `indirecting.py`, `forwarding.py`, `storing.py` | queues, receipts, mailboxes with cursors | collect receipts, forward, poll | lost and repeated deliveries, restart of either side |
| `app/oobiing.py` | OOBI tables | resolve, retry, lists | late and wrong answers |
| `app/querying.py`, `watching.py` | notices, queries | ask, adjudicate | sources that differ |

`PROJECT.json` lists every component with its sources and status, and every
hazard with the line where it bites.

### What makes each component correct

* Kever and Kevery: the accepted events form one hash chain from inception to the
  key state; nothing is accepted twice; what is accepted carries enough
  signatures of its own keys, of the prior next keys and of the witnesses;
  establishment events are final; a supported log is accepted whatever the order
  in which it comes; escrows empty; protected identifiers take events from local
  sources only; a crash leaves a log that loads and replays.
* Delegation: a delegated event is accepted only with a recorded seal in the
  delegator's log, and superseded only by a later delegation.
* Receipts: a receipt counts for the event it names only, once verified with the
  keys of the right establishment event, even when it came first.
* Replies, windows and exchanges: a stored reply gives way only to a later signed
  one; a request is handed on once; a thread is linear, each message proved.
* Registries and credentials: what is accepted is sealed by the issuer and
  receipted by the backers in force; a credential is saved over issued,
  complete chains only; nothing on its way is lost.
* Keys: the key in use and the next key survive every failure and crash.
* Coordination: what counts as completed was agreed, witnessed and sealed; what was
  started finishes when the others have done their part.
* Storage: every call of a table class does what its class promises, and a stream
  gives the same messages however it is cut.

## 2. The project and its plan

The plan was to go from what everything else reads (the validation of one log)
to what is built on it, and to prove what TLC had found to hold. Steps 1 and 2 of
it are done; the last row says what is left.

| Step | Modules | State |
|---|---|---|
| logs | `KEL`, `Kevery`, `EventLog`, `Receipts`, `Delegation` | modelled, safety proved |
| transactions | `Registry`, `Credentials`, `Issuance`, `TxnStates`, `BlindRegistry`, `Vetting`, `Builders` | modelled; safety of the first four proved |
| coordination | `Groups`, `Joining`, `Anchorer`, `Witnessing`, `Mailboxes`, `Oobiery`, `Watching` | modelled, safety proved |
| messages | `Replies`, `Kram`, `Exchanges`, `Disclosure` | modelled; safety of `Replies` and `Exchanges` proved, of `Kram` for a configuration that stays |
| storage | `KeyStore`, `Habitats`, `Parser`, `Tables`, `WebTables`, `OrderedSets`, `Stores` | modelled |
| left | `Kram` over a change of its windows; the storage modules but `EventLog` | not proved |

## 3. Modules and code

In every module an event is named by its SAID, so that what an event says is a
constant and a digest is a name. A verified signature is the key that made it;
a signature that would not verify is a key the event does not list. Histories
(`rcvd`, `past`, `arrived`, `lost`, `gone`) are kept for the properties only.
`PROJECT.json` maps every definition to its lines.

### Logs

`KEL` is the abstract specification of one log: `chain`, the authoritative events by
sequence number, and `log`, every event ever accepted in first seen order.
`Accept(e)` appends `e` to the log and incepts, extends or recovers the chain.
`Kevery` and `EventLog` both implement it.

`Kevery` is one validator and one non-delegated identifier.

| Variable | Code |
|---|---|
| `kever` | `Kever.serder`, `.lastEst`, `.wits` and `db.states` |
| `kels`, `fels` | `db.kels` (accepted events per sn in insertion order), `db.fels` |
| `sigs`, `wigs`, `backers`, `source` | `db.sigs`, `db.wigs`, `db.wits`, `db.esrs` |
| `stale` | events whose `db.dtss` is past the escrow's timeout |
| `escrow` | `db.ooes`, `pses`, `pwes`, `ldes`, `misfits` |

`processEvent` is one operator with one disjunct per outcome; `Receive` applies it
to a message off the wire and `RetryEscrowed` to an item of an escrow with what is
held for it, as the `processEscrow...` methods do: the item stays in the escrow only
when the outcome puts it there. The order of the checks (`Valid`, then at least one
good signature, then misfit, signatures, witnesses) is that of `Kever.update`
and `valSigsWigsDel`. Easy to overlook and in the model: a recovery is judged
by `kels.getLast` and not by the key state; the out-of-order and misfit escrows keep
signatures before they are verified; a likely duplicitous event loses its witness
signatures and becomes local; a rotation counts the prior next keys separately from
its own; `fetchWitnessState` and `fetchEstEvent` go back over different lists.
Thresholds count keys, digests of next keys are the keys.

`EventLog` is `Kever.logEvent` and the end of `Kever.update` table by table:
`Writes` is their order, `Write` one of them, and `Crash` may fall before any; the
key state is loaded from `db.states` again. `held` says for which events a table of
evidence has an entry.

`Receipts` is the receipts of one identifier's events and what they do to the
partially witnessed escrow. Witness lists are sequences here, because an indexed
witness signature names a place in one. `processReceipt`, `processAttachedReceipt`
and the escrows `RetryUnverNonTrans`, `RetryUnverWitness`, `RetryUnverTrans` are one
action each; events come through `ReceiveEvent` and `RetryPartialWigs`, complete but
for witness signatures; `LearnReceiptor` is an event of another log.

`Delegation` is two logs, a delegator's and its delegate's, in the database of one of
three roles (a validator, the delegator, the delegate). `processEvent` of both logs,
`validateDelegation` with its eager search for the seal, the source seal couples
(`udes`) and the recorded ones (`aess`), superseding rules A and B, the escrows `oo`,
`pd`, `del` and `misfit`, and the controller's `Confirm`. Events come fully signed or
signed by keys that are not in force: signatures are `Kevery`'s matter.

`Builders` is the checks that `incept`, `rotate` and `state` make when a controller
builds an event, next to those of Kever (Tever) when it takes one, for a log and for a
registry: an event is made of a request (`Make`), then taken by its own log
(`TakeMade`, `RefuseMade`); `TakeForeign` is an event of other software. Keys,
digests, witnesses and thresholds are counted.

### Transactions

`Registry` is `Tevery` for all six kinds of events: anchors in the issuer's log (`ancs`),
backers and their receipts (`baks`, `tibs`), the escrows `oots`, `taes` and `twes` in
their insertion order, the loops that walk a snapshot of a table (`pass`), and a
restart that loads `states`, which are pinned at inception only. The Tevery of a behaviour
is local (that of a `Regery`) or not (`traffic.local`), as are the Tevers it makes; a
local one asks for no backer receipts, and one that is loaded again is not local. `Credentials` is
`Verifier.processCredential` with `verifyChain` and every edge operator, its four
escrows, their timeouts and the cues that ask for what is missing. `Issuance` is the
Registrar and Credentialer of an issuer, alone and in a group, from the anchor to the
publication, with the Receiptor's and publisher's queues, which a restart empties.
`TxnStates` is the notices of the state of a registry and of a credential: how a host
makes and answers them, how another takes them, and the broker's escrows.
`BlindRegistry` is the version 2 registry of blinded updates, staged, anchored and
accepted, write by write over a crash, while the issuer's log may recover; no host
calls its `processEscrows`, so that the property is what one pass does, whenever it is made
(`OnePassAccepts`), and not that a pass comes; `Vetting`
is what a verifier makes of the updates that are disclosed to it.

### Coordination

`Groups` is Multiplexor and Counselor at one member; `Joining` all members of a group
with the commands that propose and join (`multisig incept, interact, rotate, ends
add, vc registry incept, vc create, vc revoke, multisig join`): `held` are the
signatures a member's Kevery holds, `busy` the event a command waits for, `posted`
messages on their way. `Anchorer` follows a delegated event of the local controller.
`Witnessing` is the Receiptor and WitnessReceiptor with the ends of the witnesses.
`Mailboxes` is Poster, Mailboxer and Poller with ordinals and cursors; what one turn of a
stream brings is any order in which topics do not mix and ordinals ascend. `Oobiery` is the
five tables of OOBI resolution with clients that answer late or wrongly. `Watching` is
queries of a log, key state notices, the escrow of queries that cannot be answered
yet, the log that comes by an OOBI (`ResolveOther`), without which the queriers do not
ask, and the verdict of `watcher adjudicate` and `local watch`.

### Messages

`Replies` is Router and Revery with the handlers of end roles and locations.
`Kram` is the request window: `kramit`, partial signatures, `Prune`, `changeConfig`
and `reconcileConfig`. `Exchanges` is Exchanger with `IpexHandler`, its escrow, its
evidence and crashes between the writes of a saved message; `Disclosure` walks and
evaluates the graph of credentials a message discloses.

### Storage

`KeyStore` and `Habitats` are Manager, Keeper and Habery: an operation is the sequence
of writes it makes, `Step` makes one, and `Crash` may fall between any two; the
passcode, names, imported keys and the nontransferable identifiers are there. `Parser`
is the coroutine over a stream of tokens that arrives in every way it can be cut, with the
version counters that may stand in front of a message and of an enclosed group.
`Tables` and `WebTables` are the methods of LMDBer and WebDBer as operators on an
ordered sequence of entries; `Stores` is one sub-database of each class of `subing` and
`koming` over either; `OrderedSets` is what each class promises, checked at each call.

### Support

`SequenceFacts` has the lemmas on sequences, least and greatest elements that the
proofs cite. `KeveryProofs`, `ReceiptsProofs`, `DelegationProofs`, `EventLogProofs`,
`RegistryProofs`, `JoiningProofs`, `MessageProofs` prove about the module they extend, and
the last three about modules beside it, instanced with variables of their own:
`Credentials` (`Cre`), `TxnStates` (`Txn`), `Issuance` (`Iss`); `Oobiery` (`Oob`), `Anchorer`
(`Anc`), `Groups` (`Grp`), `Witnessing` (`Wit`), `Watching` (`Wat`); `Kram` (`Krm`),
`Replies` (`Rep`). The `MC` modules give instances: `MCKevery` and `MCKeveryRoles` (`Kevery`),
`MCReceiptsAll` (`Receipts`), `MCDelegation`, `MCTransactions`, `MCCoordination`,
`MCMessages`, `MCStorage`. The last four and the two with several instances share one
shape: the initial state chooses the component (`part`) or instance, no step
changes that, every other component's variables stand still, and each property is
the conjunction of what the components state of their own behaviours.

## 4. Runs

Eight runs pass and four end in a counterexample (section 7). Where a run has several
instances the initial state chooses one.

| Run | Instance | Shows |
|---|---|---|
| `KeveryRecovery` | 8 events: two inceptions, two branches, competing rotations, one of them in pieces; any order, any number of times | one chain, first seen once, signed and witnessed, establishment final, implements `KEL` |
| `KeveryRoles` | pieces: three events with several keys and a witness swap; local: a validator that is a witness until a rotation and a member of the group; timed: every event may grow stale | what is accepted is controlled in each role; a supported log is completed, escrows empty |
| `ReceiptsAll` | rotation: a swap of a witness, receipts of all kinds; recovery: an interaction event and the rotation that supersedes it; timed: a receipt of each kind | receipts count for the right event and list; what is witnessed is accepted, early receipts are stored, escrows empty |
| `Delegation` | a delegator's and a delegate's log, in the database of a validator, of the delegator and of the delegate | nothing delegated without its seal, a delegated rotation gives way to later ones only, approval is asked for local events only |
| `Transactions` | registries with and without backers; a chain of credentials; an issuer alone and in a group; blinded updates; notices; builders | accepted events are anchored and backed, nothing revoked counts as issued, nothing on its way is lost |
| `Coordination` | two of three members; a delegate's anchor; three witnesses; mailboxes; OOBIs; watchers; members that join | what is completed was agreed, witnessed and sealed; what was started finishes |
| `Messages` | replies; request windows; conversations of two controllers | nothing is stored or handed on twice, or out of its order; escrows resolve |
| `Storage` | `logEvent` write by write; the two stores of keys; a stream cut anywhere; the tables | a crash at any write leaves logs and keys that load; a stream gives the same messages; every table keeps its promise |
| `KeveryBackers`, `ReceiptsMisfiled`, `DelegationRules`, `TablesPut` | the smallest instance that shows the disagreement | section 7 |

`KeveryRecovery` takes the behaviours of `Kevery` in which nothing grows stale
(`PromptSpec`); time passes in the timed instance of `KeveryRoles`. The properties of the
other runs are conjunctions (`LogsSound`, `StoredSound`, ...), whose parts are named and
explained in the component modules; where a component's inductive invariant is proved,
the conjunction has it too (`NothingPassedOver` those of `Groups`, `Anchorer`, `Oobiery`,
`Witnessing`, `Watching` and `Mailboxes`, `RolesSound` that of the sources). A mutant
of `PROJECT.json` breaks each property by a plausible change of the code.

Bounds. The instances list the events, messages and keys that exist; nothing else
bounds the logs, since an event is accepted once. `MaxSn` is the largest sn of the
instance. `MaxStale` is the number of events that may be past their timeout at once (0
where time does not matter, one where a timeout races a retry, all where the run is
about draining). `MaxCrashes` is two in `EventLog`, because the second can hit the redo of
the first, and one elsewhere, as `MaxRestarts` and `MaxReloads`: what was in memory is gone
after one. The chains have up to four events because a recovery needs an
establishment event below it, an interaction event it supersedes, and one above to
tell whether the cut was right. Two branches make a conflict, a third a conflict with a
recovery. Witness lists have two or three members with a toad of one or two, so that a
swap changes both the quorum and the index of a witness; the builders count lists of
up to five, where `ample` and the majority differ. `Needed` is two of three members, so that
two disjoint pairs cannot sign and one member can stay away. `MaxAsked` (5) is the number of
requests of OOBIs and `MaxTimeouts` (1) of a lost answer to a mailbox. The tables have two keys
of which one begins the other and up to three entries, with ordinals up to `MaxON` 1
and insertion numbers up to `MaxIon` 2, so that both counters reach their limit. `MaxTime`
(9) lets a request pass all its windows twice.

### Fairness

One thread runs all handlers in turn. `Kevery.escrowDo`, `Indirector.escrowDo`,
`RegeryDoer`, the doers of `Counselor`, `Anchorer`, `Receiptor`, `Poster` and `Oobiery` run
on every turn for ever, and each pass goes through every item of every escrow: that is
weak fairness of the retry of each item, or of a loop's next step where the loop
walks a snapshot. Three loops are run by no host and get no fairness: that of the delegables
(`processEscrows` does not call `processEscrowDelegables`), `processEscrows` of the
version 2 Regery, and the Pruner of the request window. No fairness is given to messages,
answers, approvals, receipts of
others, crashes or commands: nothing has to arrive, unless a property says "if it
has come". The instances about draining add weak fairness of the clock. In `EventLog` a
handler runs to its end (weak fairness of `Write`), and the retry of an item is strongly
fair, because other events are logged between two passes and disable it for that
time, but every pass reaches it.

## 5. Theorems

Every theorem holds for all values of the constants under the named assumptions of
the modules (`EventsAssumption`, `RolesAssumption`, `DelegationAssumption`,
`HeldAssumption`, `LogAssumption`, `ReceiptsAssumption`, `ExchangesAssumption`, and one
for each of `Registry`, `Credentials`, `TxnStates`, `Issuance`, `Joining`, `Groups`, `Anchorer`,
`Oobiery`, `Witnessing`, `Watching`, `Mailboxes` and `Replies`), which give types, finiteness and
that names are distinct. TLC evaluates them in the runs. Those of the modules that are instanced are hypotheses of
the theorems, and the `MC` modules assume them of their instances (`RegistrySound`,
`CredentialsSound`, `NoticesSound`, `IssuanceSound`, `JoiningSound`, `GroupsSound`,
`AnchorerSound`, `OobierySound`, `WitnessingSound`, `WatchingSound`, `MailboxesSound`,
`RepliesSound`); so is `LocalsSigned` (`MemberSigns`). Each
inductive invariant was an invariant of a run before it was proved, and each proof has
one lemma for the initial states, one per action or per group of variables that an
action can disturb, and one for steps that leave them alone.

| Module | Theorems | State of runs' properties |
|---|---|---|
| `KeveryProofs` | `TypeCorrect`, `LogInvariant`, `ChainIsIntact`, `EventsSeenOnce`, `EstablishmentIsFinal`, `KeveryImplementsKEL`, `ControlInvariant`, `RotationsAreControlled`, `AcceptedAreWitnessed`, `EscrowsAreSigned` | every property of `KeveryRecovery` |
| | `SourcesInvariant`, `SourcesAreRespected` | parts of `RolesSound` |
| `DelegationProofs` | `DelegationInvariant`, `SealsAreRecorded`, `DelegatorIsProtected`, `RotationsGiveWayLater`, `ChainsStayIntact` | `SealsRecorded`, `DelegatorProtected`, `RotationsGiveWay`; `LogsSound` under `Once` |
| `ReceiptsProofs` | `ReceiptsInvariant`, `AcceptedAreWitnessed`, `ReceiptsRestOnLogs`, `WaitingVerify` | `AcceptedWitnessed`, `VerifiedReceipts`; `PendingVerify` under `NoConflicts`; parts of `RecoveryVerified` |
| `EventLogProofs` | `EventLogInvariant`, `LogsAreSound`, `LogsOnlyGrow` | `LogsSound` of `Storage` |
| `RegistryProofs` | `RegistryInvariant`, `AcceptedIsAnchored`, `EventsAreBacked`, `LogsAreChains`, `LogsOnlyGrow` | `AcceptedAnchored`, `RegistryBacked`; parts of `LogsSound` |
| | `CredentialsInvariant`, `ChainsAreComplete`, `SavedNotOverRevoked` | parts of `LogsSound`, `NotOverRevoked` |
| | `NoticesInvariant`, `NoticesSound`, `NoticesGoForward` | parts of `LogsSound`, `NoneLost`, `NotOverRevoked` |
| | `IssuanceInvariant`, `IssuedIsFollowed` | parts of `LogsSound`, `NoneLost` |
| `JoiningProofs` | `JoiningInvariant`, `LoggedIsAgreed`, `LogsAreOne` | `MembersAgreed` |
| | `GroupsInvariant`, `GroupEventsSound`, `AnchorerInvariant`, `DelegationsCompleteSealed`, `OobieryInvariant`, `ListsAndUrlsSound` | parts of `CompletedSoundly`, `NothingPassedOver` |
| | `WitnessingInvariant`, `AllReceiptsExchanged`, `WatchingInvariant`, `VerdictsAreFounded` | parts of `CompletedSoundly`, `NothingPassedOver` |
| `MessageProofs` | `ExchangesInvariant`, `ThreadsAreSound`, `OneAnswerEach` | `ThreadsSound` |
| | `KramInvariant`, `HandedOnOnce`, `PiecesAreOfOneEvent` | parts of `StoredSound` |
| | `RepliesTyped`, `RepliesInOrder` | parts of `StoredSound`, `SignedInOrder` |
| | `MailboxesInvariant`, `MailInOrder` | parts of `NothingPassedOver` |

**The log.** That the events accepted last form a chain is not inductive: a superseded
event stays in `kels`, and if it could be accepted again it would become the last one at
its sn without being next to its prior, and be first seen twice. It cannot because of
`SupersededForGood`: a superseded event is not above the latest establishment event,
where only rotations above that sn are valid, or its prior is superseded too and so
cannot be the event accepted last before it. This needs `EstablishedBelow` (no
accepted establishment event is above the latest one, so that a recovery never cuts
one), `Positioned` (an event is filed at its own sn) and `NothingBefore`. `LogInv` is their
conjunction; the action property and the refinement are looked at step by step
under it.

**Control.** The keys that have to sign an event are those of an establishment event found
by `fetchEstEvent`, the witnesses those recorded by another; neither is the latest key
state for an event that was superseded since. `ControlInv` therefore says that there is
one establishment event at an sn (`EstSingle`), that the prior of an accepted event was
accepted (`PriorAccepted`), which one governs each event (`Governed`) and which witness list
was recorded with it (`WitsRecorded`). Signatures that come later only add to what is
held, so that what was enough stays enough.

**Sources.** Whether a signature counts for a protected identifier depends on where the
event came from (`esrs`), and an event can come from both sides. `SourcesInv` says that
an event held as local was given by a local source, is in the log, or contests one that is. The last
case is the one a reader does not expect: a likely duplicitous event is escrowed as
local whoever sent it (section 7), and a recovery can make room for it, after which
a retry accepts it as the owner's own. `SourcesAreRespected` therefore is about logs in
which no event is contested, and says then that a protected identifier takes
nothing a local source did not give and that a member's key counts only when the member signed
(`LocalsSigned`: what the local source of a member gives, the member signed).

**Delegation.** `SealsRecorded` is about an event of the other log, which may be superseded
there, so that `DelegationInv` carries what the two logs hold of each other (`LogsHeld`,
`SealsHeld`) and that the key state stands on the latest establishment event
(`TipsEstablished`). `RotationsGiveWay` follows from it by a case split over the superseding rules.
`LogsSound` needs one hypothesis more, `Once`: an event superseded by another
can come back when it is sealed again, and then keeps its old place in the log
(`kels.add`), so that the tip is not the last entry there. TLC checks it on
an instance in which no event comes back.

**Receipts.** A signature is kept with an index into a list of witnesses, and the list is
that recorded with an establishment event. `ReceiptsInv` says where an accepted event
stands, the establishment event it is under and that list, so that an index means the
same witness when the receipt is stored and when it is counted. With conflicting events
the list that `_processEscrowFindUnver` works out need not be that of the event, therefore
`WaitingVerify` is for logs without them.

**logEvent.** `EventLogInv` says at each place between two writes which tables
have the event that is being written. That the logs stay linked over a crash
(`LogsAreSound`) follows from the order of the writes, and so the theorem tells what the
order is for.

**Registries.** Three tables (`tels`, the states in memory, the states pinned) have to name events
of one log, and the loops keep what they still have to retry. `LogsAreChains` has no
condition for credentials, and holds for registries until a restart: a
restart loads the state of the inception, and another anchored rotation may then follow the
wrong event. The same is true of `EventsAreBacked`, which is about a Tevery that is not
local: it says that each accepted event has the toad of receipts of its backers, except in the log
of a Tever whose inception was taken as local (`valAnchorBigs`).

**Credentials.** `ChainComplete` is inductive with its type: what is saved never leaves, and the
far nodes were saved and issued at the check before the write. That an edge was not
revoked at that moment is an action property (`SavedNotOverRevoked`), since a far node may be
revoked later. What waits lacked something when it was escrowed, and asked for it.

**Notices.** The broker saves a notice when a log reached its number, so that it is true as long as
logs only grow; `Counted` says that the number a host counts is that of its log.
`NoticesGoForward` ends at a reload, which takes the state of the inception.

**Issuance.** That what an escrow lets pass is complete is a counting argument: the sn an
anchor is given is at most the number of anchors in the log (`Numbered`), so that no two
wait for one place except in a group, where one of two proposals is outvoted (`WaysKept`).

**Joining.** `MembersAgreed` follows from: what a member holds of another was signed by that
other (`SignaturesHeld`). `LogsAreOne` is a counting argument over it: with `2 * Needed` above the
number of members, two different events at one place have a signer in common.

**Groups, delegations, OOBIs.** `GroupsInv` grounds each escrow in the step before it: what
is signed was proposed (`Grounded`), what is passed on was accepted (`Followed`). Completion by a
delegator's seal goes by sn, so that of two delegated proposals for one place the wrong one can be
completed; `Apart` says that no conflicting proposal stands beside a delegated one.
`AnchorerInv` carries two facts for `CompletedSealed`: what was sent has every receipt
and what waits for publication is sealed. `OobieryInv` says that a list is opened
before its URLs are judged (`ListsOpened`), for URLs of which none answers both with a list and
with a log: such a list would be resolved by its log.

**Witnesses.** A Receiptor works through its witnesses twice, first for their receipts, then to
give each those of the others, while mail brings more. `WitnessingInv` says that a
witness that answered is receipted at the controller, whose list only grows, and that
each of them knows or is being sent the receipts of the others unless its turn is still to come
(`PropagatesAll`); what is in its inbox it either reads or is still there. The
`WitnessReceiptor` promises less (`agenting.py:282`, section 7) and is left to TLC's
liveness.

**Watchers.** `WatchingInv` says that a source is only taken to have what it had, fully
witnessed (`ReportsOwn`), and that the differences a verdict is drawn from were read of such
states (`VerdictFounded`). Logs of sources only grow, so that what stood apart does so for good,
though the verdict looks at what was recorded when the last of them answered. That as many sources
are ahead as were asked for is a counting argument: two differences at one event have two
sources.

**Mailboxes.** Two counters go by different things: the ordinals of a topic count what was
begun to be stored, a stream counts what it sent, and so falls behind where a crash left an
entry without its text. `MailboxesInv` says what lies below each of them: below the recorded
ordinal, the one being recorded and the stream's own, whatever can be read was read or
comes first in the stream (`AllBelow`). A message whose text is being written is the last of its topic
and above all three (`Settled`), since its entry is made first. For the order, without crashes, what was parsed, what
waits, what the stream brings and what it will bring lie one above the other (`AllUpwards`); then the two
counters agree. `MailboxesAssumption` has a message sent once: its text is found by its digest, so that
sending it again after such a crash would give the old entry, long passed over, its text too.
The message itself then comes with its new entry.

**Exchanges.** A saved message is written in parts, and a crash may leave some. `ThreadsAreSound`
needs that the evidence is written before the message (`SavedProved`), that the user is
told after it (`HeardSaved`), and that of two answers to one message the second
is refused also when the first came from the escrow (`AnswersHeardOnce`).

**Replies.** A message carries groups of signatures that are judged in turn, and each may
save or escrow the reply (`Retried` is the recursive function over them). The order
by date or by sn of the signer's event follows since the key of a reply is transferable or not
once and for all.

**Windows.** `HandedOnOnce` is about time: a message is handed on again if its record is
pruned while it can still be accepted. `KramInv` says that a record is kept for the
window of its message, and that a message whose record is gone is past its time or of an
exchange all of whose records are gone with the date of its beginning. It holds for
every configuration the code takes (`Validated` is `_parseValidateCtyp`) and for messages
on three conditions (`Roomy`), without which TLC finds a message handed on twice: one
that can be authenticated at once and also in pieces is kept for the longer window, as the code does not
ask (`psl` may be less than `ll`, and is in the configuration of the tests); the message
that opens an exchange is not dated ahead, because `_pruneExchanges` forgets the drift; and
either one message opens an exchange or records are kept for the exchange and the
window of its last message. `OneConfiguration` collects them for one
configuration; `MCMessages` assumes them of the first of its two (`WindowsRoomy`) and
checks `KramInv` until the second comes.

Only TLC checks, and why:

* all liveness (`EscrowsResolve`, `ReceiptsResolve`, `DelegationResolves`, `WorkFinishes`,
  `MessagesResolve`, the escrows of `NothingUnsaved`): not in the prover's reach;
* what rests on a recursive operator (`BlindRegistry`, `Vetting`, `Disclosure`): the prover
  has no solver there;
* `KeysSound`, `StreamsSound` and `TablesKept`: they are over operators that fold, filter or
  flatten a sequence, where only induction over data would do;
* `ProtectedFromLocal` and `MemberConsents` where events contest each other: they are false
  there (see Sources);
* that `EventLog` implements `KEL` before the first crash, and windows that change: not
  attempted.

What waits for a loop that no host runs (the delegables, the records of the request window,
staged updates of version 2) is under no liveness property: it may stay for ever.

## 6. What is not modelled

Every component without a module is listed in `PROJECT.json` with its reason: encodings,
cryptography and JSON schema validation work on immutable data and are represented by
names; HTTP clients, configuration and scripts are input and output; migrations run once.
Within the modelled components: the `lax` and `cloned` modes, `clean`, Signify
habitats, ESSR and path signatures, StreamPoster, messages and groups nested in
attachments, presentation registries, the removal of what `Exchanges` and `Replies`
no longer read, the denials of the request window, well-known
OOBIs, weighted thresholds (a threshold is a number). `multisig join` is modelled without the
rotation that two members propose at the same time: its refused joins are sent again
and pile up.

## 7. Where the code and its documents disagree

Each of these runs ends in a counterexample; `PROJECT.json` quotes the sentence.

| Run | Disagreement |
|---|---|
| `KeveryBackers` | a recovery rotation's cuts and adds are ignored (EV:2665) |
| `ReceiptsMisfiled` | a transferable receipt is filed under the event accepted last, not the one it signs (EV:4568) |
| `DelegationRules` | two delegated rotations sealed by one event: the later raises an AttributeError (`bossn.Ilk`, EV:3392) and is dropped |
| `TablesPut` | `putOnIoDupVals` files a value again that is there already |

The models show more, without a run of their own.

Key events
* After a crash between `fels` and the key state an event is first seen twice (EV:3638,
  docstring 3575); between `kels` and the key state of a recovery `fetchEstEvent` answers for
  the branch that is not in force (EV:3655).
* An event of remote source becomes local in the duplicitous escrow (EV:4316); the out-of-order
  escrow stores signatures that nobody verified (EV:5701).
* `dtss` of an escrowed event is put once, so that an event that comes again after its
  timeout is dropped at the next pass (EV:3753).
* A delegate may supersede with a seal that lies above the delegator's tip (EV:3264); a couple
  beyond that log keeps the eager search from looking (EV:3282); a superseding rotation is
  checked against the next keys of the latest event.
* What waits for the approval of a delegator is never retried: no host calls
  `processEscrowDelegables` (EV:5970, 6835).
* Neither `incept` nor `rotate` of Kever compares the next threshold with the number of
  next digests, as builder and `state()` do: such an event is logged and then raises
  where the state is pinned (EV:2070, 2490).

Receipts
* A witness's attached receipt is never recognised (EV:4863 against 4798); an indexed receipt of
  an event accepted at once is not stored (EV:6648); a receipt of a recovery rotation that has
  not come is an error (EV:4452); one of an old event is not held for its timeout
  (EV:7208); a held one is indexed in the latest list (EV:6799); own receipts
  come in by the escrow without the local check (EV:4466).

Registries and credentials
* `vdr/eventing.py`: `rem` at a key drops every entry of it (2035, 2090); `ancs.put` keeps the first
  anchor (1229, 1380); `twes` is never retried (1345); receipts of out of order events are dropped
  (1945); the state is pinned at the inception only, so a rotation is accepted again after a
  restart (1230); a second revocation is accepted; a credential's log is keyed by the
  credential alone.
* A local Tevery, that of a Regery, asks for no receipts of backers (`vdr/eventing.py:1281`).
* `vdr/verifying.py:206`: the second schema of a chain is never asked for.
* `vdr/credentialing.py`: the issuer's present witnesses are counted for an older event (785) by a cue
  in memory (789); refused receipts are not asked for again; after a restart an issuance waits
  for ever.
* Notices: a registry notice's backers are those it names itself (1713); the date of a
  notice is never compared with the last one; `tsn` queries name a parameter `vcState` does
  not have; the cue's route lacks its last segment.
* `acdc/regeventing.py`: a crash between `maes.rem` (872) and acceptance loses a staged event; one
  between `tels.put` and `heads.pin` (`registering.py:82`) leaves a head that makes `_blind` raise for
  ever; an anchor that a recovery superseded still counts (235). Nobody runs the
  escrows of the version 2 Regery (`registraring.py:122`).

Coordination
* `app/grouping.py`: `gpse`, `gdee` and `gpwe` `rem` drops every entry of a group (149, 213, 252);
  the completed digest may be that of another event than the accepted one; the witnesser is
  chosen differently at the stages (165, 204); the present witnesses are counted (243).
* `multisig join` takes a second notice of one interaction event for a new one
  (`join.py:325`); registry and credential proposals are not logged by the proposer, so
  it never gets the signatures of those who join; a postman without end roles is never done
  (`forwarding.py:107`).
* `app/delegating.py`: a publication without its publisher in memory waits for ever (235).
* `app/agenting.py`, `indirecting.py`: a receipt can count for an event that is not accepted there
  (`indirecting.py:1041`), and the set of receipts sent is not always entire (`agenting.py:282`); an
  older event goes to the latest witnesses (341).
* Mailboxes: what was fetched and not parsed is lost at a restart.
* `app/oobiing.py`: `roobi.put` never overwrites; a mismatch leaves the URL with a spent client
  (636); a request without client is dropped (623); three moves are two transactions.
* `app/watching.py` and `querying.py`: the event digest is passed as the digest of the last notice
  (EV:5304), so an older notice replaces a newer one; one that conflicts below the tip is refused,
  so that duplicity is reported as consistent; honest watchers at different places are
  reported (`watching.py:124`); several queries wait for ever; the queriers of a sequence
  number or anchor do not ask while the prefix is unknown (`querying.py:136, 172`), and wait for
  ever unless the log comes otherwise.

Messages
* `core/routing.py:412`: a refused reply in escrow was removed before it is refused; a
  re-signed reply removes itself (292).
* `core/kraming.py`: a type removed while its change is staged makes every message raise;
  the staged difference is not that of the prune window; a restart drops staging and takes the
  new windows at once; a message taken in at once is forgotten after `psl` and, if it has
  signatures of several keys too, taken in again until `ll` is over; the hosts that have the
  window schedule no Pruner (`indirecting.py:74`, `directing.py:470`), so that records stay for ever.
* `peer/exchanging.py`: an opener is saved and announced again on each delivery; a reply before
  its prior is dropped; a crash between `exns.put` and the handler loses the notice; two
  members may both be `lead` (629).

Storage
* A crash between the key store and the log of `Hab.rotate` leaves the keys ahead for ever, and one
  in `incept` blocks the name; a passcode set on a plain store leaves its keys plain, a crash in
  `updateAeid` leaves both kinds; the stems of names collide (`f"{ns}{name}"`).
* `core/parsing.py`: an error inside a group flushes the stream though the docstring of
  `msgParsator` says that it resumes (868, 981); hosts parse TCP streams as framed, so that a
  message cut by arrival is an error.
* `db`: `pin` of a set is two transactions; the web database forgets two operations when it
  flushes; the backwards iterators raise when nothing comes before; iteration by a key
  finds the keys that begin with it.

## 8. Running

    tlc -workers 2 -config KeveryRecovery.cfg MCKevery.tla
    tlapm KeveryProofs.tla

`PROJECT.json` has the module and configuration of each run. The longest run takes about
two minutes with two workers, the longest proof a few.
