--------------------------- MODULE BlindRegistry ---------------------------
(* The registry of blinded updates of one issuer (acdc/regeventing.py,     *)
(* registering.py, registraring.py): events are staged until the issuer's  *)
(* key event log seals them, and accepted in order; the process may stop   *)
(* between any two writes to the store.                                    *)
EXTENDS Integers, SequencesExt

CONSTANTS
  TelEvents,   \* registry events: name -> [sn, prior, reg]
  KelEvents,   \* key events of the issuer: name -> [sn, prior, seals]
  BlindWorlds, \* [makes, others, kel, slow]: events this controller makes, events another
               \* member makes, key events, and those whose receipts come later
  MaxSn,       \* greatest sequence number of a registry event
  MaxCrashes,  \* bound on the crashes
  MaxWrites,   \* bound on the writes of a handler that stops
  None

Tel == DOMAIN TelEvents
Kel == DOMAIN KelEvents
sn(e) == TelEvents[e].sn
prior(e) == TelEvents[e].prior
IsRip(e) == prior(e) = None
Sns == 0..MaxSn
NoCouple == [sn |-> 99, kel |-> None]
Couples == [sn : Nat, kel : Kel]

VARIABLES
  world,     \* the traffic of this behaviour
  kels,      \* the issuer's log: the event accepted last at each sn
  seen,      \* key events ever accepted
  wigs,      \* key events with all their witness receipts
  store,     \* evts, ancs, tels, heads, maes and ooes of RegistryStore
  named,     \* the name of the registry is recorded
  regk,      \* the registry this process works on, or None
  crashes
vars == <<world, kels, seen, wigs, store, named, regk, crashes>>

-----------------------------------------------------------------------------
(* What the store and the key event log answer.                            *)
At(s, n) == IF n + 1 \in DOMAIN s.tels THEN s.tels[n + 1] ELSE None
headSn(s) == IF s.heads = None THEN -1 ELSE sn(s.heads)
Seals(k, e) == e \in KelEvents[k].seals
fullyWitnessed(k) == k \in wigs
KelAt(n) == IF n + 1 \in DOMAIN kels THEN kels[n + 1] ELSE None
Couple(i) == [sn |-> i - 1, kel |-> kels[i]]
Sealing(e) == {i \in DOMAIN kels : Seals(kels[i], e) /\ fullyWitnessed(kels[i])}
Least(ns) == CHOOSE n \in ns : \A x \in ns : n <= x
_verifyAnchorCouple(e, c) ==
  /\ KelAt(c.sn) = c.kel
  /\ fullyWitnessed(c.kel) /\ Seals(c.kel, e)

Dropped(q, e) == SelectSeq(q, LAMBDA x : x # e)
Escrowed(q, e) == IF Contains(q, e) THEN q ELSE Append(q, e)

(* No other event is accepted at its sn, and it follows the one before.    *)
_validateEvent(s, k, e) ==
  /\ k = None => IsRip(e)
  /\ k # None => TelEvents[e].reg = k
  /\ IsRip(e) <=> sn(e) = 0
  /\ At(s, sn(e)) \in {None, e}
  /\ ~IsRip(e) /\ At(s, sn(e) - 1) # None => prior(e) = At(s, sn(e) - 1)

-----------------------------------------------------------------------------
(* The handlers.  A write is made only while the process still runs: left  *)
(* counts the writes before it stops.                                      *)
Unlimited == 99
With(s, Do(_)) == CHOOSE done \in {Do(x) : x \in {s}} : TRUE
Write(s, Change(_)) ==
  With(s, LAMBDA x : IF x.left = 0 THEN x ELSE [Change(x) EXCEPT !.left = x.left - 1])
put(s, e) == Write(s, LAMBDA x : [x EXCEPT !.evts = @ \cup {e}])
putAnchor(s, e, c) ==
  With(s, LAMBDA x : IF x.ancs[e].sn <= c.sn THEN x
                     ELSE Write(x, LAMBDA y : [y EXCEPT !.ancs[e] = c]))
_discoverAnchor(s, e) ==
  With(s, LAMBDA x : IF x.ancs[e] # NoCouple \/ Sealing(e) = {} THEN x
                     ELSE putAnchor(x, e, Couple(Least(Sealing(e)))))
clearMissing(s, e) == Write(s, LAMBDA x : [x EXCEPT !.maes[sn(e)] = Dropped(@, e)])
clearEscrows(s, e) ==
  Write(clearMissing(s, e), LAMBDA x : [x EXCEPT !.ooes[sn(e)] = Dropped(@, e)])
escrowMissingAnchor(s, e) == Write(s, LAMBDA x : [x EXCEPT !.maes[sn(e)] = Escrowed(@, e)])
escrowOutOfOrder(s, e) == Write(s, LAMBDA x : [x EXCEPT !.ooes[sn(e)] = Escrowed(@, e)])

logged(s, e) == Write(s, LAMBDA x : [x EXCEPT !.tels = IF At(x, sn(e)) = None THEN Append(@, e) ELSE @])
accept(s, e) == Write(logged(s, e), LAMBDA x : [x EXCEPT !.heads = e])
_commit(s, e) ==
  Write(Write(accept(s, e), LAMBDA x : [x EXCEPT !.maes[sn(e)] = <<>>]),
        LAMBDA x : [x EXCEPT !.ooes[sn(e)] = <<>>])

(* Queued successors of the head, the one anchored first before the        *)
(* others; those that cannot follow are dropped.                           *)
ByAnchor(s, q) == SortSeq(q, LAMBDA a, b : s.ancs[a].sn < s.ancs[b].sn)
RECURSIVE _processQueued(_, _)
RECURSIVE TryQueued(_, _, _)
TryQueued(s, k, queue) ==
  IF queue = <<>> \/ s.left = 0 THEN s
  ELSE LET e == Head(queue)
       IN CASE ~_validateEvent(s, k, e) ->
                 With(clearEscrows(s, e), LAMBDA x : TryQueued(x, k, Tail(queue)))
            [] _validateEvent(s, k, e) /\ s.ancs[e] = NoCouple -> TryQueued(s, k, Tail(queue))
            [] OTHER -> With(_commit(s, e), LAMBDA x : _processQueued(x, k))
_processQueued(s, k) ==
  LET n == headSn(s) + 1
  IN IF n \in Sns THEN TryQueued(s, k, ByAnchor(s, s.ooes[n])) ELSE s

(* An anchored event is accepted whether its prior is or not.              *)
processEventUnordered(s, e) ==
  IF At(s, sn(e)) = e THEN s
  ELSE With(_discoverAnchor(put(s, e), e), LAMBDA x :
         IF x.ancs[e] = NoCouple THEN escrowMissingAnchor(x, e)
         ELSE _commit(clearMissing(x, e), e))

processEvent(s, e) ==
  IF At(s, sn(e)) = e THEN s
  ELSE With(_discoverAnchor(put(s, e), e), LAMBDA x :
    CASE x.ancs[e] = NoCouple -> escrowMissingAnchor(x, e)
      [] x.ancs[e] # NoCouple /\ ~IsRip(e) /\ At(x, sn(e) - 1) = None ->
           escrowOutOfOrder(clearMissing(x, e), e)
      [] OTHER -> With(_commit(clearMissing(x, e), e),
                       LAMBDA y : _processQueued(y, TelEvents[e].reg)))
(* One pass of the events that miss their anchor, as they stood when the   *)
(* pass began, then the queue.                                             *)
RECURSIVE Replayed(_, _, _)
Replayed(s, k, q) ==
  IF q = <<>> THEN s
  ELSE With(IF _validateEvent(s, k, Head(q)) THEN _discoverAnchor(s, Head(q))
            ELSE clearEscrows(s, Head(q)),
            LAMBDA x : Replayed(x, k, Tail(q)))
RECURSIVE Retried(_, _, _)
Retried(s, k, q) ==
  IF q = <<>> THEN s
  ELSE With(IF _validateEvent(s, k, Head(q)) THEN processEvent(s, Head(q))
            ELSE clearEscrows(s, Head(q)),
            LAMBDA x : Retried(x, k, Tail(q)))
RECURSIVE _processMissingAnchors(_, _, _, _)
_processMissingAnchors(s, k, maes, n) ==
  IF n \notin Sns THEN s
  ELSE LET candidates == SelectSeq(maes[n], LAMBDA e : _validateEvent(s, k, e))
           retry(x) == Retried(x, k, ByAnchor(x, candidates))
       IN With(With(Replayed(s, k, maes[n]), retry),
               LAMBDA x : _processMissingAnchors(x, k, maes, n + 1))
processEscrows(s, k) ==
  With(_processMissingAnchors(s, k, s.maes, 0), LAMBDA x : _processQueued(x, k))

(* The tip of the staged events that follow the head one by one; two that  *)
(* follow the same event stop the caller.                                  *)
Staged(s, n) == IF n \in Sns THEN ToSet(s.maes[n]) \cup ToSet(s.ooes[n]) ELSE {}
Following(s, tip) == {e \in Staged(s, sn(tip) + 1) : prior(e) = tip}
RECURSIVE _effectiveFrontier(_, _)
_effectiveFrontier(s, tip) ==
  IF tip = None \/ Cardinality(Following(s, tip)) > 1 THEN None
  ELSE IF Following(s, tip) = {} THEN tip
  ELSE _effectiveFrontier(s, CHOOSE e \in Following(s, tip) : TRUE)

-----------------------------------------------------------------------------
Init ==
  /\ world \in BlindWorlds
  /\ kels = <<>> /\ seen = {} /\ wigs = {}
  /\ store = [evts |-> {}, ancs |-> [e \in Tel |-> NoCouple], tels |-> <<>>, heads |-> None,
              maes |-> [n \in Sns |-> <<>>], ooes |-> [n \in Sns |-> <<>>], left |-> Unlimited]
  /\ named = FALSE /\ regk = None /\ crashes = 0

(* The controller's own log: an event follows the one before it or, a      *)
(* rotation, replaces what comes after it; receipts come with it or later. *)
Ordinal(k) == KelEvents[k].sn
Accept(k) ==
  /\ k \in world.kel \ seen
  /\ Ordinal(k) <= Len(kels)
  /\ IF Ordinal(k) = 0 THEN kels = <<>> ELSE kels[Ordinal(k)] = KelEvents[k].prior
  /\ kels' = Append(SubSeq(kels, 1, Ordinal(k)), k)
  /\ seen' = seen \cup {k}
  /\ wigs' = IF k \in world.slow THEN wigs ELSE wigs \cup {k}
  /\ UNCHANGED <<world, store, named, regk, crashes>>
Witness(k) ==
  /\ k \in (seen \cap world.slow) \ wigs
  /\ wigs' = wigs \cup {k}
  /\ UNCHANGED <<world, kels, seen, store, named, regk, crashes>>

(* A handler runs to its end, or the process stops after one of its writes *)
(* and starts again with the registries whose names are recorded.          *)
Running(s) == [s EXCEPT !.left = Unlimited]
Runs(Handler(_)) == store' = Running(Handler(store)) /\ UNCHANGED crashes
Stops(Handler(_)) ==
  /\ crashes < MaxCrashes /\ crashes' = crashes + 1
  /\ \E n \in 0..MaxWrites : store' = Running(Handler([store EXCEPT !.left = n]))
Does(Handler(_)) == (Runs(Handler) \/ Stops(Handler)) /\ UNCHANGED <<world, kels, seen, wigs, named, regk>>

(* makeRegistry records the name after the inception event is staged.      *)
makeRegistry(e) ==
  LET make(s) == processEvent(s, e)
  IN /\ regk = None /\ ~named /\ IsRip(e) /\ e \in world.makes \ store.evts
     /\ \/ Runs(make) /\ named' = TRUE /\ regk' = TelEvents[e].reg
        \/ Stops(make) /\ UNCHANGED <<named, regk>>
     /\ UNCHANGED <<world, kels, seen, wigs>>

(* issue, present and vacate: a blinded update after the tip.              *)
_blind(e) ==
  LET tip == _effectiveFrontier(store, store.heads)
      blind(s) == processEvent(s, e)
  IN /\ regk # None /\ e \in world.makes \ store.evts /\ ~IsRip(e)
     /\ tip # None /\ prior(e) = tip /\ sn(e) = sn(tip) + 1
     /\ _validateEvent(store, regk, e)
     /\ Does(blind)

(* An update that another member of the group made.                        *)
Receive(e) ==
  LET receive(s) == processEvent(s, e)
  IN /\ regk # None /\ e \in world.others /\ _validateEvent(store, regk, e)
     /\ Does(receive)

(* The caller tells the couple of the sealing event, or none.              *)
Anchored(s, e, c) == IF c = NoCouple THEN _discoverAnchor(s, e) ELSE putAnchor(s, e, c)
anchorMsg(e, c) ==
  LET anchor(s) == processEvent(Anchored(s, e, c), e)
  IN /\ regk # None /\ e \in store.evts /\ _validateEvent(store, regk, e)
     /\ c # NoCouple => _verifyAnchorCouple(e, c)
     /\ Anchored(store, e, c).ancs[e] # NoCouple
     /\ Does(anchor)

(* Regery.processEscrows.  No doer calls it (RegeryDoer runs the Regery of *)
(* vdr/credentialing.py), so a pass may never come: there is no fairness.  *)
Escrows ==
  LET escrows(s) == IF regk = None THEN s ELSE processEscrows(s, regk)
  IN Does(escrows)

Next ==
  \/ \E k \in Kel : Accept(k) \/ Witness(k)
  \/ \E e \in Tel : makeRegistry(e) \/ _blind(e) \/ Receive(e)
  \/ \E e \in Tel : \E c \in {Couple(i) : i \in DOMAIN kels} \cup {NoCouple} : anchorMsg(e, c)
  \/ Escrows
Spec == Init /\ [][Next]_vars

-----------------------------------------------------------------------------
TypeOK ==
  /\ seen \subseteq Kel /\ wigs \subseteq seen /\ ToSet(kels) \subseteq seen
  /\ store.evts \subseteq Tel /\ store.heads \in store.evts \cup {None}
  /\ ToSet(store.tels) \subseteq store.evts
  /\ \A e \in Tel : store.ancs[e] \in Couples \cup {NoCouple}
  /\ \A n \in Sns : \A e \in Staged(store, n) : e \in store.evts /\ sn(e) = n

(* The accepted events form one chain, each sealed by a witnessed event of *)
(* the issuer, and the head is its end, or the event before it after a     *)
(* crash (_RegEventer._commit).                                            *)
ChainSealed ==
  LET tels == store.tels
  IN /\ \A i \in DOMAIN tels :
         /\ sn(tels[i]) = i - 1
         /\ i > 1 => prior(tels[i]) = tels[i - 1]
         /\ store.ancs[tels[i]] # NoCouple
         /\ Seals(store.ancs[tels[i]].kel, tels[i]) /\ store.ancs[tels[i]].kel \in wigs
     /\ headSn(store) \in {Len(tels) - 1, Len(tels) - 1 - crashes}
     /\ store.heads # None => store.heads = At(store, headSn(store))

(* Until a crash, an event that was made is accepted, or is still staged   *)
(* and will be tried again, or has lost its place to another.              *)
Superseded(s, e) ==
  \/ At(s, sn(e)) \notin {None, e}
  \/ sn(e) > 0 /\ At(s, sn(e) - 1) \notin {None, prior(e)}
StagedKept ==
  crashes = 0 =>
    \A e \in store.evts :
      e \in ToSet(store.tels) \/ e \in Staged(store, sn(e)) \/ Superseded(store, e)

(* One controller alone never makes two updates that take the same place   *)
(* (_effectiveFrontier), until a crash.                                    *)
OwnUpdatesFollow ==
  crashes = 0 /\ world.others = {} =>
    \A e, f \in store.evts : sn(e) = sn(f) => e = f

(* One pass of the escrows, whenever it comes, accepts every staged event  *)
(* whose prior is accepted by then and whose seal is in the log, or        *)
(* another takes its place: no order of staging, sealing and receipts      *)
(* makes a second pass necessary (processEscrows).                         *)
Waits(s, e) ==
  /\ e \in s.evts \ ToSet(s.tels) /\ ~Superseded(s, e) /\ Sealing(e) # {}
  /\ IsRip(e) \/ At(s, sn(e) - 1) = prior(e)
OnePassAccepts ==
  crashes = 0 /\ regk # None =>
    LET after == processEscrows(store, regk)
    IN \A e \in Tel : ~Waits(after, e)
=============================================================================
