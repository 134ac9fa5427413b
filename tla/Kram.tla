-------------------------------- MODULE Kram --------------------------------
(* Kram: core/kraming.py, the cache of messages that keeps a message that  *)
(* comes again from being processed again.  A message is accepted inside a *)
(* window of time, by a seal of its sender or by enough signatures, which  *)
(* may come in pieces; its record leaves the cache after a longer window.  *)
EXTENDS Integers, Sequences, FiniteSets, FiniteSetsExt, Functions

CONSTANTS
  MsgData,     \* a record for each message: mdt, ctypes, x, opens
  Deliveries,  \* a message with a seal, signatures or both
  KeysAt,      \* the sender's keys, by number of the establishment event
  Threshold,   \* how many of them must sign
  Configs,     \* configurations, a function from cache types to lags
  Covers,      \* Covers[c]: the cache types whose messages c applies to
  Start, MaxTime, None

Msgs == DOMAIN MsgData
Threads == {MsgData[m].x : m \in Msgs} \ {None}
Mdt(m) == MsgData[m].mdt
ThreadOf(m) == MsgData[m].x

VARIABLES
  now,
  est,       \* the sender's last establishment event, -1 if not known
  sealed,    \* messages whose sealing event is known
  conf,      \* number of the configuration
  ctyp,      \* kramCTYP: lags by cache type
  pending,   \* _pending, in memory
  cache,     \* kramMSGC and kramTMSC
  partial,   \* kramPMKM, kramPMKS and kramPMSK
  xdt,       \* kramXDT
  accepted   \* how many times a message was handed on
cached == <<cache, partial, xdt, accepted>>
lags == <<conf, ctyp, pending>>
vars == <<now, est, sealed, lags, cached>>

-----------------------------------------------------------------------------
(* Configuration.                                                          *)
Larger(a, b) == IF a >= b THEN a ELSE b
CoveredBy(cf, c) == {k \in DOMAIN cf : c \in Covers[k]}
_validateCoverage(old, new) == \A c \in DOMAIN old : CoveredBy(new, c) # {}
Accepts(cf, c) == IF CoveredBy(cf, c) = {} THEN 0 ELSE Min({cf[k].sl : k \in CoveredBy(cf, c)})
_computeCoverageDiff(old, new) ==
  {c \in DOMAIN old \cup DOMAIN new : c \notin DOMAIN old \/ CoveredBy(old, c) # CoveredBy(new, c)}
_computeWorstCaseDelta(old, new) ==
  Max({0} \cup {Accepts(new, c) - (IF c \in DOMAIN old THEN Accepts(old, c) ELSE 0) :
                c \in _computeCoverageDiff(old, new)})
Smallest(cf, lag) == Min({cf[c][lag] : c \in DOMAIN cf})
AcceptLags == {"sl", "ll", "xl"}
PruneOf == [sl |-> "psl", ll |-> "pll", xl |-> "pxl"]
Decreases(old, new) ==
  \A lag \in AcceptLags : new[lag] <= old[lag] /\ new[PruneOf[lag]] <= old[PruneOf[lag]]
(* Larger windows prune at once and accept later.                          *)
Staged(accept, new) ==
  [accept EXCEPT !.psl = Larger(new.psl, new.sl), !.pll = Larger(new.pll, new.ll),
                 !.pxl = Larger(new.pxl, new.xl)]
changeConfig ==
  /\ conf < Len(Configs)
  /\ LET old == Configs[conf]
         new == Configs[conf + 1]
         case3 == _computeWorstCaseDelta(old, new)
         fresh(c) == c \notin DOMAIN old
         atOnce(c) == IF fresh(c) THEN case3 = 0 ELSE Decreases(old[c], new[c])
         case2(c) == Max({0} \cup {new[c][lag] - old[c][lag] : lag \in AcceptLags})
         delta(c) == IF fresh(c) THEN case3 ELSE Larger(case2(c), case3)
         least(c) == [new[c] EXCEPT !.sl = Smallest(old, "sl"), !.ll = Smallest(old, "ll"),
                                    !.xl = Smallest(old, "xl")]
         lag(c) == IF fresh(c) THEN (IF atOnce(c) THEN new[c] ELSE Staged(least(c), new[c]))
                   ELSE IF atOnce(c) THEN [new[c] EXCEPT !.d = old[c].d]
                   ELSE Staged(old[c], new[c])
     IN /\ _validateCoverage(old, new)
        /\ ctyp' = [c \in DOMAIN new |-> lag(c)]
        /\ pending' = [c \in DOMAIN pending \cup {k \in DOMAIN new : ~atOnce(k)} |->
             IF c \in DOMAIN new /\ ~atOnce(c)
             THEN [to |-> new[c], start |-> now, delta |-> delta(c)] ELSE pending[c]]
  /\ conf' = conf + 1
  /\ UNCHANGED <<now, est, sealed, cached>>

(* reconcileConfig, before every message: what is staged long enough is    *)
(* applied; a type that was removed meanwhile raises an error.             *)
Due == {c \in DOMAIN pending : now - pending[c].start >= pending[c].delta}
Widened(l, to) == [l EXCEPT !.sl = to.sl, !.ll = to.ll, !.xl = to.xl]
Reconciled == [c \in DOMAIN ctyp |-> IF c \in Due THEN Widened(ctyp[c], pending[c].to) ELSE ctyp[c]]
reconcileConfig ==
  /\ Due \subseteq DOMAIN ctyp
  /\ ctyp' = Reconciled /\ pending' = Restrict(pending, DOMAIN pending \ Due)
  /\ UNCHANGED conf

-----------------------------------------------------------------------------
(* A message.                                                              *)
_fetchCacheType(m) ==
  LET types == MsgData[m].ctypes
      first == Min({i \in DOMAIN types : types[i] \in DOMAIN Reconciled})
  IN Reconciled[types[first]]
SealValid(d) == d.seal /\ d.msg \in sealed
MultiKey == Cardinality(KeysAt[est]) > 1
_verifyAttachedSigs(d) == d.sigs \cap KeysAt[est]
Satisfied(sigs) == Cardinality(sigs \cap KeysAt[est]) >= Threshold[est]
_resolveAuthType(d) ==
  IF d.sigs = {} \/ SealValid(d) THEN "asr" ELSE IF MultiKey THEN "asmk" ELSE "assk"
Within(t, from, to) == from <= t /\ t <= to
Timely(m, d, ml) == Within(Mdt(m), now - d - ml, now + d)

(* When the exchange of a message began: None if nothing tells.            *)
Rows(x) == {m \in Msgs : ThreadOf(m) = x /\ cache[m] # None}
Opened(m) ==
  LET x == ThreadOf(m) IN
  IF MsgData[m].opens = "xip" THEN Mdt(m)
  ELSE IF Rows(x) # {} THEN cache[CHOOSE q \in Rows(x) : TRUE].xdt
  ELSE IF xdt[x] # None THEN xdt[x]
  ELSE IF MsgData[m].opens = "exn" THEN Mdt(m) ELSE None
InExchange(m, xl) ==
  \/ ThreadOf(m) = None
  \/ Opened(m) # None /\ Within(Mdt(m), Opened(m), Opened(m) + xl)

(* New: the record, and the message if its authentication is complete.     *)
Lag(d, l) == IF _resolveAuthType(d) = "asmk" THEN l.ll ELSE l.sl
PruneLag(d, l) == IF _resolveAuthType(d) = "asmk" THEN l.pll ELSE l.psl
Fresh(d) ==
  /\ cache[d.msg] = None /\ est >= 0
  /\ d.seal => d.msg \in sealed
  /\ LET l == _fetchCacheType(d.msg)
     IN Timely(d.msg, l.d, Lag(d, l)) /\ InExchange(d.msg, l.xl)
  /\ SealValid(d) \/ _verifyAttachedSigs(d) # {}
HandOn(m) == accepted' = [accepted EXCEPT ![m] = @ + 1]
Receipt(m) == IF ThreadOf(m) = None THEN None ELSE now
CacheNew(d) ==
  LET m == d.msg
      x == ThreadOf(m)
      l == _fetchCacheType(m)
      began == IF x = None THEN None ELSE Opened(m)
      done == _resolveAuthType(d) # "asmk" \/ Satisfied(d.sigs)
  IN /\ cache' = [cache EXCEPT ![m] = [d |-> l.d, pml |-> PruneLag(d, l), pxl |-> l.pxl,
                                       xdt |-> began, rdt |-> IF done THEN Receipt(m) ELSE None]]
     /\ xdt' = IF x = None THEN xdt ELSE [xdt EXCEPT ![x] = began]
     /\ IF done THEN HandOn(m) /\ UNCHANGED partial
        ELSE /\ partial' = [partial EXCEPT ![m] = [sigs |-> _verifyAttachedSigs(d), est |-> est]]
             /\ UNCHANGED accepted
(* Cached: only signatures of a message that waits are of use.             *)
Wanted(d) ==
  /\ cache[d.msg] # None /\ partial[d.msg] # None
  /\ ~d.seal /\ MultiKey
Forget(m) == partial' = [partial EXCEPT ![m] = None]
Pool(m, sigs) ==
  /\ IF Satisfied(sigs)
     THEN Forget(m) /\ HandOn(m) /\ cache' = [cache EXCEPT ![m].rdt = Receipt(m)]
     ELSE partial' = [partial EXCEPT ![m].sigs = sigs] /\ UNCHANGED <<cache, accepted>>
  /\ UNCHANGED xdt
AccumulateMixed(d) ==  \* slip: the pool is kept when the sender's keys change
  LET m == d.msg IN
  IF _verifyAttachedSigs(d) = {} THEN UNCHANGED cached
  ELSE Pool(m, partial[m].sigs \cup _verifyAttachedSigs(d))
Accumulate(d) ==
  LET m == d.msg IN
  IF partial[m].est # est THEN Forget(m) /\ UNCHANGED <<cache, xdt, accepted>>
  ELSE IF _verifyAttachedSigs(d) = {} THEN UNCHANGED cached
  ELSE Pool(m, partial[m].sigs \cup _verifyAttachedSigs(d))
kramit(d) ==
  /\ reconcileConfig
  /\ IF Fresh(d) THEN CacheNew(d) ELSE IF Wanted(d) THEN Accumulate(d) ELSE UNCHANGED cached
  /\ UNCHANGED <<now, est, sealed>>

-----------------------------------------------------------------------------
(* Pruner: one pass over messages and exchanges.  No host schedules the    *)
(* Pruner, the witness host and the Reactant that enable Kram included, so *)
(* a pass may come or never come.                                          *)
ExpiredBy(m, pml) ==
  LET c == cache[m] IN
  IF ThreadOf(m) = None THEN ~Within(Mdt(m), now - c.d - pml, now + c.d)
  ELSE ~Within(now, c.xdt, c.xdt + c.pxl)
Expired == {m \in Msgs : cache[m] # None /\ ExpiredBy(m, cache[m].pml)}
Prune ==
  /\ Expired # {}
  /\ cache' = [m \in Msgs |-> IF m \in Expired THEN None ELSE cache[m]]
  /\ partial' = [m \in Msgs |-> IF m \in Expired THEN None ELSE partial[m]]
  /\ xdt' = [x \in Threads |-> IF Rows(x) \subseteq Expired THEN None ELSE xdt[x]]
  /\ UNCHANGED <<now, est, sealed, lags, accepted>>

(* The sender's log grows; time passes; the process restarts with the      *)
(* configuration it was given last.                                        *)
LearnKeys == est + 1 \in DOMAIN KeysAt /\ est' = est + 1 /\ UNCHANGED <<now, sealed, lags, cached>>
LearnSeal(m) ==
  /\ est >= 0 /\ m \notin sealed /\ sealed' = sealed \cup {m}
  /\ UNCHANGED <<now, est, lags, cached>>
Tick == now < MaxTime /\ now' = now + 1 /\ UNCHANGED <<est, sealed, lags, cached>>
Restart ==
  /\ ctyp' = [c \in DOMAIN ctyp \cup DOMAIN Configs[conf] |->
               IF c \in DOMAIN Configs[conf] THEN Configs[conf][c] ELSE ctyp[c]]
  /\ pending' = [c \in {} |-> 0]
  /\ UNCHANGED <<conf, now, est, sealed, cached>>

Init ==
  /\ now = Start /\ est = -1 /\ sealed = {} /\ conf = 1
  /\ ctyp = Configs[1] /\ pending = [c \in {} |-> 0]
  /\ cache = [m \in Msgs |-> None] /\ partial = cache
  /\ xdt = [x \in Threads |-> None] /\ accepted = [m \in Msgs |-> 0]
Next ==
  \/ \E d \in Deliveries : kramit(d)
  \/ \E m \in Msgs : LearnSeal(m)
  \/ changeConfig \/ Prune \/ LearnKeys \/ Tick \/ Restart
Spec == Init /\ [][Next]_vars

-----------------------------------------------------------------------------
(* Properties                                                              *)

TypeOK ==
  /\ now \in Start..MaxTime /\ est \in {-1} \cup DOMAIN KeysAt /\ conf \in DOMAIN Configs
  /\ \A m \in Msgs : partial[m] # None => cache[m] # None
  /\ \A x \in Threads : (xdt[x] # None) = (Rows(x) # {})

(* However often a message is delivered, in pieces or whole, over prunings,*)
(* restarts and changes of the windows, it is handed on at most once.      *)
AcceptedOnce == \A m \in Msgs : accepted[m] <= 1

(* A message waits, is handed on, or neither: its record tells.            *)
WaitsOrDone ==
  \A m \in Msgs : partial[m] # None =>
    /\ accepted[m] = 0 /\ cache[m].rdt = None
    /\ ~(partial[m].sigs \subseteq {}) /\ partial[m].sigs \subseteq KeysAt[partial[m].est]

(* The messages of an exchange are placed in it by one time of beginning.  *)
OneBeginning ==
  \A p, q \in Msgs : ThreadOf(p) = ThreadOf(q) /\ ThreadOf(p) # None
    /\ cache[p] # None /\ cache[q] # None => cache[p].xdt = cache[q].xdt

(* The pieces of a message handed on were all signed by the keys of the    *)
(* sender's event at the time.                                             *)
HandedOn(m) == accepted'[m] > accepted[m] /\ partial[m] # None
PiecesAgree == \A m \in Msgs : HandedOn(m) => partial[m].est = est
PiecesOfOneEvent == [][PiecesAgree]_vars

(* Windows of acceptance lie within those of pruning, and what is staged   *)
(* can be applied.                                                         *)
WindowsNested == \A c \in DOMAIN ctyp : \A lag \in AcceptLags : ctyp[c][lag] <= ctyp[c][PruneOf[lag]]
Appliable == Due \subseteq DOMAIN ctyp

-----------------------------------------------------------------------------
(* What AcceptedOnce rests on while the configuration stays: the record of *)
(* a message outlives the time in which the message can be accepted; or,   *)
(* in an exchange, its records leave together, when the message that opens *)
(* it is too old to be accepted.                                           *)
LagType == [d : Nat, sl : Nat, ll : Nat, xl : Nat, psl : Nat, pll : Nat, pxl : Nat]
LagsOf(m) ==
  LET types == MsgData[m].ctypes
      first == Min({i \in DOMAIN types : types[i] \in DOMAIN Configs[1]})
  IN Configs[1][types[first]]
InPieces(m) ==
  \E d \in Deliveries, e \in DOMAIN KeysAt :
    d.msg = m /\ d.sigs # {} /\ Cardinality(KeysAt[e]) > 1
AtOnce(m) ==
  \E d \in Deliveries, e \in DOMAIN KeysAt :
    d.msg = m /\ (d.sigs = {} \/ d.seal \/ ~(Cardinality(KeysAt[e]) > 1))
Window(m) == IF InPieces(m) THEN LagsOf(m).ll ELSE LagsOf(m).sl
Over(m) == now > Mdt(m) + LagsOf(m).d + Window(m)

(* Message o is the only one that can open its exchange; the exchange is   *)
(* over when its records have left.                                        *)
Opens(o) ==
  /\ ThreadOf(o) # None /\ LagsOf(o).d + Window(o) <= LagsOf(o).pxl
  /\ \A m \in Msgs : ThreadOf(m) = ThreadOf(o) =>
       LagsOf(m).pxl = LagsOf(o).pxl /\ (MsgData[m].opens # None => m = o)
Gone(o) ==
  Rows(ThreadOf(o)) = {} /\ xdt[ThreadOf(o)] = None /\ now > Mdt(o) + LagsOf(o).pxl

Unchanged ==
  conf = 1 /\ ctyp = Configs[1] /\ DOMAIN pending = {} /\ now \in Int /\ Start <= now
RowType == [d : Nat, pml : Nat, pxl : Nat, xdt : Int \cup {None}, rdt : Int \cup {None}]
PieceType == [sigs : SUBSET UNION {d.sigs : d \in Deliveries}, est : Int]
TablesHeld ==
  /\ cache \in [Msgs -> RowType \cup {None}] /\ partial \in [Msgs -> PieceType \cup {None}]
  /\ xdt \in [Threads -> Int \cup {None}] /\ accepted \in [Msgs -> Nat]
  /\ est \in {-1} \cup DOMAIN KeysAt
RowHeld(m) ==
  /\ cache[m].d = LagsOf(m).d /\ cache[m].pxl = LagsOf(m).pxl
  /\ Window(m) <= cache[m].pml /\ Mdt(m) <= now + LagsOf(m).d
  /\ ThreadOf(m) # None =>
       /\ cache[m].xdt \in Int /\ cache[m].xdt <= now
       /\ Within(Mdt(m), cache[m].xdt, cache[m].xdt + LagsOf(m).xl)
RowsHeld == \A m \in Msgs : cache[m] # None => RowHeld(m)
ThreadHeld(o) ==
  /\ \A m \in Rows(ThreadOf(o)) : cache[m].xdt = Mdt(o)
  /\ xdt[ThreadOf(o)] \in {Mdt(o), None}
ThreadsHeld ==
  /\ \A x \in Threads : xdt[x] # None => xdt[x] <= now
  /\ \A o \in Msgs : Opens(o) => ThreadHeld(o)
Waiting(m) == partial[m] # None
Finished(m) == Over(m) \/ \E o \in Msgs : Opens(o) /\ ThreadOf(o) = ThreadOf(m) /\ Gone(o)
OnceHeld ==
  \A m \in Msgs :
    /\ Waiting(m) => cache[m] # None /\ accepted[m] = 0
    /\ accepted[m] > 0 => accepted[m] = 1 /\ (cache[m] # None \/ Finished(m))
KramInv == Unchanged /\ TablesHeld /\ RowsHeld /\ ThreadsHeld /\ OnceHeld

(* What is assumed: one configuration that the code takes                  *)
(* (_parseValidateCtyp); the record of a message that can be authenticated *)
(* in both ways is kept for the longer; the message that opens an exchange *)
(* is not dated ahead; and the record of a message of an exchange is kept  *)
(* for the exchange and the window of its last message, unless only one    *)
(* message opens it.                                                       *)
Validated(l) ==
  /\ l \in LagType /\ 0 < l.sl /\ l.sl <= l.ll /\ l.ll <= l.xl
  /\ l.sl <= l.psl /\ l.ll <= l.pll /\ l.xl <= l.pxl
Roomy(m) ==
  LET l == LagsOf(m) IN
  /\ InPieces(m) /\ AtOnce(m) => l.ll <= l.psl
  /\ ThreadOf(m) # None =>
       /\ MsgData[m].opens # None => l.d = 0 \/ Mdt(m) <= Start
       /\ \/ l.xl + l.d + Window(m) <= l.pxl
          \/ \E o \in Msgs : Opens(o) /\ ThreadOf(o) = ThreadOf(m)
OneConfiguration ==
  /\ Len(Configs) = 1 /\ Configs[1] = [c \in DOMAIN Configs[1] |-> Configs[1][c]]
  /\ \A m \in Msgs : Mdt(m) \in Int /\ Validated(LagsOf(m)) /\ Roomy(m)
  /\ Start \in Int /\ DOMAIN KeysAt \subseteq Nat /\ \A d \in Deliveries : d.msg \in Msgs
  /\ None \notin Int \cup {"xip", "exn"} /\ None \notin RowType /\ None \notin PieceType
=============================================================================
