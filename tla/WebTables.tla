----------------------------- MODULE WebTables -----------------------------
(* WebTables: db/webdbing.py, the methods of WebDBer on one store.         *)
(* A store is a SortedDict, its items in the order of their keys as byte   *)
(* strings, and the flag that says it is to be written out.  Keys and      *)
(* items are those of Tables.                                              *)
EXTENDS Integers, Sequences, SequencesExt, FiniteSets, Functions, TLC

CONSTANTS MaxON, MaxIon, Raised, Nothing

T == INSTANCE Tables

(* irange from a minimum, up; and from a maximum, in reverse.              *)
Onwards(items, low) == T!From(items, low)
Downwards(items, high) == Reverse(SelectSeq(items, LAMBDA e : ~T!Less(high, e.key)))
Keyed(items, key) == T!At(items, key) # <<>>
Setting(items, key, val) == T!Put(items, T!Entry(key, 0, val))

(* A store after a call: what it holds, whether it is to be written out.   *)
Store(items, dirty) == [items |-> items, dirty |-> dirty]
Result(store, ret) == [store |-> store, ret |-> ret]
Marked(items, ret) == Result(Store(items, TRUE), ret)
DeleteUnmarked(s, es) == Result(Store(T!Without(s.items, es), s.dirty), es # <<>>)  \* slip
Delete(s, es) ==
  IF es = <<>> THEN Result(s, FALSE) ELSE Marked(T!Without(s.items, es), TRUE)

-----------------------------------------------------------------------------
(* One value at a key.                                                     *)
putVal(s, key, val) ==
  IF key = <<>> THEN Result(s, Raised)
  ELSE IF Keyed(s.items, key) THEN Result(s, FALSE)
  ELSE Marked(Setting(s.items, key, val), TRUE)
setVal(s, key, val) ==
  IF key = <<>> THEN Result(s, Raised) ELSE Marked(Setting(s.items, key, val), TRUE)
getVal(s, key) == IF Keyed(s.items, key) THEN T!At(s.items, key)[1].val ELSE Nothing
remVal(s, key) == Delete(s, T!At(s.items, key))
getTopItemIter(s, top) == T!While(Onwards(s.items, top), LAMBDA e : IsPrefix(top, e.key))
remTop(s, top) == Delete(s, getTopItemIter(s, top))
cntTop(s, top) == Len(getTopItemIter(s, top))
cntAll(s) == Len(s.items)

(* One value at a key and an ordinal.                                      *)
putOnVal(s, key, on, val) == putVal(s, T!onKey(key, on), val)
pinOnVal(s, key, on, val) == setVal(s, T!onKey(key, on), val)
appendOnVal(s, key, val) ==
  LET before == Downwards(s.items, T!onKey(key, MaxON))
      cn == IF before # <<>> /\ T!Key(before[1].key) = key
            THEN T!splitOnKey(before[1].key).on ELSE -1
  IN  IF cn >= MaxON THEN Result(s, Raised)
      ELSE Result(putOnVal(s, key, cn + 1, val).store, cn + 1)
getOnVal(s, key, on) == getVal(s, T!onKey(key, on))
remOn(s, key, on) == remVal(s, T!onKey(key, on))
OfKey(s, key, on) ==
  IF key = <<>> THEN s.items
  ELSE T!While(Onwards(s.items, T!onKey(key, on)), LAMBDA e : T!Key(e.key) = key)
remOnAll(s, key, on) == Delete(s, OfKey(s, key, on))
cntOnAll(s, key, on) == Len(OfKey(s, key, on))
_iterOnItems(s, key, on) ==
  LET es == OfKey(s, key, on)
  IN  [i \in DOMAIN es |-> <<T!Key(es[i].key), T!splitOnKey(es[i].key).on, es[i].val>>]

-----------------------------------------------------------------------------
(* An ordered set of values at a key.                                      *)
Set(s, key, ion) == T!While(Onwards(s.items, T!onKey(key, ion)), LAMBDA e : T!Key(e.key) = key)
maxIon(s, key) ==
  LET es == Set(s, key, 0) IN IF es = <<>> THEN -1 ELSE T!splitOnKey(Last(es).key).on
Suffixed(items, key, ion, vals) == T!PutAll(items, T!Suffixed(key, ion, vals))
putIoSetVals(s, key, vals) ==
  LET old == T!Vals(Set(s, key, 0))
      new == SelectSeq(T!oset(vals), LAMBDA v : ~Contains(old, v))
  IN  IF new = <<>> THEN Result(s, FALSE)
      ELSE Marked(Suffixed(s.items, key, maxIon(s, key) + 1, new), TRUE)
addIoSetVal(s, key, val) ==
  IF Contains(T!Vals(Set(s, key, 0)), val) THEN Result(s, FALSE)
  ELSE Marked(Setting(s.items, T!onKey(key, maxIon(s, key) + 1), val), TRUE)
remIoSet(s, key) == Delete(s, Set(s, key, 0))
pinIoSetVals(s, key, vals) ==
  IF vals = <<>> THEN Result(s, FALSE)
  ELSE Marked(Suffixed(remIoSet(s, key).store.items, key, 0, T!oset(vals)), TRUE)
remIoSetVal(s, key, val) ==
  LET at == SelectSeq(Set(s, key, 0), LAMBDA e : e.val = val)
  IN  Delete(s, SubSeq(at, 1, T!Shorter(1, Len(at))))
cntIoSet(s, key, ion) == Len(Set(s, key, ion))
getIoSetItemIter(s, key, ion) == T!Vals(Set(s, key, ion))
getIoSetLastItem(s, key) == T!LastVal(Set(s, key, 0))
getIoSetLastItemIterAll(s, key) ==
  LET es == T!LastOfRuns(IF key = <<>> THEN s.items
                         ELSE Onwards(s.items, T!onKey(key, 0)))
  IN  [i \in DOMAIN es |-> <<T!Key(es[i].key), es[i].val>>]

-----------------------------------------------------------------------------
(* An ordered set at a key and an ordinal.                                 *)
putOnIoSetVals(s, key, on, vals) == putIoSetVals(s, T!onKey(key, on), vals)
pinOnIoSetVals(s, key, on, vals) == pinIoSetVals(s, T!onKey(key, on), vals)
addOnIoSetVal(s, key, on, val) == addIoSetVal(s, T!onKey(key, on), val)
remOnIoSetVal(s, key, on, val) == remIoSetVal(s, T!onKey(key, on), val)
(* The store is not marked to be written out.                              *)
appendOnIoSetVals(s, key, vals) ==
  LET before == Downwards(s.items, T!onKey(T!onKey(key, MaxON), MaxIon))
      lastOn == IF before # <<>> /\ T!TopKey(before[1]) = key THEN T!On(before[1]) ELSE -1
  IN  IF lastOn = MaxON THEN Result(s, Raised)
      ELSE Result(Store(Suffixed(s.items, T!onKey(key, lastOn + 1), 0, vals), s.dirty),
                  lastOn + 1)
AllSets(s, key, on) ==
  IF key = <<>> THEN s.items
  ELSE T!While(Onwards(s.items, T!onKey(key, on)), LAMBDA e : T!TopKey(e) = key)
(* Nor here, unless all keys are removed.                                  *)
remOnAllIoSet(s, key, on) ==
  IF key = <<>> THEN remTop(s, <<>>)
  ELSE LET gone == AllSets(s, key, on)
       IN  Result(Store(T!Without(s.items, gone), s.dirty), gone # <<>>)
getOnIoSetItemIter(s, key, on) == getIoSetItemIter(s, T!onKey(key, on), 0)
getOnIoSetLastItem(s, key, on) == getIoSetLastItem(s, T!onKey(key, on))
cntOnIoSet(s, key, on) == cntIoSet(s, T!onKey(key, on), 0)
cntOnAllIoSet(s, key, on) == Len(AllSets(s, key, on))
getOnAllIoSetItemIter(s, key, on) == T!Items(AllSets(s, key, on))
getOnAllIoSetLastItemIter(s, key, on) == T!Items(T!LastOfRuns(AllSets(s, key, on)))
(* Backwards, over every key up to the ordinal, passing over other keys.   *)
Backwards(s, key, on) ==
  IF key = <<>> THEN Reverse(s.items)
  ELSE SelectSeq(Downwards(s.items, T!onKey(T!onKey(key, on), MaxIon)),
                 LAMBDA e : T!TopKey(e) = key /\ T!On(e) <= on)
getOnAllIoSetItemBackIter(s, key, on) == T!Items(Backwards(s, key, on))
(* Of each set, the value met first.                                       *)
getOnAllIoSetLastItemBackIter(s, key, on) == T!Items(T!FirstOfRuns(Backwards(s, key, on)))

-----------------------------------------------------------------------------
(* flush writes out the records of a marked store; open reads them.        *)
flush(s, record) == IF s.dirty THEN s.items ELSE record
open(record) == Store(record, FALSE)
=============================================================================
