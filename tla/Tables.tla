------------------------------- MODULE Tables -------------------------------
(* Tables: db/dbing.py, the methods of LMDBer on one sub-database.         *)
(* A sub-database is the sequence of its entries in the order of the       *)
(* B-tree: by key as a byte string and, where a key may have duplicates,   *)
(* by the duplicate.  A cursor is a place in that sequence.                *)
(* A byte string is a sequence of symbols in the order of the bytes: "-"   *)
(* comes before the separator ".", the separator before the digits, and    *)
(* the digits before the letters of keys.  An ordinal, 32 hex digits wide  *)
(* in the code, is one symbol.  MaxON is the greatest ordinal of a key and *)
(* MaxIon that of a value in a set, one number in the code.                *)
EXTENDS Naturals, Sequences, SequencesExt, FiniteSets, TLC

CONSTANTS MaxON, MaxIon, Raised, Nothing

Sep == 1

onKey(key, on) == key \o <<Sep, 2 + on>>
splitOnKey(k) == [key |-> SubSeq(k, 1, Len(k) - 2), on |-> k[Len(k)] - 2]
Key(k) == splitOnKey(k).key

Shorter(m, n) == IF m < n THEN m ELSE n
Less(s, t) ==
  LET differ == {i \in 1..Shorter(Len(s), Len(t)) : s[i] # t[i]}
      i      == CHOOSE i \in differ : \A j \in differ : i <= j
  IN  IF differ = {} THEN Len(s) < Len(t) ELSE s[i] < t[i]
Entry(key, dup, val) == [key |-> key, dup |-> dup, val |-> val]
Before(e, f) == Less(e.key, f.key) \/ (e.key = f.key /\ e.dup < f.dup)

(* txn.put: an entry at its place, in place of the one that is there.      *)
PutAll(db, es) ==
  LET others == SelectSeq(db, LAMBDA f : \A i \in DOMAIN es : Before(f, es[i]) \/ Before(es[i], f))
  IN  SortSeq(others \o es, Before)
Put(db, e) == PutAll(db, <<e>>)
Without(db, es) == SelectSeq(db, LAMBDA e : e \notin ToSet(es))
(* cursor.set_range: the entries from a key on; and those before it.       *)
From(db, key) == SelectSeq(db, LAMBDA e : ~Less(e.key, key))
Until(db, key) == SelectSeq(db, LAMBDA e : Less(e.key, key))
(* Iterating until an entry fails the test.                                *)
While(es, Test(_)) ==
  LET n == SelectInSeq(es, LAMBDA e : ~Test(e)) IN IF n = 0 THEN es ELSE SubSeq(es, 1, n - 1)
At(db, key) == SelectSeq(db, LAMBDA e : e.key = key)
Vals(es) == [i \in DOMAIN es |-> es[i].val]
Result(db, ret) == [db |-> db, ret |-> ret]
(* oset: the values once each, in their order.                             *)
oset(vals) ==
  LET firsts == SelectSeq([i \in DOMAIN vals |-> i], LAMBDA i : \A j \in 1..(i - 1) : vals[j] # vals[i])
  IN  [n \in DOMAIN firsts |-> vals[firsts[n]]]

-----------------------------------------------------------------------------
(* Branches of the key space.                                              *)
getTopItemIter(db, top) == While(From(db, top), LAMBDA e : IsPrefix(top, e.key))
remTop(db, top) ==
  LET gone == getTopItemIter(db, top) IN Result(Without(db, gone), gone # <<>>)
cntTop(db, top) == Len(getTopItemIter(db, top))
cntAll(db) == Len(db)

(* One value at a key.                                                     *)
putVal(db, key, val) ==
  IF key = <<>> \/ At(db, key) # <<>> THEN Result(db, FALSE)
  ELSE Result(Put(db, Entry(key, 0, val)), TRUE)
setVal(db, key, val) ==
  IF key = <<>> THEN Result(db, FALSE) ELSE Result(Put(db, Entry(key, 0, val)), TRUE)
getVal(db, key) ==
  IF key = <<>> THEN FALSE ELSE IF At(db, key) = <<>> THEN Nothing ELSE At(db, key)[1].val
remVal(db, key) == Result(Without(db, At(db, key)), At(db, key) # <<>>)

-----------------------------------------------------------------------------
(* One value at a key and an ordinal.                                      *)
putOnVal(db, key, on, val) == putVal(db, onKey(key, on), val)
pinOnVal(db, key, on, val) == setVal(db, onKey(key, on), val)
(* The ordinal after the last of the key, found from the greatest.         *)
appendOnVal(db, key, val) ==
  LET end  == onKey(key, MaxON)
      at   == From(db, end)
      prev == Until(db, end)
      same(es) == es # <<>> /\ Key(Last(es).key) = key
      on   == IF same(prev) THEN splitOnKey(Last(prev).key).on + 1 ELSE 0
  IN  IF same(SubSeq(at, 1, Shorter(1, Len(at)))) THEN Result(db, Raised)
      ELSE Result(putOnVal(db, key, on, val).db, on)
getOnVal(db, key, on) == getVal(db, onKey(key, on))
remOn(db, key, on) == remVal(db, onKey(key, on))
getOnAllItemIter(db, key, on) ==
  LET es == IF key = <<>> THEN db
            ELSE While(From(db, onKey(key, on)), LAMBDA e : Key(e.key) = key)
  IN  [i \in DOMAIN es |-> <<Key(es[i].key), splitOnKey(es[i].key).on, es[i].val>>]
remOnAll(db, key, on) ==
  IF key = <<>> THEN remTop(db, <<>>)
  ELSE LET gone == While(From(db, onKey(key, on)), LAMBDA e : Key(e.key) = key)
       IN  Result(Without(db, gone), gone # <<>>)
cntOnAll(db, key, on) == Len(getOnAllItemIter(db, key, on))

-----------------------------------------------------------------------------
(* An ordered set of values at a key, each under a suffix of the key.      *)
Set(db, key, ion) == While(From(db, onKey(key, ion)), LAMBDA e : Key(e.key) = key)
(* Values under the suffixes from ion.                                     *)
Suffixed(key, ion, vals) == [i \in DOMAIN vals |-> Entry(onKey(key, ion + i - 1), 0, vals[i])]
putIoSetVals(db, key, vals) ==
  LET old == Set(db, key, 0)
      ion == IF old = <<>> THEN 0 ELSE splitOnKey(Last(old).key).on + 1
      new == SelectSeq(oset(vals), LAMBDA v : ~Contains(Vals(old), v))
  IN  Result(PutAll(db, Suffixed(key, ion, new)), new # <<>>)
addIoSetValCounted(db, key, val) ==  \* slip
  LET old == Set(db, key, 0)
  IN  IF Contains(Vals(old), val) THEN Result(db, FALSE)
      ELSE Result(Put(db, Entry(onKey(key, Len(old)), 0, val)), TRUE)
addIoSetVal(db, key, val) ==
  LET old == Set(db, key, 0)
      ion == IF old = <<>> THEN 0 ELSE splitOnKey(Last(old).key).on + 1
  IN  IF Contains(Vals(old), val) THEN Result(db, FALSE)
      ELSE Result(Put(db, Entry(onKey(key, ion), 0, val)), TRUE)
remIoSet(db, key) == LET gone == Set(db, key, 0) IN Result(Without(db, gone), gone # <<>>)
(* The second transaction of pinIoSetVals: remIoSet was the first.         *)
pinIoSetVals(db, key, vals) == Result(PutAll(db, Suffixed(key, 0, oset(vals))), vals # <<>>)
remIoSetVal(db, key, val) ==
  LET at == SelectSeq(Set(db, key, 0), LAMBDA e : e.val = val)
  IN  Result(Without(db, SubSeq(at, 1, Shorter(1, Len(at)))), at # <<>>)
cntIoSet(db, key, ion) == Len(Set(db, key, ion))
getIoSetItemIter(db, key, ion) == Vals(Set(db, key, ion))
LastVal(es) == IF es = <<>> THEN Nothing ELSE Last(es).val
getIoSetLastItem(db, key) == LastVal(Set(db, key, 0))
(* The last of each run of entries with the same key.                      *)
LastOfRuns(es) ==
  SelectSeq([i \in DOMAIN es |-> IF i = Len(es) \/ Key(es[i + 1].key) # Key(es[i].key)
                                 THEN es[i] ELSE Nothing], LAMBDA e : e # Nothing)
getIoSetLastItemIterAll(db, key) ==
  LET es == LastOfRuns(IF key = <<>> THEN db ELSE From(db, onKey(key, 0)))
  IN  [i \in DOMAIN es |-> <<Key(es[i].key), es[i].val>>]

-----------------------------------------------------------------------------
(* An ordered set at a key and an ordinal.                                 *)
Item(e) == <<Key(Key(e.key)), splitOnKey(Key(e.key)).on, e.val>>
Items(es) == [i \in DOMAIN es |-> Item(es[i])]
TopKey(e) == Key(Key(e.key))
On(e) == splitOnKey(Key(e.key)).on
putOnIoSetVals(db, key, on, vals) == putIoSetVals(db, onKey(key, on), vals)
addOnIoSetVal(db, key, on, val) == addIoSetVal(db, onKey(key, on), val)
remOnIoSetVal(db, key, on, val) == remIoSetVal(db, onKey(key, on), val)
(* The values are not made a set here: one given twice is stored twice.    *)
appendOnIoSetVals(db, key, vals) ==
  LET end  == onKey(onKey(key, MaxON), MaxIon)
      at   == From(db, end)
      prev == Until(db, end)
      on   == IF prev # <<>> /\ TopKey(Last(prev)) = key THEN On(Last(prev)) + 1 ELSE 0
  IN  IF at # <<>> /\ TopKey(at[1]) = key THEN Result(db, Raised)
      ELSE Result(PutAll(db, Suffixed(onKey(key, on), 0, vals)), on)
AllSets(db, key, on) == While(From(db, onKey(key, on)), LAMBDA e : TopKey(e) = key)
remOnAllIoSet(db, key, on) ==
  IF key = <<>> THEN remTop(db, <<>>)
  ELSE LET gone == AllSets(db, key, on) IN Result(Without(db, gone), gone # <<>>)
getOnIoSetItemIter(db, key, on) == getIoSetItemIter(db, onKey(key, on), 0)
getOnIoSetLastItem(db, key, on) == getIoSetLastItem(db, onKey(key, on))
cntOnIoSet(db, key, on) == cntIoSet(db, onKey(key, on), 0)
cntOnAllIoSet(db, key, on) == IF key = <<>> THEN cntAll(db) ELSE Len(AllSets(db, key, on))
getOnTopIoSetItemIter(db, top) == Items(getTopItemIter(db, top))
getOnAllIoSetItemIter(db, key, on) ==
  IF key = <<>> THEN Items(db) ELSE Items(AllSets(db, key, on))
getOnAllIoSetLastItemIter(db, key, on) ==
  Items(LastOfRuns(IF key = <<>> THEN db ELSE AllSets(db, key, on)))
(* Backwards from an ordinal, or from the last: the cursor is put on the   *)
(* first entry past it and moved back; with none before it, the empty key  *)
(* it then reads cannot be split.                                          *)
BackFrom(db, key, on) ==
  LET end  == onKey(onKey(key, on), MaxIon)
      at   == From(db, end)
      here == IF at = <<>> THEN db ELSE Append(Until(db, end), at[1])
  IN  IF here = <<>> THEN Raised
      ELSE IF TopKey(Last(here)) = key /\ On(Last(here)) <= on THEN here
      ELSE IF Len(here) = 1 THEN Raised
      ELSE Front(here)
Backwards(db, key, on) ==
  LET here == BackFrom(db, key, on) IN
    IF here = Raised THEN Raised ELSE While(Reverse(here), LAMBDA e : TopKey(e) = key)
getOnAllIoSetItemBackIter(db, key, on) ==
  IF db = <<>> THEN <<>>
  ELSE IF key = <<>> THEN Items(Reverse(db))
  ELSE IF Backwards(db, key, on) = Raised THEN Raised ELSE Items(Backwards(db, key, on))
(* Going back, the first of each run of entries is the last of its set.    *)
FirstOfRuns(es) ==
  SelectSeq([i \in DOMAIN es |-> IF i = 1 \/ Key(es[i - 1].key) # Key(es[i].key)
                                 THEN es[i] ELSE Nothing], LAMBDA e : e # Nothing)
getOnAllIoSetLastItemBackIter(db, key, on) ==
  IF key = <<>> THEN Items(FirstOfRuns(Reverse(db)))
  ELSE IF Backwards(db, key, on) = Raised THEN Raised
  ELSE Items(FirstOfRuns(Backwards(db, key, on)))

-----------------------------------------------------------------------------
(* Duplicates at a key, in the order of their values.                      *)
putVals(db, key, vals) ==
  Result(PutAll(db, [i \in DOMAIN vals |-> Entry(key, vals[i], vals[i])]), TRUE)
addVal(db, key, val) ==
  IF Contains(Vals(At(db, key)), val) THEN Result(db, FALSE)
  ELSE Result(Put(db, Entry(key, val, val)), TRUE)
getVals(db, key) == Vals(At(db, key))
getValLast(db, key) == LastVal(At(db, key))
cntVals(db, key) == Len(At(db, key))
delVals(db, key, vals) ==
  LET gone == SelectSeq(At(db, key), LAMBDA e : vals = <<>> \/ Contains(vals, e.val))
  IN  Result(Without(db, gone), gone # <<>>)

(* Duplicates in the order they were added, by a number before the value.  *)
(* Values given at once are compared with what is stored, not with each    *)
(* other.                                                                  *)
Numbered(db, key, dups, vals) ==
  LET old == At(db, key)
      ion == IF old = <<>> THEN 0 ELSE Last(old).dup + 1
      new == SelectSeq(vals, LAMBDA v : v \notin dups)
  IN  Result(PutAll(db, [i \in DOMAIN new |-> Entry(key, ion + i - 1, new[i])]), new # <<>>)
getIoDupVals(db, key) == Vals(At(db, key))
putIoDupVals(db, key, vals) ==
  IF vals = <<>> THEN Result(db, FALSE)
  ELSE Numbered(db, key, ToSet(getIoDupVals(db, key)), vals)
delIoDupVals(db, key) == Result(Without(db, At(db, key)), At(db, key) # <<>>)
delIoDupVal(db, key, val) ==
  LET at == SelectSeq(At(db, key), LAMBDA e : e.val = val)
  IN  Result(Without(db, SubSeq(at, 1, Shorter(1, Len(at)))), at # <<>>)
cntIoDups(db, key) == Len(At(db, key))
getIoDupItemIter(db, key, ion) == Vals(SelectSeq(At(db, key), LAMBDA e : e.dup >= ion))
getIoDupValLast(db, key) == LastVal(At(db, key))

-----------------------------------------------------------------------------
(* Duplicates at a key and an ordinal.                                     *)
getOnIoDupVals(db, key, on) == Vals(At(db, onKey(key, on)))
(* What is already there is looked up at ordinal 0, whatever the ordinal.  *)
putOnIoDupVals(db, key, on, vals) ==
  Numbered(db, onKey(key, on), ToSet(getOnIoDupVals(db, key, 0)), vals)
addOnIoDupVal(db, key, on, val) == putIoDupVals(db, onKey(key, on), <<val>>)
appendOnIoDupVal(db, key, val) == appendOnVal(db, key, val)
delOnIoDups(db, key, on) == delIoDupVals(db, onKey(key, on))
delOnIoDupVal(db, key, on, val) == delIoDupVal(db, onKey(key, on), val)
getOnIoDupItemIter(db, key, on) == getIoDupItemIter(db, onKey(key, on), 0)
getOnIoDupLast(db, key, on) == getIoDupValLast(db, onKey(key, on))
cntOnIoDups(db, key, on) == cntIoDups(db, onKey(key, on))
getOnIoDupItemIterAll(db, key, on) == getOnAllItemIter(db, key, on)
getOnIoDupLastItemIter(db, key, on) ==
  LET es == IF key = <<>> THEN db ELSE From(db, onKey(key, on))
      ends == SelectSeq([i \in DOMAIN es |-> IF i = Len(es) \/ es[i + 1].key # es[i].key
                                             THEN es[i] ELSE Nothing], LAMBDA e : e # Nothing)
      mine == While(ends, LAMBDA e : key = <<>> \/ Key(e.key) = key)
  IN  [i \in DOMAIN mine |-> <<Key(mine[i].key), splitOnKey(mine[i].key).on, mine[i].val>>]
(* Backwards from the ordinal.  When there is nothing at it but something  *)
(* at a later one, the walk begins at the later one.                       *)
getOnIoDupItemBackIter(db, key, on) ==
  LET at   == From(db, onKey(key, on))
      here == IF key = <<>> \/ at = <<>> THEN db
              ELSE IF Key(at[1].key) = key
                   THEN SelectSeq(db, LAMBDA e : ~Less(at[1].key, e.key))
              ELSE Until(db, onKey(key, on))
      es   == While(Reverse(here), LAMBDA e : key = <<>> \/ Key(e.key) = key)
  IN  [i \in DOMAIN es |-> <<Key(es[i].key), splitOnKey(es[i].key).on, es[i].val>>]
=============================================================================
