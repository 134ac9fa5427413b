------------------------------- MODULE Stores -------------------------------
(* Stores: one sub-database used through a class of db/subing.py or        *)
(* db/koming.py, over LMDB (Tables) or in a browser (WebTables).           *)
(* kind is the class: suber (Suber, Komer), on (OnSuber), ioset            *)
(* (IoSetSuber, IoSetKomer), onioset (OnIoSetSuber), dup (DupSuber,        *)
(* DupKomer), iodup (IoDupSuber) and oniodup (OnIoDupSuber); a browser has *)
(* the first four.  Over LMDB every method is a transaction, and pin of    *)
(* many values two.  In a browser what is written stays in memory until it *)
(* is flushed.                                                             *)
EXTENDS Integers, Sequences, SequencesExt, FiniteSets, Functions, TLC

CONSTANTS Keys, MaxON, MaxIon, MaxEntries, MaxKept, Lists, Tops, Raised, Nothing

T == INSTANCE Tables
W == INSTANCE WebTables

VARIABLES engine, kind, db, disk, loose, todo
vars == <<engine, kind, db, disk, loose, todo>>

Ons == 0..MaxON
WebKinds == {"suber", "on", "ioset", "onioset"}
Kinds == WebKinds \cup {"dup", "iodup", "oniodup"}
OnKinds == {"on", "onioset", "oniodup"}
SetKinds == {"ioset", "onioset"}
DupKinds == {"dup", "iodup", "oniodup"}
Values == UNION {ToSet(vs) : vs \in Lists}

Init ==
  /\ engine \in {"lmdb", "web"}
  /\ kind \in IF engine = "lmdb" THEN Kinds ELSE WebKinds
  /\ db = IF engine = "lmdb" THEN <<>> ELSE W!Store(<<>>, TRUE)
  /\ disk = <<>>
  /\ loose = FALSE
  /\ todo = Nothing

-----------------------------------------------------------------------------
(* The classes: the method of the database each of their methods calls.    *)
(* c is the call: its name, key, ordinal and values.                       *)
Suber(c) ==
  CASE c.op = "put" -> T!putVal(db, c.k, c.vs[1])
    [] c.op = "pin" -> T!setVal(db, c.k, c.vs[1])
    [] c.op = "rem" -> T!remVal(db, c.k)
OnSuber(c) ==
  CASE c.op = "put" -> T!putOnVal(db, c.k, c.o, c.vs[1])
    [] c.op = "pin" -> T!pinOnVal(db, c.k, c.o, c.vs[1])
    [] c.op = "append" -> T!appendOnVal(db, c.k, c.vs[1])
    [] c.op = "rem" -> T!remOn(db, c.k, c.o)
    [] c.op = "remAll" -> T!remOnAll(db, c.k, c.o)
IoSetSuber(c) ==
  CASE c.op = "put" -> T!putIoSetVals(db, c.k, c.vs)
    [] c.op = "add" -> T!addIoSetVal(db, c.k, c.vs[1])
    [] c.op = "pinRem" -> T!remIoSet(db, c.k)
    [] c.op = "pinPut" -> T!pinIoSetVals(db, c.k, c.vs)
    [] c.op = "rem" -> T!remIoSet(db, c.k)
    [] c.op = "remVal" -> T!remIoSetVal(db, c.k, c.vs[1])
OnIoSetSuber(c) ==
  CASE c.op = "put" -> T!putOnIoSetVals(db, c.k, c.o, c.vs)
    [] c.op = "add" -> T!addOnIoSetVal(db, c.k, c.o, c.vs[1])
    [] c.op = "append" -> T!appendOnIoSetVals(db, c.k, c.vs)
    [] c.op = "pinRem" -> T!remIoSet(db, T!onKey(c.k, c.o))
    [] c.op = "pinPut" -> T!pinIoSetVals(db, T!onKey(c.k, c.o), c.vs)
    [] c.op = "rem" -> T!remIoSet(db, T!onKey(c.k, c.o))
    [] c.op = "remVal" -> T!remOnIoSetVal(db, c.k, c.o, c.vs[1])
    [] c.op = "remAll" -> T!remOnAllIoSet(db, c.k, c.o)
DupSuber(c) ==
  CASE c.op \in {"put", "pinPut"} -> T!putVals(db, c.k, c.vs)
    [] c.op = "add" -> T!addVal(db, c.k, c.vs[1])
    [] c.op \in {"rem", "pinRem"} -> T!delVals(db, c.k, <<>>)
    [] c.op = "remVal" -> T!delVals(db, c.k, c.vs)
IoDupSuber(c) ==
  CASE c.op \in {"put", "pinPut"} -> T!putIoDupVals(db, c.k, c.vs)
    [] c.op = "add" -> T!putIoDupVals(db, c.k, c.vs)
    [] c.op \in {"rem", "pinRem"} -> T!delIoDupVals(db, c.k)
    [] c.op = "remVal" -> T!delIoDupVal(db, c.k, c.vs[1])
OnIoDupSuber(c) ==
  CASE c.op \in {"put", "pinPut"} -> T!putOnIoDupVals(db, c.k, c.o, c.vs)
    [] c.op = "add" -> T!addOnIoDupVal(db, c.k, c.o, c.vs[1])
    [] c.op = "append" -> T!appendOnIoDupVal(db, c.k, c.vs[1])
    [] c.op \in {"rem", "pinRem"} -> T!delOnIoDups(db, c.k, c.o)
    [] c.op = "remVal" -> T!delOnIoDupVal(db, c.k, c.o, c.vs[1])
    [] c.op = "remAll" -> T!remOnAll(db, c.k, c.o)
LMDB(c) ==
  CASE c.op = "trim" -> T!remTop(db, c.k)
    [] kind = "suber" -> Suber(c)
    [] kind = "on" -> OnSuber(c)
    [] kind = "ioset" -> IoSetSuber(c)
    [] kind = "onioset" -> OnIoSetSuber(c)
    [] kind = "dup" -> DupSuber(c)
    [] kind = "iodup" -> IoDupSuber(c)
    [] kind = "oniodup" -> OnIoDupSuber(c)
Single(c) ==
  CASE c.op = "put" -> IF kind = "on" THEN W!putOnVal(db, c.k, c.o, c.vs[1])
                       ELSE W!putVal(db, c.k, c.vs[1])
    [] c.op = "pin" -> IF kind = "on" THEN W!pinOnVal(db, c.k, c.o, c.vs[1])
                       ELSE W!setVal(db, c.k, c.vs[1])
    [] c.op = "append" -> W!appendOnVal(db, c.k, c.vs[1])
    [] c.op = "rem" -> IF kind = "on" THEN W!remOn(db, c.k, c.o) ELSE W!remVal(db, c.k)
    [] c.op = "remAll" -> W!remOnAll(db, c.k, c.o)
Many(c) ==
  CASE c.op = "put" -> W!putIoSetVals(db, c.k, c.vs)
    [] c.op = "pin" -> W!pinIoSetVals(db, c.k, c.vs)
    [] c.op = "add" -> W!addIoSetVal(db, c.k, c.vs[1])
    [] c.op = "rem" -> W!remIoSet(db, c.k)
    [] c.op = "remVal" -> W!remIoSetVal(db, c.k, c.vs[1])
ManyOn(c) ==
  CASE c.op = "put" -> W!putOnIoSetVals(db, c.k, c.o, c.vs)
    [] c.op = "pin" -> W!pinOnIoSetVals(db, c.k, c.o, c.vs)
    [] c.op = "add" -> W!addOnIoSetVal(db, c.k, c.o, c.vs[1])
    [] c.op = "append" -> W!appendOnIoSetVals(db, c.k, c.vs)
    [] c.op = "rem" -> W!remIoSet(db, T!onKey(c.k, c.o))
    [] c.op = "remVal" -> W!remOnIoSetVal(db, c.k, c.o, c.vs[1])
    [] c.op = "remAll" -> W!remOnAllIoSet(db, c.k, c.o)
Web(c) ==
  IF c.op = "trim" THEN W!remTop(db, c.k)
  ELSE IF kind \in {"suber", "on"} THEN Single(c)
  ELSE IF kind = "ioset" THEN Many(c) ELSE ManyOn(c)

-----------------------------------------------------------------------------
Now == IF engine = "lmdb" THEN db ELSE db.items
(* The bounds: the entries of a sub-database, the numbers of the values of *)
(* a set, ordinals, and (MaxKept) the entries when a flush or a pin in two *)
(* steps begins.                                                           *)
Bounded(d) ==
  /\ Len(d) <= MaxEntries[engine]
  /\ \A i \in DOMAIN d :
    LET k == d[i].key IN
      /\ kind \in SetKinds => T!splitOnKey(k).on <= MaxIon
      /\ kind = "onioset" => T!splitOnKey(T!Key(k)).on <= MaxON
      /\ kind \in {"iodup", "oniodup"} => d[i].dup <= MaxIon

Does(c) ==
  /\ todo = Nothing
  /\ IF engine = "lmdb" THEN db' = LMDB(c).db ELSE db' = Web(c).store
  /\ Bounded(IF engine = "lmdb" THEN db' ELSE db'.items)
  /\ loose' = (loose \/ (engine = "web" /\ db'.items # db.items /\ ~db'.dirty))
  /\ UNCHANGED <<engine, kind, disk, todo>>
Call(op, k, o, vs) == [op |-> op, k |-> k, o |-> o, vs |-> vs]
HasOn(o) == kind \in OnKinds \/ o = 0

put(k, o, vs) == HasOn(o) /\ Does(Call("put", k, o, vs))
(* One value, and any in a browser, is replaced in one step.               *)
pin(k, o, vs) ==
  HasOn(o) /\ (engine = "web" \/ kind \in {"suber", "on"}) /\ Does(Call("pin", k, o, vs))
add(k, o, v) == HasOn(o) /\ kind \in SetKinds \cup DupKinds /\ Does(Call("add", k, o, <<v>>))
append(k, vs) == kind \in OnKinds /\ Does(Call("append", k, 0, vs))
rem(k, o) == HasOn(o) /\ Does(Call("rem", k, o, <<>>))
remVal(k, o, v) == HasOn(o) /\ kind \in SetKinds \cup DupKinds /\ Does(Call("remVal", k, o, <<v>>))
remAll(k, o) == kind \in OnKinds /\ Does(Call("remAll", k, o, <<>>))
trim(top) == Does(Call("trim", top, 0, <<>>))

(* pin of many values over LMDB: the old ones go in one transaction, the   *)
(* new ones come in another.                                               *)
pinRem(k, o, vs) ==
  /\ HasOn(o) /\ engine = "lmdb" /\ kind \in SetKinds \cup DupKinds
  /\ todo = Nothing
  /\ Len(db) <= MaxKept[engine]
  /\ db' = LMDB(Call("pinRem", k, o, <<>>)).db
  /\ todo' = [p |-> <<k, o>>, vs |-> vs]
  /\ UNCHANGED <<engine, kind, disk, loose>>
pinPut ==
  /\ todo # Nothing
  /\ db' = LMDB(Call("pinPut", todo.p[1], todo.p[2], todo.vs)).db
  /\ todo' = Nothing
  /\ UNCHANGED <<engine, kind, disk, loose>>

flush ==
  /\ engine = "web"
  /\ Len(db.items) <= MaxKept[engine]
  /\ disk' = W!flush(db, disk)
  /\ db' = W!Store(db.items, FALSE)
  /\ loose' = (loose /\ ~db.dirty)
  /\ UNCHANGED <<engine, kind, todo>>
(* The process ends at any time and starts again.                          *)
restart ==
  /\ db' = IF engine = "lmdb" THEN db ELSE W!open(disk)
  /\ todo' = Nothing
  /\ loose' = FALSE
  /\ UNCHANGED <<engine, kind, disk>>

Next ==
  \/ \E k \in Keys, o \in Ons, vs \in Lists : put(k, o, vs)
  \/ \E k \in Keys, o \in Ons, vs \in Lists : pin(k, o, vs)
  \/ \E k \in Keys, o \in Ons, vs \in Lists : pinRem(k, o, vs)
  \/ pinPut
  \/ \E k \in Keys, o \in Ons, v \in Values : add(k, o, v)
  \/ \E k \in Keys, vs \in Lists : append(k, vs)
  \/ \E k \in Keys, o \in Ons : rem(k, o)
  \/ \E k \in Keys, o \in Ons, v \in Values : remVal(k, o, v)
  \/ \E k \in Keys, o \in Ons : remAll(k, o)
  \/ \E top \in Tops : trim(top)
  \/ flush
  \/ restart
Spec == Init /\ [][Next]_vars

-----------------------------------------------------------------------------
(* The lists of values a sub-database stands for.                          *)
Held(d, p) ==
  LET key == IF kind \in OnKinds THEN T!onKey(p[1], p[2]) ELSE p[1] IN
    IF ~HasOn(p[2]) THEN <<>>
    ELSE SelectSeq(d, LAMBDA e : (IF kind \in SetKinds THEN T!Key(e.key) ELSE e.key) = key)
Content(d) == [p \in Keys \X Ons |-> T!Vals(Held(d, p))]
Sort == IF kind \in {"suber", "on"} THEN "single" ELSE IF kind = "dup" THEN "sorted" ELSE "ordered"
Sets == INSTANCE OrderedSets WITH Ords <- Ons

TypeOK ==
  /\ kind \in IF engine = "lmdb" THEN Kinds ELSE WebKinds
  /\ \A i \in DOMAIN Now : \A j \in DOMAIN Now : i < j => T!Before(Now[i], Now[j])
  /\ \A i \in DOMAIN Now : Now[i].val \in Values

(* put adds no value that is already at the place (subing.py 2574-2580).   *)
DupsDistinct ==
  \A p \in Keys \X Ons : LET vs == Content(Now)[p] IN Cardinality(ToSet(vs)) = Len(vs)

(* The calls a class has in this state.  OnIoDupSuber.put at an ordinal    *)
(* other than 0 compares the values with those at ordinal 0 and is left    *)
(* out; so is what follows when it has filed a value twice.                *)
Calls ==
  LET many == kind \in SetKinds \cup DupKinds
      ons  == IF kind \in OnKinds THEN Ons ELSE {0}
      pins == IF engine = "lmdb" /\ many THEN {"pinRem"} ELSE {"pin"}
  IN  (pins \X Keys \X ons \X Lists)
      \cup ({"put"} \X Keys \X (IF kind = "oniodup" THEN {0} ELSE ons) \X Lists)
      \cup ({"rem"} \X Keys \X ons \X {<<>>})
      \cup ({"trim"} \X Tops \X {0} \X {<<>>})
      \cup (IF many THEN {"add", "remVal"} \X Keys \X ons \X {<<v>> : v \in Values} ELSE {})
      \cup (IF kind \in OnKinds THEN {"append"} \X Keys \X {0} \X {<<v>> : v \in Values}
                                    \cup ({"remAll"} \X Keys \X ons \X {<<>>}) ELSE {})
      \cup (IF todo = Nothing \/ (kind = "oniodup" /\ todo.p[2] # 0) THEN {}
            ELSE {<<"pinPut", todo.p[1], todo.p[2], todo.vs>>})
(* Every call does to the lists, and returns, what its class promises, on  *)
(* LMDB and in a browser: where removals have left gaps in the numbers of  *)
(* a set, where a key begins another, and where the ordinals of a key are  *)
(* used up, when it refuses to append.                                     *)
CallsKept ==
  DupsDistinct =>
    LET sets == Content(Now) IN
    \A c \in Calls :
      LET call == Call(c[1], c[2], c[3], c[4])
          r    == IF engine = "lmdb" THEN LMDB(call) ELSE Web(call)
          d    == IF engine = "lmdb" THEN r.db ELSE r.store.items
          p    == <<c[2], c[3]>>
      IN  Bounded(d) =>
            /\ Content(d) = Sets!After(Sort, sets, c[1], p, c[4])
            /\ r.ret = Sets!Returns(Sort, sets, c[1], p, c[4])

(* In a browser what was there at a flush is what a restart finds.  Two    *)
(* calls, OnIoSetSuber.append and remAll, do not mark the store (loose).   *)
Marked == engine = "web" /\ ~db.dirty /\ ~loose => disk = db.items
UnmarkedBy ==
  /\ kind = "onioset"
  /\ \/ \E k \in Keys, vs \in Lists : append(k, vs)
     \/ \E k \in Keys, o \in Ons : remAll(k, o)

(* The keys in the order they are stored in.                               *)
KeySeq == SortSeq(SetToSeq(Keys), LAMBDA a, b : T!Less(a \o <<T!Sep>>, b \o <<T!Sep>>))
InTop(items, top) == SelectSeq(items, LAMBDA t : IsPrefix(top, t[1]))
Untagged(items) == [i \in DOMAIN items |-> <<items[i][1], items[i][3]>>]
OrRaised(items) == IF items = <<>> THEN {items, Raised} ELSE {items}

(* The reads of one key from an ordinal, which should give the items all   *)
(* forwards and back backwards; here is the list at the ordinal, first the *)
(* first ordinal in use from o.                                            *)
LastOf(here) == IF here = <<>> THEN Nothing ELSE Last(here)
LMDBReads(k, o, here, all, back, first) ==
  CASE kind = "suber" -> T!getVal(db, k) = LastOf(here)
    [] kind = "on" ->
         /\ T!getOnVal(db, k, o) = LastOf(here)
         /\ T!getOnAllItemIter(db, k, o) = all
         /\ T!cntOnAll(db, k, o) = Len(all)
    [] kind = "ioset" ->
         /\ T!getIoSetItemIter(db, k, 0) = here
         /\ T!getIoSetLastItem(db, k) = LastOf(here)
         /\ T!cntIoSet(db, k, 0) = Len(here)
    [] kind = "onioset" ->
         /\ T!getOnIoSetItemIter(db, k, o) = here
         /\ T!getOnIoSetLastItem(db, k, o) = LastOf(here)
         /\ T!cntOnIoSet(db, k, o) = Len(here)
         /\ T!getOnAllIoSetItemIter(db, k, o) = all
         /\ T!cntOnAllIoSet(db, k, o) = Len(all)
         /\ T!getOnAllIoSetLastItemIter(db, k, o) = Sets!Lasts(all)
         /\ T!getOnAllIoSetItemBackIter(db, k, o) \in OrRaised(back)
         /\ T!getOnAllIoSetLastItemBackIter(db, k, o) \in OrRaised(Sets!Firsts(back))
    [] kind = "dup" ->
         /\ T!getVals(db, k) = here
         /\ T!getValLast(db, k) = LastOf(here)
         /\ T!cntVals(db, k) = Len(here)
    [] kind = "iodup" ->
         /\ T!getIoDupVals(db, k) = here
         /\ T!getIoDupItemIter(db, k, 0) = here
         /\ T!getIoDupValLast(db, k) = LastOf(here)
         /\ T!cntIoDups(db, k) = Len(here)
    [] kind = "oniodup" ->
         /\ T!getOnIoDupVals(db, k, o) = here
         /\ T!getOnIoDupItemIter(db, k, o) = here
         /\ T!getOnIoDupLast(db, k, o) = LastOf(here)
         /\ T!cntOnIoDups(db, k, o) = Len(here)
         /\ T!getOnIoDupItemIterAll(db, k, o) = all
         /\ T!getOnIoDupLastItemIter(db, k, o) = Sets!Lasts(all)
         /\ T!getOnIoDupItemBackIter(db, k, o) = Sets!BackItems(Content(db), k, first)
WebReads(k, o, here, all, back) ==
  CASE kind = "suber" -> W!getVal(db, k) = LastOf(here)
    [] kind = "on" ->
         /\ W!getOnVal(db, k, o) = LastOf(here)
         /\ W!_iterOnItems(db, k, o) = all
         /\ W!cntOnAll(db, k, o) = Len(all)
    [] kind = "ioset" ->
         /\ W!getIoSetItemIter(db, k, 0) = here
         /\ W!getIoSetLastItem(db, k) = LastOf(here)
         /\ W!cntIoSet(db, k, 0) = Len(here)
    [] kind = "onioset" ->
         /\ W!getOnIoSetItemIter(db, k, o) = here
         /\ W!getOnIoSetLastItem(db, k, o) = LastOf(here)
         /\ W!cntOnIoSet(db, k, o) = Len(here)
         /\ W!getOnAllIoSetItemIter(db, k, o) = all
         /\ W!cntOnAllIoSet(db, k, o) = Len(all)
         /\ W!getOnAllIoSetLastItemIter(db, k, o) = Sets!Lasts(all)
         /\ W!getOnAllIoSetItemBackIter(db, k, o) = back
         /\ W!getOnAllIoSetLastItemBackIter(db, k, o) = Sets!Firsts(back)
(* The reads of all keys, which should give the items whole, and of a      *)
(* branch.                                                                 *)
LMDBWalks(whole) ==
  /\ kind = "on" => T!getOnAllItemIter(db, <<>>, 0) = whole
  /\ kind = "ioset" => T!getIoSetLastItemIterAll(db, <<>>) = Untagged(Sets!Lasts(whole))
  /\ kind = "onioset" =>
       /\ T!getOnAllIoSetItemBackIter(db, <<>>, 0) = Reverse(whole)
       /\ T!getOnAllIoSetLastItemBackIter(db, <<>>, 0) = Sets!Firsts(Reverse(whole))
       /\ \A top \in Tops : T!getOnTopIoSetItemIter(db, top) = InTop(whole, top)
  /\ kind = "oniodup" =>
       /\ T!getOnIoDupLastItemIter(db, <<>>, 0) = Sets!Lasts(whole)
       /\ T!getOnIoDupItemBackIter(db, <<>>, 0) = Reverse(whole)
  /\ \A top \in Tops \cap Keys : T!cntTop(db, top) = Len(InTop(whole, top))
WebWalks(whole) ==
  /\ kind = "on" => W!_iterOnItems(db, <<>>, 0) = whole
  /\ kind = "ioset" => W!getIoSetLastItemIterAll(db, <<>>) = Untagged(Sets!Lasts(whole))
  /\ kind = "onioset" =>
       W!getOnAllIoSetLastItemBackIter(db, <<>>, 0) = Sets!Firsts(Reverse(whole))
  /\ \A top \in Tops \cap Keys : W!cntTop(db, top) = Len(InTop(whole, top))

(* Walking a sub-database gives the lists in the order of their keys and   *)
(* ordinals, forwards and back, whole or from an ordinal, and never enters *)
(* the entries of another key.  Two walks back promise less: over LMDB     *)
(* that of an OnIoSetSuber may raise when there is nothing to give, and    *)
(* that of an OnIoDupSuber begins at the first ordinal in use that is not  *)
(* before the one asked for.                                               *)
ReadsAgree ==
  LET sets == Content(Now) IN
    /\ \A k \in Keys, o \in Ons : HasOn(o) =>
         LET here == sets[<<k, o>>]
             all  == Sets!AllItems(sets, k, o)
             back == Sets!BackItems(sets, k, o)
         IN  IF engine = "lmdb" THEN LMDBReads(k, o, here, all, back, Sets!FirstFrom(sets, k, o))
             ELSE WebReads(k, o, here, all, back)
    /\ LET whole == Sets!Whole(sets, KeySeq) IN
         IF engine = "lmdb" THEN LMDBWalks(whole) ELSE WebWalks(whole)
=============================================================================
