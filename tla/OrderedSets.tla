---------------------------- MODULE OrderedSets ----------------------------
(* OrderedSets: what the classes of db/subing.py and db/koming.py promise  *)
(* their users.  A sub-database is a function from places, a key and an    *)
(* ordinal, to the list of the distinct values there, in the order they    *)
(* were added (sort "ordered"), in the order of the values ("sorted"), or  *)
(* of one value at most ("single").                                        *)
EXTENDS Integers, Sequences, SequencesExt, FiniteSets

CONSTANTS Ords, Raised, Nothing

(* The values of vs that are not in s yet, once each.                      *)
New(s, vs) ==
  FoldLeft(LAMBDA n, v : IF Contains(s, v) \/ Contains(n, v) THEN n ELSE Append(n, v), <<>>, vs)
Added(sort, s, vs) ==
  IF sort = "single" THEN (IF s = <<>> THEN <<vs[1]>> ELSE s)
  ELSE IF sort = "sorted" THEN SetToSortSeq(ToSet(s \o vs), <)
  ELSE s \o New(s, vs)
Pinned(sort, vs) == Added(sort, <<>>, vs)

Emptied(sets, places) == [p \in DOMAIN sets |-> IF p \in places THEN <<>> ELSE sets[p]]
Later(k, o) == {k} \X {n \in Ords : n >= o}
(* The places in a branch of the key space.                                *)
InBranch(sets, top) == {p \in DOMAIN sets : IsPrefix(top, p[1])}
Used(sets, k) == {o \in Ords : sets[<<k, o>>] # <<>>}
(* append gives the first ordinal after every one of the key in use.       *)
NextOrd(sets, k) ==
  IF Used(sets, k) = {} THEN 0
  ELSE 1 + CHOOSE n \in Used(sets, k) : \A m \in Used(sets, k) : n >= m

(* The lists after a call.                                                 *)
After(sort, sets, op, p, vs) ==
  CASE op \in {"put", "add"} -> [sets EXCEPT ![p] = Added(sort, @, vs)]
    [] op \in {"pin", "pinPut"} -> [sets EXCEPT ![p] = Pinned(sort, vs)]
    [] op \in {"rem", "pinRem"} -> Emptied(sets, {p})
    [] op = "remVal" -> [sets EXCEPT ![p] = SelectSeq(@, LAMBDA w : w # vs[1])]
    [] op = "remAll" -> Emptied(sets, Later(p[1], p[2]))
    [] op = "trim" -> Emptied(sets, InBranch(sets, p[1]))
    [] op = "append" -> IF NextOrd(sets, p[1]) \in Ords
                        THEN [sets EXCEPT ![<<p[1], NextOrd(sets, p[1])>>] = Pinned(sort, vs)]
                        ELSE sets
(* What it returns: whether it changed something, or the ordinal appended. *)
Some(sets, places) == \E p \in places : sets[p] # <<>>
Returns(sort, sets, op, p, vs) ==
  CASE op = "put" -> sort = "sorted" \/ Added(sort, sets[p], vs) # sets[p]
    [] op = "add" -> ~Contains(sets[p], vs[1])
    [] op \in {"pin", "pinPut"} -> TRUE
    [] op \in {"rem", "pinRem"} -> sets[p] # <<>>
    [] op = "remVal" -> Contains(sets[p], vs[1])
    [] op = "remAll" -> Some(sets, Later(p[1], p[2]))
    [] op = "trim" -> Some(sets, InBranch(sets, p[1]))
    [] op = "append" -> IF NextOrd(sets, p[1]) \in Ords THEN NextOrd(sets, p[1]) ELSE Raised

-----------------------------------------------------------------------------
(* What the reads give: items, a key, an ordinal and a value, in their     *)
(* order; a walk from an ordinal covers it and those after it, a walk back *)
(* it and those before it.                                                 *)
MaxOrd == CHOOSE n \in Ords : \A m \in Ords : n >= m
Listed(sets, k, o) == [i \in DOMAIN sets[<<k, o>>] |-> <<k, o, sets[<<k, o>>][i]>>]
Between(sets, k, low, high) ==
  FlattenSeq([i \in 1..(MaxOrd + 1) |->
                IF i - 1 \in low..high THEN Listed(sets, k, i - 1) ELSE <<>>])
AllItems(sets, k, o) == Between(sets, k, o, MaxOrd)
BackItems(sets, k, o) == Reverse(Between(sets, k, 0, o))
(* The keys in their order give the whole.                                 *)
Whole(sets, keySeq) == FlattenSeq([i \in DOMAIN keySeq |-> AllItems(sets, keySeq[i], 0)])
(* The last value of every list of a walk forwards, the first of one back. *)
Place(item) == <<item[1], item[2]>>
Lasts(items) ==
  SelectSeq([i \in DOMAIN items |-> IF i = Len(items) \/ Place(items[i + 1]) # Place(items[i])
                                    THEN items[i] ELSE Nothing], LAMBDA t : t # Nothing)
Firsts(items) == Reverse(Lasts(Reverse(items)))
(* The first ordinal of a key in use, at or after one.                     *)
FirstFrom(sets, k, o) ==
  LET later == {n \in Used(sets, k) : n >= o}
  IN  IF later = {} THEN o ELSE CHOOSE n \in later : \A m \in later : n <= m
=============================================================================
