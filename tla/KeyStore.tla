------------------------------ MODULE KeyStore ------------------------------
(* KeyStore: app/keeping.py, the Manager of private keys and the Keeper    *)
(* database under it.  Each put, pin or rem is a transaction of its own,   *)
(* so an operation is the sequence of writes it makes from a state of the  *)
(* database, and whether it returns or raises.                             *)
(* A key is named by the salt and stem it is stretched from and by its     *)
(* rotation index: the same path gives the same key.  A list of keys is    *)
(* one key, or none.                                                       *)
EXTENDS Naturals, Sequences, SequencesExt, Functions

CONSTANTS None

(* The tables, gbls, pres, prms, sits, pubs and pris of Keeper and habs,   *)
(* names, hbys and the accepted key state (kel) of Baser.  A secret is     *)
(* what it is encrypted for.                                               *)
Tables == {"gbls", "pres", "prms", "sits", "pubs", "pris", "habs", "names", "hbys", "kel"}
Empty == [t \in Tables |-> <<>>]
Has(s, t, k) == k \in DOMAIN s[t]
(* A write: a table, a key and a value, or none when the key goes.         *)
Pin(t, k, v) == <<<<t, k, v>>>>
Rem(t, k) == <<<<t, k>>>>
Put(s, t, k, v) == IF Has(s, t, k) THEN <<>> ELSE Pin(t, k, v)
Write(s, w) ==
  IF Len(w) = 2 THEN [s EXCEPT ![w[1]] = Restrict(@, DOMAIN @ \ {w[2]})]
  ELSE [s EXCEPT ![w[1]] = (w[2] :> w[3]) @@ @]
After(s, ws) == FoldLeft(Write, s, ws)

Result(r, ws) == [r |-> r, ws |-> ws]
Raise == Result("error", <<>>)
(* b, from the state a leaves, unless a raises.                            *)
Then(s, a, b(_)) ==
  IF a.r # "ok" THEN a
  ELSE LET c == b(After(s, a.ws)) IN Result(c.r, a.ws \o c.ws)

-----------------------------------------------------------------------------
(* Root parameters and secrets.                                            *)
aeid(s) == IF Has(s, "gbls", "aeid") THEN s.gbls.aeid ELSE None
(* A text encrypted twice is cut to the size of the code and lost.         *)
Encrypt(x, for) == IF for = None THEN x ELSE IF x = None THEN for ELSE "lost"
SaltRead(s) == s.gbls.salt = aeid(s)
Known(s, key) == Has(s, "pris", key) /\ s.pris[key] = aeid(s)
StoreKey(s, key) == IF key = None THEN <<>> ELSE Put(s, "pris", key, aeid(s))

(* Secrets are encrypted again one by one, the aeid is pinned at the end;  *)
(* without a decrypter only the root salt is.                              *)
updateAeid(s, new) ==
  LET plain == IF aeid(s) = None THEN s.gbls.salt ELSE None
      salt == Pin("gbls", "salt", Encrypt(plain, new))
      entries(t) == SetToSeq(DOMAIN s[t])
      read(t, k) == (IF t = "pris" THEN s.pris[k] ELSE s.prms[k].salt) = aeid(s)
      again(t, k) == Pin(t, k, IF t = "pris" THEN new ELSE [s.prms[k] EXCEPT !.salt = new])
      whole(t) == \A k \in DOMAIN s[t] : read(t, k)
      upto(t) == IF whole(t) THEN entries(t)
                 ELSE SubSeq(entries(t), 1, SelectInSeq(entries(t), LAMBDA k : ~read(t, k)) - 1)
      pass(t) == Result(IF whole(t) THEN "ok" ELSE "error",
                        FlattenSeq([i \in 1..Len(upto(t)) |-> again(t, upto(t)[i])]))
      close == Result("ok", Pin("gbls", "aeid", new))
  IN IF aeid(s) # None /\ ~SaltRead(s) THEN Raise
     ELSE IF aeid(s) = None THEN Result("ok", salt \o close.ws)
     ELSE Then(s, Result("ok", salt),
               LAMBDA a : Then(s, pass("prms"),
                   LAMBDA b : Then(s, pass("pris"), LAMBDA c : close)))

(* The first setup writes the root parameters.                             *)
setup(s, code) ==
  Then(s, Result("ok", Put(s, "gbls", "salt", None)),
       LAMBDA a : IF aeid(a) = None THEN updateAeid(a, code)
                  ELSE IF aeid(a) = code THEN Result("ok", <<>>) ELSE Raise)

-----------------------------------------------------------------------------
(* Key sequences.  A lot is the keys of one rotation index.                *)
Lot(key, r) == [key |-> key, r |-> r]
NoLot == Lot(None, 0)
riKey(pre, r) == <<pre, r>>

incept(s, fam, more) ==
  LET pre == <<fam, 0>>
      new == Lot(pre, 0)
      nxt == Lot(IF more THEN <<fam, 1>> ELSE None, 1)
  IN IF Has(s, "pres", pre) \/ ~SaltRead(s) THEN Raise
     ELSE Result("ok",
            Pin("pres", pre, pre) \o Pin("prms", pre, [fam |-> fam, salt |-> aeid(s)])
            \o Pin("sits", pre, [old |-> NoLot, new |-> new, nxt |-> nxt])
            \o StoreKey(s, new.key) \o Put(s, "pubs", riKey(pre, 0), new.key)
            \o StoreKey(s, nxt.key) \o Put(s, "pubs", riKey(pre, 1), nxt.key))

(* Keys made elsewhere, and one more made here, which is stored as it is.  *)
ingest(s, ext, n, fam) ==
  LET pre == <<ext, 0>>
      sit(r) == [old |-> NoLot, new |-> IF r = 0 THEN NoLot ELSE Lot(pre, 0),
                 nxt |-> IF r < 2 THEN NoLot ELSE Lot(IF n = 1 THEN <<fam, 1>> ELSE <<ext, 1>>, 1)]
      keep(r) == StoreKey(s, <<ext, r>>) \o Put(s, "pubs", riKey(pre, r), <<ext, r>>)
                 \o (IF r = 0 THEN Pin("sits", pre, sit(0)) \o Pin("sits", pre, sit(1))
                     ELSE IF r = 1 THEN Pin("sits", pre, sit(2)) ELSE <<>>)
  IN IF Has(s, "pres", pre) \/ ~SaltRead(s) THEN Raise
     ELSE Result("ok",
            Pin("pres", pre, pre) \o Pin("prms", pre, [fam |-> fam, salt |-> aeid(s)])
            \o FlattenSeq([r \in 1..n |-> keep(r - 1)])
            \o Put(s, "pris", <<fam, n>>, None) \o Put(s, "pubs", riKey(pre, n), <<fam, n>>)
            \o (IF n = 1 THEN Pin("sits", pre, sit(2)) ELSE <<>>))

(* What was kept under the first key is kept under the prefix.             *)
move(s, old, new) ==
  LET rs == {r \in 0..Cardinality(DOMAIN s.pubs) : \A i \in 0..r : Has(s, "pubs", riKey(old, i))}
      pubs == SetToSeq(rs)
  IN IF old = new THEN Result("ok", <<>>)
     ELSE IF ~Has(s, "pres", old) \/ Has(s, "pres", new) THEN Raise
     ELSE IF ~Has(s, "prms", old) \/ Has(s, "prms", new) THEN Raise
     ELSE IF ~Has(s, "sits", old) \/ Has(s, "sits", new) THEN Raise
     ELSE Result("ok",
            Pin("prms", new, s.prms[old]) \o Rem("prms", old)
            \o Pin("sits", new, s.sits[old]) \o Rem("sits", old)
            \o FlattenSeq([i \in 1..Len(pubs) |->
                             Put(s, "pubs", riKey(new, pubs[i]), s.pubs[riKey(old, pubs[i])])])
            \o Pin("pres", old, new) \o Put(s, "pres", new, new))

Advanced(sit, nxt) == [old |-> sit.new, new |-> sit.nxt, nxt |-> nxt]
Erase(lot) == IF lot.key = None THEN <<>> ELSE Rem("pris", lot.key)

(* The next keys become current and fresh ones are made.                   *)
rotate(s, pre, more, erase) ==
  LET sit == s.sits[pre]
      r == sit.nxt.r + 1
      nxt == Lot(IF more THEN <<s.prms[pre].fam, r>> ELSE None, r)
  IN IF ~Has(s, "prms", pre) \/ ~Has(s, "sits", pre) THEN Raise
     ELSE IF sit.nxt.key = None \/ ~Known(s, sit.nxt.key) THEN Raise
     ELSE IF s.prms[pre].salt # aeid(s) THEN Raise
     ELSE Result("ok",
            Pin("sits", pre, Advanced(sit, nxt)) \o StoreKey(s, nxt.key)
            \o Put(s, "pubs", riKey(pre, r), nxt.key)
            \o (IF erase THEN Erase(sit.old) ELSE <<>>))

(* The next keys become current and those after them, which exist, next.   *)
replay(s, pre, advance, erase) ==
  LET sit == s.sits[pre]
      r == sit.nxt.r + 1
      moved == Advanced(sit, Lot(s.pubs[riKey(pre, r)], r))
  IN IF ~Has(s, "prms", pre) \/ ~Has(s, "sits", pre) THEN Raise
     ELSE IF ~advance
     THEN IF Known(s, sit.new.key) THEN Result("ok", <<>>) ELSE Raise
     ELSE IF ~Has(s, "pubs", riKey(pre, r)) THEN Result("end", <<>>)
     ELSE IF sit.nxt.key # None /\ ~Known(s, sit.nxt.key) THEN Raise
     ELSE Result("ok",
            Pin("sits", pre, moved) \o (IF erase THEN Erase(sit.old) ELSE <<>>))
=============================================================================
