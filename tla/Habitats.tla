------------------------------ MODULE Habitats ------------------------------
(* Habitats: app/habbing.py, the identifiers a Habery controls: their      *)
(* inception, rotation and deletion, the identifier that signs data at     *)
(* rest, the passcode, and what is loaded when the program starts again.   *)
(* An operation runs alone; the process may stop between two of its        *)
(* writes, in the key store, the database or both.                         *)
EXTENDS KeyStore

CONSTANTS
  Requests,   \* a record for each identifier to make: name, fam, ext, more
  Codes,      \* passcodes
  MaxRidx,    \* bound on the rotation index of next keys
  MaxCrashes

signer == "signator"

VARIABLES
  db,       \* the tables of the key store and of the database
  todo,     \* the writes an operation still has to make
  up,       \* the Habery is set up
  code,     \* the passcode its owner uses, or None
  habs,     \* Habery.habs, in memory
  lost,     \* what a crash kept from being written
  mixed,    \* secrets were stored under different passcodes
  crashes
vars == <<db, todo, up, code, habs, lost, mixed, crashes>>
owner == <<code, mixed>>

Idle == up /\ todo = <<>>
Names == {Requests[q].name : q \in DOMAIN Requests}
Prefix(key, transferable) == IF transferable THEN <<"pre", key[1]>> ELSE key
Accepted(p) == Has(db, "kel", p)

-----------------------------------------------------------------------------
(* Each operation, as what it writes and how it ends.                      *)
KeyState(sit) == [key |-> sit.new.key, nxt |-> sit.nxt.key]
(* processEvent, which accepts an own event with good parameters.          *)
processEvent(s, p, sit, good) ==
  IF good THEN Result("ok", Pin("kel", p, KeyState(sit))) ELSE Raise
sign(s, key) == IF Known(s, key) THEN Result("ok", <<>>) ELSE Raise
(* The record of the identifier is written, then its name is looked up.    *)
save(s, p, name) ==
  LET hab == Pin("habs", p, name)
  IN IF Has(s, "names", name) THEN Result("error", hab)
     ELSE Result("ok", hab \o Pin("names", name, p))
make(s, q) ==
  IF q.ext = None THEN incept(s, q.fam, q.more)
  ELSE Then(s, ingest(s, q.ext, q.n, q.fam), LAMBDA a : replay(a, <<q.ext, 0>>, FALSE, FALSE))
FirstKey(q) == IF q.ext = None THEN <<q.fam, 0>> ELSE <<q.ext, 0>>
HabIncept(s, q, hidden, good) ==
  LET old == FirstKey(q)
      p == Prefix(old, q.more)
      named(a) == IF hidden THEN Result("ok", <<>>) ELSE save(a, p, q.name)
      accepted(a) == Then(a, sign(a, old), LAMBDA b : processEvent(b, p, b.sits[p], good))
  IN Then(s, make(s, q),
          LAMBDA a : Then(a, move(a, old, p), LAMBDA b : Then(b, named(b), accepted)))

RollBackNothing(p, before) == <<>>  \* slip
RollBack(p, before) == Pin("sits", p, before)

(* What the key store advanced is put back when the event is refused, and  *)
(* the keys before the last are erased when it is accepted.                *)
HabRotate(s, p, more, good) ==
  LET before == s.sits[p]
      replayed == replay(s, p, TRUE, FALSE)
      keys == IF replayed.r = "end" THEN rotate(s, p, more, FALSE) ELSE replayed
      after == After(s, keys.ws)
      committed == after.sits[p].new.key = s.kel[p].nxt
      event == IF ~committed THEN Raise
               ELSE Then(after, sign(after, after.sits[p].new.key),
                         LAMBDA a : processEvent(a, p, a.sits[p], good))
  IN IF keys.r # "ok" THEN keys
     ELSE IF event.r = "ok" THEN Result("ok", keys.ws \o event.ws \o Erase(before.old))
     ELSE Result("error", keys.ws \o RollBack(p, before))

SignatorRequest == [name |-> signer, fam |-> signer, ext |-> None, n |-> 0, more |-> FALSE]
Signator(s) ==
  IF Has(s, "hbys", signer) THEN Result("ok", <<>>)
  ELSE Then(s, HabIncept(s, SignatorRequest, TRUE, TRUE),
            LAMBDA a : Result("ok", Pin("hbys", signer, Prefix(<<signer, 0>>, FALSE))))

(* Records without key state are removed before anything is loaded.        *)
reload(s) ==
  LET bare == SetToSeq({p \in DOMAIN s.habs : ~Has(s, "kel", p)})
  IN Result("ok", FlattenSeq([i \in 1..Len(bare) |-> Rem("habs", bare[i])]))
HaberySetup(s) ==
  Then(s, reload(s), LAMBDA a : Then(a, setup(a, code), LAMBDA b : Signator(b)))

-----------------------------------------------------------------------------
Do(op) == todo' = op.ws

Setup ==
  /\ ~up /\ todo = <<>>
  /\ LET op == HaberySetup(db)
     IN Do(op) /\ up' = (op.r = "ok") /\ habs' = (IF op.r = "ok" THEN DOMAIN After(db, op.ws).habs ELSE {})
  /\ UNCHANGED <<db, owner, lost, crashes>>

makeHab(q, good) ==
  /\ Idle
  /\ LET op == HabIncept(db, Requests[q], FALSE, good)
         p == Prefix(FirstKey(Requests[q]), Requests[q].more)
     IN Do(op) /\ habs' = IF op.r = "ok" THEN habs \cup {p} ELSE habs
  /\ mixed' = (mixed \/ (Requests[q].ext # None /\ aeid(db) # None))
  /\ UNCHANGED <<db, up, code, lost, crashes>>

rotateHab(p, more, good) ==
  /\ Idle /\ p \in habs /\ db.sits[p].nxt.r < MaxRidx
  /\ Do(HabRotate(db, p, more, good))
  /\ UNCHANGED <<db, up, owner, habs, lost, crashes>>

deleteHab(name) ==
  /\ Idle /\ Has(db, "names", name) /\ db.names[name] \in habs
  /\ LET p == db.names[name]
     IN /\ Do(Result("ok", Rem("habs", p) \o Rem("names", name)))
        /\ habs' = habs \ {p}
  /\ UNCHANGED <<db, up, owner, lost, crashes>>

(* Setting a passcode on a store without one leaves its keys as they are.  *)
set_passcode(new) ==
  /\ Idle /\ new # code
  /\ LET op == updateAeid(db, new)
     IN /\ Do(op) /\ code' = IF op.r = "ok" THEN new ELSE code
        /\ mixed' = (mixed \/ code = None \/ op.r # "ok")
  /\ UNCHANGED <<db, up, habs, lost, crashes>>

Step ==
  /\ todo # <<>> /\ db' = Write(db, Head(todo)) /\ todo' = Tail(todo)
  /\ UNCHANGED <<up, owner, habs, lost, crashes>>

(* The owner goes on with the passcode the store was left under.           *)
Crash ==
  /\ crashes < MaxCrashes /\ (up \/ todo # <<>>)
  /\ LET told == {"kel", "sits", "hbys", "gbls"}
         left == {<<todo[i][1], todo[i][2]>> : i \in {j \in DOMAIN todo : todo[j][1] \in told}}
         unset == <<"gbls", "aeid">> \in left
     IN /\ lost' = lost \cup left
        /\ mixed' = (mixed \/ unset)
        /\ code' = IF unset /\ aeid(db) # None THEN aeid(db) ELSE code
  /\ todo' = <<>> /\ up' = FALSE /\ habs' = {} /\ crashes' = crashes + 1
  /\ UNCHANGED db

Init ==
  /\ db = Empty /\ todo = <<>> /\ up = FALSE /\ code \in Codes \cup {None}
  /\ habs = {} /\ lost = {} /\ mixed = FALSE /\ crashes = 0
Next ==
  \/ Setup \/ Step \/ Crash
  \/ \E q \in DOMAIN Requests, good \in BOOLEAN : makeHab(q, good)
  \/ \E p \in habs, more \in BOOLEAN, good \in BOOLEAN : rotateHab(p, more, good)
  \/ \E name \in Names : deleteHab(name)
  \/ \E new \in Codes : set_passcode(new)
Spec == Init /\ [][Next]_vars

-----------------------------------------------------------------------------
TypeOK ==
  /\ DOMAIN db = Tables /\ up \in BOOLEAN /\ mixed \in BOOLEAN
  /\ code \in Codes \cup {None} /\ crashes \in 0..MaxCrashes
  /\ habs \subseteq {todo[i][2] : i \in {j \in DOMAIN todo : todo[j][1] = "habs"}} \cup DOMAIN db.habs
  /\ \A p \in DOMAIN db.sits : db.sits[p].new.r <= MaxRidx

(* No crash and no failed rotation costs an identifier the keys it signs   *)
(* with or those it has committed to (HabRotate, Manager.rotate).          *)
KeysKept ==
  \A p \in DOMAIN db.kel :
    {db.kel[p].key, db.kel[p].nxt} \ {None} \subseteq DOMAIN db.pris

(* Between operations the key store and the log agree, whichever rotations *)
(* failed, unless the process stopped in one (HabRotate).                  *)
Torn(p) == {<<"kel", p>>, <<"sits", p>>} \cap lost # {}
InStep ==
  \A p \in DOMAIN db.kel :
    (todo = <<>> /\ ~Torn(p)) =>
      /\ db.kel[p] = KeyState(db.sits[p])
      /\ db.kel[p].nxt # None => db.sits[p].nxt.r = db.sits[p].new.r + 1

(* Every secret is read with the passcode of the store.                    *)
SecretsRead ==
  (todo = <<>> /\ ~mixed /\ up) => \A k \in DOMAIN db.pris : Known(db, k)

(* An identifier that is loaded was accepted, and has its name to itself.  *)
NamesLead ==
  todo = <<>> =>
    \A p \in habs : Accepted(p) /\ Has(db, "names", db.habs[p]) /\ db.names[db.habs[p]] = p

(* The program starts again, and an identifier with next keys can rotate   *)
(* to them, after any failures but a crash in the middle of its own        *)
(* rotation or of the first setup.                                         *)
StartPossible ==
  (~up /\ todo = <<>> /\ ~mixed /\ <<"hbys", signer>> \notin lost) =>
    HaberySetup(db).r = "ok"
RotationPossible ==
  (Idle /\ ~mixed) => \A p \in habs :
    (~Torn(p) /\ db.kel[p].nxt # None) => HabRotate(db, p, TRUE, TRUE).r = "ok"
=============================================================================
