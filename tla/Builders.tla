------------------------------ MODULE Builders ------------------------------
(* How a controller's own events are made and taken: core/eventing.py      *)
(* incept and rotate against Kever.incept, Kever.rotate and the key state  *)
(* record, vdr/eventing.py incept and rotate against Tever.incept and      *)
(* Tever.rotate.  Both sides check the same lists of witnesses (backers)   *)
(* and thresholds, each with code of its own.  A threshold is its size and *)
(* keys and next digests are counted: Kevery has who signs.                *)
EXTENDS Integers, Sequences, FiniteSets, SequencesExt

CONSTANTS
  Requests,  \* what can be asked for: counts, thresholds, witness lists
  Foreign,   \* requests made by other software of the same controller
  MaxSn,     \* bound on sequence numbers
  Unset      \* a threshold left to its default

VARIABLES
  ledger,  \* "kel" or "tel"
  kever,   \* Kever or Tever: the latest establishment event and the witnesses
  states,  \* db.states: the key state recorded last
  made     \* the event made and not taken yet
vars == <<ledger, kever, states, made>>

Nothing == [nothing |-> TRUE]  \* before the inception
MaxOf(a, b) == IF a > b THEN a ELSE b
MinOf(a, b) == IF a < b THEN a ELSE b
HalfUp(n) == (n + 1) \div 2
(* ample with its defaults, the least majority over both numbers of faults. *)
ample(n) ==
  LET floored == MaxOf(1, MaxOf(0, n - 1) \div 3)
      ceiled == MaxOf(1, (MaxOf(0, n - 1) + 2) \div 3)
  IN  MinOf(n, MinOf(HalfUp(n + floored + 1), HalfUp(n + ceiled + 1)))

Toad(r, n) == IF r.toad # Unset THEN r.toad ELSE IF n = 0 THEN 0 ELSE ample(n)
ToadFits(t, n) == IF n = 0 THEN t = 0 ELSE t \in 1..n
Isith(r) == IF r.kt = Unset THEN MaxOf(1, HalfUp(r.keys)) ELSE r.kt
Nsith(r) == IF r.nt = Unset THEN HalfUp(r.next) ELSE r.nt
(* The witnesses kept, in order, and then the ones added that are new.     *)
Changed(ws, cuts, adds) ==
  LET kept == SelectSeq(ws, LAMBDA w : w \notin ToSet(cuts))
  IN  kept \o SelectSeq(adds, LAMBDA w : w \notin ToSet(kept))

(* At inception the witnesses are the ones added.                         *)
Event(r, sn, n) ==
  [sn |-> sn, keys |-> r.keys, kt |-> Isith(r), next |-> r.next, nt |-> Nsith(r), nb |-> r.nb,
   toad |-> Toad(r, n), ample |-> r.toad = Unset, cuts |-> r.cuts, adds |-> r.adds]

-----------------------------------------------------------------------------
(* What the makers of events refuse                                        *)

SigningMade(r) == Isith(r) \in 1..r.keys /\ Nsith(r) \in 0..r.next
ToadMade(r, ws) == ToadFits(Toad(r, Len(ws)), Len(ws))
(* The changes to the witnesses of the key state, which BaseHab.rotate and *)
(* Registry.rotate pass.                                                   *)
ChangeMade(r) ==
  LET ws == kever.wits
      new == Changed(ws, r.cuts, r.adds)
  IN  /\ IsInjective(ws) /\ IsInjective(r.cuts) /\ IsInjective(r.adds)
      /\ ToSet(r.cuts) \subseteq ToSet(ws)
      /\ ToSet(ws) \cap ToSet(r.adds) = {} /\ ToSet(r.cuts) \cap ToSet(r.adds) = {}
      /\ Len(new) = Len(ws) - Len(r.cuts) + Len(r.adds)
      /\ ToadMade(r, new)
incept(r) == SigningMade(r) /\ IsInjective(r.adds) /\ ToadMade(r, r.adds)
rotate(r) == kever.last.next > 0 /\ SigningMade(r) /\ ChangeMade(r)
inceptRegistry(r) ==
  ~(r.nb /\ r.adds # <<>>) /\ IsInjective(r.adds) /\ ToadMade(r, r.adds)
rotateRegistry(r) == ~kever.last.nb /\ ChangeMade(r)
Makes(r) ==
  IF kever = Nothing THEN r.cuts = <<>> /\ (IF ledger = "kel" THEN incept(r) ELSE inceptRegistry(r))
  ELSE IF ledger = "kel" THEN rotate(r) ELSE rotateRegistry(r)

-----------------------------------------------------------------------------
(* What those who take events refuse                                       *)

Signable(e) == e.kt <= e.keys /\ e.kt > 0
InceptTaken(e) ==
  /\ e.sn = 0 /\ e.cuts = <<>>
  /\ ledger = "kel" => Signable(e)
  /\ IsInjective(e.adds)
  /\ ToadFits(e.toad, Len(e.adds))
ChangeTaken(e) ==
  LET ws == kever.wits
      new == Changed(ws, e.cuts, e.adds)
  IN  /\ IsInjective(e.cuts) /\ ToSet(e.cuts) \subseteq ToSet(ws)
      /\ IsInjective(e.adds) /\ ToSet(e.adds) \cap (ToSet(e.cuts) \cup ToSet(ws)) = {}
      /\ Len(new) = Len(ws) - Len(e.cuts) + Len(e.adds)
      /\ ToadFits(e.toad, Len(new))
RotateTaken(e) ==
  e.sn = kever.last.sn + 1 /\ kever.last.next > 0 /\ Signable(e) /\ ChangeTaken(e)
RegistryRotateTaken(e) ==
  e.sn = kever.last.sn + 1 /\ ~kever.last.nb /\ ChangeTaken(e)
Takes(e) ==
  IF kever = Nothing THEN InceptTaken(e)
  ELSE IF ledger = "kel" THEN RotateTaken(e) ELSE RegistryRotateTaken(e)
Taken(e) ==
  [last |-> e, wits |-> IF e.sn = 0 THEN e.adds ELSE Changed(kever.wits, e.cuts, e.adds)]

(* state: what the key state record of a Kever refuses.                    *)
StateMade(k) ==
  /\ k.last.kt \in 1..k.last.keys /\ k.last.nt \in 0..k.last.next
  /\ IsInjective(k.wits) /\ ToadFits(k.last.toad, Len(k.wits))
  /\ k.last.sn > 0 =>
       /\ IsInjective(k.last.cuts) /\ IsInjective(k.last.adds)
       /\ ToSet(k.last.cuts) \cap ToSet(k.last.adds) = {}
(* A rotation is logged before the record is made; an inception whose      *)
(* record cannot be made leaves no Kever.                                  *)
Take(e) ==
  /\ Takes(e)
  /\ ledger = "kel" /\ e.sn = 0 => StateMade(Taken(e))
  /\ kever' = Taken(e)
  /\ states' = IF ledger = "kel" /\ StateMade(Taken(e)) THEN Taken(e) ELSE states

-----------------------------------------------------------------------------
Init == ledger \in {"kel", "tel"} /\ kever = Nothing /\ states = Nothing /\ made = {}

(* A group member's event waits for signatures while others may be taken.  *)
Make ==
  /\ made = {}
  /\ kever # Nothing => kever.last.sn < MaxSn
  /\ \E r \in Requests :
       /\ ledger = "kel" => ~r.nb
       /\ Makes(r)
       /\ made' = {IF kever = Nothing THEN Event(r, 0, Len(r.adds))
                   ELSE Event(r, kever.last.sn + 1, Len(Changed(kever.wits, r.cuts, r.adds)))}
  /\ UNCHANGED <<ledger, kever, states>>
TakeMade == \E e \in made : Take(e) /\ made' = {} /\ UNCHANGED ledger
RefuseMade == \E e \in made : ~Takes(e) /\ made' = {} /\ UNCHANGED <<ledger, kever, states>>
TakeForeign ==
  /\ kever # Nothing => kever.last.sn < MaxSn
  /\ \E r \in Foreign :
       /\ ledger = "kel" => ~r.nb
       /\ Take(Event(r, IF kever = Nothing THEN 0 ELSE kever.last.sn + 1, 0))
  /\ UNCHANGED <<ledger, made>>
Idle == UNCHANGED vars
Next == Make \/ TakeMade \/ RefuseMade \/ TakeForeign \/ Idle

-----------------------------------------------------------------------------
(* The witness list has no repeats and its threshold is within it.         *)
TypeOK ==
  kever # Nothing => IsInjective(kever.wits) /\ ToadFits(kever.last.toad, Len(kever.wits))
(* An event made from the key state is taken as long as that key state is  *)
(* the present one: one's own event that is refused has cost a rotation of *)
(* the keys, which Hab.rotate has to undo, and the signatures of a group.  *)
MadeTaken ==
  \A e \in made : (IF kever = Nothing THEN e.sn = 0 ELSE e.sn = kever.last.sn + 1) => Takes(e)
(* Every log taken has its latest key state on record (Kever.update), but  *)
(* for an event of other software whose next threshold exceeds its next    *)
(* digests: Kever compares only the signing threshold with its keys.       *)
StateRecorded ==
  ledger = "kel" /\ kever # Nothing /\ kever.last.nt <= kever.last.next => states = kever
(* A witness threshold left to its default is immune to a third of the     *)
(* witnesses: two sets of that size share an honest one, and the honest    *)
(* ones alone make such a set (docstring of ample).                        *)
DefaultImmune ==
  kever # Nothing /\ kever.last.ample /\ Len(kever.wits) >= 4 =>
    LET n == Len(kever.wits)
        f == (n - 1) \div 3
    IN  2 * kever.last.toad - n > f /\ kever.last.toad <= n - f
=============================================================================
