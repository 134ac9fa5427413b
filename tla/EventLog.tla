------------------------------ MODULE EventLog ------------------------------
(***************************************************************************)
(* How an accepted event is written: Kever.logEvent and the end of         *)
(* Kever.update write one LMDB table after another, each in a transaction  *)
(* of its own, and an escrow handler takes the event out of its escrow     *)
(* after that.  The process may stop between any two of them; on restart   *)
(* the key state is loaded from db.states (Baser.reload, Kever.reload).    *)
(*                                                                         *)
(* Whether signatures suffice is Kevery's matter: here an event is its     *)
(* place in the log.                                                       *)
(***************************************************************************)
EXTENDS Naturals, Sequences, FiniteSets, Functions

CONSTANTS
  KeyEvents,   \* sn, ilk and prior of each event, by SAID
  MaxSn,       \* largest sequence number of an event
  MaxCrashes,  \* bound on the crashes
  NoEvent

Ev == KeyEvents
Events == DOMAIN KeyEvents

ASSUME LogAssumption ==
  /\ NoEvent \notin Events /\ MaxSn \in Nat /\ MaxCrashes \in Nat
  /\ Ev \in [Events -> [sn : 0..MaxSn, ilk : {"icp", "rot", "ixn"},
                        prior : Events \cup {NoEvent}]]

(* What is kept with an event and read back when it is replayed.           *)
Evidence == {"dtss", "sigs", "evts"}

VARIABLES
  kever,    \* in memory: said of the latest event, est of the latest establishment
  state,    \* db.states
  kels,     \* db.kels: accepted events at each sn, in insertion order
  fels,     \* db.fels
  fons,     \* db.fons: first seen number of each event, 0 when it has none
  held,     \* for each table of evidence, the events it has an entry for
  escrowed, \* events in an escrow
  cur,      \* event being logged
  first,    \* whether it is logged as first seen
  pc,       \* next table to write, or "idle"
  crashes   \* crashes so far

vars == <<kever, state, kels, fels, fons, held, escrowed, cur, first, pc, crashes>>
disk == <<state, kels, fels, fons, held, escrowed>>

NoState == [said |-> NoEvent, est |-> NoEvent]

Sn(e) == Ev[e].sn
Establishing(e) == Ev[e].ilk \in {"icp", "rot"}
Accepted == kever.said # NoEvent
LastAt(n) == kels[n][Len(kels[n])]
IsLastAt(e, n) == kels[n] # <<>> /\ LastAt(n) = e

(* The event is valid after the key state in memory.                       *)
Acceptable(e) ==
  \/ ~Accepted /\ Ev[e].ilk = "icp" /\ Sn(e) = 0
  \/ Accepted /\ Ev[e].ilk # "icp"
     /\ Sn(e) = Sn(kever.said) + 1 /\ Ev[e].prior = kever.said
  \/ Accepted /\ Ev[e].ilk = "rot" /\ Ev[kever.said].ilk = "ixn"
     /\ Sn(kever.est) < Sn(e) /\ Sn(e) <= Sn(kever.said)
     /\ IsLastAt(Ev[e].prior, Sn(e) - 1)

Duplicate(e) ==
  Accepted /\ Sn(e) <= Sn(kever.said) /\ IsLastAt(e, Sn(e)) /\ ~Acceptable(e)

OutOfOrder(e) ==
  \/ ~Accepted /\ Ev[e].ilk # "icp"
  \/ Accepted /\ Ev[e].ilk # "icp" /\ Sn(e) > Sn(kever.said) + 1

-----------------------------------------------------------------------------
(* The order of the writes                                                 *)

(* The tables written for an accepted event, in order.                     *)
StateFirst == <<"dtss", "sigs", "states", "evts", "fels", "fons", "kels", "escrow">>  \* slip
UnescrowFirst == <<"escrow", "dtss", "sigs", "evts", "fels", "fons", "kels", "states">>  \* slip
Writes == <<"dtss", "sigs", "evts", "fels", "fons", "kels", "states", "escrow">>

NothingSkipped == {}  \* slip

(* A late duplicate is not logged as first seen again.                     *)
Skipped == IF first THEN {} ELSE {"fels", "fons", "states"}

After(t) ==
  LET later == {i \in DOMAIN Writes :
                  /\ Writes[i] \notin Skipped
                  /\ \E j \in 1..(i - 1) : Writes[j] = t}
  IN  IF later = {} THEN "idle"
      ELSE Writes[CHOOSE i \in later : \A j \in later : i <= j]

-----------------------------------------------------------------------------
Init ==
  /\ kever = NoState /\ state = NoState
  /\ kels = [n \in 0..MaxSn |-> <<>>]
  /\ fels = <<>>
  /\ fons = [e \in Events |-> 0]
  /\ held = [t \in Evidence |-> {}]
  /\ escrowed = {}
  /\ cur = NoEvent /\ first = FALSE /\ pc = "idle"
  /\ crashes = 0

(* An event that cannot be judged yet is escrowed.                         *)
Escrow(e) ==
  /\ pc = "idle"
  /\ OutOfOrder(e) /\ e \notin escrowed
  /\ escrowed' = escrowed \cup {e}
  /\ held' = [t \in Evidence |-> held[t] \cup {e}]
  /\ UNCHANGED <<kever, state, kels, fels, fons, cur, first, pc, crashes>>

(* An event arrives or is retried, and passes every check.                 *)
Begin(e) ==
  /\ pc = "idle"
  /\ Acceptable(e) \/ Duplicate(e)
  /\ cur' = e /\ first' = Acceptable(e)
  /\ pc' = Writes[1]
  /\ UNCHANGED <<kever, crashes>> /\ UNCHANGED disk

(* An escrowed event that is neither valid nor out of order any more.      *)
Refuse(e) ==
  /\ pc = "idle"
  /\ e \in escrowed
  /\ ~Acceptable(e) /\ ~Duplicate(e) /\ ~OutOfOrder(e)
  /\ escrowed' = escrowed \ {e}
  /\ UNCHANGED <<kever, state, kels, fels, fons, held, cur, first, pc, crashes>>

WriteEvidence ==
  /\ pc \in Evidence
  /\ held' = [held EXCEPT ![pc] = @ \cup {cur}]
  /\ UNCHANGED <<kever, state, kels, fels, fons, escrowed>>

WriteFels ==
  /\ pc = "fels"
  /\ fels' = Append(fels, cur)
  /\ UNCHANGED <<kever, state, kels, fons, held, escrowed>>


(* The first seen number is the place fels.append gave the event.          *)
WriteFons ==
  /\ pc = "fons"
  /\ fons' = [fons EXCEPT ![cur] = Len(fels)]
  /\ UNCHANGED <<kever, state, kels, fels, held, escrowed>>


(* An event already at its sn keeps its place.                             *)
WriteKels ==
  /\ pc = "kels"
  /\ kels' = [kels EXCEPT ![Sn(cur)] =
                IF cur \in Range(@) THEN @ ELSE Append(@, cur)]
  /\ UNCHANGED <<kever, state, fels, fons, held, escrowed>>

(* The key state in memory, then in the database.                          *)
WriteState ==
  /\ pc = "states"
  /\ kever' = [said |-> cur, est |-> IF Establishing(cur) THEN cur ELSE kever.est]
  /\ state' = kever'
  /\ UNCHANGED <<kels, fels, fons, held, escrowed>>

Unescrow ==
  /\ pc = "escrow"
  /\ escrowed' = escrowed \ {cur}
  /\ UNCHANGED <<kever, state, kels, fels, fons, held>>

Write ==
  /\ \/ WriteEvidence \/ WriteFels \/ WriteFons \/ WriteKels \/ WriteState
     \/ Unescrow
  /\ pc' = After(pc)
  /\ UNCHANGED <<cur, first, crashes>>

(* The process stops between two writes and starts again: without the      *)
(* event it names, a key state is not loaded.                              *)
Crash ==
  /\ pc # "idle" /\ crashes < MaxCrashes
  /\ crashes' = crashes + 1
  /\ kever' = IF state.said \in held["evts"] THEN state ELSE NoState
  /\ cur' = NoEvent /\ first' = FALSE /\ pc' = "idle"
  /\ UNCHANGED disk

Next ==
  \/ \E e \in Events : Escrow(e) \/ Begin(e) \/ Refuse(e)
  \/ Write
  \/ Crash

Spec == Init /\ [][Next]_vars

(* A handler runs to its end, and every escrowed event is retried: a pass  *)
(* of processEscrows reaches it however many other events come between two *)
(* passes, hence strong fairness.                                          *)
FairSpec ==
  /\ Spec
  /\ WF_vars(Write)
  /\ \A e \in Events : SF_vars(e \in escrowed /\ (Begin(e) \/ Refuse(e)))

-----------------------------------------------------------------------------
(* Properties                                                              *)

States == [said : Events \cup {NoEvent}, est : Events \cup {NoEvent}]

TypeOK ==
  /\ kever \in States /\ state \in States
  /\ kels \in [0..MaxSn -> Seq(Events)] /\ fels \in Seq(Events)
  /\ fons \in [Events -> Nat]
  /\ held \in [Evidence -> SUBSET Events] /\ escrowed \subseteq Events
  /\ cur \in Events \cup {NoEvent} /\ first \in BOOLEAN
  /\ pc \in {"idle"} \cup Range(Writes)
  /\ crashes \in 0..MaxCrashes

(* After a crash at any point, the key state in the database can be        *)
(* loaded: the event it names is in db.evts, and a restart loses no        *)
(* identifier that was once in use.                                        *)
StateLoads ==
  state.said # NoEvent => state.said \in held["evts"] /\ state.est \in held["evts"]

(* Whatever is in the first seen log can be replayed to others: its event, *)
(* signatures and date are in the database (Baser.cloneEvtMsg skips an     *)
(* event that lacks one of them).                                          *)
ReplayComplete == \A e \in Range(fels) : \A t \in Evidence : e \in held[t]

(* The first seen number kept with an event is one under which the first   *)
(* seen log has this event, also when a crash made it be logged twice.     *)
FirstSeenNumbers == \A e \in Events : fons[e] # 0 => fels[fons[e]] = e

(* Every event of the key event log was first seen, the key state is in    *)
(* the log, and every event but an inception follows one in the log.       *)
LogsLinked ==
  /\ \A n \in 0..MaxSn : \A e \in Range(kels[n]) :
       /\ e \in Range(fels)
       /\ n > 0 => Ev[e].prior \in Range(kels[n - 1])
  /\ state.said # NoEvent => state.said \in Range(kels[Sn(state.said)])

(* Between any two writes of logEvent the tables of the log are linked,    *)
(* the key state in the database can be loaded, and what was first seen    *)
(* can be replayed to others.                                              *)
LogsSound ==
  /\ TypeOK /\ FirstSeenNumbers /\ LogsLinked
  /\ StateLoads /\ ReplayComplete

(* What these rest on: the two key states agree, the key state is that of  *)
(* an inception or later, and at each write the ones before it were made   *)
(* for the event that is being logged, which the log allowed for.          *)
KeyStateKept == state = kever /\ (kever.said = NoEvent => kever.est = NoEvent)
WritesMade ==
  pc # "idle" =>
    /\ cur \in Events
    /\ pc # "dtss" => cur \in held["dtss"]
    /\ pc \notin {"dtss", "sigs"} => cur \in held["sigs"]
    /\ pc \notin {"dtss", "sigs", "evts"} => cur \in held["evts"]
    /\ pc = "fons" => fels # <<>> /\ fels[Len(fels)] = cur
    /\ pc \in {"fons", "kels", "states", "escrow"} \/ ~first => cur \in Range(fels)
    /\ pc \in {"states", "escrow"} \/ ~first => cur \in Range(kels[Sn(cur)])
    /\ Sn(cur) > 0 => Ev[cur].prior \in Range(kels[Sn(cur) - 1])
    /\ pc \in {"fels", "fons", "states"} => first
    /\ first /\ pc # "escrow" => Establishing(cur) \/ Accepted

NumbersReached == \A e \in Events : fons[e] \in 0..Len(fels)

EventLogInv ==
  /\ TypeOK /\ KeyStateKept /\ WritesMade /\ NumbersReached
  /\ StateLoads /\ ReplayComplete /\ FirstSeenNumbers /\ LogsLinked

(* An escrowed event the log reaches is in the key event log in the end,   *)
(* however often the process crashes while it is logged, unless the log    *)
(* took another event in its place or was cut back.                        *)
Reached(e) == Accepted /\ Sn(e) \in 1..(Sn(kever.said) + 1)
Displaced(e) ==
  \/ Range(kels[Sn(e)]) \ {e} # {}
  \/ Range(kels[Sn(e) - 1]) \ {Ev[e].prior} # {}
Due(e) == e \in escrowed /\ Reached(e)
Done(e) == (e \in Range(kels[Sn(e)]) /\ e \notin escrowed) \/ ~Reached(e) \/ Displaced(e)
EscrowCompletes == \A e \in Events : Due(e) ~> Done(e)

(* Seen as one step at the write of db.kels, logging an event is a step of *)
(* the abstract key event log or none, for as long as nothing crashed.     *)
Logged == IF pc = "states" /\ IsLastAt(cur, Sn(cur)) THEN cur ELSE kever.said
chain == IF Logged = NoEvent THEN <<>>
         ELSE [i \in 1..(Sn(Logged) + 1) |-> LastAt(i - 1)]
log == IF first /\ pc \in {"fons", "kels"} THEN SubSeq(fels, 1, Len(fels) - 1) ELSE fels
Abstract == INSTANCE KEL
ImplementsKEL ==
  Abstract!Init /\ [][crashes' = 0 => Abstract!Next \/ UNCHANGED <<chain, log>>]_vars
=============================================================================
