--------------------------- MODULE EventLogProofs ---------------------------
(***************************************************************************)
(* Proofs about EventLog: wherever the process stops while an event is     *)
(* written, the tables of the log are linked, the key state can be loaded, *)
(* and what was first seen can be replayed.                                *)
(***************************************************************************)
EXTENDS EventLog, SequenceFacts

(* The places of the writes.                                               *)
Tables == {"dtss", "sigs", "evts", "fels", "fons", "kels", "states", "escrow"}

(* The tables in the order they are written (Kever.logEvent,               *)
(* Kever.update).                                                          *)
LEMMA WritesFacts ==
  /\ DOMAIN Writes = 1..8 /\ Range(Writes) = Tables
  /\ Writes[1] = "dtss" /\ Writes[2] = "sigs" /\ Writes[3] = "evts" /\ Writes[4] = "fels"
  /\ Writes[5] = "fons" /\ Writes[6] = "kels" /\ Writes[7] = "states" /\ Writes[8] = "escrow"
<1>1. DOMAIN Writes = 1..8
  BY DEF Writes
<1>2. /\ Writes[1] = "dtss" /\ Writes[2] = "sigs" /\ Writes[3] = "evts" /\ Writes[4] = "fels"
      /\ Writes[5] = "fons" /\ Writes[6] = "kels" /\ Writes[7] = "states" /\ Writes[8] = "escrow"
  BY DEF Writes
<1>3. \A i : i \in 1..8 <=> i \in {1, 2, 3, 4, 5, 6, 7, 8}
  OBVIOUS
<1>4. Range(Writes) = Tables
  <2>1. Range(Writes) \subseteq Tables
    BY <1>1, <1>2, <1>3 DEF Range, Tables
  <2>2. Tables \subseteq Range(Writes)
    BY <1>1, <1>2, <1>3 DEF Range, Tables
  <2> QED BY <2>1, <2>2
<1> QED BY <1>1, <1>2, <1>4

(* What is written after a table: the next place that is not skipped.      *)
LEMMA AfterIs ==
  ASSUME NEW j \in 1..8, NEW n \in 1..8, j < n, Writes[n] \notin Skipped,
         \A i \in 1..8 : j < i /\ i < n => Writes[i] \in Skipped
  PROVE  After(Writes[j]) = Writes[n]
<1> DEFINE later == {i \in DOMAIN Writes : /\ Writes[i] \notin Skipped
                                           /\ \E k \in 1..(i - 1) : Writes[k] = Writes[j]}
<1>1. \A i, k \in 1..8 : Writes[i] = Writes[k] => i = k
  BY WritesFacts
<1>2. later = {i \in 1..8 : Writes[i] \notin Skipped /\ j < i}
  <2>1. ASSUME NEW i \in 1..8 PROVE (\E k \in 1..(i - 1) : Writes[k] = Writes[j]) <=> j < i
    <3>1. \A k \in 1..(i - 1) : k \in 1..8 /\ (k = j => j < i)
      OBVIOUS
    <3>2. j < i => j \in 1..(i - 1)
      OBVIOUS
    <3> QED BY <1>1, <3>1, <3>2
  <2> QED BY <2>1, WritesFacts
<1>3. n \in later /\ \A i \in later : n <= i
  BY <1>2
<1>4. \A i \in later : (\A k \in later : i <= k) => i = n
  BY <1>2, <1>3
<1>5. (CHOOSE i \in later : \A k \in later : i <= k) = n
  <2> HIDE DEF later
  <2> QED BY <1>3, <1>4
<1>6. After(Writes[j]) = IF later = {} THEN "idle" ELSE Writes[CHOOSE i \in later : \A k \in later : i <= k]
  BY DEF After
<1> HIDE DEF later
<1> QED BY <1>3, <1>5, <1>6

(* The escrow entry is the last to go.                                     *)
LEMMA AfterLast == After("escrow") = "idle"
<1> DEFINE later == {i \in DOMAIN Writes : /\ Writes[i] \notin Skipped
                                           /\ \E k \in 1..(i - 1) : Writes[k] = "escrow"}
<1>1. later = {}
  <2> SUFFICES ASSUME NEW i \in 1..8, NEW k \in 1..(i - 1), Writes[k] = "escrow" PROVE FALSE
    BY WritesFacts
  <2>1. k \in {1, 2, 3, 4, 5, 6, 7}
    OBVIOUS
  <2> QED BY <2>1, WritesFacts
<1> QED BY <1>1 DEF After

(* The order in which an event's tables are written.                       *)
LEMMA AfterFacts ==
  ASSUME first \in BOOLEAN
  PROVE  /\ After("dtss") = "sigs" /\ After("sigs") = "evts"
         /\ After("evts") = IF first THEN "fels" ELSE "kels"
         /\ (first => After("fels") = "fons" /\ After("fons") = "kels")
         /\ After("kels") = IF first THEN "states" ELSE "escrow"
         /\ After("states") = "escrow" /\ After("escrow") = "idle"
<1>1. \A i \in 1..8 : Writes[i] \in Skipped <=> ~first /\ i \in {4, 5, 7}
  <2>1. \A i \in 1..8 : i \in {1, 2, 3, 4, 5, 6, 7, 8}
    OBVIOUS
  <2> QED BY <2>1, WritesFacts DEF Skipped
<1>2. After(Writes[1]) = Writes[2] /\ After(Writes[2]) = Writes[3]
  BY <1>1, AfterIs
<1>3. first => After(Writes[3]) = Writes[4] /\ After(Writes[4]) = Writes[5] /\ After(Writes[5]) = Writes[6]
               /\ After(Writes[6]) = Writes[7]
  BY <1>1, AfterIs
<1>4. ~first => After(Writes[3]) = Writes[6]
  <2>1. \A i \in 1..8 : 3 < i /\ i < 6 => i \in {4, 5}
    OBVIOUS
  <2> QED BY <1>1, <2>1, AfterIs
<1>5. ~first => After(Writes[6]) = Writes[8]
  <2>1. \A i \in 1..8 : 6 < i /\ i < 8 => i = 7
    OBVIOUS
  <2> QED BY <1>1, <2>1, AfterIs
<1>6. After(Writes[7]) = Writes[8]
  <2>1. \A i \in 1..8 : ~(7 < i /\ i < 8)
    OBVIOUS
  <2> QED BY <1>1, <2>1, AfterIs
<1> QED BY <1>2, <1>3, <1>4, <1>5, <1>6, AfterLast, WritesFacts

-----------------------------------------------------------------------------
(* Events and the logs                                                     *)

(* What the assumption says of an event.                                   *)
LEMMA EventFacts ==
  ASSUME NEW e \in Events
  PROVE  /\ Sn(e) \in 0..MaxSn /\ Sn(e) \in Nat /\ Ev[e].ilk \in {"icp", "rot", "ixn"} /\ e # NoEvent
         /\ (Sn(e) > 0 => Sn(e) - 1 \in 0..MaxSn)
<1>1. Ev[e] \in [sn : 0..MaxSn, ilk : {"icp", "rot", "ixn"}, prior : Events \cup {NoEvent}] /\ MaxSn \in Nat
  BY LogAssumption
<1> QED BY <1>1, LogAssumption DEF Sn

(* The last event of a place is one of that place.                         *)
LEMMA LastIsIn ==
  ASSUME TypeOK, NEW n \in 0..MaxSn, NEW e, IsLastAt(e, n)
  PROVE  e \in Range(kels[n])
<1>1. kels[n] \in Seq(Events) /\ kels[n] # <<>> /\ e = kels[n][Len(kels[n])]
  BY DEF TypeOK, IsLastAt, LastAt
<1> QED BY <1>1, LastInRange

(* The key state in memory is an event of the key event log.               *)
LEMMA KeyStateFacts ==
  ASSUME EventLogInv, Accepted
  PROVE  /\ kever.said \in Events /\ kever.est \in Events /\ Sn(kever.said) \in 0..MaxSn
         /\ kever.said \in Range(kels[Sn(kever.said)])
<1>1. kever.said \in held["evts"] /\ kever.est \in held["evts"]
  BY DEF EventLogInv, StateLoads, KeyStateKept, Accepted
<1>2. held["evts"] \subseteq Events
  BY DEF EventLogInv, TypeOK, Evidence
<1> QED BY <1>1, <1>2, EventFacts DEF EventLogInv, LogsLinked, KeyStateKept, Accepted

-----------------------------------------------------------------------------
(* The actions                                                             *)

(* Escrowing an event keeps the invariant.                                 *)
LEMMA EscrowInv == ASSUME EventLogInv, NEW e \in Events, Escrow(e) PROVE EventLogInv'
<1> USE DEF Escrow
<1>1. \A t \in Evidence : held'[t] = held[t] \cup {e}
  OBVIOUS
<1>2. held' = [t \in Evidence |-> held[t] \cup {e}] /\ held \in [Evidence -> SUBSET Events]
  BY DEF EventLogInv, TypeOK
<1>3. TypeOK'
  <2>1. held' \in [Evidence -> SUBSET Events] /\ escrowed' \subseteq Events
    BY <1>2 DEF EventLogInv, TypeOK
  <2> QED BY <2>1 DEF EventLogInv, TypeOK
<1>4. WritesMade'
  BY DEF WritesMade
<1>5. StateLoads' /\ ReplayComplete'
  <2>1. "evts" \in Evidence
    BY DEF Evidence
  <2>2. StateLoads'
    BY <1>1, <2>1 DEF EventLogInv, StateLoads
  <2>3. ReplayComplete'
    BY <1>1 DEF EventLogInv, ReplayComplete
  <2> QED BY <2>2, <2>3
<1>6. FirstSeenNumbers' /\ LogsLinked' /\ KeyStateKept' /\ NumbersReached'
  BY DEF EventLogInv, FirstSeenNumbers, LogsLinked, KeyStateKept, NumbersReached
<1> QED BY <1>3, <1>4, <1>5, <1>6 DEF EventLogInv

(* Steps that write nothing but the escrow.                                *)
LEMMA SameLogs ==
  ASSUME EventLogInv, UNCHANGED <<kels, fels, fons, held>>, state' = state, kever' = kever
  PROVE  KeyStateKept' /\ NumbersReached' /\ StateLoads' /\ ReplayComplete' /\ FirstSeenNumbers' /\ LogsLinked'
BY DEF EventLogInv, KeyStateKept, NumbersReached, StateLoads, ReplayComplete, FirstSeenNumbers, LogsLinked

(* Dropping an escrowed event keeps the invariant.                         *)
LEMMA RefuseInv == ASSUME EventLogInv, NEW e \in Events, Refuse(e) PROVE EventLogInv'
<1> USE DEF Refuse
<1>1. TypeOK'
  BY DEF EventLogInv, TypeOK
<1>2. WritesMade'
  BY DEF WritesMade
<1> QED BY <1>1, <1>2, SameLogs DEF EventLogInv

(* When an event is to be logged, it follows one of the log.               *)
LEMMA BeginInv == ASSUME EventLogInv, NEW e \in Events, Begin(e) PROVE EventLogInv'
<1>1. /\ cur' = e /\ first' = Acceptable(e) /\ pc' = "dtss" /\ (~first' => Duplicate(e))
      /\ UNCHANGED <<kever, crashes, state, kels, fels, fons, held, escrowed>>
  BY WritesFacts DEF Begin, disk
<1>2. TypeOK /\ Sn(e) \in 0..MaxSn /\ Sn(e) \in Nat /\ Ev[e].ilk \in {"icp", "rot", "ixn"}
  BY EventFacts DEF EventLogInv
<1>3. TypeOK'
  <2>1. first' \in BOOLEAN
    BY <1>1 DEF Acceptable
  <2>2. pc' \in {"idle"} \cup Range(Writes)
    BY <1>1, WritesFacts DEF Tables
  <2> QED BY <1>1, <2>1, <2>2 DEF EventLogInv, TypeOK
<1>4. ASSUME Sn(e) > 0 PROVE Ev[e].prior \in Range(kels[Sn(e) - 1])
  <2>0. Sn(e) - 1 \in 0..MaxSn
    BY <1>4, EventFacts
  <2>1. CASE Duplicate(e)
    <3>1. e \in Range(kels[Sn(e)])
      BY <1>2, <2>1, LastIsIn DEF Duplicate
    <3> QED BY <1>2, <1>4, <3>1 DEF EventLogInv, LogsLinked
  <2>2. CASE Acceptable(e) /\ Accepted /\ Sn(e) = Sn(kever.said) + 1 /\ Ev[e].prior = kever.said
    <3>1. Sn(kever.said) \in 0..MaxSn /\ kever.said \in Range(kels[Sn(kever.said)])
      BY <2>2, KeyStateFacts
    <3>2. Sn(kever.said) = Sn(e) - 1
      BY <1>2, <2>2, <3>1
    <3> QED BY <2>2, <3>1, <3>2
  <2>3. CASE IsLastAt(Ev[e].prior, Sn(e) - 1)
    BY <1>2, <2>0, <2>3, LastIsIn
  <2>4. Acceptable(e) => (Accepted /\ Sn(e) = Sn(kever.said) + 1 /\ Ev[e].prior = kever.said)
                          \/ IsLastAt(Ev[e].prior, Sn(e) - 1)
    BY <1>2, <1>4 DEF Acceptable
  <2> QED BY <1>1, <2>1, <2>2, <2>3, <2>4
<1>5. ~first' => e \in Range(kels[Sn(e)]) /\ e \in Range(fels)
  <2> SUFFICES ASSUME Duplicate(e) PROVE e \in Range(kels[Sn(e)]) /\ e \in Range(fels)
    BY <1>1
  <2>1. e \in Range(kels[Sn(e)])
    BY <1>2, LastIsIn DEF Duplicate
  <2> QED BY <1>2, <2>1 DEF EventLogInv, LogsLinked
<1>6. first' => Establishing(e) \/ Accepted
  BY <1>1 DEF Acceptable, Establishing
<1>7. WritesMade'
  BY <1>1, <1>4, <1>5, <1>6 DEF WritesMade, Accepted
<1> QED BY <1>1, <1>3, <1>7, SameLogs DEF EventLogInv

(* A stop loses only what is in memory, and the key state in the database  *)
(* is one that can be loaded.                                              *)
LEMMA CrashInv == ASSUME EventLogInv, Crash PROVE EventLogInv'
<1>1. UNCHANGED <<state, kels, fels, fons, held, escrowed>> /\ pc' = "idle" /\ crashes' \in 0..MaxCrashes
  <2>1. crashes \in 0..MaxCrashes /\ MaxCrashes \in Nat
    BY LogAssumption DEF EventLogInv, TypeOK
  <2> QED BY <2>1 DEF Crash, disk
<1>2. kever' = kever
  <2>1. state = kever /\ kever \in States
    BY DEF EventLogInv, KeyStateKept, TypeOK
  <2>2. CASE state.said # NoEvent
    BY <2>1, <2>2 DEF Crash, EventLogInv, StateLoads
  <2>3. CASE state.said = NoEvent
    <3>1. kever = NoState
      BY <2>1, <2>3 DEF EventLogInv, KeyStateKept, States, NoState
    <3> QED BY <2>1, <3>1 DEF Crash
  <2> QED BY <2>2, <2>3
<1>3. TypeOK'
  BY <1>1, <1>2 DEF EventLogInv, TypeOK, Crash
<1>4. WritesMade'
  BY <1>1 DEF WritesMade
<1> QED BY <1>1, <1>2, <1>3, <1>4, SameLogs DEF EventLogInv

(* What a write leaves of the event that is being logged.                  *)
LEMMA CurFacts ==
  ASSUME EventLogInv, pc # "idle"
  PROVE  /\ cur \in Events /\ Sn(cur) \in 0..MaxSn /\ Sn(cur) \in Nat /\ pc \in Tables /\ first \in BOOLEAN
         /\ TypeOK /\ WritesMade
BY EventFacts, WritesFacts DEF EventLogInv, WritesMade, TypeOK

(* Writing the date, the signatures or the event keeps the invariant.      *)
LEMMA EvidenceInv ==
  ASSUME EventLogInv, WriteEvidence, pc' = After(pc), UNCHANGED <<cur, first, crashes>>
  PROVE  EventLogInv'
<1>0. pc \in Evidence /\ pc # "idle"
  BY DEF WriteEvidence, Evidence
<1>1. cur \in Events /\ first \in BOOLEAN /\ TypeOK /\ WritesMade
  BY <1>0, CurFacts
<1>2. /\ held' = [held EXCEPT ![pc] = @ \cup {cur}] /\ held \in [Evidence -> SUBSET Events]
      /\ UNCHANGED <<kever, state, kels, fels, fons, escrowed>>
  BY <1>1 DEF WriteEvidence, TypeOK
<1>3. cur \in held'[pc] /\ \A t \in Evidence : held[t] \subseteq held'[t]
  BY <1>0, <1>2
<1>4. "dtss" \in Evidence /\ "sigs" \in Evidence /\ "evts" \in Evidence
  BY DEF Evidence
<1>5. pc' = CASE pc = "dtss" -> "sigs" [] pc = "sigs" -> "evts" [] pc = "evts" -> IF first THEN "fels" ELSE "kels"
  BY <1>0, <1>1, AfterFacts DEF Evidence
<1>6. TypeOK'
  <2>1. pc' \in Range(Writes)
    BY <1>0, <1>5, WritesFacts DEF Evidence, Tables
  <2>2. held' \in [Evidence -> SUBSET Events]
    BY <1>1, <1>2
  <2> QED BY <1>1, <1>2, <2>1, <2>2 DEF TypeOK
<1>7. WritesMade'
  <2>1. CASE pc = "dtss"
    BY <1>1, <1>2, <1>3, <1>4, <1>5, <2>1 DEF WritesMade, Accepted
  <2>2. CASE pc = "sigs"
    BY <1>1, <1>2, <1>3, <1>4, <1>5, <2>2 DEF WritesMade, Accepted
  <2>3. CASE pc = "evts"
    BY <1>1, <1>2, <1>3, <1>4, <1>5, <2>3 DEF WritesMade, Accepted
  <2> QED BY <1>0, <2>1, <2>2, <2>3 DEF Evidence
<1>8. StateLoads' /\ ReplayComplete'
  BY <1>2, <1>3, <1>4 DEF EventLogInv, StateLoads, ReplayComplete
<1>9. KeyStateKept' /\ NumbersReached' /\ FirstSeenNumbers' /\ LogsLinked'
  BY <1>2 DEF EventLogInv, KeyStateKept, NumbersReached, FirstSeenNumbers, LogsLinked
<1> QED BY <1>6, <1>7, <1>8, <1>9 DEF EventLogInv

(* Writing the first seen log: all its replay reads is there already.      *)
LEMMA FelsInv ==
  ASSUME EventLogInv, WriteFels, pc' = After(pc), UNCHANGED <<cur, first, crashes>>
  PROVE  EventLogInv'
<1>0. pc = "fels"
  BY DEF WriteFels
<1>1. cur \in Events /\ first \in BOOLEAN /\ TypeOK /\ WritesMade /\ first
  BY <1>0, CurFacts DEF WritesMade
<1>2. fels' = Append(fels, cur) /\ UNCHANGED <<kever, state, kels, fons, held, escrowed>> /\ fels \in Seq(Events)
  BY <1>1 DEF WriteFels, TypeOK
<1>3. pc' = "fons"
  BY <1>0, <1>1, AfterFacts
<1>4. /\ fels' \in Seq(Events) /\ Len(fels') = Len(fels) + 1 /\ fels'[Len(fels')] = cur /\ fels' # <<>>
      /\ \A i \in 1..Len(fels) : fels'[i] = fels[i]
      /\ Len(fels) \in Nat
  BY <1>1, <1>2
<1>5. Range(fels') = Range(fels) \cup {cur}
  BY <1>1, <1>2, AppendRange
<1>6. TypeOK'
  BY <1>1, <1>2, <1>3, <1>4, WritesFacts DEF TypeOK, Tables
<1>7. WritesMade'
  BY <1>0, <1>1, <1>2, <1>3, <1>4, <1>5 DEF WritesMade, Accepted
<1>8. ReplayComplete'
  <2>1. \A t \in Evidence : cur \in held[t]
    BY <1>0, <1>1 DEF WritesMade, Evidence
  <2> QED BY <1>2, <1>5, <2>1 DEF EventLogInv, ReplayComplete
<1>9. NumbersReached' /\ FirstSeenNumbers'
  <2> SUFFICES ASSUME NEW e \in Events
               PROVE  fons'[e] \in 0..Len(fels') /\ (fons'[e] # 0 => fels'[fons'[e]] = e)
    BY DEF NumbersReached, FirstSeenNumbers
  <2>1. fons[e] \in 0..Len(fels) /\ (fons[e] # 0 => fels[fons[e]] = e)
    BY DEF EventLogInv, NumbersReached, FirstSeenNumbers
  <2> QED BY <1>2, <1>4, <2>1
<1>10. KeyStateKept' /\ StateLoads' /\ LogsLinked'
  BY <1>2, <1>5 DEF EventLogInv, KeyStateKept, StateLoads, LogsLinked
<1> QED BY <1>6, <1>7, <1>8, <1>9, <1>10 DEF EventLogInv

(* Writing the first seen number: the event is at the end of the log.      *)
LEMMA FonsInv ==
  ASSUME EventLogInv, WriteFons, pc' = After(pc), UNCHANGED <<cur, first, crashes>>
  PROVE  EventLogInv'
<1>0. pc = "fons"
  BY DEF WriteFons
<1>1. cur \in Events /\ first \in BOOLEAN /\ TypeOK /\ WritesMade /\ first
  BY <1>0, CurFacts DEF WritesMade
<1>2. /\ fons' = [fons EXCEPT ![cur] = Len(fels)] /\ UNCHANGED <<kever, state, kels, fels, held, escrowed>>
      /\ fels \in Seq(Events) /\ fons \in [Events -> Nat] /\ Len(fels) \in Nat
  BY <1>1 DEF WriteFons, TypeOK
<1>3. pc' = "kels"
  BY <1>0, <1>1, AfterFacts
<1>4. TypeOK'
  BY <1>1, <1>2, <1>3, WritesFacts DEF TypeOK, Tables
<1>5. WritesMade'
  <2>1. fels # <<>> /\ fels[Len(fels)] = cur
    BY <1>0, <1>1 DEF WritesMade
  <2>2. cur \in Range(fels)
    BY <1>2, <2>1, LastInRange
  <2> QED BY <1>0, <1>1, <1>2, <1>3, <2>2 DEF WritesMade, Accepted
<1>6. NumbersReached' /\ FirstSeenNumbers'
  <2>1. fels[Len(fels)] = cur
    BY <1>0, <1>1 DEF WritesMade
  <2> QED BY <1>1, <1>2, <2>1 DEF EventLogInv, NumbersReached, FirstSeenNumbers
<1>7. KeyStateKept' /\ StateLoads' /\ ReplayComplete' /\ LogsLinked'
  BY <1>2 DEF EventLogInv, KeyStateKept, StateLoads, ReplayComplete, LogsLinked
<1> QED BY <1>4, <1>5, <1>6, <1>7 DEF EventLogInv

(* Writing the key event log: the event was first seen and its prior event *)
(* is at the place before.                                                 *)
LEMMA KelsInv ==
  ASSUME EventLogInv, WriteKels, pc' = After(pc), UNCHANGED <<cur, first, crashes>>
  PROVE  EventLogInv'
<1>0. pc = "kels"
  BY DEF WriteKels
<1>1. cur \in Events /\ first \in BOOLEAN /\ TypeOK /\ WritesMade /\ Sn(cur) \in 0..MaxSn /\ Sn(cur) \in Nat
  BY <1>0, CurFacts
<1>2. UNCHANGED <<kever, state, fels, fons, held, escrowed>> /\ kels \in [0..MaxSn -> Seq(Events)]
  BY <1>1 DEF WriteKels, TypeOK
<1> DEFINE list == IF cur \in Range(kels[Sn(cur)]) THEN kels[Sn(cur)] ELSE Append(kels[Sn(cur)], cur)
<1>3. kels' = [kels EXCEPT ![Sn(cur)] = list]
  BY DEF WriteKels
<1>4. list \in Seq(Events) /\ Range(list) = Range(kels[Sn(cur)]) \cup {cur}
  <2>1. kels[Sn(cur)] \in Seq(Events)
    BY <1>1, <1>2
  <2>2. Append(kels[Sn(cur)], cur) \in Seq(Events)
    BY <1>1, <2>1
  <2>3. Range(Append(kels[Sn(cur)], cur)) = Range(kels[Sn(cur)]) \cup {cur}
    BY <1>1, <2>1, AppendRange
  <2> QED BY <2>1, <2>2, <2>3
<1> HIDE DEF list
<1>5. /\ kels' \in [0..MaxSn -> Seq(Events)]
      /\ \A n \in 0..MaxSn : Range(kels'[n]) = IF n = Sn(cur) THEN Range(kels[n]) \cup {cur} ELSE Range(kels[n])
  BY <1>1, <1>2, <1>3, <1>4
<1>6. pc' = IF first THEN "states" ELSE "escrow"
  BY <1>0, <1>1, AfterFacts
<1>7. TypeOK'
  BY <1>1, <1>2, <1>5, <1>6, WritesFacts DEF TypeOK, Tables
<1>8. Sn(cur) > 0 => Sn(cur) - 1 \in 0..MaxSn /\ Ev[cur].prior \in Range(kels[Sn(cur) - 1])
  BY <1>0, <1>1, EventFacts DEF WritesMade
<1>9. WritesMade'
  BY <1>0, <1>1, <1>2, <1>5, <1>6, <1>8 DEF WritesMade, Accepted
<1>10. LogsLinked'
  <2>1. ASSUME NEW n \in 0..MaxSn, NEW e \in Range(kels'[n])
        PROVE  e \in Range(fels) /\ (n > 0 => Ev[e].prior \in Range(kels'[n - 1]))
    <3>1. n > 0 => n - 1 \in 0..MaxSn
      BY LogAssumption
    <3>2. CASE e \in Range(kels[n])
      BY <1>5, <3>1, <3>2 DEF EventLogInv, LogsLinked
    <3>3. CASE n = Sn(cur) /\ e = cur
      BY <1>0, <1>1, <1>5, <1>8, <3>3 DEF WritesMade
    <3> QED BY <1>5, <2>1, <3>2, <3>3
  <2>2. state.said # NoEvent => state.said \in Range(kels'[Sn(state.said)])
    <3>1. state.said # NoEvent => Sn(state.said) \in 0..MaxSn
      BY EventFacts DEF EventLogInv, TypeOK, States
    <3> QED BY <1>5, <3>1 DEF EventLogInv, LogsLinked
  <2> QED BY <1>2, <2>1, <2>2 DEF LogsLinked
<1>11. KeyStateKept' /\ StateLoads' /\ ReplayComplete' /\ NumbersReached' /\ FirstSeenNumbers'
  BY <1>2 DEF EventLogInv, KeyStateKept, StateLoads, ReplayComplete, NumbersReached, FirstSeenNumbers
<1> QED BY <1>7, <1>9, <1>10, <1>11 DEF EventLogInv

(* Writing the key state: its events are in the database and the log.      *)
LEMMA StateInv ==
  ASSUME EventLogInv, WriteState, pc' = After(pc), UNCHANGED <<cur, first, crashes>>
  PROVE  EventLogInv'
<1>0. pc = "states"
  BY DEF WriteState
<1>1. cur \in Events /\ first \in BOOLEAN /\ TypeOK /\ WritesMade /\ Sn(cur) \in 0..MaxSn /\ cur # NoEvent
  BY <1>0, CurFacts, EventFacts
<1>2. /\ kever' = [said |-> cur, est |-> IF Establishing(cur) THEN cur ELSE kever.est] /\ state' = kever'
      /\ UNCHANGED <<kels, fels, fons, held, escrowed>>
  BY DEF WriteState
<1>3. pc' = "escrow"
  BY <1>0, <1>1, AfterFacts
<1>4. /\ cur \in held["evts"] /\ cur \in held["dtss"] /\ cur \in held["sigs"]
      /\ cur \in Range(fels) /\ cur \in Range(kels[Sn(cur)])
      /\ (Sn(cur) > 0 => Ev[cur].prior \in Range(kels[Sn(cur) - 1]))
      /\ (Establishing(cur) \/ Accepted)
  BY <1>0, <1>1 DEF WritesMade
<1>5. kever'.said = cur /\ kever'.est \in held["evts"] /\ kever'.est \in Events
  <2>1. held["evts"] \subseteq Events
    BY <1>1 DEF TypeOK, Evidence
  <2>2. Accepted => kever.est \in held["evts"]
    BY DEF EventLogInv, StateLoads, KeyStateKept, Accepted
  <2> QED BY <1>2, <1>4, <2>1, <2>2
<1>6. TypeOK'
  <2>1. kever' \in States
    BY <1>1, <1>2, <1>5 DEF States
  <2> QED BY <1>1, <1>2, <1>3, <2>1, WritesFacts DEF TypeOK, Tables
<1>7. WritesMade'
  BY <1>0, <1>1, <1>2, <1>3, <1>4 DEF WritesMade
<1>8. StateLoads' /\ KeyStateKept'
  BY <1>1, <1>2, <1>4, <1>5 DEF StateLoads, KeyStateKept
<1>9. LogsLinked'
  BY <1>2, <1>4, <1>5 DEF EventLogInv, LogsLinked
<1>10. ReplayComplete' /\ NumbersReached' /\ FirstSeenNumbers'
  BY <1>2 DEF EventLogInv, ReplayComplete, NumbersReached, FirstSeenNumbers
<1> QED BY <1>6, <1>7, <1>8, <1>9, <1>10 DEF EventLogInv

(* Taking the event out of its escrow keeps the invariant.                 *)
LEMMA UnescrowInv ==
  ASSUME EventLogInv, Unescrow, pc' = After(pc), UNCHANGED <<cur, first, crashes>>
  PROVE  EventLogInv'
<1>1. pc = "escrow" /\ escrowed' = escrowed \ {cur} /\ UNCHANGED <<kever, state, kels, fels, fons, held>>
  BY DEF Unescrow
<1>2. pc' = "idle"
  BY <1>1, CurFacts, AfterFacts
<1>3. TypeOK'
  BY <1>1, <1>2 DEF EventLogInv, TypeOK
<1>4. WritesMade'
  BY <1>2 DEF WritesMade
<1> QED BY <1>1, <1>3, <1>4, SameLogs DEF EventLogInv

(* The invariant holds of an empty database.                               *)
LEMMA InitInv == Init => EventLogInv
<1> SUFFICES ASSUME Init PROVE EventLogInv
  OBVIOUS
<1> USE DEF Init
<1>1. TypeOK
  <2>1. kels \in [0..MaxSn -> Seq(Events)] /\ fels \in Seq(Events) /\ fons \in [Events -> Nat]
    OBVIOUS
  <2>2. kever \in States /\ state \in States
    BY DEF States, NoState
  <2>3. held \in [Evidence -> SUBSET Events] /\ escrowed \subseteq Events
    OBVIOUS
  <2>4. 0 \in 0..MaxCrashes
    BY LogAssumption
  <2> QED BY <2>1, <2>2, <2>3, <2>4 DEF TypeOK
<1>2. Range(fels) = {} /\ \A n \in 0..MaxSn : Range(kels[n]) = {}
  BY DEF Range
<1>3. LogsLinked /\ ReplayComplete /\ StateLoads
  BY <1>2 DEF LogsLinked, ReplayComplete, StateLoads, NoState
<1>4. NumbersReached /\ FirstSeenNumbers /\ KeyStateKept /\ WritesMade
  BY DEF NumbersReached, FirstSeenNumbers, KeyStateKept, WritesMade, NoState
<1> QED BY <1>1, <1>3, <1>4 DEF EventLogInv

(* Every step keeps the invariant.                                         *)
LEMMA NextInv == EventLogInv /\ [Next]_vars => EventLogInv'
<1> SUFFICES ASSUME EventLogInv, [Next]_vars PROVE EventLogInv'
  OBVIOUS
<1>1. CASE UNCHANGED vars
  <2>1. TypeOK' /\ WritesMade'
    BY <1>1 DEF vars, EventLogInv, TypeOK, WritesMade, Accepted
  <2> QED BY <1>1, <2>1, SameLogs DEF vars, EventLogInv
<1>2. CASE Write
  BY <1>2, EvidenceInv, FelsInv, FonsInv, KelsInv, StateInv, UnescrowInv DEF Write
<1> QED BY <1>1, <1>2, EscrowInv, BeginInv, RefuseInv, CrashInv DEF Next

-----------------------------------------------------------------------------
(* The theorems                                                            *)

(* Between any two writes, and after a stop at any of them, the tables of  *)
(* the log are consistent (Kever.logEvent, Kever.update, Baser.reload).    *)
THEOREM EventLogInvariant == Spec => []EventLogInv
<1> QED BY InitInv, NextInv, PTL DEF Spec

(* After a stop at any point the key state in the database can be loaded,  *)
(* so a restart never loses an identifier; whatever is in the first seen   *)
(* log has its event, signatures and date in the database and can be       *)
(* replayed to others (Baser.cloneEvtMsg); the first seen number kept with *)
(* an event is one at which the first seen log has it; and every event of  *)
(* the key event log was first seen and follows one of the log, also when  *)
(* a crash made it be logged twice.                                        *)
THEOREM LogsAreSound == Spec => []LogsSound
<1>1. EventLogInv => LogsSound
  BY DEF EventLogInv, LogsSound
<1> QED BY <1>1, EventLogInvariant, PTL

(* No step of logEvent, of an escrow or of a restart takes an event out of *)
(* the first seen log or of the key event log, or moves it.                *)
THEOREM LogsOnlyGrow ==
  Spec => [][/\ Len(fels) <= Len(fels') /\ \A i \in 1..Len(fels) : fels'[i] = fels[i]
             /\ \A n \in 0..MaxSn : Len(kels[n]) <= Len(kels'[n])
                  /\ \A i \in 1..Len(kels[n]) : kels'[n][i] = kels[n][i]]_vars
<1> DEFINE Grow == /\ Len(fels) <= Len(fels') /\ \A i \in 1..Len(fels) : fels'[i] = fels[i]
                   /\ \A n \in 0..MaxSn : Len(kels[n]) <= Len(kels'[n])
                        /\ \A i \in 1..Len(kels[n]) : kels'[n][i] = kels[n][i]
<1>1. ASSUME EventLogInv, Next PROVE Grow
  <2>1. fels \in Seq(Events) /\ kels \in [0..MaxSn -> Seq(Events)] /\ Len(fels) \in Nat
        /\ \A n \in 0..MaxSn : Len(kels[n]) \in Nat
    BY <1>1 DEF EventLogInv, TypeOK
  <2>2. CASE UNCHANGED <<fels, kels>>
    BY <2>1, <2>2
  <2>3. CASE WriteFels
    <3>1. cur \in Events /\ kels' = kels /\ fels' = Append(fels, cur)
      BY <1>1, <2>3, CurFacts DEF WriteFels
    <3> QED BY <2>1, <3>1
  <2>4. CASE WriteKels
    <3>1. cur \in Events /\ Sn(cur) \in 0..MaxSn /\ fels' = fels
      BY <1>1, <2>4, CurFacts DEF WriteKels
    <3>2. \A n \in 0..MaxSn : kels'[n] = kels[n] \/ kels'[n] = Append(kels[n], cur)
      BY <2>1, <2>4, <3>1 DEF WriteKels
    <3>3. ASSUME NEW n \in 0..MaxSn
          PROVE  Len(kels[n]) <= Len(kels'[n]) /\ \A i \in 1..Len(kels[n]) : kels'[n][i] = kels[n][i]
      <4>1. kels[n] \in Seq(Events) /\ Len(kels[n]) \in Nat /\ DOMAIN kels[n] = 1..Len(kels[n])
        BY <2>1
      <4>2. CASE kels'[n] = kels[n]
        BY <4>1, <4>2
      <4>3. CASE kels'[n] = Append(kels[n], cur)
        <5>1. /\ Len(Append(kels[n], cur)) = Len(kels[n]) + 1
              /\ \A i \in DOMAIN kels[n] : Append(kels[n], cur)[i] = kels[n][i]
          BY <3>1, <4>1, AppendFacts
        <5> QED BY <4>1, <4>3, <5>1
      <4> QED BY <3>2, <4>2, <4>3
    <3> QED BY <2>1, <3>1, <3>3
  <2> QED BY <1>1, <2>2, <2>3, <2>4
       DEF Next, Write, Escrow, Begin, Refuse, Crash, disk, WriteEvidence, WriteFons, WriteState, Unescrow
<1>2. ASSUME EventLogInv, UNCHANGED vars PROVE Grow
  <2>1. fels \in Seq(Events) /\ kels \in [0..MaxSn -> Seq(Events)] /\ fels' = fels /\ kels' = kels
    BY <1>2 DEF EventLogInv, TypeOK, vars
  <2> QED BY <2>1
<1>3. EventLogInv /\ [Next]_vars => [Grow]_vars
  BY <1>1, <1>2
<1> QED BY <1>3, EventLogInvariant, PTL DEF Spec
=============================================================================
