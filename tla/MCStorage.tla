------------------------------ MODULE MCStorage ------------------------------
(* Small instances of EventLog, Habitats, Parser and Stores for TLC; the   *)
(* initial state chooses the component a behaviour is about.               *)
EXTENDS EventLog

CONSTANTS None, Raised, Nothing

(* EventLog: two interaction events and a rotation that recovers below     *)
(* both.                                                                   *)
Event(sn, ilk, prior) == [sn |-> sn, ilk |-> ilk, prior |-> prior]
RecoveryEv ==
  [icp |-> Event(0, "icp", "nil"), ixn1 |-> Event(1, "ixn", "icp"),
   ixn2 |-> Event(2, "ixn", "ixn1"), rot1 |-> Event(1, "rot", "icp")]

(* Habitats: two identifiers that want one name, one of them               *)
(* nontransferable, and one with imported keys.                            *)
Hab(name, fam, ext, n, more) ==
  [name |-> name, fam |-> fam, ext |-> ext, n |-> n, more |-> more]
HabRequests ==
  [a |-> Hab("a", "a", None, 0, TRUE), a2 |-> Hab("a", "z", None, 0, TRUE),
   b |-> Hab("b", "b", "x", 2, TRUE), n |-> Hab("a", "y", None, 0, FALSE)]
HabTalks == {<<"a">>, <<"a2", "n">>, <<"b">>, <<"a", "passcode">>}

(* Parser: messages whose attachments are enclosed, with a body in a       *)
(* group and a version in an enclosed group; attachments that are not      *)
(* enclosed, and a version between two messages; a generic group; and a    *)
(* group of attachments that does not hold what its counter says.          *)
Tok(k, z, n, m, g) == [kind |-> k, size |-> z, n |-> n, of |-> m, g |-> g]
Body(m, ilk) == Tok("bytes", 2, 0, m, ilk)
Enclosing(n, m) == Tok("atc", 1, n, m, None)
Counted(n, m, g) == Tok("counted", 1, n, m, g)
Sized(n, m, g) == Tok("sized", 1, n, m, g)
Prim(k, m) == Tok(k, 1, 0, m, None)
Sig(m) == Tok("Siger", 2, 0, m, None)
OneSig(m) == <<Counted(1, m, "ControllerIdxSigs"), Sig(m)>>
Signed(m) == <<Body(m, "ixn"), Enclosing(3, m)>> \o OneSig(m)
Endorsed(m, i) == <<Prim("Prefixer", m), Prim("Number", m), Prim("Diger", m), Tok("Counter", 1, i, m, None)>>
MessageStreams ==
  [plain |-> <<Body("m1", "icp"), Enclosing(6, "m1")>> \o OneSig("m1")
               \o <<Counted(1, "m1", "WitnessIdxSigs"), Sig("m1"),
                    Tok("body", 1, 7, "m2", None), Body("m2", "rct"), Enclosing(4, "m2"),
                    Sized(3, "m2", "NonTransReceiptCouples"), Prim("Verfer", "m2"),
                    Tok("Cigar", 2, 0, "m2", None), Body("m3", "ixn"), Enclosing(4, "m3"),
                    Tok("version", 1, 0, None, None)>> \o OneSig("m3"),
   groups |-> <<Body("m1", "exn"), Enclosing(16, "m1"), Counted(2, "m1", "TransIdxSigGroups")>>
                \o Endorsed("m1", 1) \o <<Sig("m1")>> \o Endorsed("m1", 2)
                \o <<Prim("Siger", "m1"), Prim("Siger", "m1"), Sized(2, "m1", "SealSourceCouples"),
                     Prim("Number", "m1"), Prim("Diger", "m1"), Body("m2", "qry"), Enclosing(6, "m2"),
                     Sized(5, "m2", "TransLastIdxSigGroups"), Prim("Prefixer", "m2"),
                     Tok("Counter", 1, 1, "m2", None), Prim("Siger", "m2"), Prim("Prefixer", "m2"),
                     Tok("Counter", 1, 0, "m2", None), Body("m3", "rpy"), Enclosing(3, "m3")>> \o OneSig("m3"),
   loose |-> <<Body("m1", "rot"), Counted(2, "m1", "ControllerIdxSigs"), Sig("m1"), Sig("m1"),
               Counted(1, "m1", "FirstSeenReplayCouples"), Prim("Number", "m1"), Prim("Dater", "m1"),
               Tok("version", 1, 0, None, None), Body("m2", "ixn")>> \o OneSig("m2"),
   generic |-> <<Tok("generic", 1, 12, None, None)>> \o Signed("m1") \o Signed("m2") \o Signed("m3"),
   bad |-> <<Body("m1", "ixn"), Enclosing(3, "m1"), Counted(1, "m1", "ControllerIdxSigs"),
             Tok("bad", 2, 0, "m1", None)>> \o Signed("m2")]

(* Stores: a key and one that it begins, ordinals to 1, and numbers of the *)
(* values of a set to 2.                                                   *)
GreatestOn == 1
GreatestIon == 2
Letter == GreatestOn + GreatestIon + 3
TableKeys == {<<Letter>>, <<Letter, Letter>>}
TableLists == {<<1>>, <<2, 1>>}

-----------------------------------------------------------------------------
VARIABLES part, talk,
  db, todo, up, code, habs, lost, mixed, downs,
  stream, rest, ims, levels, framed, eggs, open, msg, atts, left, group, at, waiting, handed,
  engine, kind, tab, disc, loose, pins
habVars == <<db, todo, up, code, habs, lost, mixed, downs>>
parVars ==
  <<stream, rest, ims, levels, framed, eggs, open, msg, atts, left, group, at, waiting, handed>>
tabVars == <<engine, kind, tab, disc, loose, pins>>
allVars == <<part, talk, vars, habVars, parVars, tabVars>>

Hby == INSTANCE Habitats WITH Requests <- HabRequests, Codes <- {"A", "B"}, MaxRidx <- 3,
         MaxCrashes <- 1, crashes <- downs
Par == INSTANCE Parser WITH Streams <- MessageStreams, Framed <- FALSE, pc <- at
Tab == INSTANCE Stores WITH Keys <- TableKeys, Tops <- TableKeys, Lists <- TableLists,
         MaxON <- GreatestOn, MaxIon <- GreatestIon, MaxEntries <- [lmdb |-> 3, web |-> 2],
         MaxKept <- [lmdb |-> 1, web |-> 1], db <- tab, disk <- disc, todo <- pins

(* The variables of the components a behaviour is not about.               *)
LogUnused == Init
HabUnused ==
  /\ db = 0 /\ todo = 0 /\ up = 0 /\ code = 0 /\ habs = 0 /\ lost = 0 /\ mixed = 0
  /\ downs = 0
ParUnused ==
  /\ stream = 0 /\ rest = 0 /\ ims = 0 /\ levels = 0 /\ framed = 0 /\ eggs = 0
  /\ open = 0 /\ msg = 0 /\ atts = 0 /\ left = 0 /\ group = 0 /\ at = 0 /\ waiting = 0 /\ handed = 0
TabUnused ==
  /\ engine = 0 /\ kind = 0 /\ tab = 0 /\ disc = 0 /\ loose = 0 /\ pins = 0
StoInit ==
  \/ part = "log" /\ talk = <<>> /\ Init /\ HabUnused /\ ParUnused /\ TabUnused
  \/ part = "habs" /\ talk \in HabTalks /\ Hby!Init /\ LogUnused /\ ParUnused /\ TabUnused
  \/ part = "stream" /\ talk = <<>> /\ Par!Init /\ LogUnused /\ HabUnused /\ TabUnused
  \/ part = "tables" /\ talk = <<>> /\ Tab!Init /\ LogUnused /\ HabUnused /\ ParUnused
LogOn == part = "log" /\ UNCHANGED <<part, talk, habVars, parVars, tabVars>>
HabOn == part = "habs" /\ UNCHANGED <<part, talk, vars, parVars, tabVars>>
ParOn == part = "stream" /\ UNCHANGED <<part, talk, vars, habVars, tabVars>>
TabOn == part = "tables" /\ UNCHANGED <<part, talk, vars, habVars, parVars>>
Said == {talk[i] : i \in DOMAIN talk}
StoNext ==
  \/ \E e \in Events : LogOn /\ Escrow(e)
  \/ \E e \in Events : LogOn /\ Begin(e)
  \/ \E e \in Events : LogOn /\ Refuse(e)
  \/ LogOn /\ Write
  \/ LogOn /\ Crash
  \/ HabOn /\ Hby!Setup
  \/ HabOn /\ Hby!Step
  \/ HabOn /\ Hby!Crash
  \/ \E q \in DOMAIN HabRequests, good \in BOOLEAN : q \in Said /\ HabOn /\ Hby!makeHab(q, good)
  \/ HabOn /\ \E p \in habs, more \in BOOLEAN, good \in BOOLEAN : Hby!rotateHab(p, more, good)
  \/ HabOn /\ \E name \in Hby!Names : Hby!deleteHab(name)
  \/ \E new \in {"A", "B"} : "passcode" \in Said /\ HabOn /\ Hby!set_passcode(new)
  \/ ParOn /\ Par!Run
  \/ ParOn /\ Par!Resume
  \/ ParOn /\ \E n \in 1..Len(rest) : Par!Arrive(n)
  \/ \E k \in TableKeys, o \in 0..1, vs \in TableLists : TabOn /\ Tab!put(k, o, vs)
  \/ \E k \in TableKeys, o \in 0..1, vs \in TableLists : TabOn /\ Tab!pin(k, o, vs)
  \/ \E k \in TableKeys, o \in 0..1, vs \in TableLists : TabOn /\ Tab!pinRem(k, o, vs)
  \/ TabOn /\ Tab!pinPut
  \/ \E k \in TableKeys, o \in 0..1, v \in 1..2 : TabOn /\ Tab!add(k, o, v)
  \/ \E k \in TableKeys, vs \in TableLists : TabOn /\ Tab!append(k, vs)
  \/ \E k \in TableKeys, o \in 0..1 : TabOn /\ Tab!rem(k, o)
  \/ \E k \in TableKeys, o \in 0..1, v \in 1..2 : TabOn /\ Tab!remVal(k, o, v)
  \/ \E k \in TableKeys, o \in 0..1 : TabOn /\ Tab!remAll(k, o)
  \/ \E top \in TableKeys : TabOn /\ Tab!trim(top)
  \/ TabOn /\ Tab!flush
  \/ TabOn /\ Tab!restart

(* A handler that logs an event goes on, and a pass of the escrows reaches *)
(* every event in one.                                                     *)
Retries(e) == LogOn /\ e \in escrowed /\ (Begin(e) \/ Refuse(e))
StoSpec ==
  /\ StoInit /\ [][StoNext]_allVars
  /\ WF_vars(LogOn /\ Write)
  /\ \A e \in Events : SF_vars(Retries(e))

(* Only the sub-databases of an OnIoDupSuber.                              *)
DupsSpec == StoInit /\ part = "tables" /\ kind = "oniodup" /\ [][StoNext]_allVars

-----------------------------------------------------------------------------
(* What each component states, of the behaviours that are about it.        *)

(* An escrowed event is logged in the end, whatever crashes (logEvent).    *)
EscrowsLogged ==
  \A e \in Events : (part = "log" /\ Due(e)) ~> (part = "log" => Done(e))

(* Until something crashes, logEvent is a step of the abstract log.        *)
LogImplementsKEL ==
  /\ part = "log" => Abstract!Init
  /\ [][part = "log" /\ crashes' = 0 => Abstract!Next \/ UNCHANGED <<chain, log>>]_vars

(* Between the writes of Habery, Hab and Manager: no key in use or         *)
(* committed to is lost, secrets are read with the passcode, names are     *)
(* unique, and the program starts and rotates after failures and crashes.  *)
KeysSound ==
  part = "habs" =>
    /\ Hby!TypeOK /\ Hby!KeysKept /\ Hby!InStep /\ Hby!SecretsRead /\ Hby!NamesLead
    /\ Hby!StartPossible /\ Hby!RotationPossible

(* A message is handed on with its own attachments, whatever the pieces    *)
(* its stream comes in (allParsator).                                      *)
StreamsSound ==
  part = "stream" => Par!TypeOK /\ Par!OwnAttachments /\ Par!CutsIrrelevant({"plain", "groups"})

(* Every call of a class of sub-database does what its class promises, and *)
(* every walk of it gives the lists it holds (Suber and Komer families).   *)
TablesKept ==
  part = "tables" =>
    /\ Tab!TypeOK /\ Tab!Marked /\ Tab!ReadsAgree /\ Tab!CallsKept
    /\ kind # "oniodup" => Tab!DupsDistinct
(* OnIoDupSuber.put adds no value that is at its key and ordinal already.  *)
DupsFiledOnce == part = "tables" => Tab!DupsDistinct

(* Only two calls leave a browser's store unmarked (WebDBer).              *)
TablesFlushed == [][part = "tables" /\ loose' /\ ~loose => Tab!UnmarkedBy]_tabVars

(* What is to be stored is: an event that waits is logged, and a browser's *)
(* tables are marked to be flushed (Kevery.processEscrows, WebDBer).       *)
NothingUnsaved == EscrowsLogged /\ TablesFlushed
=============================================================================
