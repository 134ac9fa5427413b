------------------------------ MODULE Vetting ------------------------------
(* How a verifier judges a registry of blinded updates from the events it  *)
(* is shown and the issuer's key event log (acdc/regeventing.py vet and    *)
(* vetBinds).  A refusal is None: each has an exception of its own.        *)
EXTENDS Integers, SequencesExt

CONSTANTS
  TelEvents,   \* registry events: name -> [sn, prior, reg, td, dt]
  KelEvents,   \* key events of the issuer: name -> [sn, prior, seals]
  None

sn(e) == TelEvents[e].sn
prior(e) == TelEvents[e].prior
vetRip(rip) == TelEvents[rip].prior = None /\ sn(rip) = 0
vetUpdate(e, rip) == prior(e) # None /\ TelEvents[e].reg = TelEvents[rip].reg /\ sn(e) >= 1

(* A seal in the log, or in the event the caller claims; a claim whose     *)
(* seals are of nothing that was told refuses the event.                   *)
sealDigests(k) == KelEvents[k].seals
_kelEvent(kels, seen, claim) == IF claim \in seen \cup {None} THEN claim ELSE None
_scanKel(kels, e) == \E i \in DOMAIN kels : e \in sealDigests(kels[i])
vetAnchor(kels, seen, e, claim, told) ==
  LET k == _kelEvent(kels, seen, claim)
      claimed == k # None /\ e \in sealDigests(k)
      foreign == k # None /\ sealDigests(k) # {} /\ sealDigests(k) \cap told = {}
  IN kels # <<>> /\ (claimed \/ (~foreign /\ _scanKel(kels, e)))

(* Two updates at one place are judged by the one that comes first.        *)
RECURSIVE WalkFirst(_, _)
WalkFirst(left, last) ==
  LET cands == {e \in left : sn(e) = sn(last) + 1 /\ prior(e) = last}
      next == CHOOSE e \in cands : TRUE
  IN CASE left = {} -> last
       [] left # {} /\ cands # {} -> WalkFirst({e \in left : sn(e) > sn(next)}, next)
       [] OTHER -> None
(* The updates that remain follow one by one, each sealed; two at one      *)
(* place, both sealed, are a duplicity.                                    *)
RECURSIVE Walk(_, _)
Walk(left, last) ==
  LET cands == {e \in left : sn(e) = sn(last) + 1}
      next == CHOOSE e \in cands : TRUE
  IN CASE left = {} -> last
       [] left # {} /\ Cardinality(cands) = 1 /\ prior(next) = last -> Walk(left \ cands, next)
       [] OTHER -> None
vet(kels, seen, rip, updates, sources) ==
  LET told == {rip} \cup updates
  IN IF /\ vetRip(rip) /\ \A e \in updates : vetUpdate(e, rip)
        /\ \A e \in told : vetAnchor(kels, seen, e, sources[e], told)
     THEN Walk(updates, rip) ELSE None

(* What the latest update that is not vacuous binds, as of a time.  Each   *)
(* update back to it needs its one disclosure.                             *)
Vacuous(e) == TelEvents[e].td = None
vetBinds(kels, seen, rip, updates, sources, disclosed, target, cutoff, requireSource) ==
  LET past == {e \in updates : TelEvents[e].dt <= cutoff}
      binding == {e \in past : ~Vacuous(e)}
      latest == CHOOSE e \in binding : \A f \in binding : sn(f) <= sn(e)
  IN IF /\ TelEvents[rip].dt <= cutoff
        /\ vet(kels, seen, rip, past, sources) # None
        /\ binding # {}
        /\ \A e \in past : sn(e) >= sn(latest) => e \in disclosed
        /\ TelEvents[latest].td = target
        /\ requireSource => sources[latest] # None
     THEN latest ELSE None
=============================================================================
