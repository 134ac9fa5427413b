--------------------------- MODULE ReceiptsProofs ---------------------------
(***************************************************************************)
(* Proofs about Receipts: whatever the order of events and receipts,       *)
(* accepted events have the witness signatures they need, and receipts of  *)
(* transferable receptors rest on accepted logs.                           *)
(***************************************************************************)
EXTENDS Receipts, SequenceFacts, FiniteSetTheorems

-----------------------------------------------------------------------------
(* Witness lists                                                           *)

(* What Kept is: for every place of the list, what is kept up to there.    *)
Keeps(list, cuts, k, n) ==
  k = [i \in 0..n |->
         IF i = 0 THEN <<>>
         ELSE IF list[i] \in cuts THEN k[i - 1] ELSE Append(k[i - 1], list[i])]

(* The recursive function of Kept has a value up to every length.          *)
LEMMA KeepsTo ==
  ASSUME NEW list, Len(list) \in Nat, NEW cuts
  PROVE  \A n \in 0..Len(list) : \E k : Keeps(list, cuts, k, n)
<1> DEFINE Bad == {n \in 0..Len(list) : \A k : ~Keeps(list, cuts, k, n)}
<1> SUFFICES ASSUME Bad # {} PROVE FALSE
  OBVIOUS
<1>1. PICK n \in Bad : \A m \in Bad : n <= m
  <2>1. Bad \in SUBSET Nat
    OBVIOUS
  <2> HIDE DEF Bad
  <2> QED BY <2>1, LeastExists
<1>2. CASE n = 0
  <2>1. Keeps(list, cuts, [i \in 0..0 |-> <<>>], 0)
    BY DEF Keeps
  <2> QED BY <1>2, <2>1
<1>3. CASE n # 0
  <2>1. n - 1 \in 0..Len(list) /\ n - 1 \notin Bad
    BY <1>1, <1>3
  <2>2. PICK k : Keeps(list, cuts, k, n - 1)
    BY <2>1
  <2> DEFINE next == IF list[n] \in cuts THEN k[n - 1] ELSE Append(k[n - 1], list[n])
  <2> DEFINE q == [i \in 0..n |-> IF i = n THEN next ELSE k[i]]
  <2>3. \A i \in 0..n - 1 :
          k[i] = IF i = 0 THEN <<>>
                 ELSE IF list[i] \in cuts THEN k[i - 1] ELSE Append(k[i - 1], list[i])
    BY <1>3, <2>2 DEF Keeps
  <2>4. \A i \in 0..n :
          q[i] = IF i = 0 THEN <<>>
                 ELSE IF list[i] \in cuts THEN q[i - 1] ELSE Append(q[i - 1], list[i])
    BY <1>3, <2>3
  <2>5. Keeps(list, cuts, q, n)
    <3> HIDE DEF q, next
    <3> DEFINE r == [i \in 0..n |-> IF i = 0 THEN <<>>
                 ELSE IF list[i] \in cuts THEN q[i - 1] ELSE Append(q[i - 1], list[i])]
    <3>1. q = [i \in 0..n |-> q[i]]
      BY DEF q
    <3>2. q = r
      BY <2>4, <3>1
    <3> QED BY <3>2 DEF Keeps
  <2> HIDE DEF q
  <2> QED BY <2>5
<1> QED BY <1>2, <1>3

(* Kept is the value of such a function at the length of the list.         *)
LEMMA KeptIs ==
  ASSUME NEW list, Len(list) \in Nat, NEW cuts
  PROVE  \E k : Keeps(list, cuts, k, Len(list)) /\ Kept(list, cuts) = k[Len(list)]
<1> DEFINE c == CHOOSE k : Keeps(list, cuts, k, Len(list))
<1>1. Keeps(list, cuts, c, Len(list))
  BY KeepsTo
<1>2. Kept(list, cuts) = c[Len(list)]
  BY DEF Kept, Keeps
<1> QED BY <1>1, <1>2

(* What is kept is a list without duplicates of what is not cut.           *)
KeptFits(list, cuts, n, q) ==
  /\ q \in Seq(Wits) /\ IsInjective(q)
  /\ \A i \in DOMAIN q : \E j \in 1..n : q[i] = list[j] /\ list[j] \notin cuts

(* The list left after the cuts names the rest of the witnesses once each. *)
LEMMA KeptFacts ==
  ASSUME NEW list \in Seq(Wits), IsInjective(list), NEW cuts
  PROVE  KeptFits(list, cuts, Len(list), Kept(list, cuts))
<1>1. Len(list) \in Nat /\ DOMAIN list = 1..Len(list)
  OBVIOUS
<1>2. PICK k : Keeps(list, cuts, k, Len(list)) /\ Kept(list, cuts) = k[Len(list)]
  BY <1>1, KeptIs
<1> DEFINE Bad == {n \in 0..Len(list) : ~KeptFits(list, cuts, n, k[n])}
<1> SUFFICES ASSUME Bad # {} PROVE FALSE
  BY <1>1, <1>2
<1>3. PICK n \in Bad : \A m \in Bad : n <= m
  <2>1. Bad \in SUBSET Nat
    BY <1>1
  <2> HIDE DEF Bad
  <2> QED BY <2>1, LeastExists
<1>4. /\ k[0] = <<>>
      /\ \A i \in 1..Len(list) :
           k[i] = IF list[i] \in cuts THEN k[i - 1] ELSE Append(k[i - 1], list[i])
  <2>1. \A i \in 0..Len(list) :
          k[i] = IF i = 0 THEN <<>>
                 ELSE IF list[i] \in cuts THEN k[i - 1] ELSE Append(k[i - 1], list[i])
    BY <1>2 DEF Keeps
  <2>2. 0 \in 0..Len(list) /\ \A i \in 1..Len(list) : i \in 0..Len(list) /\ i # 0
    BY <1>1
  <2> QED BY <2>1, <2>2
<1>5. CASE n = 0
  <2>1. KeptFits(list, cuts, 0, <<>>)
    BY DEF KeptFits, IsInjective
  <2> QED BY <1>3, <1>4, <1>5, <2>1
<1>6. CASE n # 0
  <2>1. n \in 1..Len(list) /\ n - 1 \in 0..Len(list) /\ n - 1 \notin Bad
    BY <1>1, <1>3, <1>6
  <2>2. KeptFits(list, cuts, n - 1, k[n - 1])
    BY <2>1
  <2>3. CASE list[n] \in cuts
    <3>1. k[n] = k[n - 1]
      BY <1>4, <2>1, <2>3
    <3>2. KeptFits(list, cuts, n, k[n])
      BY <1>1, <2>1, <2>2, <3>1 DEF KeptFits
    <3> QED BY <1>3, <3>2
  <2>4. CASE list[n] \notin cuts
    <3> DEFINE p == k[n - 1]
    <3> DEFINE w == list[n]
    <3>1. k[n] = Append(p, w) /\ w \in Wits /\ p \in Seq(Wits)
      <4>1. w \in Wits
        BY <1>1, <2>1
      <4>2. p \in Seq(Wits)
        BY <2>2 DEF KeptFits
      <4> QED BY <1>4, <2>1, <2>4, <4>1, <4>2
    <3>2. \A i \in DOMAIN p : p[i] # w
      <4> SUFFICES ASSUME NEW i \in DOMAIN p, p[i] = w PROVE FALSE
        OBVIOUS
      <4>1. PICK j \in 1..(n - 1) : p[i] = list[j]
        BY <2>2 DEF KeptFits
      <4>2. j \in DOMAIN list /\ n \in DOMAIN list /\ j # n /\ list[j] = list[n]
        BY <1>1, <2>1, <4>1
      <4> QED BY <4>2 DEF IsInjective
    <3>3. \A i \in DOMAIN p : \E j \in 1..n : p[i] = list[j] /\ list[j] \notin cuts
      <4>1. 1..(n - 1) \subseteq 1..n
        BY <1>1, <2>1
      <4> QED BY <2>2, <4>1 DEF KeptFits
    <3>4. IsInjective(p)
      BY <2>2 DEF KeptFits
    <3> HIDE DEF p
    <3>5. /\ Append(p, w) \in Seq(Wits) /\ DOMAIN Append(p, w) = DOMAIN p \cup {Len(p) + 1}
          /\ Append(p, w)[Len(p) + 1] = w /\ Len(p) + 1 \notin DOMAIN p
          /\ \A i \in DOMAIN p : Append(p, w)[i] = p[i]
      BY <3>1
    <3> HIDE DEF w
    <3>6. IsInjective(Append(p, w))
      BY <3>2, <3>4, <3>5 DEF IsInjective
    <3>7. \A i \in DOMAIN Append(p, w) : \E j \in 1..n : Append(p, w)[i] = list[j] /\ list[j] \notin cuts
      <4>1. n \in 1..n /\ w = list[n]
        BY <1>1, <2>1 DEF w
      <4> QED BY <2>4, <3>3, <3>5, <4>1
    <3>8. KeptFits(list, cuts, n, k[n])
      BY <3>1, <3>5, <3>6, <3>7 DEF KeptFits
    <3> QED BY <1>3, <3>8
  <2> QED BY <2>3, <2>4
<1> QED BY <1>5, <1>6

(* A list without duplicates is no longer than there are witnesses.        *)
LEMMA ListLength ==
  ASSUME NEW list \in Seq(Wits), IsInjective(list)
  PROVE  /\ DOMAIN list \subseteq 1..Cardinality(Wits) /\ DOMAIN list \subseteq Nat
         /\ \A i \in DOMAIN list : list[i] \in Wits
<1>1. Len(list) \in Nat /\ DOMAIN list = 1..Len(list) /\ list \in [1..Len(list) -> Wits]
  OBVIOUS
<1>2. list \in Injection(1..Len(list), Wits)
  BY <1>1 DEF Injection, IsInjective
<1>3. IsFiniteSet(Wits)
  BY ReceiptsAssumption
<1>4. Cardinality(1..Len(list)) <= Cardinality(Wits)
  BY <1>2, <1>3, FS_Injection
<1>5. Cardinality(1..Len(list)) = Len(list)
  BY <1>1, FS_Interval
<1>6. Cardinality(Wits) \in Nat
  BY <1>3, FS_CardinalityType
<1> QED BY <1>1, <1>4, <1>5, <1>6

(* What an event must say of a list it adds to.                            *)
Fitting(list) == list \in Seq(Wits) /\ IsInjective(list)

(* What the assumption says of an event.                                   *)
LEMMA EventFacts ==
  ASSUME NEW e \in Events
  PROVE  /\ Sn(e) \in 0..MaxSn /\ Sn(e) \in Nat /\ Ev[e].ilk \in {"icp", "rot", "ixn"}
         /\ Fitting(Ev[e].adds) /\ Ev[e].toad \in Nat /\ e # NoEvent
         /\ (Ev[e].ilk = "icp" => Sn(e) = 0) /\ (Ev[e].ilk = "ixn" => Ev[e].prior \in Events)
BY ReceiptsAssumption DEF Sn, Fitting

(* What the assumption says of a receipt.                                  *)
LEMMA ReceiptFacts ==
  ASSUME NEW r \in Sent
  PROVE  /\ r.said \in Events /\ r.kind \in {"cig", "wig", "tsg"}
         /\ (r.kind = "cig" => r.by \in Wits \cup Signers) /\ (r.kind = "tsg" => r.by \in Ests)
BY ReceiptsAssumption DEF ReceiptType

(* The list after the changes of an event that fits the one before it.     *)
LEMMA ChangedFits ==
  ASSUME NEW e \in Events, Fitting(kever.wits), ValidBacks(e)
  PROVE  Fitting(Changed(e, kever.wits))
<1> DEFINE list == kever.wits
<1> DEFINE kept == Kept(list, Ev[e].cuts)
<1> DEFINE adds == Ev[e].adds
<1>1. KeptFits(list, Ev[e].cuts, Len(list), kept)
  BY KeptFacts DEF Fitting
<1>2. adds \in Seq(Wits) /\ IsInjective(adds)
  BY EventFacts DEF Fitting
<1>3. \A i \in DOMAIN kept : \A j \in DOMAIN adds : kept[i] # adds[j]
  <2> SUFFICES ASSUME NEW i \in DOMAIN kept, NEW j \in DOMAIN adds, kept[i] = adds[j]
               PROVE  FALSE
    OBVIOUS
  <2>1. PICK l \in 1..Len(list) : kept[i] = list[l]
    BY <1>1 DEF KeptFits
  <2>2. list[l] \in ToSet(list)
    <3>1. l \in DOMAIN list
      BY DEF Fitting
    <3> QED BY <3>1 DEF ToSet
  <2>3. adds[j] \in ToSet(adds)
    BY DEF ToSet
  <2> QED BY <2>1, <2>2, <2>3 DEF ValidBacks
<1>4. kept \in Seq(Wits) /\ IsInjective(kept)
  BY <1>1 DEF KeptFits
<1> HIDE DEF kept, adds
<1>5. /\ kept \o adds \in Seq(Wits) /\ Len(kept \o adds) = Len(kept) + Len(adds)
      /\ \A i \in 1..Len(kept) + Len(adds) :
           (kept \o adds)[i] = IF i <= Len(kept) THEN kept[i] ELSE adds[i - Len(kept)]
  BY <1>2, <1>4, ConcatProperties
<1>6. IsInjective(kept \o adds)
  <2> SUFFICES ASSUME NEW i \in DOMAIN (kept \o adds), NEW j \in DOMAIN (kept \o adds),
                      (kept \o adds)[i] = (kept \o adds)[j]
               PROVE  i = j
    BY DEF IsInjective
  <2>1. /\ Len(kept) \in Nat /\ Len(adds) \in Nat /\ DOMAIN kept = 1..Len(kept)
        /\ DOMAIN adds = 1..Len(adds)
        /\ i \in 1..Len(kept) + Len(adds) /\ j \in 1..Len(kept) + Len(adds)
    BY <1>2, <1>4, <1>5
  <2>2. CASE i <= Len(kept) /\ j <= Len(kept)
    <3>1. i \in DOMAIN kept /\ j \in DOMAIN kept /\ kept[i] = kept[j]
      BY <1>5, <2>1, <2>2
    <3> QED BY <1>4, <3>1 DEF IsInjective
  <2>3. CASE i <= Len(kept) /\ ~(j <= Len(kept))
    <3>1. i \in DOMAIN kept /\ j - Len(kept) \in DOMAIN adds /\ kept[i] = adds[j - Len(kept)]
      BY <1>5, <2>1, <2>3
    <3> QED BY <1>3, <3>1
  <2>4. CASE ~(i <= Len(kept)) /\ j <= Len(kept)
    <3>1. j \in DOMAIN kept /\ i - Len(kept) \in DOMAIN adds /\ kept[j] = adds[i - Len(kept)]
      BY <1>5, <2>1, <2>4
    <3> QED BY <1>3, <3>1
  <2>5. CASE ~(i <= Len(kept)) /\ ~(j <= Len(kept))
    <3>1. /\ i - Len(kept) \in DOMAIN adds /\ j - Len(kept) \in DOMAIN adds
          /\ adds[i - Len(kept)] = adds[j - Len(kept)]
      BY <1>5, <2>1, <2>5
    <3>2. i - Len(kept) = j - Len(kept)
      BY <1>2, <3>1 DEF IsInjective
    <3> QED BY <2>1, <3>2
  <2> QED BY <2>1, <2>2, <2>3, <2>4, <2>5
<1>7. Changed(e, list) = kept \o adds
  BY DEF Changed, kept, adds
<1> QED BY <1>5, <1>6, <1>7 DEF Fitting

(* The witness lists in use name no witness twice and no more than there   *)
(* are.                                                                    *)
LEMMA ListsFit ==
  ASSUME ReceiptsInv
  PROVE  Fitting(kever.wits) /\ \A e \in Events : Fitting(backers[e])
BY DEF ReceiptsInv, TypeOK, ListsHeld, Fitting

(* So does the list after a valid event (Kever.deriveBacks).               *)
LEMMA WitsForFits ==
  ASSUME ReceiptsInv, NEW e \in Events, Acceptable(e)
  PROVE  Fitting(WitsFor(e))
<1>1. Fitting(kever.wits) /\ Fitting(Ev[e].adds) /\ Ev[e].ilk \in {"icp", "rot", "ixn"}
  BY ListsFit, EventFacts
<1>2. CASE Ev[e].ilk = "rot" /\ ~(TipSn >= Sn(e))
  <2>1. Accepted /\ kever.said \in Events
    BY <1>2 DEF Acceptable, Accepted, ReceiptsInv, TypeOK
  <2>2. TipSn \in Nat /\ Sn(e) \in Nat
    BY <2>1, EventFacts DEF TipSn
  <2>3. ValidBacks(e)
    BY <1>2, <2>2 DEF Acceptable
  <2> QED BY <1>1, <1>2, <2>3, ChangedFits DEF WitsFor
<1> QED BY <1>1, <1>2 DEF WitsFor

(* So does the list worked out for an event that waits                     *)
(* (_processEscrowFindUnver).                                              *)
LEMMA UnverWitsFit ==
  ASSUME ReceiptsInv, NEW e \in Events, Fits(e)
  PROVE  Fitting(UnverWits(e))
<1>1. Fitting(kever.wits) /\ Fitting(Ev[e].adds) /\ Ev[e].ilk \in {"icp", "rot", "ixn"}
  BY ListsFit, EventFacts
<1>2. CASE Ev[e].ilk = "rot"
  BY <1>1, <1>2, ChangedFits DEF Fits, UnverWits
<1> QED BY <1>1, <1>2 DEF UnverWits

(* Where an event was accepted a list is in force.                         *)
LEMMA WitnessStateFits ==
  ASSUME ReceiptsInv, NEW n \in 0..MaxSn, kels[n] # <<>>
  PROVE  Fitting(WitnessState(n))
<1>1. EstablishedAt(0)
  BY DEF ReceiptsInv, KeyStateHeld
<1> DEFINE E == {m \in 0..n : EstablishedAt(m)}
<1>2. E \in SUBSET Nat /\ 0 \in E /\ n \in Nat /\ \A m \in E : m <= n
  BY <1>1
<1>3. PICK k \in E : \A m \in E : m <= k
  <2> HIDE DEF E
  <2> QED BY <1>2, GreatestExists
<1>4. \E m \in 0..n : EstablishedAt(m) /\ \A j \in (m + 1)..n : ~EstablishedAt(j)
  <2>1. \A j \in (k + 1)..n : j \in 0..n /\ ~(j <= k)
    BY <1>2
  <2>2. k \in 0..n /\ EstablishedAt(k) /\ \A j \in (k + 1)..n : ~EstablishedAt(j)
    BY <1>3, <2>1
  <2> HIDE DEF E
  <2> QED BY <2>2
<1> DEFINE c == CHOOSE m \in 0..n : EstablishedAt(m) /\ \A j \in (m + 1)..n : ~EstablishedAt(j)
<1>5. c \in 0..n /\ EstablishedAt(c)
  <2> HIDE DEF E
  <2> QED BY <1>4
<1>6. WitnessState(n) = backers[LastEstablishing(c)]
  BY DEF WitnessState
<1> HIDE DEF c, E
<1>7. LastEstablishing(c) \in Events
  <2>1. c \in 0..MaxSn /\ kels[c] \in Seq(Events)
    BY <1>5, ReceiptsAssumption DEF ReceiptsInv, TypeOK
  <2> DEFINE I == {i \in DOMAIN kels[c] : Establishing(kels[c][i])}
  <2>2. I \in SUBSET Nat /\ I # {} /\ Len(kels[c]) \in Nat /\ \A i \in I : i <= Len(kels[c])
    BY <1>5, <2>1 DEF EstablishedAt
  <2>3. PICK i \in I : \A j \in I : j <= i
    <3> HIDE DEF I
    <3> QED BY <2>2, GreatestExists
  <2>4. \E l \in DOMAIN kels[c] :
          /\ Establishing(kels[c][l])
          /\ \A j \in DOMAIN kels[c] : Establishing(kels[c][j]) => j <= l
    BY <2>3
  <2> HIDE DEF I
  <2> DEFINE d == CHOOSE l \in DOMAIN kels[c] :
          /\ Establishing(kels[c][l])
          /\ \A j \in DOMAIN kels[c] : Establishing(kels[c][j]) => j <= l
  <2>5. d \in DOMAIN kels[c]
    BY <2>4
  <2>6. LastEstablishing(c) = kels[c][d]
    BY DEF LastEstablishing
  <2> HIDE DEF d
  <2> QED BY <2>1, <2>5, <2>6
<1> QED BY <1>6, <1>7, ListsFit

-----------------------------------------------------------------------------
(* Signatures                                                              *)

(* There are finitely many indexed signatures.                             *)
LEMMA WigTypeFinite == IsFiniteSet(WigType)
<1>1. IsFiniteSet(Wits) /\ Cardinality(Wits) \in Nat
  BY ReceiptsAssumption, FS_CardinalityType
<1> DEFINE P == Wits \X (1..Cardinality(Wits))
<1>2. IsFiniteSet(P)
  <2>1. IsFiniteSet(1..Cardinality(Wits))
    BY <1>1, FS_Interval
  <2> QED BY <1>1, <2>1, FS_Product
<1> DEFINE f == [p \in P |-> [by |-> p[1], at |-> p[2]]]
<1>3. f \in Surjection(P, WigType)
  <2>1. f \in [P -> WigType]
    BY DEF WigType
  <2>2. \A w \in WigType : \E p \in P : f[p] = w
    <3> TAKE w \in WigType
    <3>1. <<w.by, w.at>> \in P /\ f[<<w.by, w.at>>] = w
      BY DEF WigType
    <3> QED BY <3>1
  <2> QED BY <2>1, <2>2 DEF Surjection
<1> HIDE DEF f, P
<1> QED BY <1>2, <1>3, FS_Surjection

(* More signatures pass a threshold that fewer pass.                       *)
LEMMA MorePass ==
  ASSUME NEW list, NEW S, NEW T \in SUBSET WigType, NEW n \in Nat,
         {w \in S : Verifies(w, list)} \subseteq T,
         Cardinality({w \in S : Verifies(w, list)}) >= n
  PROVE  Cardinality({w \in T : Verifies(w, list)}) >= n
<1> DEFINE A == {w \in S : Verifies(w, list)}
<1> DEFINE B == {w \in T : Verifies(w, list)}
<1>1. A \subseteq B /\ B \subseteq WigType
  OBVIOUS
<1> HIDE DEF A, B
<1>2. IsFiniteSet(B)
  BY <1>1, WigTypeFinite, FS_Subset
<1>3. IsFiniteSet(A) /\ Cardinality(A) <= Cardinality(B)
  BY <1>1, <1>2, FS_Subset
<1>4. Cardinality(A) \in Nat /\ Cardinality(B) \in Nat
  BY <1>2, <1>3, FS_CardinalityType
<1>5. Cardinality(A) >= n
  BY DEF A
<1>6. Cardinality(B) >= n
  BY <1>3, <1>4, <1>5
<1> QED BY <1>6 DEF B

(* What verifies against a list of witnesses is an indexed signature.      *)
LEMMA VerifiesType ==
  ASSUME NEW list, Fitting(list), NEW r, Verifies(Wig(r), list)
  PROVE  Wig(r) \in WigType
<1>1. Wig(r) = [by |-> r.by, at |-> r.at]
  BY DEF Wig
<1>2. r.at \in DOMAIN list /\ list[r.at] = r.by
  BY <1>1 DEF Verifies
<1>3. r.at \in 1..Cardinality(Wits) /\ r.by \in Wits
  BY <1>2, ListLength DEF Fitting
<1> QED BY <1>1, <1>3 DEF WigType

(* A witness of a list is indexed by a place the list has.                 *)
LEMMA IndexedType ==
  ASSUME NEW list, Fitting(list), NEW w \in ToSet(list)
  PROVE  Indexed(w, list) \in WigType
<1>1. \E i \in DOMAIN list : list[i] = w
  BY DEF ToSet
<1> DEFINE i == CHOOSE i \in DOMAIN list : list[i] = w
<1>2. i \in DOMAIN list /\ list[i] = w
  BY <1>1
<1>3. Indexed(w, list) = [by |-> w, at |-> i]
  BY DEF Indexed
<1> HIDE DEF i
<1>4. i \in 1..Cardinality(Wits) /\ w \in Wits
  BY <1>2, ListLength DEF Fitting
<1> QED BY <1>3, <1>4 DEF WigType

-----------------------------------------------------------------------------
(* The three ways of storing a receipt                                     *)

Wider == \A e \in Events : wigs[e] \subseteq wigs'[e]

(* The signatures keep their type, and none is lost.                       *)
HeldFits ==
  /\ wigs' \in [Events -> SUBSET WigType]
  /\ rcts' \in [Events -> SUBSET (Wits \cup Signers)]
  /\ vrcs' \in [Events -> SUBSET [est : Ests, said : Events]]
  /\ Wider
  /\ \A e \in Events : \A v \in vrcs'[e] :
       v \in vrcs[e] \/ (e \in ToSet(kels[Sn(e)]) /\ v.est \in known)

(* When nothing is stored, what was held is held.                          *)
LEMMA HeldSame == ASSUME TypeOK, UNCHANGED held PROVE HeldFits
BY DEF TypeOK, held, HeldFits, Wider

(* Storing a couple drops none that was held.                              *)
LEMMA StoreCoupleFits ==
  ASSUME TypeOK, NEW r \in Sent, r.kind = "cig", NEW list, list = <<>> \/ Fitting(list),
         StoreCouple(r, list)
  PROVE  HeldFits
<1>1. r.said \in Events /\ r.by \in Wits \cup Signers
  BY ReceiptFacts
<1>2. CASE r.by \in ToSet(list)
  <2>1. list # <<>>
    BY <1>2 DEF ToSet
  <2>2. Indexed(r.by, list) \in WigType
    BY <1>2, <2>1, IndexedType
  <2>3. wigs' = [wigs EXCEPT ![r.said] = @ \cup {Indexed(r.by, list)}] /\ UNCHANGED <<rcts, vrcs>>
    BY <1>2 DEF StoreCouple
  <2> QED BY <1>1, <2>2, <2>3 DEF TypeOK, HeldFits, Wider
<1>3. CASE r.by \notin ToSet(list)
  <2>1. rcts' = [rcts EXCEPT ![r.said] = @ \cup {r.by}] /\ UNCHANGED <<wigs, vrcs>>
    BY <1>3 DEF StoreCouple
  <2> QED BY <1>1, <2>1 DEF TypeOK, HeldFits, Wider
<1> QED BY <1>2, <1>3

(* Storing an indexed signature drops none that was held.                  *)
LEMMA StoreIndexedFits ==
  ASSUME TypeOK, NEW r \in Sent, NEW list, Fitting(list), StoreIndexed(r, list)
  PROVE  HeldFits
<1>1. r.said \in Events
  BY ReceiptFacts
<1>2. CASE Verifies(Wig(r), list)
  <2>1. Wig(r) \in WigType
    BY <1>2, VerifiesType
  <2>2. wigs' = [wigs EXCEPT ![r.said] = @ \cup {Wig(r)}] /\ UNCHANGED <<rcts, vrcs>>
    BY <1>2 DEF StoreIndexed
  <2> QED BY <1>1, <2>1, <2>2 DEF TypeOK, HeldFits, Wider
<1>3. CASE ~Verifies(Wig(r), list)
  BY <1>3 DEF StoreIndexed, TypeOK, HeldFits, Wider
<1> QED BY <1>2, <1>3

(* Storing a receipt of a transferable identifier drops none, and its      *)
(* establishment event was accepted.                                       *)
LEMMA StoreTransferableFits ==
  ASSUME TypeOK, NEW r \in Sent, r.kind = "tsg", NEW e \in Events, EstKnown(r.by), e \in ToSet(kels[Sn(e)]),
         StoreTransferable(r, e)
  PROVE  HeldFits
<1>1. r.said \in Events /\ r.by \in Ests /\ r.by \in known
  BY ReceiptFacts DEF EstKnown, TypeOK
<1>2. vrcs' = [vrcs EXCEPT ![e] = @ \cup {[est |-> r.by, said |-> r.said]}] /\ UNCHANGED <<wigs, rcts>>
  BY DEF StoreTransferable
<1> QED BY <1>1, <1>2 DEF TypeOK, HeldFits, Wider

(* The event accepted last at a sn was accepted.                           *)
LEMMA LastLogged ==
  ASSUME ReceiptsInv, NEW n \in 0..MaxSn, kels[n] # <<>>
  PROVE  LastAt(n) \in Events /\ Sn(LastAt(n)) = n /\ Logged(LastAt(n))
<1>1. kels[n] \in Seq(Events)
  BY DEF ReceiptsInv, TypeOK
<1>2. Len(kels[n]) \in DOMAIN kels[n] /\ LastAt(n) = kels[n][Len(kels[n])] /\ LastAt(n) \in Events
  BY <1>1 DEF LastAt
<1>3. Sn(LastAt(n)) = n
  BY <1>2 DEF ReceiptsInv, Placed
<1>4. LastAt(n) \in ToSet(kels[n])
  BY <1>2 DEF ToSet
<1> QED BY <1>2, <1>3, <1>4 DEF Logged

-----------------------------------------------------------------------------
(* Steps that leave the log                                                *)

(* A step that accepts nothing keeps the invariant.                        *)
LEMMA KeepInv ==
  ASSUME ReceiptsInv, TypeOK', HeldFits, UNCHANGED <<kever, kels, backers>>, evts \subseteq evts',
         known \subseteq known'
  PROVE  ReceiptsInv'
<1>1. Placed'
  BY DEF ReceiptsInv, Placed
<1>2. KeyStateHeld'
  BY DEF ReceiptsInv, KeyStateHeld, Accepted, Logged, EstablishedAt, TipSn
<1>3. EstsHeld'
  BY DEF ReceiptsInv, EstsHeld, Logged
<1>4. ListsHeld'
  BY DEF ReceiptsInv, ListsHeld
<1>5. VerifiedReceipts'
  BY DEF ReceiptsInv, VerifiedReceipts, HeldFits, Logged
<1>6. AcceptedWitnessed'
  <2> SUFFICES ASSUME NEW e \in Events, Logged(e), backers[EstOf[e]] # <<>>
               PROVE  Cardinality({w \in wigs'[e] : Verifies(w, backers[EstOf[e]])}) >= Ev[EstOf[e]].toad
    BY DEF AcceptedWitnessed, Logged
  <2>1. Cardinality({w \in wigs[e] : Verifies(w, backers[EstOf[e]])}) >= Ev[EstOf[e]].toad
    BY DEF ReceiptsInv, AcceptedWitnessed
  <2>2. EstOf[e] \in Events
    BY ReceiptsAssumption DEF EstOf, EstMaps
  <2>3. Ev[EstOf[e]].toad \in Nat
    BY <2>2, EventFacts
  <2>4. wigs'[e] \in SUBSET WigType /\ wigs[e] \subseteq wigs'[e]
    BY DEF HeldFits, Wider
  <2> QED BY <2>1, <2>3, <2>4, MorePass
<1> QED BY <1>1, <1>2, <1>3, <1>4, <1>5, <1>6 DEF ReceiptsInv

-----------------------------------------------------------------------------
(* Acceptance                                                              *)

(* The establishment event an event is under: itself, or that of its prior *)
(* event.                                                                  *)
LEMMA EstOfFacts ==
  ASSUME NEW e \in Events
  PROVE  /\ EstOf[e] \in Events
         /\ EstOf[e] = IF Establishing(e) THEN e ELSE EstOf[Ev[e].prior]
<1>1. EstOf \in EstMaps
  BY ReceiptsAssumption DEF EstOf
<1> QED BY <1>1 DEF EstMaps

(* An establishment event that is accepted is new and above those before.  *)
LEMMA AcceptedIsNew ==
  ASSUME ReceiptsInv, NEW e \in Events, Acceptable(e), Establishing(e)
  PROVE  ~Logged(e) /\ (Accepted => Sn(kever.est) < Sn(e))
<1>1. Sn(e) \in Nat /\ Sn(e) \in 0..MaxSn /\ Ev[e].ilk \in {"icp", "rot", "ixn"}
  BY EventFacts
<1>2. CASE ~Accepted
  <2>1. kels[Sn(e)] = <<>>
    BY <1>1, <1>2 DEF ReceiptsInv, KeyStateHeld
  <2> QED BY <1>2, <2>1 DEF Logged, ToSet
<1>3. CASE Accepted
  <2>1. kever.said \in Events /\ kever.est \in Events
    <3>1. kever.said \in Events /\ EstOf[kever.said] = kever.est
      BY <1>3 DEF ReceiptsInv, TypeOK, Accepted, KeyStateHeld
    <3> QED BY <3>1, EstOfFacts
  <2>2. TipSn \in Nat /\ Sn(kever.est) \in Nat /\ Sn(kever.est) <= TipSn
    BY <1>3, <2>1, EventFacts DEF TipSn, ReceiptsInv, KeyStateHeld
  <2>3. Sn(kever.est) < Sn(e)
    BY <1>1, <1>3, <2>2 DEF Acceptable
  <2>4. EstOf[e] = e
    BY EstOfFacts
  <2>5. Logged(e) => Sn(e) <= Sn(kever.est)
    BY <2>4 DEF ReceiptsInv, EstsHeld
  <2> QED BY <1>1, <2>2, <2>3, <2>5
<1> QED BY <1>2, <1>3

(* The establishment event of what is accepted, and the list in force.     *)
LEMMA AcceptedStands ==
  ASSUME ReceiptsInv, NEW e \in Events, Acceptable(e)
  PROVE  /\ EstOf[e] = Governor(e) /\ Establishing(Governor(e))
         /\ (Establishing(e) <=> Governor(e) = e)
         /\ ~Establishing(e) =>
              /\ Accepted /\ Governor(e) = kever.est /\ Logged(kever.est) /\ kever.est \in Events
              /\ WitsFor(e) = backers[kever.est] /\ Sn(e) = TipSn + 1
<1>1. Ev[e].ilk \in {"icp", "rot", "ixn"}
  BY EventFacts
<1>2. CASE Establishing(e)
  BY <1>2, EstOfFacts DEF Governor
<1>3. CASE ~Establishing(e)
  <2>1. Ev[e].ilk = "ixn"
    BY <1>1, <1>3 DEF Establishing
  <2>2. Accepted /\ Ev[e].prior = kever.said /\ Sn(e) = TipSn + 1
    BY <2>1 DEF Acceptable
  <2>3. /\ kever.said \in Events /\ EstOf[kever.said] = kever.est /\ kever.wits = backers[kever.est]
        /\ Logged(kever.est)
    BY <2>2 DEF ReceiptsInv, TypeOK, Accepted, KeyStateHeld
  <2>4. EstOf[e] = kever.est
    BY <1>3, <2>2, <2>3, EstOfFacts
  <2>5. WitsFor(e) = kever.wits
    BY <2>1 DEF WitsFor
  <2>6. kever.est \in Events /\ Establishing(kever.est)
    <3>1. kever.est \in Events
      BY <2>3, EstOfFacts
    <3>2. CASE Establishing(kever.said)
      BY <2>3, <3>2, EstOfFacts
    <3>3. Establishing(kever.est)
      BY <2>2 DEF ReceiptsInv, KeyStateHeld
    <3> QED BY <3>1, <3>3
  <2> QED BY <1>3, <2>2, <2>3, <2>4, <2>5, <2>6 DEF Governor
<1> QED BY <1>2, <1>3

(* The log after an acceptance.                                            *)
LEMMA AcceptLogs ==
  ASSUME ReceiptsInv, NEW e \in Events, NEW W, Accept(e, W)
  PROVE  /\ \A f \in Events : Logged(f)' <=> Logged(f) \/ f = e
         /\ Placed'
         /\ \A m \in 0..MaxSn : \A i \in DOMAIN kels[m] : i \in DOMAIN kels'[m] /\ kels'[m][i] = kels[m][i]
         /\ \E i \in DOMAIN kels'[Sn(e)] : kels'[Sn(e)][i] = e
<1> DEFINE n == Sn(e)
<1>1. n \in 0..MaxSn /\ kels \in [0..MaxSn -> Seq(Events)] /\ kels[n] \in Seq(Events)
  BY EventFacts DEF ReceiptsInv, TypeOK
<1>2. kels' = [kels EXCEPT ![n] = Append(@, e)]
  BY DEF Accept
<1> HIDE DEF n
<1>3. kels'[n] = Append(kels[n], e) /\ \A m \in 0..MaxSn : m # n => kels'[m] = kels[m]
  BY <1>1, <1>2
<1>4. ToSet(kels'[n]) = ToSet(kels[n]) \cup {e}
  BY <1>1, <1>3, AppendToSet
<1>5. /\ Append(kels[n], e)[Len(kels[n]) + 1] = e /\ Len(kels[n]) + 1 \in DOMAIN Append(kels[n], e)
      /\ DOMAIN Append(kels[n], e) = DOMAIN kels[n] \cup {Len(kels[n]) + 1}
      /\ \A i \in DOMAIN kels[n] : Append(kels[n], e)[i] = kels[n][i]
  BY <1>1
<1>6. \A f \in Events : Logged(f)' <=> Logged(f) \/ f = e
  <2> TAKE f \in Events
  <2>1. Sn(f) \in 0..MaxSn
    BY EventFacts
  <2>2. CASE Sn(f) = n
    BY <1>4, <2>2 DEF Logged, n
  <2>3. CASE Sn(f) # n
    BY <1>3, <2>1, <2>3 DEF Logged, n
  <2> QED BY <2>2, <2>3
<1>7. \A m \in 0..MaxSn : \A i \in DOMAIN kels[m] : i \in DOMAIN kels'[m] /\ kels'[m][i] = kels[m][i]
  <2> TAKE m \in 0..MaxSn
  <2>1. CASE m = n
    BY <1>3, <1>5, <2>1
  <2>2. CASE m # n
    BY <1>3, <2>2
  <2> QED BY <2>1, <2>2
<1>8. Placed'
  <2> SUFFICES ASSUME NEW m \in 0..MaxSn, NEW i \in DOMAIN kels'[m]
               PROVE  Sn(kels'[m][i]) = m
    BY DEF Placed
  <2>1. CASE i \in DOMAIN kels[m]
    BY <1>7, <2>1 DEF ReceiptsInv, Placed
  <2>2. CASE i \notin DOMAIN kels[m]
    <3>1. m = n
      BY <1>3, <2>2
    <3>2. kels'[m][i] = e
      BY <1>3, <1>5, <2>2, <3>1
    <3> QED BY <3>1, <3>2 DEF n
  <2> QED BY <2>1, <2>2
<1>9. \E i \in DOMAIN kels'[n] : kels'[n][i] = e
  BY <1>3, <1>5
<1> QED BY <1>6, <1>7, <1>8, <1>9 DEF n

(* An acceptance with enough witnesses keeps the invariant.                *)
LEMMA AcceptInv ==
  ASSUME ReceiptsInv, NEW e \in Events, NEW W, Acceptable(e), Accept(e, W), TypeOK', HeldFits,
         e \in evts', evts \subseteq evts', known \subseteq known', Verified(e, W) \subseteq wigs'[e]
  PROVE  ReceiptsInv'
<1>0. PICK g \in Events : g = Governor(e)
  BY AcceptedStands, EstOfFacts
<1>1. kever' = [said |-> e, est |-> g, wits |-> WitsFor(e)]
  BY <1>0 DEF Accept
<1>2. /\ EstOf[e] = g /\ Establishing(g) /\ (Establishing(e) <=> g = e)
      /\ ~Establishing(e) =>
           /\ Accepted /\ g = kever.est /\ Logged(kever.est) /\ kever.est \in Events
           /\ WitsFor(e) = backers[kever.est] /\ Sn(e) = TipSn + 1
  BY <1>0, AcceptedStands
<1>3. g \in Events /\ Sn(g) \in Nat /\ Sn(e) \in Nat /\ e # NoEvent
  BY <1>2, EstOfFacts, EventFacts
<1>4. \A f \in Events : Logged(f)' <=> Logged(f) \/ f = e
  BY AcceptLogs
<1>5. backers' = IF Establishing(e) THEN [backers EXCEPT ![e] = WitsFor(e)] ELSE backers
  BY DEF Accept
<1>6. backers \in [Events -> Seq(Wits)]
  BY DEF ReceiptsInv, TypeOK
<1>7. backers'[g] = WitsFor(e)
  BY <1>2, <1>5, <1>6
<1>8. \A f \in Events : Logged(f) => EstOf[f] \in Events /\ Logged(EstOf[f]) /\ backers'[EstOf[f]] = backers[EstOf[f]]
  <2> SUFFICES ASSUME NEW f \in Events, Logged(f)
               PROVE  EstOf[f] \in Events /\ Logged(EstOf[f]) /\ backers'[EstOf[f]] = backers[EstOf[f]]
    OBVIOUS
  <2>1. EstOf[f] \in Events /\ Logged(EstOf[f])
    BY EstOfFacts DEF ReceiptsInv, EstsHeld
  <2>2. Establishing(e) => EstOf[f] # e
    BY <2>1, AcceptedIsNew
  <2> QED BY <1>5, <1>6, <2>1, <2>2
<1>9. Accepted' /\ Sn(kever'.est) = Sn(g) /\ TipSn' = Sn(e)
  BY <1>1, <1>3 DEF Accepted, TipSn
<1>10. Accepted => Sn(kever.est) <= Sn(g) /\ kever.est \in Events /\ Sn(kever.est) \in Nat
  <2> SUFFICES ASSUME Accepted
               PROVE  Sn(kever.est) <= Sn(g) /\ kever.est \in Events /\ Sn(kever.est) \in Nat
    OBVIOUS
  <2>1. kever.said \in Events /\ EstOf[kever.said] = kever.est
    BY DEF ReceiptsInv, TypeOK, Accepted, KeyStateHeld
  <2>2. kever.est \in Events /\ Sn(kever.est) \in Nat
    BY <2>1, EstOfFacts, EventFacts
  <2>3. CASE Establishing(e)
    BY <1>2, <1>3, <2>2, <2>3, AcceptedIsNew
  <2>4. CASE ~Establishing(e)
    BY <1>2, <2>2, <2>4
  <2> QED BY <2>2, <2>3, <2>4
<1>11. KeyStateHeld'
  <2>1. Logged(e)' /\ Logged(g)'
    <3>1. Logged(g) \/ g = e
      BY <1>2
    <3> QED BY <1>3, <1>4, <3>1
  <2>2. Sn(g) <= Sn(e)
    <3>1. CASE Establishing(e)
      BY <1>2, <1>3, <3>1
    <3>2. CASE ~Establishing(e)
      <4>1. kever.said \in Events /\ Sn(kever.est) <= TipSn
        BY <1>2, <3>2 DEF ReceiptsInv, TypeOK, Accepted, KeyStateHeld
      <4>2. TipSn \in Nat
        BY <4>1, EventFacts DEF TipSn
      <4> QED BY <1>2, <1>3, <3>2, <4>1, <4>2
    <3> QED BY <3>1, <3>2
  <2>3. EstablishedAt(0)'
    <3>1. 0 \in 0..MaxSn
      BY ReceiptsAssumption
    <3>2. CASE Accepted
      <4>1. PICK i \in DOMAIN kels[0] : Establishing(kels[0][i])
        BY <3>2 DEF ReceiptsInv, KeyStateHeld, EstablishedAt
      <4>2. i \in DOMAIN kels'[0] /\ kels'[0][i] = kels[0][i]
        BY <3>1, AcceptLogs
      <4> QED BY <4>1, <4>2 DEF EstablishedAt
    <3>3. CASE ~Accepted
      <4>1. Ev[e].ilk = "icp" /\ Establishing(e)
        BY <3>3 DEF Acceptable, Establishing
      <4>2. Sn(e) = 0
        BY <4>1, EventFacts
      <4>3. \E i \in DOMAIN kels'[0] : kels'[0][i] = e
        BY <4>2, AcceptLogs
      <4> QED BY <4>1, <4>3 DEF EstablishedAt
    <3> QED BY <3>2, <3>3
  <2>4. kever'.said = e /\ kever'.est = g /\ kever'.wits = backers'[g]
    BY <1>1, <1>7
  <2>5. Logged(kever.said)' /\ Logged(kever.est)'
    BY <2>1, <2>4 DEF Logged
  <2> QED BY <1>2, <1>9, <2>2, <2>3, <2>4, <2>5 DEF KeyStateHeld
<1>12. EstsHeld'
  <2> SUFFICES ASSUME NEW f \in Events, Logged(f)'
               PROVE  f \in evts' /\ Logged(EstOf[f])' /\ Sn(EstOf[f]) <= Sn(kever'.est)
    BY DEF EstsHeld
  <2>1. CASE f = e
    <3>1. Logged(g)'
      BY <1>2, <1>3, <1>4
    <3> QED BY <1>2, <1>3, <1>9, <2>1, <3>1
  <2>2. CASE Logged(f)
    <3>1. f \in evts /\ Sn(EstOf[f]) <= Sn(kever.est) /\ Logged(EstOf[f]) /\ EstOf[f] \in Events
      BY <1>8, <2>2 DEF ReceiptsInv, EstsHeld
    <3>2. Accepted
      <4>1. Sn(f) \in 0..MaxSn /\ kels[Sn(f)] # <<>>
        BY <2>2, EventFacts DEF Logged, ToSet
      <4> QED BY <4>1 DEF ReceiptsInv, KeyStateHeld
    <3>3. Sn(EstOf[f]) \in Nat
      BY <3>1, EventFacts
    <3>4. Sn(EstOf[f]) <= Sn(g)
      BY <1>3, <1>10, <3>1, <3>2, <3>3
    <3> QED BY <1>4, <1>9, <3>1, <3>4
  <2> QED BY <1>4, <2>1, <2>2
<1>13. ListsHeld'
  <2>1. Fitting(WitsFor(e))
    BY WitsForFits
  <2>2. \A f \in Events : backers'[f] = backers[f] \/ backers'[f] = WitsFor(e)
    BY <1>5, <1>6
  <2> QED BY <1>1, <2>1, <2>2 DEF ReceiptsInv, ListsHeld, Fitting
<1>14. AcceptedWitnessed'
  <2> SUFFICES ASSUME NEW f \in Events, Logged(f)', backers'[EstOf[f]] # <<>>
               PROVE  Cardinality({w \in wigs'[f] : Verifies(w, backers'[EstOf[f]])}) >= Ev[EstOf[f]].toad
    BY DEF AcceptedWitnessed
  <2>1. wigs'[f] \in SUBSET WigType /\ wigs[f] \subseteq wigs'[f] /\ Ev[EstOf[f]].toad \in Nat
    BY EstOfFacts, EventFacts DEF HeldFits, Wider
  <2>2. CASE f = e
    <3>1. WitsFor(e) # <<>> /\ EstOf[f] = g
      BY <1>2, <1>7, <2>2
    <3>2. Cardinality({w \in W : Verifies(w, WitsFor(e))}) >= Ev[g].toad
      BY <1>0, <3>1 DEF Accept, FullyWitnessed
    <3>3. {w \in W : Verifies(w, WitsFor(e))} \subseteq wigs'[f]
      BY <2>2 DEF Verified
    <3>4. PICK list : list = WitsFor(e)
      OBVIOUS
    <3>5. Ev[g].toad \in Nat /\ backers'[EstOf[f]] = list
      BY <1>7, <2>1, <3>1, <3>4
    <3>6. {w \in W : Verifies(w, list)} \subseteq wigs'[f] /\ Cardinality({w \in W : Verifies(w, list)}) >= Ev[g].toad
      BY <3>2, <3>3, <3>4
    <3>7. Cardinality({w \in wigs'[f] : Verifies(w, list)}) >= Ev[g].toad
      BY <2>1, <3>5, <3>6, MorePass
    <3> QED BY <3>1, <3>5, <3>7
  <2>3. CASE Logged(f)
    <3>1. backers'[EstOf[f]] = backers[EstOf[f]]
      BY <1>8, <2>3
    <3>2. Cardinality({w \in wigs[f] : Verifies(w, backers[EstOf[f]])}) >= Ev[EstOf[f]].toad
      BY <2>3, <3>1 DEF ReceiptsInv, AcceptedWitnessed
    <3> QED BY <2>1, <3>1, <3>2, MorePass
  <2> QED BY <1>4, <2>2, <2>3
<1>15. VerifiedReceipts'
  <2> SUFFICES ASSUME NEW f \in Events, NEW v \in vrcs'[f]
               PROVE  Logged(f)' /\ v.est \in known'
    BY DEF VerifiedReceipts
  <2>1. Logged(f) /\ v.est \in known
    BY DEF HeldFits, ReceiptsInv, VerifiedReceipts, Logged
  <2> QED BY <1>4, <2>1
<1>16. Placed'
  BY AcceptLogs
<1> QED BY <1>11, <1>12, <1>13, <1>14, <1>15, <1>16 DEF ReceiptsInv

-----------------------------------------------------------------------------
(* The actions                                                             *)

(* An event that comes with signatures, or is retried with those held.     *)
LEMMA EventInv ==
  ASSUME ReceiptsInv, NEW e \in Events, NEW W, Acceptable(e),
         Accept(e, W) \/ HoldPartiallyWitnessed(e, W),
         evts' = evts \cup {e}, HeldFits, Verified(e, W) \subseteq wigs'[e],
         UNCHANGED <<known, unverified, rcvd>>
  PROVE  ReceiptsInv'
<1>1. Sn(e) \in 0..MaxSn
  BY EventFacts
<1>2. /\ ures' = ures /\ uwes' = uwes /\ vres' = vres /\ rcvd' = rcvd /\ known' = known
  BY DEF unverified
<1>3. date' \in [Events -> {"none", "new", "old"}]
  BY DEF Accept, HoldPartiallyWitnessed, Put, ReceiptsInv, TypeOK
<1>4. CASE Accept(e, W)
  <2>1. kever' = [said |-> e, est |-> Governor(e), wits |-> WitsFor(e)]
    BY <1>4 DEF Accept
  <2>2. WitsFor(e) \in Seq(Wits) /\ Governor(e) \in Events
    BY WitsForFits, AcceptedStands, EstOfFacts DEF Fitting
  <2>3. kels' \in [0..MaxSn -> Seq(Events)]
    <3>1. kels[Sn(e)] \in Seq(Events) /\ kels \in [0..MaxSn -> Seq(Events)]
      BY <1>1 DEF ReceiptsInv, TypeOK
    <3>2. Append(kels[Sn(e)], e) \in Seq(Events)
      BY <3>1
    <3>3. kels' = [kels EXCEPT ![Sn(e)] = Append(kels[Sn(e)], e)]
      BY <1>4 DEF Accept
    <3> QED BY <1>1, <3>1, <3>2, <3>3
  <2>4. backers' \in [Events -> Seq(Wits)]
    BY <1>4, <2>2 DEF Accept, ReceiptsInv, TypeOK
  <2>5. pwes' \subseteq evts'
    BY <1>4 DEF Accept, ReceiptsInv, TypeOK
  <2>6. TypeOK'
    BY <1>2, <1>3, <2>1, <2>2, <2>3, <2>4, <2>5 DEF ReceiptsInv, TypeOK, HeldFits
  <2> QED BY <1>2, <1>4, <2>6, AcceptInv
<1>5. CASE HoldPartiallyWitnessed(e, W)
  <2>1. pwes' \subseteq evts' /\ UNCHANGED <<kever, kels, backers>>
    BY <1>5 DEF HoldPartiallyWitnessed, ReceiptsInv, TypeOK
  <2>2. TypeOK'
    BY <1>2, <1>3, <2>1 DEF ReceiptsInv, TypeOK, HeldFits
  <2> QED BY <1>2, <2>1, <2>2, KeepInv
<1> QED BY <1>4, <1>5

(* An event that comes with signatures of witnesses keeps the invariant.   *)
LEMMA ReceiveInv ==
  ASSUME ReceiptsInv, NEW e \in Events,
         NEW W \in SUBSET {Wig(r) : r \in {s \in Sent : s.kind = "wig" /\ s.said = e}},
         ReceiveEvent(e, W)
  PROVE  ReceiptsInv'
<1>1. Acceptable(e) /\ (Accept(e, W) \/ HoldPartiallyWitnessed(e, W)) /\ evts' = evts \cup {e}
      /\ UNCHANGED <<known, unverified, rcvd>>
  BY DEF ReceiveEvent
<1>2. Verified(e, W) \subseteq WigType
  BY <1>1, WitsForFits, VerifiesType DEF Verified
<1>3. wigs' = [wigs EXCEPT ![e] = @ \cup Verified(e, W)] /\ UNCHANGED <<rcts, vrcs>>
  BY DEF ReceiveEvent
<1>4. HeldFits /\ Verified(e, W) \subseteq wigs'[e]
  BY <1>2, <1>3 DEF HeldFits, Wider, ReceiptsInv, TypeOK
<1> QED BY <1>1, <1>4, EventInv

(* So does the retry of one that waits for its witnesses.                  *)
LEMMA RetryPartialInv ==
  ASSUME ReceiptsInv, NEW e \in Events, RetryPartialWigs(e)
  PROVE  ReceiptsInv'
<1>1. UNCHANGED <<evts, known, held, unverified, rcvd>> /\ e \in pwes
  BY DEF RetryPartialWigs
<1>2. HeldFits
  BY <1>1, HeldSame DEF ReceiptsInv
<1>3. CASE Stale(e) \/ ~Acceptable(e)
  <2>1. pwes' = pwes \ {e} /\ UNCHANGED <<kever, kels, backers, date>>
    BY <1>3 DEF RetryPartialWigs
  <2>2. TypeOK'
    BY <1>1, <2>1 DEF ReceiptsInv, TypeOK, held, unverified
  <2> QED BY <1>1, <1>2, <2>1, <2>2, KeepInv
<1>4. CASE ~(Stale(e) \/ ~Acceptable(e))
  <2>1. Acceptable(e) /\ (Accept(e, wigs[e]) \/ HoldPartiallyWitnessed(e, wigs[e]))
    BY <1>4 DEF RetryPartialWigs
  <2>2. evts' = evts \cup {e}
    BY <1>1 DEF ReceiptsInv, TypeOK
  <2>3. Verified(e, wigs[e]) \subseteq wigs'[e]
    BY <1>1 DEF Verified, held
  <2>4. PICK W : W = wigs[e]
    OBVIOUS
  <2>5. Accept(e, W) \/ HoldPartiallyWitnessed(e, W)
    BY <2>1, <2>4
  <2>6. Verified(e, W) \subseteq wigs'[e]
    BY <2>3, <2>4
  <2> QED BY <1>1, <1>2, <2>1, <2>2, <2>5, <2>6, EventInv
<1> QED BY <1>3, <1>4

(* A step that leaves the log, what is seen and the partially witnessed.   *)
LEMMA ReceiptInv ==
  ASSUME ReceiptsInv, UNCHANGED log, known \subseteq known', known' \subseteq Ests, HeldFits,
         \A r \in ures' : r \in ures \/ (r.kind = "cig" /\ r \in Sent),
         \A r \in uwes' : r \in uwes \/ (r.kind = "wig" /\ r \in Sent),
         \A r \in vres' : r \in vres \/ (r.kind = "tsg" /\ r \in Sent),
         date' \in [Events -> {"none", "new", "old"}], rcvd' \subseteq Sent
  PROVE  ReceiptsInv'
<1>1. UNCHANGED <<kever, kels, backers>> /\ evts' = evts /\ pwes' = pwes
  BY DEF log
<1>2. TypeOK'
  BY <1>1 DEF ReceiptsInv, TypeOK, HeldFits
<1> QED BY <1>1, <1>2, KeepInv

(* So does a receipt that comes on its own.                                *)
LEMMA ProcessInv ==
  ASSUME ReceiptsInv, NEW r \in Sent, processReceipt(r)
  PROVE  ReceiptsInv'
<1>1. UNCHANGED <<log, known>> /\ rcvd' \subseteq Sent /\ known \subseteq Ests
  BY DEF processReceipt, ReceiptsInv, TypeOK
<1>2. /\ r.said \in Events /\ r.kind \in {"cig", "wig", "tsg"} /\ Sn(r.said) \in 0..MaxSn
  BY ReceiptFacts, EventFacts
<1>3. TypeOK /\ date \in [Events -> {"none", "new", "old"}]
  BY DEF ReceiptsInv, TypeOK
<1>4. CASE EscrowReceipt(r)
  <2>1. HeldFits
    BY <1>3, <1>4, HeldSame DEF EscrowReceipt
  <2>2. date' \in [Events -> {"none", "new", "old"}]
    BY <1>3, <1>4 DEF EscrowReceipt, Put
  <2> QED BY <1>1, <1>4, <2>1, <2>2, ReceiptInv DEF EscrowReceipt, Hold
<1>5. CASE VerifyReceipt(r)
  <2>1. kels[Sn(r.said)] # <<>>
    BY <1>5 DEF VerifyReceipt
  <2>2. Fitting(WitnessState(Sn(r.said)))
    BY <1>2, <2>1, WitnessStateFits
  <2>3. PICK list : list = WitnessState(Sn(r.said))
    OBVIOUS
  <2>4. HeldFits
    <3>1. CASE r.kind = "cig"
      <4>1. StoreCouple(r, list)
        BY <1>5, <2>3, <3>1 DEF VerifyReceipt
      <4> QED BY <1>3, <2>2, <2>3, <3>1, <4>1, StoreCoupleFits
    <3>2. CASE r.kind = "wig"
      <4>1. StoreIndexed(r, list)
        BY <1>5, <2>3, <3>2 DEF VerifyReceipt
      <4> QED BY <1>3, <2>2, <2>3, <4>1, StoreIndexedFits
    <3>3. CASE r.kind = "tsg" /\ EstKnown(r.by)
      <4>1. PICK e : e = LastAt(Sn(r.said))
        OBVIOUS
      <4>2. e \in Events /\ e \in ToSet(kels[Sn(e)])
        BY <1>2, <2>1, <4>1, LastLogged DEF Logged
      <4>3. StoreTransferable(r, e)
        BY <1>5, <3>3, <4>1 DEF VerifyReceipt
      <4> QED BY <1>3, <3>3, <4>2, <4>3, StoreTransferableFits
    <3>4. CASE r.kind = "tsg" /\ ~EstKnown(r.by)
      <4>1. UNCHANGED held
        BY <1>5, <3>4 DEF VerifyReceipt
      <4> QED BY <1>3, <4>1, HeldSame
    <3> QED BY <1>2, <3>1, <3>2, <3>3, <3>4
  <2> QED BY <1>1, <1>3, <1>5, <2>4, ReceiptInv DEF VerifyReceipt, Hold
<1>6. CASE LoseReceipt(r)
  <2>1. HeldFits
    BY <1>3, <1>6, HeldSame DEF LoseReceipt
  <2> QED BY <1>1, <1>3, <1>6, <2>1, ReceiptInv DEF LoseReceipt, unverified
<1> QED BY <1>4, <1>5, <1>6 DEF processReceipt

(* So does a receipt attached to an event.                                 *)
LEMMA AttachedInv ==
  ASSUME ReceiptsInv, NEW r \in Sent, processAttachedReceipt(r)
  PROVE  ReceiptsInv'
<1>1. UNCHANGED <<log, known, ures, uwes, date>> /\ rcvd' \subseteq Sent /\ known \subseteq Ests
  BY DEF processAttachedReceipt, ReceiptsInv, TypeOK
<1>2. r.said \in Events /\ r.kind \in {"cig", "tsg"} /\ Sn(r.said) \in 0..MaxSn
  BY ReceiptFacts, EventFacts DEF processAttachedReceipt
<1>3. TypeOK /\ date \in [Events -> {"none", "new", "old"}]
  BY DEF ReceiptsInv, TypeOK
<1>4. HeldFits
  <2>1. CASE r.kind = "cig"
    <3>1. StoreCouple(r, <<>>)
      BY <2>1 DEF processAttachedReceipt
    <3> QED BY <1>3, <2>1, <3>1, StoreCoupleFits
  <2>2. CASE r.kind = "tsg" /\ EstKnown(r.by)
    <3>1. StoreTransferable(r, r.said) /\ IsLastAt(r.said, Sn(r.said))
      BY <2>2 DEF processAttachedReceipt
    <3>2. r.said \in ToSet(kels[Sn(r.said)])
      BY <1>2, <3>1, LastLogged DEF IsLastAt, Logged
    <3> QED BY <1>2, <1>3, <2>2, <3>1, <3>2, StoreTransferableFits
  <2>3. CASE r.kind = "tsg" /\ ~EstKnown(r.by)
    <3>1. UNCHANGED held
      BY <2>3 DEF processAttachedReceipt
    <3> QED BY <1>3, <3>1, HeldSame
  <2> QED BY <1>2, <2>1, <2>2, <2>3
<1> QED BY <1>1, <1>3, <1>4, ReceiptInv DEF processAttachedReceipt, Hold

(* So does the retry of a receipt of a nontransferable identifier.         *)
LEMMA NonTransInv ==
  ASSUME ReceiptsInv, NEW r \in Sent, RetryUnverNonTrans(r)
  PROVE  ReceiptsInv'
<1>1. UNCHANGED <<log, known, uwes, vres, date, rcvd>> /\ ures' = ures \ {r} /\ known \subseteq Ests
  BY DEF RetryUnverNonTrans, ReceiptsInv, TypeOK
<1>2. r.kind = "cig" /\ r.said \in Events /\ TypeOK /\ rcvd \subseteq Sent
      /\ date \in [Events -> {"none", "new", "old"}]
  BY ReceiptFacts DEF RetryUnverNonTrans, ReceiptsInv, TypeOK
<1>3. HeldFits
  <2>1. CASE FindCouple(r)
    <3>1. PICK list : list = UnverWits(r.said)
      OBVIOUS
    <3>2. Fitting(list) /\ StoreCouple(r, list)
      BY <1>2, <2>1, <3>1, UnverWitsFit DEF FindCouple
    <3> QED BY <1>2, <3>2, StoreCoupleFits
  <2>2. CASE StoreUnverCouple(r)
    <3>1. PICK list : list = kever.wits
      OBVIOUS
    <3>2. Fitting(list) /\ StoreCouple(r, list)
      BY <2>2, <3>1, ListsFit DEF StoreUnverCouple
    <3> QED BY <1>2, <3>2, StoreCoupleFits
  <2>3. CASE DropCouple(r)
    BY <1>2, <2>3, HeldSame DEF DropCouple
  <2> QED BY <2>1, <2>2, <2>3 DEF RetryUnverNonTrans
<1> QED BY <1>1, <1>2, <1>3, ReceiptInv

(* So does the retry of an indexed receipt.                                *)
LEMMA UnverWitnessInv ==
  ASSUME ReceiptsInv, NEW r \in Sent, RetryUnverWitness(r)
  PROVE  ReceiptsInv'
<1>1. UNCHANGED <<log, known, ures, vres, date, rcvd>> /\ uwes' = uwes \ {r} /\ known \subseteq Ests
  BY DEF RetryUnverWitness, ReceiptsInv, TypeOK
<1>2. r.said \in Events /\ TypeOK /\ rcvd \subseteq Sent
      /\ date \in [Events -> {"none", "new", "old"}]
  BY ReceiptFacts DEF ReceiptsInv, TypeOK
<1>3. HeldFits
  <2>1. CASE Fits(r.said) /\ StoreIndexed(r, UnverWits(r.said))
    <3>1. PICK list : list = UnverWits(r.said)
      OBVIOUS
    <3>2. Fitting(list) /\ StoreIndexed(r, list)
      BY <1>2, <2>1, <3>1, UnverWitsFit
    <3> QED BY <1>2, <3>2, StoreIndexedFits
  <2>2. CASE UNCHANGED held
    BY <1>2, <2>2, HeldSame
  <2> QED BY <2>1, <2>2 DEF RetryUnverWitness
<1> QED BY <1>1, <1>2, <1>3, ReceiptInv

(* So does the retry of a receipt of a transferable identifier.            *)
LEMMA UnverTransInv ==
  ASSUME ReceiptsInv, NEW r \in Sent, RetryUnverTrans(r)
  PROVE  ReceiptsInv'
<1>1. UNCHANGED <<log, known, ures, uwes, date, rcvd>> /\ vres' = vres \ {r} /\ known \subseteq Ests
  BY DEF RetryUnverTrans, ReceiptsInv, TypeOK
<1>2. r.kind = "tsg" /\ r.said \in Events /\ Sn(r.said) \in 0..MaxSn /\ TypeOK /\ rcvd \subseteq Sent
      /\ date \in [Events -> {"none", "new", "old"}]
  BY ReceiptFacts, EventFacts DEF RetryUnverTrans, ReceiptsInv, TypeOK
<1>3. HeldFits
  <2>1. CASE IsLastAt(r.said, Sn(r.said)) /\ EstKnown(r.by) /\ StoreTransferable(r, r.said)
    <3>1. r.said \in ToSet(kels[Sn(r.said)])
      BY <1>2, <2>1, LastLogged DEF IsLastAt, Logged
    <3> QED BY <1>2, <2>1, <3>1, StoreTransferableFits
  <2>2. CASE UNCHANGED held
    BY <1>2, <2>2, HeldSame
  <2> QED BY <2>1, <2>2 DEF RetryUnverTrans
<1> QED BY <1>1, <1>2, <1>3, ReceiptInv

(* The invariant holds of an empty log.                                    *)
LEMMA InitInv == Init => ReceiptsInv
<1> SUFFICES ASSUME Init PROVE ReceiptsInv
  OBVIOUS
<1> USE DEF Init
<1>1. TypeOK
  BY DEF TypeOK
<1>2. ~Accepted /\ \A e \in Events : Sn(e) \in 0..MaxSn
  BY EventFacts DEF Accepted
<1>3. \A e \in Events : ~Logged(e)
  BY <1>2 DEF Logged, ToSet
<1>4. Placed /\ KeyStateHeld
  BY <1>2 DEF Placed, KeyStateHeld
<1>5. EstsHeld /\ AcceptedWitnessed /\ VerifiedReceipts
  BY <1>3 DEF EstsHeld, AcceptedWitnessed, VerifiedReceipts
<1>6. ListsHeld
  BY DEF ListsHeld, IsInjective
<1> QED BY <1>1, <1>4, <1>5, <1>6 DEF ReceiptsInv

(* Every step keeps the invariant.                                         *)
LEMMA NextInv == ReceiptsInv /\ [Next]_vars => ReceiptsInv'
<1> SUFFICES ASSUME ReceiptsInv, [Next]_vars PROVE ReceiptsInv'
  OBVIOUS
<1>1. known \subseteq Ests /\ rcvd \subseteq Sent /\ date \in [Events -> {"none", "new", "old"}] /\ TypeOK
  BY DEF ReceiptsInv, TypeOK
<1>2. ASSUME UNCHANGED vars PROVE ReceiptsInv'
  <2>1. HeldFits
    BY <1>1, <1>2, HeldSame DEF vars
  <2> QED BY <1>1, <1>2, <2>1, ReceiptInv DEF vars, unverified
<1>3. ASSUME NEW e \in Events, Expire(e) PROVE ReceiptsInv'
  <2>1. UNCHANGED <<log, known, held, unverified, rcvd>>
    BY <1>3 DEF Expire
  <2>2. date' \in [Events -> {"none", "new", "old"}]
    BY <1>1, <1>3 DEF Expire
  <2>3. HeldFits
    BY <1>1, <2>1, HeldSame
  <2> QED BY <1>1, <2>1, <2>2, <2>3, ReceiptInv DEF unverified
<1>4. ASSUME NEW x \in Ests, LearnReceiptor(x) PROVE ReceiptsInv'
  <2>1. UNCHANGED <<log, held, unverified, date, rcvd>> /\ known' = known \cup {x}
    BY <1>4 DEF LearnReceiptor
  <2>2. HeldFits
    BY <1>1, <2>1, HeldSame
  <2> QED BY <1>1, <2>1, <2>2, ReceiptInv DEF unverified
<1>5. CASE Next
  BY <1>3, <1>4, <1>5, ReceiveInv, RetryPartialInv, ProcessInv, AttachedInv, NonTransInv,
     UnverWitnessInv, UnverTransInv DEF Next
<1> QED BY <1>2, <1>5

-----------------------------------------------------------------------------
(* The theorems                                                            *)

(* The log, the lists recorded with it and the signatures held stay        *)
(* consistent, whatever comes and in whatever order.                       *)
THEOREM ReceiptsInvariant == Spec => []ReceiptsInv
<1> QED BY InitInv, NextInv, PTL DEF Spec

(* Every variable keeps its type; in particular each witness signature     *)
(* held is at a place a list of witnesses can have.                        *)
THEOREM TypeCorrect == Spec => []TypeOK
<1>1. ReceiptsInv => TypeOK
  BY DEF ReceiptsInv
<1> QED BY <1>1, ReceiptsInvariant, PTL

(* Each accepted event has enough signatures of the witnesses listed for   *)
(* it, whether they came with it, before it or after it, as couples or     *)
(* indexed (Kever.valSigsWigsDel and the escrows of receipts).             *)
THEOREM AcceptedAreWitnessed == Spec => []AcceptedWitnessed
<1>1. ReceiptsInv => AcceptedWitnessed
  BY DEF ReceiptsInv
<1> QED BY <1>1, ReceiptsInvariant, PTL

(* A receipt of a transferable receiptor is stored for accepted events     *)
(* only, and under an establishment event of the receiptor's own log.      *)
THEOREM ReceiptsRestOnLogs == Spec => []VerifiedReceipts
<1>1. ReceiptsInv => VerifiedReceipts
  BY DEF ReceiptsInv
<1> QED BY <1>1, ReceiptsInvariant, PTL

-----------------------------------------------------------------------------
(* Logs without conflicting events                                         *)

(* At most one event is made at each sn.                                   *)
NoConflicts == \A e, f \in Events : Sn(e) = Sn(f) => e = f

(* What is logged reaches up to the latest event; what waits comes next,   *)
(* and the signatures held for it are at the places they are looked up at. *)
Reaches == Accepted => \A n \in 0..MaxSn : kels[n] # <<>> <=> n <= TipSn
WaitsVerified ==
  /\ \A e \in pwes : Acceptable(e)
  /\ \A e \in Events :
       wigs[e] # {} /\ ~Logged(e) =>
         Acceptable(e) /\ \A w \in wigs[e] : Verifies(w, WitsFor(e))
PendingInv == Reaches /\ WaitsVerified

(* The tip of the log is an event at a number the log can have.            *)
LEMMA TipType == ASSUME ReceiptsInv, Accepted PROVE kever.said \in Events /\ TipSn \in 0..MaxSn /\ TipSn \in Nat
<1>1. kever.said \in Events
  BY DEF ReceiptsInv, TypeOK, Accepted
<1> QED BY <1>1, EventFacts DEF TipSn

(* What can be accepted comes right after the latest event, or first.      *)
LEMMA NextInLine ==
  ASSUME NoConflicts, ReceiptsInv, Reaches, NEW e \in Events, Acceptable(e)
  PROVE  /\ ~Logged(e) /\ UnverWits(e) = WitsFor(e)
         /\ IF Accepted THEN Sn(e) = TipSn + 1 /\ Ev[e].prior = kever.said ELSE Sn(e) = 0
<1>1. Sn(e) \in 0..MaxSn /\ Sn(e) \in Nat /\ Ev[e].ilk \in {"icp", "rot", "ixn"}
  BY EventFacts
<1>2. CASE ~Accepted
  <2>1. kels[Sn(e)] = <<>> /\ Ev[e].ilk = "icp"
    BY <1>1, <1>2 DEF ReceiptsInv, KeyStateHeld, Acceptable
  <2> QED BY <1>2, <2>1, EventFacts DEF Logged, ToSet, UnverWits, WitsFor
<1>3. CASE Accepted
  <2>1. TipSn \in Nat /\ kever.said \in Events
    BY <1>3, TipType
  <2>2. Sn(e) <= TipSn => Logged(e) /\ Sn(kever.est) < Sn(e) /\ Establishing(e)
    <3> SUFFICES ASSUME Sn(e) <= TipSn PROVE Logged(e) /\ Sn(kever.est) < Sn(e) /\ Establishing(e)
      OBVIOUS
    <3>1. kels[Sn(e)] # <<>>
      BY <1>1, <1>3 DEF Reaches
    <3>2. PICK f \in Events : f = LastAt(Sn(e)) /\ Sn(f) = Sn(e) /\ Logged(f)
      BY <1>1, <3>1, LastLogged
    <3>3. f = e
      BY <3>2 DEF NoConflicts
    <3>4. Sn(e) # TipSn + 1
      BY <1>1, <2>1
    <3>5. Sn(kever.est) < Sn(e) /\ Ev[e].ilk = "rot"
      BY <1>3, <3>4 DEF Acceptable
    <3> QED BY <3>2, <3>3, <3>5 DEF Establishing
  <2>3. ~(Sn(e) <= TipSn)
    BY <2>2, AcceptedIsNew
  <2>4. Sn(e) = TipSn + 1 /\ Ev[e].prior = kever.said /\ Ev[e].ilk # "icp"
    BY <1>3, <2>3 DEF Acceptable
  <2>5. kels[Sn(e)] = <<>>
    BY <1>1, <1>3, <2>3 DEF Reaches
  <2>6. ~(TipSn >= Sn(e))
    BY <1>1, <2>1, <2>3
  <2> QED BY <1>1, <1>3, <2>4, <2>5, <2>6 DEF Logged, ToSet, UnverWits, WitsFor
<1> QED BY <1>2, <1>3

(* Without conflicting events, at most one event is acceptable at a time.  *)
LEMMA OneInLine ==
  ASSUME NoConflicts, ReceiptsInv, Reaches, NEW e \in Events, NEW f \in Events,
         Acceptable(e), Acceptable(f)
  PROVE  e = f
<1>1. Sn(e) = Sn(f)
  BY NextInLine
<1> QED BY <1>1 DEF NoConflicts

(* The event at a sn that was reached is the one that was accepted there.  *)
LEMMA ReachedIsLogged ==
  ASSUME NoConflicts, ReceiptsInv, NEW e \in Events, kels[Sn(e)] # <<>>
  PROVE  Logged(e)
<1>1. PICK f \in Events : f = LastAt(Sn(e)) /\ Sn(f) = Sn(e) /\ Logged(f)
  BY EventFacts, LastLogged
<1> QED BY <1>1 DEF NoConflicts

(* Steps that leave the log: signatures are added for what is logged, or   *)
(* for what comes next, at the places of its list.                         *)
LEMMA KeepPending ==
  ASSUME PendingInv, UNCHANGED <<kever, kels>>, pwes' \subseteq Events,
         \A e \in pwes' : Acceptable(e),
         \A e \in Events : \A w \in wigs'[e] :
           \/ w \in wigs[e] \/ Logged(e)
           \/ Acceptable(e) /\ Verifies(w, WitsFor(e)) /\ ~Logged(e)
  PROVE  PendingInv'
<1>1. \A e \in Events : Acceptable(e)' = Acceptable(e) /\ WitsFor(e)' = WitsFor(e) /\ Logged(e)' = Logged(e)
  BY DEF Acceptable, WitsFor, Logged, Accepted, TipSn, ValidBacks, IsLastAt, LastAt, Changed, Kept
<1>2. Reaches'
  BY DEF PendingInv, Reaches, Accepted, TipSn
<1>3. ASSUME NEW e \in Events, wigs'[e] # {}, ~Logged(e)
      PROVE  Acceptable(e) /\ \A w \in wigs'[e] : Verifies(w, WitsFor(e))
  <2>1. wigs[e] # {} => Acceptable(e) /\ \A w \in wigs[e] : Verifies(w, WitsFor(e))
    BY <1>3 DEF PendingInv, WaitsVerified
  <2> QED BY <1>3, <2>1
<1>4. WaitsVerified'
  BY <1>1, <1>3 DEF WaitsVerified
<1> QED BY <1>2, <1>4 DEF PendingInv

(* The event that comes next is accepted: nothing waits any more.          *)
LEMMA AcceptPending ==
  ASSUME NoConflicts, ReceiptsInv, PendingInv, NEW e \in Events, NEW W, Acceptable(e), Accept(e, W),
         \A f \in Events : f # e => wigs'[f] = wigs[f]
  PROVE  PendingInv'
<1>1. /\ Sn(e) \in 0..MaxSn /\ Sn(e) \in Nat
      /\ IF Accepted THEN Sn(e) = TipSn + 1 ELSE Sn(e) = 0
  BY EventFacts, NextInLine DEF PendingInv
<1>2. kels' = [kels EXCEPT ![Sn(e)] = Append(@, e)] /\ kever'.said = e /\ pwes' = pwes \ {e}
  BY DEF Accept
<1>3. TipSn' = Sn(e)
  BY <1>2 DEF TipSn
<1>4. kels \in [0..MaxSn -> Seq(Events)] /\ pwes \subseteq Events
  BY DEF ReceiptsInv, TypeOK
<1>5. Append(kels[Sn(e)], e) # <<>>
  <2>1. kels[Sn(e)] \in Seq(Events)
    BY <1>1, <1>4
  <2> QED BY <2>1
<1>6. Reaches'
  <2> SUFFICES ASSUME NEW n \in 0..MaxSn
               PROVE  kels'[n] # <<>> <=> n <= Sn(e)
    BY <1>3 DEF Reaches
  <2>1. CASE n = Sn(e)
    BY <1>1, <1>2, <1>4, <1>5, <2>1
  <2>2. CASE n # Sn(e)
    <3>1. kels'[n] = kels[n]
      BY <1>2, <1>4, <2>2
    <3>2. CASE Accepted
      <4>1. kels[n] # <<>> <=> n <= TipSn
        BY <3>2 DEF PendingInv, Reaches
      <4>2. TipSn \in Nat
        BY <3>2, TipType
      <4> QED BY <1>1, <2>2, <3>1, <3>2, <4>1, <4>2
    <3>3. CASE ~Accepted
      <4>1. kels[n] = <<>>
        BY <3>3 DEF ReceiptsInv, KeyStateHeld
      <4> QED BY <1>1, <2>2, <3>1, <3>3, <4>1
    <3> QED BY <3>2, <3>3
  <2> QED BY <2>1, <2>2
<1>7. pwes' = {}
  BY <1>2, <1>4, OneInLine DEF PendingInv, WaitsVerified
<1>8. ASSUME NEW f \in Events, wigs'[f] # {} PROVE Logged(f)'
  <2>1. CASE f = e
    BY <2>1, AcceptLogs
  <2>2. CASE f # e
    <3>1. wigs[f] # {} /\ ~Acceptable(f)
      BY <1>8, <2>2, OneInLine DEF PendingInv
    <3>2. Logged(f)
      BY <3>1 DEF PendingInv, WaitsVerified
    <3> QED BY <3>2, AcceptLogs
  <2> QED BY <2>1, <2>2
<1> QED BY <1>6, <1>7, <1>8 DEF PendingInv, WaitsVerified

(* An acceptance, or an event that begins to wait, leaves every signature  *)
(* of a waiting event by the witness its index names.                      *)
LEMMA EventPending ==
  ASSUME NoConflicts, ReceiptsInv, PendingInv, NEW e \in Events, NEW W, Acceptable(e),
         Accept(e, W) \/ HoldPartiallyWitnessed(e, W),
         wigs' = wigs \/ wigs' = [wigs EXCEPT ![e] = @ \cup Verified(e, W)]
  PROVE  PendingInv'
<1>1. wigs \in [Events -> SUBSET WigType] /\ pwes \subseteq Events
  BY DEF ReceiptsInv, TypeOK
<1>2. CASE Accept(e, W)
  BY <1>1, <1>2, AcceptPending
<1>3. CASE HoldPartiallyWitnessed(e, W)
  <2>1. UNCHANGED <<kever, kels>> /\ pwes' = pwes \cup {e}
    BY <1>3 DEF HoldPartiallyWitnessed
  <2>2. ~Logged(e)
    BY NextInLine DEF PendingInv
  <2>3. \A f \in Events : \A w \in wigs'[f] :
          w \in wigs[f] \/ (f = e /\ Verifies(w, WitsFor(e)))
    BY <1>1 DEF Verified
  <2>4. \A f \in pwes' : Acceptable(f)
    BY <2>1 DEF PendingInv, WaitsVerified
  <2> QED BY <1>1, <2>1, <2>2, <2>3, <2>4, KeepPending
<1> QED BY <1>2, <1>3

(* A receipt is stored for an event that is logged, or for the one that    *)
(* waits, with the list worked out for it.                                 *)
LEMMA StorePending ==
  ASSUME NoConflicts, ReceiptsInv, PendingInv, UNCHANGED log, NEW r \in Sent, NEW list,
         StoreCouple(r, list) \/ StoreIndexed(r, list),
         Logged(r.said) \/ (r.said \in pwes /\ list = UnverWits(r.said)) \/ list = <<>>
  PROVE  PendingInv'
<1>1. wigs \in [Events -> SUBSET WigType] /\ pwes \subseteq Events /\ r.said \in Events
  BY ReceiptFacts DEF ReceiptsInv, TypeOK
<1>2. \A f \in Events : \A w \in wigs'[f] : w \in wigs[f] \/ (f = r.said /\ Verifies(w, list))
  <2>1. CASE StoreIndexed(r, list)
    BY <1>1, <2>1 DEF StoreIndexed
  <2>2. CASE StoreCouple(r, list) /\ r.by \in ToSet(list)
    <3>1. \E i \in DOMAIN list : list[i] = r.by
      BY <2>2 DEF ToSet
    <3>2. Verifies(Indexed(r.by, list), list)
      BY <3>1 DEF Verifies, Indexed
    <3>3. wigs' = [wigs EXCEPT ![r.said] = @ \cup {Indexed(r.by, list)}]
      BY <2>2 DEF StoreCouple
    <3> QED BY <1>1, <3>2, <3>3
  <2>3. CASE StoreCouple(r, list) /\ r.by \notin ToSet(list)
    BY <2>3 DEF StoreCouple
  <2> QED BY <2>1, <2>2, <2>3
<1>3. \A w : ~Verifies(w, <<>>)
  BY DEF Verifies
<1>4. r.said \in pwes => /\ Acceptable(r.said) /\ ~Logged(r.said)
                         /\ UnverWits(r.said) = WitsFor(r.said)
  BY <1>1, NextInLine DEF PendingInv, WaitsVerified
<1>5. UNCHANGED <<kever, kels>> /\ pwes' = pwes
  BY DEF log
<1>6. \A f \in pwes' : Acceptable(f)
  BY <1>5 DEF PendingInv, WaitsVerified
<1> QED BY <1>1, <1>2, <1>3, <1>4, <1>5, <1>6, KeepPending

(* So does a step that changes neither the log nor the signatures.         *)
LEMMA SamePending ==
  ASSUME PendingInv, UNCHANGED <<log, wigs>>, pwes \subseteq Events
  PROVE  PendingInv'
<1>1. UNCHANGED <<kever, kels>> /\ pwes' = pwes
  BY DEF log
<1>2. \A f \in pwes' : Acceptable(f)
  BY <1>1 DEF PendingInv, WaitsVerified
<1> QED BY <1>1, <1>2, KeepPending

(* So does a receipt, whichever way it comes.                              *)
LEMMA ReceiptPending ==
  ASSUME NoConflicts, ReceiptsInv, PendingInv, NEW r \in Sent,
         \/ processReceipt(r) \/ processAttachedReceipt(r)
         \/ RetryUnverNonTrans(r) \/ RetryUnverWitness(r) \/ RetryUnverTrans(r)
  PROVE  PendingInv'
<1>1. pwes \subseteq Events /\ r.said \in Events /\ r.kind \in {"cig", "wig", "tsg"}
      /\ Sn(r.said) \in 0..MaxSn
  BY ReceiptFacts, EventFacts DEF ReceiptsInv, TypeOK
<1>2. UNCHANGED log
  BY DEF processReceipt, processAttachedReceipt, RetryUnverNonTrans, RetryUnverWitness, RetryUnverTrans
<1>3. ASSUME NEW e, StoreTransferable(r, e) PROVE PendingInv'
  BY <1>1, <1>2, <1>3, SamePending DEF StoreTransferable
<1>4. ASSUME UNCHANGED held PROVE PendingInv'
  BY <1>1, <1>2, <1>4, SamePending DEF held
<1>5. CASE processReceipt(r)
  <2>1. CASE VerifyReceipt(r)
    <3>1. Logged(r.said)
      BY <1>1, <2>1, ReachedIsLogged DEF VerifyReceipt
    <3>2. PICK list : list = WitnessState(Sn(r.said))
      OBVIOUS
    <3>3. \/ StoreCouple(r, list) \/ StoreIndexed(r, list)
          \/ StoreTransferable(r, LastAt(Sn(r.said))) \/ UNCHANGED held
      <4>1. r.kind = "cig" => StoreCouple(r, list)
        BY <2>1, <3>2 DEF VerifyReceipt
      <4>2. r.kind = "wig" => StoreIndexed(r, list)
        BY <2>1, <3>2 DEF VerifyReceipt
      <4>3. r.kind = "tsg" /\ EstKnown(r.by) => StoreTransferable(r, LastAt(Sn(r.said)))
        BY <2>1 DEF VerifyReceipt
      <4>4. r.kind = "tsg" /\ ~EstKnown(r.by) => UNCHANGED held
        BY <2>1 DEF VerifyReceipt
      <4> QED BY <1>1, <4>1, <4>2, <4>3, <4>4
    <3>4. PICK e : e = LastAt(Sn(r.said))
      OBVIOUS
    <3> QED BY <1>2, <1>3, <1>4, <3>1, <3>3, <3>4, StorePending
  <2> QED BY <1>4, <1>5, <2>1 DEF processReceipt, EscrowReceipt, LoseReceipt
<1>6. CASE processAttachedReceipt(r)
  <2>1. \/ StoreCouple(r, <<>>) \/ StoreTransferable(r, r.said) \/ UNCHANGED held
    <3>1. r.kind = "cig" => StoreCouple(r, <<>>)
      BY <1>6 DEF processAttachedReceipt
    <3>2. r.kind = "tsg" /\ EstKnown(r.by) => StoreTransferable(r, r.said)
      BY <1>6 DEF processAttachedReceipt
    <3>3. r.kind = "tsg" /\ ~EstKnown(r.by) => UNCHANGED held
      BY <1>6 DEF processAttachedReceipt
    <3>4. r.kind # "wig"
      BY <1>6 DEF processAttachedReceipt
    <3> QED BY <1>1, <3>1, <3>2, <3>3, <3>4
  <2> QED BY <1>2, <1>3, <1>4, <2>1, StorePending
<1>7. CASE RetryUnverNonTrans(r)
  <2>1. CASE FindCouple(r)
    <3>1. PICK list : list = UnverWits(r.said)
      OBVIOUS
    <3> QED BY <1>2, <2>1, <3>1, StorePending DEF FindCouple, InPwes
  <2>2. CASE StoreUnverCouple(r)
    <3>1. Logged(r.said)
      BY <1>1, <2>2, ReachedIsLogged DEF StoreUnverCouple, IsLastAt
    <3>2. PICK list : list = kever.wits
      OBVIOUS
    <3> QED BY <1>2, <2>2, <3>1, <3>2, StorePending DEF StoreUnverCouple
  <2>3. CASE DropCouple(r)
    BY <1>4, <2>3 DEF DropCouple
  <2> QED BY <1>7, <2>1, <2>2, <2>3 DEF RetryUnverNonTrans
<1>8. CASE RetryUnverWitness(r)
  <2>1. CASE InPwes(r) /\ StoreIndexed(r, UnverWits(r.said))
    <3>1. PICK list : list = UnverWits(r.said)
      OBVIOUS
    <3> QED BY <1>2, <2>1, <3>1, StorePending DEF InPwes
  <2> QED BY <1>4, <1>8, <2>1 DEF RetryUnverWitness
<1>9. CASE RetryUnverTrans(r)
  BY <1>3, <1>4, <1>9 DEF RetryUnverTrans
<1> QED BY <1>5, <1>6, <1>7, <1>8, <1>9

(* Every step keeps the signatures of waiting events at their places.      *)
LEMMA NextPending ==
  ASSUME NoConflicts, ReceiptsInv, PendingInv, [Next]_vars PROVE PendingInv'
<1>1. pwes \subseteq Events
  BY DEF ReceiptsInv, TypeOK
<1>2. CASE UNCHANGED vars
  BY <1>1, <1>2, SamePending DEF vars, held
<1>3. ASSUME NEW e \in Events, NEW W, ReceiveEvent(e, W) PROVE PendingInv'
  BY <1>3, EventPending DEF ReceiveEvent
<1>4. ASSUME NEW e \in Events, RetryPartialWigs(e) PROVE PendingInv'
  <2>1. PICK W : W = wigs[e]
    OBVIOUS
  <2>2. wigs' = wigs
    BY <1>4 DEF RetryPartialWigs, held
  <2>3. CASE Acceptable(e) /\ (Accept(e, W) \/ HoldPartiallyWitnessed(e, W))
    BY <2>2, <2>3, EventPending
  <2>4. CASE pwes' = pwes \ {e} /\ UNCHANGED <<kever, kels, backers, date>>
    <3>1. \A f \in pwes' : Acceptable(f)
      BY <2>4 DEF PendingInv, WaitsVerified
    <3> QED BY <1>1, <2>2, <2>4, <3>1, KeepPending
  <2> QED BY <1>4, <2>1, <2>3, <2>4 DEF RetryPartialWigs
<1>5. ASSUME NEW e \in Events, Expire(e) PROVE PendingInv'
  BY <1>1, <1>5, SamePending DEF Expire, held
<1>6. ASSUME NEW x \in Ests, LearnReceiptor(x) PROVE PendingInv'
  BY <1>1, <1>6, SamePending DEF LearnReceiptor, held
<1>7. CASE Next
  BY <1>3, <1>4, <1>5, <1>6, <1>7, ReceiptPending DEF Next
<1> QED BY <1>2, <1>7

(* When no events conflict, the signatures found for an event that waits   *)
(* for its witnesses are at the places the acceptance looks them up at:    *)
(* the list worked out in _processEscrowFindUnver is that of deriveBacks.  *)
THEOREM WaitingVerify == NoConflicts => (Spec => []PendingVerify)
<1> SUFFICES ASSUME NoConflicts PROVE Spec => []PendingVerify
  OBVIOUS
<1>1. Init => PendingInv
  <2> SUFFICES ASSUME Init PROVE PendingInv
    OBVIOUS
  <2>1. ~Accepted
    BY DEF Init, Accepted
  <2> QED BY <2>1 DEF Init, PendingInv, Reaches, WaitsVerified
<1>2. ReceiptsInv /\ PendingInv /\ [Next]_vars => PendingInv'
  BY NextPending
<1>3. ReceiptsInv /\ PendingInv => PendingVerify
  <2> SUFFICES ASSUME ReceiptsInv, PendingInv, NEW e \in pwes PROVE \A w \in wigs[e] : Verifies(w, WitsFor(e))
    BY DEF PendingVerify
  <2>1. Acceptable(e) /\ e \in Events
    BY DEF PendingInv, WaitsVerified, ReceiptsInv, TypeOK
  <2>2. ~Logged(e)
    BY <2>1, NextInLine DEF PendingInv
  <2> QED BY <2>1, <2>2 DEF PendingInv, WaitsVerified
<1> QED BY <1>1, <1>2, <1>3, ReceiptsInvariant, PTL DEF Spec
=============================================================================
