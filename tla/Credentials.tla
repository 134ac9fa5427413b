---------------------------- MODULE Credentials ----------------------------
(* Credential verification: vdr/verifying.py, Verifier.processCredential,  *)
(* verifyChain and the escrows of credentials that wait for a registry     *)
(* event (mre), for a schema (mse) or for a credential of their chain      *)
(* (mce).  Registries, their events, schemas and credentials come in any   *)
(* order, each any number of times.                                        *)
EXTENDS Integers, Sequences, FiniteSets, FiniteSetsExt, SequencesExt

CONSTANTS
  Credentials,  \* a record for each credential, see CredentialType
  Worlds,       \* the credentials of a behaviour in database order, those saved before
                \* it, and whether escrow entries grow old
  Meets,        \* pairs of a credential and a schema it satisfies
  Outdated,     \* pairs of a credential and a status that is past the expiry
  Nobody        \* no issuee

Creds == DOMAIN Credentials
C(c) == Credentials[c]
EdgesOf(c) == ToSet(C(c).edges)
(* The edges of a credential in their order, each with its unary operators *)
(* and the schema it asks of the far node.                                 *)
CredentialType ==
  [reg : STRING, issuer : STRING, issuee : STRING, schema : STRING,
   edges : Seq([node : Creds, ops : Seq(STRING), schema : STRING])]
UnaryOps == {"I2I", "NI2I", "DI2I", "E1E", "NOT"}
DelegativeOps == {"I2I", "NI2I", "DI2I"}
Tables == {"mre", "mse", "mce"}

VARIABLES
  timed,   \* whether the entries of the escrows grow old in this behaviour
  world,   \* the credentials of this behaviour, in database order
  known,   \* registries in reger.tevers
  tel,     \* the latest event of each credential in its registry
  cached,  \* schemas the resolver has
  reger,   \* creds and cancs (logged), mre, mse, mce, saved and its indices
  old,     \* entries past their timeout
  cues,    \* every cue ever given
  todo     \* the table a pass of the escrows is at, and its entries that are left
vars == <<timed, world, known, tel, cached, reger, old, cues, todo>>
Present == ToSet(world)
Registries == {C(c).reg : c \in Present}
Schemas == {C(c).schema : c \in Present} \cup {e.schema : e \in UNION {EdgesOf(c) : c \in Present}}

-----------------------------------------------------------------------------
(* Verifier.verifyChain                                                    *)

(* The last of the delegative operators wins; without any operator the far *)
(* node's issuee decides.                                                  *)
LastDelegative(ops, i) ==
  ops[i] \in DelegativeOps /\ \A j \in DOMAIN ops : j > i => ops[j] \notin DelegativeOps
Delegative(ops, far) ==
  IF ToSet(ops) \cap UnaryOps = {} THEN (IF C(far).issuee # Nobody THEN "I2I" ELSE "NI2I")
  ELSE IF ToSet(ops) \cap DelegativeOps = {} THEN "none"
  ELSE ops[CHOOSE i \in DOMAIN ops : LastDelegative(ops, i)]
Unsupported(c, e) ==
  "NOT" \in ToSet(e.ops) \/ Delegative(e.ops, e.node) = "DI2I"
Related(c, e) ==
  /\ "E1E" \in ToSet(e.ops) => C(e.node).issuee # Nobody /\ C(c).issuee = C(e.node).issuee
  /\ Delegative(e.ops, e.node) = "I2I" => C(e.node).issuee # Nobody /\ C(c).issuer = C(e.node).issuee
Status(c) == IF C(c).reg \in known THEN tel[c] ELSE "none"

-----------------------------------------------------------------------------
(* Verifier.processCredential: the first thing that is wrong               *)

(* One edge: what is wrong, and what is asked for.                         *)
Fault(why, cue) == [why |-> why, cue |-> cue]
Fine == Fault("fine", <<>>)
EdgeFaultIssued(c, e, r) ==  \* slip: a far node is good once it was saved
  IF e.node \notin r.saved \/ ~Related(c, e) THEN Fault("mce", <<"proof", e.node>>) ELSE Fine
EdgeFault(c, e, r) ==
  IF e.node \notin r.saved THEN Fault("mce", <<"proof", e.node>>)
  ELSE IF Unsupported(c, e) THEN Fault("invalid", <<>>)
  ELSE IF ~Related(c, e) \/ Status(e.node) = "none" THEN Fault("mce", <<"proof", e.node>>)
  ELSE IF e.schema # C(e.node).schema /\ e.schema \notin cached THEN Fault("mse", <<"schema", e.schema>>)
  ELSE IF e.schema # C(e.node).schema /\ <<e.node, e.schema>> \notin Meets
  THEN Fault("mce", <<"proof", e.node>>)
  ELSE IF <<e.node, Status(e.node)>> \in Outdated THEN Fault("mce", <<"tels", e.node>>)
  ELSE IF Status(e.node) = "revoked" THEN Fault("revoked", <<>>)
  ELSE Fine
(* A credential that is itself revoked is saved all the same.              *)
Verdict(c, r) ==
  LET faults == [i \in DOMAIN C(c).edges |-> EdgeFault(c, C(c).edges[i], r)]
      bad == {i \in DOMAIN faults : faults[i] # Fine} IN
  IF Status(c) = "none" \/ <<c, Status(c)>> \in Outdated THEN Fault("mre", <<"telquery", c>>)
  ELSE IF C(c).schema \notin cached THEN Fault("mse", <<"schema", C(c).schema>>)
  ELSE IF <<c, C(c).schema>> \notin Meets THEN Fault("invalid", <<>>)
  ELSE IF bad = {} THEN Fine ELSE faults[Min(bad)]

(* escrowMRE, escrowMSE, escrowMCE, saveCredential.                        *)
processCredential(c, r) ==
  LET v == Verdict(c, r) IN
  [r EXCEPT !.logged = IF v.why \in Tables \cup {"fine"} THEN @ \cup {c} ELSE @,
            !.saved = IF v.why = "fine" THEN @ \cup {c} ELSE @,
            !.escrow = [x \in Tables |-> IF x = v.why THEN @[x] \cup {c} ELSE @[x]]]
(* Only a new entry asks for a registry event or a schema.                 *)
Ask(c, r) ==
  LET v == Verdict(c, r) IN
  IF v.why = "mce" \/ (v.why \in Tables /\ c \notin r.escrow[v.why]) THEN {v.cue} ELSE {}

-----------------------------------------------------------------------------
(* Verifier._processEscrow: an entry stays when it lacks what this escrow  *)
(* is for, and goes when it is saved, lacks something else or is stale.    *)
Leave(x, c, r) == [r EXCEPT !.escrow[x] = @ \ {c}]
Retry(x, c) ==
  LET after == processCredential(c, reger)
      stale == <<x, c>> \in old
  IN
  /\ cues' = IF stale THEN cues ELSE cues \cup Ask(c, reger)
  /\ reger' = IF stale THEN Leave(x, c, reger)
              ELSE IF Verdict(c, reger).why = x THEN after ELSE Leave(x, c, after)

Idle == [table |-> "none", left |-> {}]
Init ==
  \E w \in Worlds :
    /\ world = w.creds /\ timed = w.timed
    /\ known = {C(c).reg : c \in w.saved} /\ cached = {C(c).schema : c \in w.saved}
    /\ tel = [c \in ToSet(w.creds) |-> IF c \in w.saved THEN "issued" ELSE "none"]
    /\ reger = [logged |-> w.saved, saved |-> w.saved, escrow |-> [x \in Tables |-> {}]]
    /\ old = {} /\ cues = {} /\ todo = Idle

Receive(c) ==
  /\ todo = Idle
  /\ reger' = processCredential(c, reger)
  /\ cues' = cues \cup Ask(c, reger)
  /\ UNCHANGED <<timed, world, known, tel, cached, old, todo>>

(* Verifier.processEscrows: the three tables in turn, each as it is when   *)
(* its turn comes, in database order; nothing else happens in between.     *)
EntriesOf(x) == IF x = "none" THEN Idle ELSE [table |-> x, left |-> reger.escrow[x]]
NextOf == [mce |-> "mse", mse |-> "mre", mre |-> "none"]
First(c) == \E i \in DOMAIN world : world[i] = c /\ \A j \in DOMAIN world : world[j] \in todo.left => i <= j
processEscrows ==
  /\ todo = Idle /\ todo' = EntriesOf("mce")
  /\ UNCHANGED <<timed, world, known, tel, cached, reger, old, cues>>
NextTable ==
  /\ todo # Idle /\ todo.left = {} /\ todo' = EntriesOf(NextOf[todo.table])
  /\ UNCHANGED <<timed, world, known, tel, cached, reger, old, cues>>
RetryNext ==
  /\ \E c \in todo.left :
       First(c) /\ Retry(todo.table, c) /\ todo' = [todo EXCEPT !.left = @ \ {c}]
  /\ old' = {p \in old : p[2] \in reger'.escrow[p[1]]}
  /\ UNCHANGED <<timed, world, known, tel, cached>>

(* Timeout of an entry.                                                    *)
Expire(x, c) ==
  /\ todo = Idle
  /\ timed /\ c \in reger.escrow[x] /\ <<x, c>> \notin old
  /\ old' = old \cup {<<x, c>>}
  /\ UNCHANGED <<timed, world, known, tel, cached, reger, cues, todo>>

(* The registries (module Registry) and the schema cache.                  *)
LearnRegistry(r) ==
  /\ todo = Idle
  /\ r \notin known /\ known' = known \cup {r}
  /\ UNCHANGED <<timed, world, tel, cached, reger, old, cues, todo>>
LearnEvent(c) ==
  /\ todo = Idle
  /\ C(c).reg \in known /\ tel[c] # "revoked"
  /\ tel' = [tel EXCEPT ![c] = IF @ = "none" THEN "issued" ELSE "revoked"]
  /\ UNCHANGED <<timed, world, known, cached, reger, old, cues, todo>>
LearnSchema(s) ==
  /\ todo = Idle
  /\ s \notin cached /\ cached' = cached \cup {s}
  /\ UNCHANGED <<timed, world, known, tel, reger, old, cues, todo>>

Next ==
  \/ \E c \in Present : Receive(c)
  \/ \E c \in Present : LearnEvent(c)
  \/ processEscrows \/ NextTable \/ RetryNext
  \/ \E x \in Tables, c \in Present : Expire(x, c)
  \/ \E r \in Registries : LearnRegistry(r)
  \/ \E s \in Schemas : LearnSchema(s)

(* The escrow loop runs on every turn.                                     *)
Spec == Init /\ [][Next]_vars /\ WF_vars(processEscrows) /\ WF_vars(NextTable) /\ WF_vars(RetryNext)
-----------------------------------------------------------------------------
(* Properties                                                              *)

TypeOK ==
  /\ timed \in BOOLEAN /\ world \in Seq(Creds) /\ known \subseteq Registries /\ cached \subseteq Schemas
  /\ tel \in [Present -> {"none", "issued", "revoked"}]
  /\ reger \in [logged : SUBSET Present, saved : SUBSET Present, escrow : [Tables -> SUBSET Present]]
  /\ reger.saved \subseteq reger.logged /\ \A x \in Tables : reger.escrow[x] \subseteq reger.logged
  /\ old \subseteq Tables \X Present /\ \A p \in old : p[2] \in reger.escrow[p[1]]
  /\ \/ todo = Idle
     \/ todo.table \in Tables /\ todo = [table |-> todo.table, left |-> todo.left]
        /\ todo.left \subseteq reger.escrow[todo.table]

(* The chain of a saved credential is complete: every far node is saved,   *)
(* issued in a known registry, and stands to the near credential as the    *)
(* operators of the edge say, every one of them but an overridden          *)
(* delegative one (Verifier.verifyChain).                                  *)
OpHolds(op, c, far) ==
  CASE op = "I2I" -> C(far).issuee # Nobody /\ C(c).issuer = C(far).issuee
    [] op = "E1E" -> C(far).issuee # Nobody /\ C(c).issuee = C(far).issuee
    [] op \in {"NOT", "DI2I"} -> FALSE
    [] OTHER -> TRUE
InForce(ops) == {ops[i] : i \in {i \in DOMAIN ops : ops[i] \in DelegativeOps => LastDelegative(ops, i)}}
Chained(c, e, saved) == e.node \in saved /\ \A op \in InForce(e.ops) : OpHolds(op, c, e.node)
ChainsComplete ==
  \A c \in reger.saved : \A e \in EdgesOf(c) : Chained(c, e, reger.saved) /\ Status(e.node) # "none"

(* Credentials are of their type, and what is saved before a behaviour has *)
(* its chain.                                                              *)
CredentialsAssumption ==
  /\ \A c \in Creds : C(c) \in CredentialType
  /\ \A w \in Worlds :
       /\ w.creds \in Seq(Creds) /\ w.timed \in BOOLEAN /\ w.saved \subseteq ToSet(w.creds)
       /\ \A c \in w.saved : \A e \in EdgesOf(c) : Chained(c, e, w.saved)

(* A credential is never saved over a far node whose revocation is known   *)
(* at that time, whatever was known when it came or was last tried.        *)
NotOverRevoked ==
  [][\A c \in reger'.saved \ reger.saved : \A e \in EdgesOf(c) : Status(e.node) = "issued"]_vars

(* What a waiting credential lacked was asked for: its registry events; a  *)
(* far node, or its registry's events; its schema or one an edge asks of a *)
(* far node (Verifier.processCredential).                                  *)
WaitingAsked ==
  /\ \A c \in reger.escrow["mre"] : <<"telquery", c>> \in cues
  /\ \A c \in reger.escrow["mce"] : \E e \in EdgesOf(c) : \E k \in {"proof", "tels"} : <<k, e.node>> \in cues
  /\ \A c \in reger.escrow["mse"] :
       \E s \in {C(c).schema} \cup {e.schema : e \in EdgesOf(c)} : <<"schema", s>> \in cues

CredentialsInv == TypeOK /\ ChainsComplete /\ WaitingAsked

(* A credential that was held is saved once everything it lacked has come, *)
(* in whatever order, unless it was too old (Verifier.processEscrows).     *)
AllSaved == ~timed => \A c \in reger.logged : Verdict(c, reger) = Fine => c \in reger.saved
CredentialsComplete == []<>AllSaved

(* What is past its timeout leaves its escrow.                             *)
NothingStale == timed => old = {}
StaleLeave == []<>NothingStale
=============================================================================
