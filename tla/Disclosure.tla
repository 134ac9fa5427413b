----------------------------- MODULE Disclosure -----------------------------
(* Disclosure: the graph of credentials an IPEX message discloses, walked  *)
(* and evaluated by IpexHandler of acdc/ipexing.py.  A graph is a record:  *)
(* origin, nests (the nodes it carries, a sequence), edges (an edge tree   *)
(* for each node, or None) and data (issuer, issuee, schema and fits).     *)
EXTENDS Integers, Sequences, FiniteSets, SequencesExt

CONSTANTS Schemas, None   \* the schemas the verifier has

RECURSIVE Leaves(_)
Leaves(tree) ==
  IF tree.kind = "leaf" THEN {tree} ELSE UNION {Leaves(t) : t \in tree.parts}
Targets(g, n) == IF g.edges[n] = None THEN {} ELSE {l.n : l \in Leaves(g.edges[n])}

(* No nest twice, the origin first.                                        *)
_validNodeNest(g) == g.nests # <<>> /\ g.nests[1] = g.origin /\ IsInjective(g.nests)

(* Breadth first from the origin; a target that is not carried stops the   *)
(* walk of a closed graph.  The order of the visit, or None.               *)
RECURSIVE Walk(_, _, _, _)
Walk(g, closed, queue, seen) ==
  IF queue = <<>> THEN seen
  ELSE LET n == Head(queue)
           carried == Targets(g, n) \cap ToSet(g.nests)
           rest == Tail(queue) \o SetToSeq(carried \ (ToSet(seen) \cup {n}))
       IN IF n \in ToSet(seen) THEN Walk(g, closed, Tail(queue), seen)
          ELSE IF closed /\ carried # Targets(g, n) THEN None
          ELSE Walk(g, closed, rest, Append(seen, n))
_walkGraphAny(g, closed) ==  \* slip: a nest that nothing leads to is let through
  IF _validNodeNest(g) THEN Walk(g, closed, <<g.origin>>, <<>>) ELSE None
_walkGraph(g, closed) ==
  LET order == IF _validNodeNest(g) THEN Walk(g, closed, <<g.origin>>, <<>>) ELSE None
  IN IF order = None \/ Len(order) # Len(g.nests) THEN None ELSE order

(* An edge: TRUE, FALSE, or None if it is malformed.                       *)
UnaryEdgeOps == {"I2I", "NI2I", "DI2I", "E1E", "NOT"}
Related(ops, near, far) ==
  /\ "E1E" \in ops => near.issuee # None /\ near.issuee = far.issuee
  /\ "I2I" \in ops => far.issuee # None /\ near.issuer = far.issuee
_evaluateLeafEdge(g, near, leaf, inherited) ==
  LET far == g.data[leaf.n]
      schema == IF leaf.s # None THEN leaf.s ELSE inherited
  IN IF leaf.n \notin ToSet(g.nests) \/ ~(leaf.ops \subseteq UnaryEdgeOps) THEN None
     ELSE IF leaf.ops \cap {"NOT", "DI2I"} # {} \/ ~Related(leaf.ops, g.data[near], far) THEN FALSE
     ELSE IF schema \in {None, far.schema} THEN TRUE
     ELSE IF schema \notin Schemas THEN None
     ELSE schema \in far.fits
RECURSIVE _evaluateGroupEdge(_, _, _, _)
_evaluateGroupEdge(g, near, tree, inherited) ==
  IF tree.kind = "leaf" THEN _evaluateLeafEdge(g, near, tree, inherited)
  ELSE LET schema == IF tree.s # None THEN tree.s ELSE inherited
           results == {_evaluateGroupEdge(g, near, t, schema) : t \in tree.parts}
       IN IF results = {} \/ None \in results \/ tree.o \notin {"AND", "OR"} THEN None
          ELSE IF tree.o = "OR" THEN TRUE \in results ELSE FALSE \notin results
_verifyGraphSemantics(g, order) ==
  \A i \in DOMAIN order :
    LET tree == g.edges[order[i]] IN
    tree # None => _evaluateGroupEdge(g, order[i], tree, None) = TRUE
(* IpexHandler.verify of the graph of a message, a grant or not.           *)
Discloses(g, grant) ==
  LET order == _walkGraph(g, grant)
  IN g # None => order # None /\ (grant => _verifyGraphSemantics(g, order))

-----------------------------------------------------------------------------
(* Reference: what can be reached over nodes that are carried.             *)
Follows(g, S) == \A n \in S : Targets(g, n) \cap ToSet(g.nests) \subseteq S
Reachable(g) ==
  {n \in ToSet(g.nests) :
     \A S \in SUBSET ToSet(g.nests) : g.origin \in S /\ Follows(g, S) => n \in S}
Closed(g) == \A n \in ToSet(g.nests) : Targets(g, n) \subseteq ToSet(g.nests)

(* A message discloses one graph, all of it, and a grant nothing else.     *)
Whole(g, grant) ==
  g # None => ToSet(g.nests) = Reachable(g) /\ (grant => Closed(g))
=============================================================================
