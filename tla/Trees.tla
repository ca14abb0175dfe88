-------------------------------- MODULE Trees --------------------------------
(***************************************************************************)
(* Trees of JSON and of the ledger: a tree is a function from paths to what *)
(* is there, a path the sequence of steps from the root.  What the code     *)
(* does by calling itself on the parts of a value is done here at each path.*)
(***************************************************************************)
EXTENDS Integers, Sequences, FiniteSets

(* The paths from the root to p, and those on the way to it.                *)
Way(p) == {SubSeq(p, 1, n) : n \in 0 .. Len(p)}
Above(p) == Way(p) \ {p}

(* The paths one step below p.                                              *)
Parts(t, p) == {q \in DOMAIN t : Len(q) = Len(p) + 1 /\ p \in Above(q)}

IsTree(t, Step) ==
  /\ DOMAIN t \subseteq Seq(Step) /\ IsFiniteSet(DOMAIN t)
  /\ <<>> \in DOMAIN t
  /\ \A p \in DOMAIN t : Way(p) \subseteq DOMAIN t

(* The tree of a root and its parts, given as trees by their step.          *)
Tree(root, parts) ==
  [p \in {<<>>} \cup UNION {{<<i>> \o q : q \in DOMAIN parts[i]} : i \in DOMAIN parts} |->
     IF p = <<>> THEN root ELSE parts[p[1]][Tail(p)]]
=============================================================================
