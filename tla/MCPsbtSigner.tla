---------------------------- MODULE MCPsbtSigner ----------------------------
(***************************************************************************)
(* PSBTs for TLC: one input with up to two leaves of any kind, or two      *)
(* inputs with at most one leaf each.                                      *)
(***************************************************************************)
EXTENDS PsbtSigner

CONSTANTS k1, k2, x1

MCLeaves ==
  {l \in Leaf : /\ l.cosigner = k2 /\ l.hash = x1
                /\ l.sig # "none" => l.type \in {"v2_claim", "claim"}
                /\ l.type = "unknown" => l.key = k1}

UpToOne == {<<>>} \cup {<<l>> : l \in MCLeaves}
UpToTwo == UpToOne \cup {<<l, m>> : l \in MCLeaves, m \in MCLeaves}

MCInputs(leaves) ==
  {[output |-> o, owner |-> k, utxo |-> u, leaves |-> ls] :
     o \in OutputKind, k \in Keys, u \in Utxo, ls \in leaves}

\* The owner and the shape of the output matter only where there is no leaf.
Plain(in) == in.leaves # <<>> => in.output = "p2tr_tweaked" /\ in.owner = k1

\* Next to another input, one without its output has no leaf that matters.
Companion(in) == in.utxo = "missing" =>
                   in.leaves = <<>> /\ in.output = "other" /\ in.owner = k1

MCPsbts ==
  {<<in>> : in \in {x \in MCInputs(UpToTwo) : Plain(x)}} \cup
  {<<a, b>> : a, b \in {x \in MCInputs(UpToOne) : Plain(x) /\ Companion(x)}}
=============================================================================
