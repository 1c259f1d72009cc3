------------------------------ MODULE TapTree -------------------------------
(***************************************************************************)
(* The Taproot output of a contract and the way back into it: the builder  *)
(* hashes a list of scripts into a tree and tweaks an unspendable key with *)
(* its root, computes a proof for one leaf in a second pass over the same  *)
(* levels, and writes both into a control block; the signer, with its own  *)
(* code for every hash, checks what it is shown before it signs.           *)
(*                                                                         *)
(* Hashes are terms, so that two are equal only if what was hashed is.     *)
(* The curve is the group of prime order N of AdaptorSig, by discrete      *)
(* logarithm; an x-only key is known by its point of even Y.               *)
(***************************************************************************)
EXTENDS Integers, Sequences, Functions

CONSTANTS
  Scripts,      \* the scripts a contract is made of
  Foreign,      \* a script that is none of them
  MaxLeaves,    \* bound: the leaves of a contract
  N, Even,      \* the group and its points of even Y
  Nums          \* the point NUMS_X lifts to

ASSUME TreeAssumption ==
  /\ Foreign \notin Scripts
  /\ MaxLeaves \in Nat
  /\ N \in Nat \ {0, 1, 2}
  /\ Even \subseteq 1..(N - 1)
  /\ \A p \in 1..(N - 1) : p \in Even <=> (N - p) \notin Even
  /\ Nums \in Even

LeafVersion == 192      \* TAPROOT_LEAF_VERSION, 0xC0
Infinity    == 0
Scalar      == 1..(N - 1)

Add(p, q)  == (p + q) % N
XOnly(p)   == IF p \in Even THEN p ELSE (N - p) % N
Parity(p)  == IF p \in Even THEN 0 ELSE 1

VARIABLES
  pc,
  scripts,      \* the scripts, in order; one may come twice
  r, t,         \* what "NexumDLCv2/internal" and "TapTweak" hash to
  curve,        \* the signer has its curve library, coincurve
  tree,         \* the levels built, leaves first; the code keeps the last
  target,       \* the leaf a control block is made for
  level, idx,   \* compute_merkle_proof: the level, the place in it
  proof,        \*   and the proof so far
  trail,        \* history: the hash at that place on each level passed
  shown,        \* the leaf the signer is shown
  acc, pos,     \* verify_leaf: the hash reached, path elements used
  verdict       \* its answer

builder == <<scripts, r, t, curve>>
prover  == <<target, level, idx, proof, trail>>
signer  == <<shown, acc, pos, verdict>>
vars    == <<pc, builder, tree, prover, signer>>

NoLeaf == [script |-> Foreign, version |-> 0, parity |-> 0, internal |-> 0,
           path |-> <<>>]

Init ==
  /\ pc = "tree"
  /\ \E n \in 0..MaxLeaves : scripts \in [1..n -> Scripts]
  /\ r \in Scalar /\ t \in Scalar /\ curve \in BOOLEAN
  /\ tree = <<>> /\ target = 0
  /\ level = <<>> /\ idx = 0 /\ proof = <<>> /\ trail = <<>>
  /\ shown = NoLeaf /\ acc = <<>> /\ pos = 0 /\ verdict = FALSE

-----------------------------------------------------------------------------
(* The builder's hashes.                                                   *)

LeafHash(script) == <<"TapLeaf", LeafVersion, script>>

\* Mutant: the two hashes in the order in which they come.
BranchAsGiven(a, b) == <<"TapBranch", a, b>>

\* The smaller hash first: the order of the arguments does not matter.
BranchHash(a, b) == <<"TapBranch", {a, b}>>

LeafHashes == [i \in 1..Len(scripts) |-> LeafHash(scripts[i])]

-----------------------------------------------------------------------------
(* taproot_tree_helper: pairs, level by level; an odd hash is carried.     *)

Half(n) == (n + 1) \div 2

\* Mutant: the odd hash at the end is lost.
ParentsOfPairs(row) ==
  [j \in 1..(Len(row) \div 2) |-> BranchHash(row[2 * j - 1], row[2 * j])]

Parents(row) ==
  [j \in 1..Half(Len(row)) |->
     IF 2 * j <= Len(row) THEN BranchHash(row[2 * j - 1], row[2 * j])
                          ELSE row[2 * j - 1]]

Top == tree[Len(tree)]

HashLeaves ==
  /\ pc = "tree" /\ tree = <<>>
  /\ IF scripts = <<>> THEN pc' = "raised" /\ UNCHANGED tree
                       ELSE tree' = <<LeafHashes>> /\ UNCHANGED pc
  /\ UNCHANGED <<builder, prover, signer>>

Reduce ==
  /\ pc = "tree" /\ tree # <<>> /\ Len(Top) > 1
  /\ tree' = Append(tree, Parents(Top))
  /\ UNCHANGED <<pc, builder, prover, signer>>

Root == Top[1]

-----------------------------------------------------------------------------
(* The keys.                                                               *)

\* derive_unspendable_internal_key_multi: NUMS + rG, without its parity.
InternalPoint == Add(Nums, r)
Internal      == XOnly(InternalPoint)

\* Mutant: the tweak is added to NUMS + rG itself.
TweakedUnlifted(k) == Add(InternalPoint, t)

\* taproot_tweak_pubkey: the point of even Y that k stands for, plus tG.
Tweaked(k) == Add(k, t)

OutputPoint  == Tweaked(Internal)
OutputParity == Parity(OutputPoint)

\* The key of the output.  Another internal key or another root has another
\* tweak: the key is known by the two and by its x-coordinate.
OutputKey == [of |-> <<Internal, Root>>, x |-> XOnly(OutputPoint)]

\* Both additions fail at infinity.
DeriveKeys ==
  /\ pc = "tree" /\ tree # <<>> /\ Len(Top) = 1
  /\ pc' = IF InternalPoint = Infinity \/ OutputPoint = Infinity
           THEN "raised" ELSE "prove"
  /\ UNCHANGED <<builder, tree, prover, signer>>

-----------------------------------------------------------------------------
(* compute_merkle_proof.                                                   *)

\* list.index: the first place at which a leaf has this hash.
FirstPlace(j, h) ==
  LeafHashes[j] = h /\ \A k \in 1..(j - 1) : LeafHashes[k] # h

Other(h) == IF LeafHashes[1] = h THEN LeafHashes[2] ELSE LeafHashes[1]

\* One leaf and two leaves have their proof without a loop.
Prove(i) ==
  /\ pc = "prove" /\ target' = i
  /\ LET h == LeafHashes[i]
     IN  \/ /\ Len(scripts) = 1
            /\ proof' = <<>> /\ trail' = <<h>>
            /\ pc' = "write" /\ UNCHANGED <<level, idx>>
         \/ /\ Len(scripts) = 2
            /\ proof' = <<Other(h)>> /\ trail' = <<h, BranchHash(h, Other(h))>>
            /\ pc' = "write" /\ UNCHANGED <<level, idx>>
         \/ /\ Len(scripts) > 2
            /\ \E j \in 1..Len(scripts) : FirstPlace(j, h) /\ idx' = j
            /\ level' = LeafHashes /\ proof' = <<>> /\ trail' = <<h>>
            /\ pc' = "climb"
  /\ UNCHANGED <<builder, tree, signer>>

\* The levels again, in a loop of the proof's own.
NextLevel(row) ==
  [j \in 1..Half(Len(row)) |->
     IF 2 * j <= Len(row) THEN BranchHash(row[2 * j - 1], row[2 * j])
                          ELSE row[2 * j - 1]]

\* Mutant: the place is halved rounding down.
ParentPlaceDown(i) == IF i = 1 THEN 1 ELSE i \div 2

ParentPlace(i) == Half(i)
Sibling(i)     == IF i % 2 = 1 THEN i + 1 ELSE i - 1

\* A carried hash has no sibling and adds nothing to the proof.
Climb ==
  /\ pc = "climb" /\ Len(level) > 1
  /\ level' = NextLevel(level)
  /\ idx' = ParentPlace(idx)
  /\ IF Sibling(idx) <= Len(level)
     THEN /\ proof' = Append(proof, level[Sibling(idx)])
          /\ trail' = Append(trail, level'[idx'])
     ELSE UNCHANGED <<proof, trail>>
  /\ UNCHANGED <<pc, builder, tree, target, signer>>

EndProof ==
  /\ pc = "climb" /\ Len(level) = 1
  /\ pc' = "write"
  /\ UNCHANGED <<builder, tree, prover, signer>>

\* create_control_block, with the script it is for.
ControlBlock ==
  [script |-> scripts[target], version |-> LeafVersion,
   parity |-> OutputParity, internal |-> Internal, path |-> proof]

-----------------------------------------------------------------------------
(* verify_leaf, and the signer's own hashes.                               *)

TapLeafHash(script, version) == <<"TapLeaf", version, script>>
TapBranchHash(a, b)          == <<"TapBranch", {b, a}>>

\* A PSBT may show anything: the leaf as it was written, or with one part of
\* it changed.
Showable ==
  LET c == ControlBlock
      n == Len(c.path)
  IN  {c} \cup {[c EXCEPT !.script = s] : s \in Scripts \cup {Foreign}}
        \cup {[c EXCEPT !.version = 194], [c EXCEPT !.parity = 1 - @],
              [c EXCEPT !.internal = XOnly(Add(Internal, 1))],
              [c EXCEPT !.path = Append(@, Root)],
              [c EXCEPT !.path = IF n = 0 THEN @ ELSE SubSeq(@, 1, n - 1)],
              [c EXCEPT !.path = [k \in 1..n |-> @[n + 1 - k]]]}

Show(c) ==
  /\ pc = "write"
  /\ shown' = c /\ acc' = TapLeafHash(c.script, c.version) /\ pos' = 0
  /\ pc' = "verify"
  /\ UNCHANGED <<builder, tree, prover, verdict>>

Fold ==
  /\ pc = "verify" /\ pos < Len(shown.path)
  /\ acc' = TapBranchHash(acc, shown.path[pos + 1])
  /\ pos' = pos + 1
  /\ UNCHANGED <<pc, builder, tree, prover, shown, verdict>>

\* Mutants: the parity bit is not looked at; nor is the key.
OpensAnyParity(c, root) ==
  /\ curve /\ <<c.internal, root>> = OutputKey.of
  /\ LET Q == Add(c.internal, t) IN Q # Infinity /\ XOnly(Q) = OutputKey.x

OpensAnyTree(c, root) ==
  /\ curve
  /\ LET Q == Add(c.internal, t) IN Q # Infinity /\ c.parity = Parity(Q)

\* The tweak of another pair is no key of this output; without the library
\* no leaf verifies.
Opens(c, root) ==
  /\ curve /\ <<c.internal, root>> = OutputKey.of
  /\ LET Q == Add(c.internal, t)
     IN  Q # Infinity /\ c.parity = Parity(Q) /\ XOnly(Q) = OutputKey.x

Decide ==
  /\ pc = "verify" /\ pos = Len(shown.path)
  /\ verdict' = Opens(shown, acc) /\ pc' = "done"
  /\ UNCHANGED <<builder, tree, prover, shown, acc, pos>>

Next ==
  \/ HashLeaves \/ Reduce \/ DeriveKeys \/ Climb \/ EndProof \/ Fold \/ Decide
  \/ \E i \in 1..Len(scripts) : Prove(i)
  \/ pc = "write" /\ \E c \in Showable : Show(c)

Spec == Init /\ [][Next]_vars

-----------------------------------------------------------------------------
(* Properties                                                              *)

\* Every leaf opens: whatever the number of scripts, with a hash carried
\* through any number of levels and with scripts that come twice, the signer
\* accepts the control block the builder made for each of them.
EveryLeafOpens == pc = "done" /\ shown = ControlBlock /\ curve => verdict

\* What the signer accepts is a script of the contract, as a version 0xC0 leaf
\* under the internal key nobody has, with the parity the chain asks for.
OnlyTheContractOpens ==
  verdict => /\ shown.script \in Range(scripts)
             /\ shown.version = LeafVersion
             /\ shown.internal = Internal /\ shown.parity = OutputParity

-----------------------------------------------------------------------------
(* The inductive invariant.                                                *)

IsList(s) == s \in Seq({s[k] : k \in DOMAIN s})

TypeOK ==
  /\ pc \in {"tree", "prove", "climb", "write", "verify", "done", "raised"}
  /\ scripts \in Seq(Scripts)
  /\ r \in Scalar /\ t \in Scalar /\ curve \in BOOLEAN
  /\ IsList(tree) /\ IsList(proof) /\ IsList(trail)
  /\ pos \in Nat /\ verdict \in BOOLEAN

\* Each level is made of the one below; the last one is the root.
Levels ==
  /\ tree # <<>> => tree[1] = LeafHashes
  /\ \A k \in 1..Len(tree) : IsList(tree[k]) /\ Len(tree[k]) >= 1
  /\ \A k \in 1..(Len(tree) - 1) :
       Len(tree[k]) > 1 /\ tree[k + 1] = Parents(tree[k])
  /\ pc \notin {"tree", "raised"} =>
       tree # <<>> /\ Len(Top) = 1 /\ OutputPoint # Infinity

Proved == pc \in {"climb", "write", "verify", "done"}

\* Each element of the proof joins two hashes of the trail, which starts at
\* the leaf and has reached its place in a level of the tree, or the root.
Trail ==
  Proved =>
    /\ target \in 1..Len(scripts)
    /\ Len(trail) = Len(proof) + 1
    /\ trail[1] = LeafHashes[target]
    /\ \A k \in 1..Len(proof) : trail[k + 1] = BranchHash(trail[k], proof[k])
    /\ IF pc = "climb"
       THEN \E k \in 1..Len(tree) :
              /\ level = tree[k] /\ idx \in 1..Len(level)
              /\ trail[Len(trail)] = level[idx]
       ELSE trail[Len(trail)] = Root

\* The signer is on the trail exactly if it started at its leaf.
Checked ==
  /\ pc \in {"verify", "done"} =>
       IF shown.path = proof
       THEN /\ pos <= Len(proof)
            /\ acc = trail[pos + 1] <=>
                 TapLeafHash(shown.script, shown.version) = trail[1]
       ELSE shown.script = scripts[target] /\ shown.version = LeafVersion
  /\ pc = "done" => verdict = Opens(shown, acc)
  /\ pc = "done" /\ shown.path = proof => pos = Len(proof)
  /\ verdict => pc = "done"

IInv == TypeOK /\ Levels /\ Trail /\ Checked

=============================================================================
