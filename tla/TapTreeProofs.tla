--------------------------- MODULE TapTreeProofs ----------------------------
(***************************************************************************)
(* For every list of scripts, whatever its length: each leaf of the tree   *)
(* opens with the control block made for it, and nothing opens that is not *)
(* a leaf of the contract.                                                 *)
(***************************************************************************)
EXTENDS TapTree, SequenceTheorems, TLAPS

-----------------------------------------------------------------------------
(* Lists of anything.                                                      *)

LEMMA ListFacts ==
  ASSUME NEW s, IsList(s)
  PROVE  /\ Len(s) \in Nat /\ DOMAIN s = 1..Len(s)
         /\ s = <<>> <=> Len(s) = 0
  BY DEF IsList

LEMMA MakeList ==
  ASSUME NEW n \in Nat, NEW s, s = [k \in 1..n |-> s[k]]
  PROVE  IsList(s) /\ Len(s) = n
  <1> DEFINE S == {s[k] : k \in DOMAIN s}
  <1>1. DOMAIN s = 1..n
    OBVIOUS
  <1>2. s \in [1..n -> S]
    BY <1>1
  <1>3. s \in Seq(S)
    <2> HIDE DEF S
    <2> QED
      BY <1>2
  <1>4. Len(s) = n
    BY <1>1, <1>3
  <1> QED
    BY <1>3, <1>4 DEF IsList

LEMMA AppendList ==
  ASSUME NEW s, IsList(s), NEW x
  PROVE  /\ IsList(Append(s, x))
         /\ Len(Append(s, x)) = Len(s) + 1
         /\ \A k \in 1..Len(s) : Append(s, x)[k] = s[k]
         /\ Append(s, x)[Len(s) + 1] = x
  <1> DEFINE S == {s[k] : k \in DOMAIN s}
             U == S \cup {x}
             a == Append(s, x)
  <1>1. s \in Seq(S)
    BY DEF IsList
  <1>2. s \in Seq(U)
    BY <1>1
  <1>3. /\ a \in Seq(U) /\ Len(a) = Len(s) + 1
        /\ \A k \in 1..Len(s) : a[k] = s[k]
        /\ a[Len(s) + 1] = x
    BY <1>2
  <1>4. Len(s) + 1 \in Nat
    BY <1>2
  <1> HIDE DEF a, U
  <1>5. a = [k \in 1..(Len(s) + 1) |-> a[k]]
    BY <1>3
  <1>6. IsList(a)
    BY <1>4, <1>5, MakeList
  <1> QED
    BY <1>3, <1>6 DEF a

LEMMA SingletonList ==
  ASSUME NEW x
  PROVE  IsList(<<x>>) /\ Len(<<x>>) = 1 /\ <<x>>[1] = x
  BY DEF IsList

LEMMA PairList ==
  ASSUME NEW x, NEW y
  PROVE  /\ IsList(<<x, y>>) /\ Len(<<x, y>>) = 2
         /\ <<x, y>>[1] = x /\ <<x, y>>[2] = y
  BY DEF IsList

-----------------------------------------------------------------------------
(* Hashes.                                                                 *)

\* The builder and the signer hash alike, and in either order.
LEMMA BranchSymmetric ==
  ASSUME NEW a, NEW b
  PROVE  /\ BranchHash(a, b) = BranchHash(b, a)
         /\ TapBranchHash(a, b) = BranchHash(a, b)
  BY DEF BranchHash, TapBranchHash

\* With one argument fixed a branch hash has only one other.
LEMMA BranchInjective ==
  ASSUME NEW a, NEW b, NEW p, BranchHash(a, p) = BranchHash(b, p)
  PROVE  a = b
  <1>1. {a, p} = {b, p}
    BY DEF BranchHash
  <1> QED
    BY <1>1

LEMMA LeafHashInjective ==
  ASSUME NEW s, NEW v, NEW w, TapLeafHash(s, v) = LeafHash(w)
  PROVE  s = w /\ v = LeafVersion
  BY DEF TapLeafHash, LeafHash

LEMMA LevelLength ==
  ASSUME NEW row, IsList(row), Len(row) >= 1
  PROVE  /\ IsList(Parents(row)) /\ Len(Parents(row)) = Half(Len(row))
         /\ Half(Len(row)) \in Nat /\ Half(Len(row)) >= 1
         /\ Len(row) > 1 => Half(Len(row)) < Len(row)
         /\ NextLevel(row) = Parents(row)
  <1>1. Len(row) \in Nat
    BY ListFacts
  <1>2. Half(Len(row)) \in Nat /\ Half(Len(row)) >= 1
    BY <1>1 DEF Half
  <1>3. Parents(row) = [k \in 1..Half(Len(row)) |-> Parents(row)[k]]
    BY DEF Parents
  <1>4. IsList(Parents(row)) /\ Len(Parents(row)) = Half(Len(row))
    BY <1>2, <1>3, MakeList
  <1>5. Len(row) > 1 => Half(Len(row)) < Len(row)
    BY <1>1 DEF Half
  <1>6. NextLevel(row) = Parents(row)
    BY DEF NextLevel, Parents
  <1> QED
    BY <1>2, <1>4, <1>5, <1>6

\* What compute_merkle_proof does at one level: a place with a sibling goes to
\* the hash of the two, a place without one keeps its hash.
LEMMA ParentOfPlace ==
  ASSUME NEW row, IsList(row), NEW i \in 1..Len(row), Len(row) > 1
  PROVE  /\ Half(i) \in 1..Half(Len(row))
         /\ Sibling(i) <= Len(row) =>
              /\ Sibling(i) \in 1..Len(row)
              /\ Parents(row)[Half(i)] = BranchHash(row[i], row[Sibling(i)])
         /\ ~(Sibling(i) <= Len(row)) => Parents(row)[Half(i)] = row[i]
  <1>1. Len(row) \in Nat
    BY ListFacts
  <1>2. Half(i) \in 1..Half(Len(row))
    BY <1>1 DEF Half
  <1> DEFINE j == Half(i)
  <1>3. Parents(row)[j] =
          IF 2 * j <= Len(row) THEN BranchHash(row[2 * j - 1], row[2 * j])
                               ELSE row[2 * j - 1]
    BY <1>2 DEF Parents
  <1>4. CASE i % 2 = 1
    <2>1. 2 * j - 1 = i /\ Sibling(i) = i + 1 /\ 2 * j = i + 1
      BY <1>1, <1>4 DEF Half, Sibling
    <2> QED
      BY <1>1, <1>2, <1>3, <2>1
  <1>5. CASE i % 2 # 1
    <2>1. 2 * j = i /\ Sibling(i) = 2 * j - 1 /\ Sibling(i) \in 1..Len(row)
      BY <1>1, <1>5 DEF Half, Sibling
    <2>2. 2 * j <= Len(row) /\ Sibling(i) <= Len(row)
      BY <1>1, <2>1
    <2> HIDE DEF j
    <2>3. Parents(row)[j] = BranchHash(row[Sibling(i)], row[i])
      BY <1>3, <2>1, <2>2
    <2> QED
      BY <1>2, <2>1, <2>2, <2>3, BranchSymmetric DEF j
  <1> QED
    BY <1>4, <1>5

-----------------------------------------------------------------------------
(* The invariant.                                                          *)

LEMMA LeavesAreAList ==
  ASSUME TypeOK
  PROVE  /\ Len(scripts) \in Nat
         /\ IsList(LeafHashes) /\ Len(LeafHashes) = Len(scripts)
         /\ \A i \in 1..Len(scripts) : LeafHashes[i] = LeafHash(scripts[i])
  <1>1. Len(scripts) \in Nat
    BY DEF TypeOK
  <1>2. LeafHashes = [i \in 1..Len(scripts) |-> LeafHashes[i]]
    BY DEF LeafHashes
  <1>3. IsList(LeafHashes) /\ Len(LeafHashes) = Len(scripts)
    BY <1>1, <1>2, MakeList
  <1> QED
    BY <1>1, <1>3 DEF LeafHashes

THEOREM TapTreeInit == Init => IInv
  <1> SUFFICES ASSUME Init PROVE IInv
    OBVIOUS
  <1>1. IsList(<<>>) /\ Len(<<>>) = 0
    BY DEF IsList
  <1>2. scripts \in Seq(Scripts)
    BY TreeAssumption DEF Init, TreeAssumption
  <1>3. TypeOK
    BY <1>1, <1>2 DEF Init, TypeOK
  <1>4. Levels /\ Trail /\ Checked
    BY <1>1 DEF Init, Levels, Trail, Checked, Proved
  <1> QED
    BY <1>3, <1>4 DEF IInv

\* A step that leaves the tree alone leaves its levels.
LEMMA LevelsKept ==
  ASSUME Levels, UNCHANGED <<builder, tree>>,
         pc' \in {"tree", "raised"} \/ pc \notin {"tree", "raised"}
  PROVE  Levels'
  BY DEF Levels, builder, LeafHashes, Top, OutputPoint, Tweaked, Internal,
         InternalPoint

THEOREM TapTreeHashLeaves == IInv /\ HashLeaves => IInv'
  <1> SUFFICES ASSUME IInv, HashLeaves PROVE IInv'
    OBVIOUS
  <1> USE DEF HashLeaves, builder, prover, signer
  <1>1. CASE scripts = <<>>
    <2>1. TypeOK' /\ Trail' /\ Checked'
      BY <1>1 DEF IInv, TypeOK, Trail, Checked, Proved
    <2>2. Levels'
      BY <1>1, LevelsKept DEF IInv
    <2> QED
      BY <2>1, <2>2 DEF IInv
  <1>2. CASE scripts # <<>>
    <2>1. tree' = <<LeafHashes>> /\ pc' = "tree" /\ UNCHANGED <<builder, prover, signer>>
      BY <1>2
    <2>2. IsList(tree') /\ Len(tree') = 1 /\ tree'[1] = LeafHashes
      BY <2>1, SingletonList
    <2>3. IsList(LeafHashes) /\ Len(LeafHashes) >= 1
      <3>1. IsList(scripts) /\ Len(scripts) \in Nat /\ scripts \in Seq(Scripts)
        BY DEF IInv, TypeOK, IsList
      <3>2. Len(scripts) # 0
        BY <1>2, <3>1
      <3> QED
        BY <3>1, <3>2, LeavesAreAList DEF IInv
    <2>4. TypeOK'
      BY <2>1, <2>2 DEF IInv, TypeOK
    <2>5. LeafHashes' = LeafHashes
      BY <2>1 DEF LeafHashes
    <2>6. Levels'
      BY <2>1, <2>2, <2>3, <2>5 DEF Levels
    <2>7. Trail' /\ Checked'
      BY <2>1 DEF IInv, Trail, Checked, Proved
    <2> QED
      BY <2>4, <2>6, <2>7 DEF IInv
  <1> QED
    BY <1>1, <1>2

THEOREM TapTreeReduce == IInv /\ Reduce => IInv'
  <1> SUFFICES ASSUME IInv, Reduce PROVE IInv'
    OBVIOUS
  <1> USE DEF Reduce, builder, prover, signer
  <1> DEFINE n == Len(tree)
  <1>1. n \in Nat /\ n # 0
    BY ListFacts DEF IInv, TypeOK
  <1>2. IsList(Top) /\ Len(Top) > 1 /\ Top = tree[n]
    BY <1>1 DEF IInv, Levels, Top
  <1>3. /\ IsList(tree') /\ Len(tree') = n + 1
        /\ \A k \in 1..n : tree'[k] = tree[k]
        /\ tree'[n + 1] = Parents(Top)
    BY AppendList DEF IInv, TypeOK
  <1>4. IsList(Parents(Top)) /\ Len(Parents(Top)) >= 1
    BY <1>2, LevelLength
  <1> HIDE DEF n
  <1>5. \A k \in 1..(n + 1) : IsList(tree'[k]) /\ Len(tree'[k]) >= 1
    <2> SUFFICES ASSUME NEW k \in 1..(n + 1)
                 PROVE  IsList(tree'[k]) /\ Len(tree'[k]) >= 1
      OBVIOUS
    <2>1. CASE k \in 1..n
      BY <2>1, <1>3 DEF IInv, Levels, n
    <2>2. CASE k = n + 1
      BY <2>2, <1>3, <1>4
    <2>3. k \in 1..n \/ k = n + 1
      BY <1>1
    <2> QED
      BY <2>1, <2>2, <2>3
  <1>6. \A k \in 1..n : Len(tree'[k]) > 1 /\ tree'[k + 1] = Parents(tree'[k])
    <2> SUFFICES ASSUME NEW k \in 1..n
                 PROVE  Len(tree'[k]) > 1 /\ tree'[k + 1] = Parents(tree'[k])
      OBVIOUS
    <2>1. CASE k = n
      BY <1>1, <1>2, <1>3, <2>1
    <2>2. CASE k # n
      <3>1. k \in 1..(n - 1) /\ k + 1 \in 1..n
        BY <1>1, <2>2
      <3>2. Len(tree[k]) > 1 /\ tree[k + 1] = Parents(tree[k])
        BY <3>1 DEF IInv, Levels, n
      <3> QED
        BY <1>3, <3>1, <3>2
    <2> QED
      BY <2>1, <2>2
  <1>7. tree'[1] = LeafHashes'
    <2>1. tree[1] = LeafHashes /\ LeafHashes' = LeafHashes
      BY DEF IInv, Levels, LeafHashes
    <2> QED
      BY <1>1, <1>3, <2>1
  <1>8. Len(tree') - 1 = n
    BY <1>1, <1>3
  <1>9. Levels'
    <2>1. pc' = "tree"
      OBVIOUS
    <2>2. \A k \in 1..Len(tree') : IsList(tree'[k]) /\ Len(tree'[k]) >= 1
      BY <1>3, <1>5
    <2>3. \A k \in 1..(Len(tree') - 1) :
            Len(tree'[k]) > 1 /\ tree'[k + 1] = Parents(tree'[k])
      BY <1>6, <1>8
    <2> QED
      BY <1>7, <2>1, <2>2, <2>3 DEF Levels
  <1>10. TypeOK' /\ Trail' /\ Checked'
    BY <1>3 DEF IInv, TypeOK, Trail, Checked, Proved
  <1> QED
    BY <1>9, <1>10 DEF IInv

THEOREM TapTreeDeriveKeys == IInv /\ DeriveKeys => IInv'
  <1> SUFFICES ASSUME IInv, DeriveKeys PROVE IInv'
    OBVIOUS
  <1> USE DEF DeriveKeys, builder, prover, signer
  <1>1. TypeOK' /\ Trail' /\ Checked'
    BY DEF IInv, TypeOK, Trail, Checked, Proved
  <1>2. Levels'
    BY DEF IInv, Levels, LeafHashes, Top, OutputPoint, Tweaked, Internal,
           InternalPoint
  <1> QED
    BY <1>1, <1>2 DEF IInv

\* When the keys are there, the root is the only level of one hash.
LEMMA RootLevel ==
  ASSUME TypeOK, Levels, pc \notin {"tree", "raised"}, NEW k \in 1..Len(tree)
  PROVE  /\ Len(tree) \in Nat /\ Len(tree) >= 1
         /\ Len(tree[k]) = 1 => tree[k][1] = Root
         /\ Len(tree[k]) > 1 => k + 1 \in 1..Len(tree)
                               /\ tree[k + 1] = Parents(tree[k])
  <1>1. Len(tree) \in Nat /\ Len(tree) >= 1
    BY ListFacts DEF TypeOK, Levels
  <1>2. CASE k = Len(tree)
    <2>1. tree[k] = Top /\ Len(tree[k]) = 1
      BY <1>2 DEF Levels, Top
    <2> QED
      BY <1>1, <2>1 DEF Root
  <1>3. CASE k # Len(tree)
    <2>1. k \in 1..(Len(tree) - 1) /\ k + 1 \in 1..Len(tree)
      BY <1>1, <1>3
    <2>2. Len(tree[k]) > 1 /\ tree[k + 1] = Parents(tree[k])
      BY <2>1 DEF Levels
    <2>3. Len(tree[k]) # 1
      <3> DEFINE n == Len(tree[k])
      <3>1. n \in Nat /\ n > 1
        BY <2>2, ListFacts DEF Levels
      <3> HIDE DEF n
      <3>2. n # 1
        BY <3>1
      <3> QED
        BY <3>2 DEF n
    <2> QED
      BY <1>1, <2>1, <2>2, <2>3, Zenon
  <1> QED
    BY <1>2, <1>3

\* Steps of the prover leave the tree and the signer alone.
LEMMA LevelsDone ==
  ASSUME Levels, pc \notin {"tree", "raised"}, UNCHANGED <<builder, tree>>
  PROVE  /\ Levels' /\ Root' = Root
         /\ LeafHashes' = LeafHashes
         /\ scripts' = scripts
  BY LevelsKept DEF Root, Top, LeafHashes, builder

THEOREM TapTreeProve ==
  ASSUME IInv, NEW i \in 1..Len(scripts), Prove(i)
  PROVE  IInv'
  <1> DEFINE h == LeafHashes[i]
             n == Len(scripts)
  <1>1. pc = "prove" /\ target' = i /\ UNCHANGED <<builder, tree, signer>>
    BY DEF Prove
  <1>2. /\ Levels' /\ Root' = Root /\ LeafHashes' = LeafHashes
        /\ scripts' = scripts
    BY <1>1, LevelsDone DEF IInv
  <1>3. n \in Nat /\ Len(LeafHashes) = n /\ IsList(LeafHashes)
    BY LeavesAreAList DEF IInv
  <1>4. /\ Len(tree) \in Nat /\ Len(tree) >= 1 /\ 1 \in 1..Len(tree)
        /\ tree[1] = LeafHashes
    <2>1. Len(tree) \in Nat /\ Len(tree) >= 1 /\ tree # <<>>
      BY <1>1, ListFacts DEF IInv, TypeOK, Levels
    <2> QED
      BY <2>1 DEF IInv, Levels
  <1>5. pc' \in {"write", "climb"}
    BY DEF Prove
  <1>6. Checked'
    BY <1>1, <1>5 DEF IInv, Checked, signer
  <1>7. ASSUME IsList(proof'), IsList(trail') PROVE TypeOK'
    BY <1>1, <1>5, <1>7 DEF IInv, TypeOK, builder, signer
  <1> HIDE DEF h, n
  <1>8. CASE n = 1
    <2>1. proof' = <<>> /\ trail' = <<h>> /\ pc' = "write"
      BY <1>8 DEF Prove, h, n
    <2>2. /\ IsList(proof') /\ Len(proof') = 0
          /\ IsList(trail') /\ Len(trail') = 1 /\ trail'[1] = h
      BY <2>1, SingletonList DEF IsList
    <2>3. Root = h
      <3>1. Root = LeafHashes[1]
        BY <1>1, <1>3, <1>4, <1>8, RootLevel DEF IInv
      <3> QED
        BY <1>8, <3>1 DEF h, n
    <2>4. Trail'
      BY <1>1, <1>2, <2>1, <2>2, <2>3 DEF Trail, h, n
    <2> QED
      BY <1>2, <1>6, <1>7, <2>2, <2>4 DEF IInv
  <1>9. CASE n = 2
    <2> DEFINE o == Other(h)
    <2>1. proof' = <<o>> /\ trail' = <<h, BranchHash(h, o)>> /\ pc' = "write"
      BY <1>9 DEF Prove, h, n
    <2> HIDE DEF o
    <2>2. /\ IsList(proof') /\ Len(proof') = 1 /\ proof'[1] = o
          /\ IsList(trail') /\ Len(trail') = 2
          /\ trail'[1] = h /\ trail'[2] = BranchHash(h, o)
      BY <2>1, SingletonList, PairList
    <2>3. Parents(LeafHashes)[1] = BranchHash(LeafHashes[1], LeafHashes[2])
          /\ Len(Parents(LeafHashes)) = 1
      <3>1. Half(2) = 1
        BY DEF Half
      <3> QED
        BY <1>3, <1>9, <3>1, LevelLength DEF Parents
    <2>4. BranchHash(h, o) = BranchHash(LeafHashes[1], LeafHashes[2])
      <3>1. h = LeafHashes[1] \/ h = LeafHashes[2]
        BY <1>9 DEF h, n
      <3> QED
        BY <3>1, BranchSymmetric DEF o, Other
    <2>5. Root = BranchHash(h, o)
      <3>1. 2 \in 1..Len(tree) /\ tree[2] = Parents(LeafHashes)
        BY <1>1, <1>3, <1>4, <1>9, RootLevel DEF IInv
      <3>2. Root = tree[2][1]
        BY <1>1, <2>3, <3>1, RootLevel DEF IInv
      <3> QED
        BY <2>3, <2>4, <3>1, <3>2
    <2>6. Trail'
      BY <1>1, <1>2, <2>1, <2>2, <2>5 DEF Trail, h, n
    <2> QED
      BY <1>2, <1>6, <1>7, <2>2, <2>6 DEF IInv
  <1>10. CASE n > 2
    <2>1. /\ proof' = <<>> /\ trail' = <<h>> /\ level' = LeafHashes
          /\ pc' = "climb"
          /\ \E j \in 1..n : FirstPlace(j, h) /\ idx' = j
      <3>1. Len(scripts) # 1 /\ Len(scripts) # 2
        <4>1. \A m \in Nat : m > 2 => m # 1 /\ m # 2
          OBVIOUS
        <4> QED
          BY <1>3, <1>10, <4>1 DEF n
      <3> QED
        BY <3>1, Zenon DEF Prove, h, n
    <2>2. /\ IsList(proof') /\ Len(proof') = 0
          /\ IsList(trail') /\ Len(trail') = 1 /\ trail'[1] = h
      BY <2>1, SingletonList DEF IsList
    <2>3. /\ level' = tree'[1] /\ 1 \in 1..Len(tree') /\ idx' \in 1..Len(level')
          /\ trail'[Len(trail')] = level'[idx']
      BY <1>1, <1>3, <1>4, <2>1, <2>2 DEF FirstPlace
    <2>4. target' \in 1..Len(scripts') /\ trail'[1] = LeafHashes'[target']
      BY <1>1, <1>2, <2>2 DEF h
    <2>5. Trail'
      BY <2>1, <2>2, <2>3, <2>4 DEF Trail
    <2> QED
      BY <1>2, <1>6, <1>7, <2>2, <2>5 DEF IInv
  <1>11. n = 1 \/ n = 2 \/ n > 2
    BY DEF Prove, n
  <1> QED
    BY <1>8, <1>9, <1>10, <1>11

THEOREM TapTreeClimb == IInv /\ Climb => IInv'
  <1> SUFFICES ASSUME IInv, Climb PROVE IInv'
    OBVIOUS
  <1>1. /\ pc = "climb" /\ pc' = "climb" /\ Len(level) > 1
        /\ UNCHANGED <<builder, tree, target, signer>>
        /\ level' = NextLevel(level) /\ idx' = Half(idx)
    BY DEF Climb, ParentPlace
  <1>2. /\ Levels' /\ Root' = Root /\ LeafHashes' = LeafHashes
        /\ scripts' = scripts
    BY <1>1, LevelsDone DEF IInv
  <1>3. Checked'
    BY <1>1 DEF IInv, Checked, signer
  <1>4. PICK k \in 1..Len(tree) : /\ level = tree[k] /\ idx \in 1..Len(level)
                                  /\ trail[Len(trail)] = level[idx]
    BY <1>1 DEF IInv, Trail, Proved
  <1>5. IsList(level)
    BY <1>4 DEF IInv, Levels
  <1>6. level' = Parents(level) /\ Len(level') = Half(Len(level))
    BY <1>1, <1>5, LevelLength
  <1>7. k + 1 \in 1..Len(tree) /\ level' = tree[k + 1]
    BY <1>1, <1>4, <1>6, RootLevel DEF IInv
  <1>8. /\ idx' \in 1..Len(level')
        /\ Sibling(idx) <= Len(level) =>
             level'[idx'] = BranchHash(level[idx], level[Sibling(idx)])
        /\ ~(Sibling(idx) <= Len(level)) => level'[idx'] = level[idx]
    BY <1>1, <1>4, <1>5, <1>6, ParentOfPlace
  <1>9. /\ IsList(proof) /\ IsList(trail)
        /\ Len(proof) \in Nat /\ Len(trail) = Len(proof) + 1
        /\ trail[1] = LeafHashes[target] /\ target \in 1..Len(scripts)
        /\ \A j \in 1..Len(proof) : trail[j + 1] = BranchHash(trail[j], proof[j])
    BY <1>1, ListFacts DEF IInv, TypeOK, Trail, Proved
  <1>10. ASSUME /\ IsList(proof') /\ IsList(trail')
                /\ Len(trail') = Len(proof') + 1 /\ trail'[1] = trail[1]
                /\ \A j \in 1..Len(proof') :
                     trail'[j + 1] = BranchHash(trail'[j], proof'[j])
                /\ trail'[Len(trail')] = level'[idx']
         PROVE  IInv'
    <2>1. TypeOK'
      BY <1>1, <1>10 DEF IInv, TypeOK, builder, signer
    <2>2. k + 1 \in 1..Len(tree') /\ level' = tree'[k + 1]
      BY <1>1, <1>7
    <2>3. target' \in 1..Len(scripts') /\ trail'[1] = LeafHashes'[target']
      BY <1>1, <1>2, <1>9, <1>10
    <2>4. Trail'
      BY <1>1, <1>8, <1>10, <2>2, <2>3 DEF Trail
    <2> QED
      BY <1>2, <1>3, <2>1, <2>4 DEF IInv
  <1>11. CASE Sibling(idx) <= Len(level)
    <2> DEFINE m == Len(proof)
               e == level[Sibling(idx)]
               g == level'[idx']
    <2>1. proof' = Append(proof, e) /\ trail' = Append(trail, g)
      BY <1>11 DEF Climb
    <2>2. g = BranchHash(level[idx], e)
      BY <1>8, <1>11
    <2> HIDE DEF m, e, g
    <2>3. /\ IsList(proof') /\ Len(proof') = m + 1 /\ proof'[m + 1] = e
          /\ \A j \in 1..m : proof'[j] = proof[j]
      BY <1>9, <2>1, AppendList DEF m
    <2>4. /\ IsList(trail') /\ Len(trail') = m + 2 /\ trail'[m + 2] = g
          /\ \A j \in 1..(m + 1) : trail'[j] = trail[j]
      BY <1>9, <2>1, AppendList DEF m
    <2>5. m \in Nat /\ trail[m + 1] = level[idx]
      BY <1>4, <1>9 DEF m
    <2>6. \A j \in 1..(m + 1) : trail'[j + 1] = BranchHash(trail'[j], proof'[j])
      <3> SUFFICES ASSUME NEW j \in 1..(m + 1)
                   PROVE  trail'[j + 1] = BranchHash(trail'[j], proof'[j])
        OBVIOUS
      <3>1. CASE j \in 1..m
        <4>1. j + 1 \in 1..(m + 1) /\ j \in 1..(m + 1)
          BY <2>5, <3>1
        <4> QED
          BY <1>9, <2>3, <2>4, <3>1, <4>1 DEF m
      <3>2. CASE j = m + 1
        <4>1. j + 1 = m + 2 /\ m + 1 \in 1..(m + 1)
          BY <2>5, <3>2
        <4> QED
          BY <2>2, <2>3, <2>4, <2>5, <3>2, <4>1
      <3> QED
        BY <2>5, <3>1, <3>2
    <2>7. Len(trail') = Len(proof') + 1 /\ trail'[1] = trail[1]
      BY <2>3, <2>4, <2>5
    <2> QED
      BY <1>10, <2>3, <2>4, <2>6, <2>7 DEF g
  <1>12. CASE ~(Sibling(idx) <= Len(level))
    <2>1. proof' = proof /\ trail' = trail
      BY <1>12 DEF Climb
    <2> QED
      BY <1>4, <1>8, <1>9, <1>10, <1>12, <2>1
  <1> QED
    BY <1>11, <1>12

THEOREM TapTreeEndProof == IInv /\ EndProof => IInv'
  <1> SUFFICES ASSUME IInv, EndProof PROVE IInv'
    OBVIOUS
  <1>1. /\ pc = "climb" /\ pc' = "write" /\ Len(level) = 1
        /\ UNCHANGED <<builder, tree, prover, signer>>
    BY DEF EndProof
  <1>2. /\ Levels' /\ Root' = Root /\ LeafHashes' = LeafHashes
        /\ scripts' = scripts
    BY <1>1, LevelsDone DEF IInv
  <1>3. TypeOK' /\ Checked'
    BY <1>1 DEF IInv, TypeOK, Checked, builder, prover, signer
  <1>4. trail[Len(trail)] = Root
    <2>1. PICK k \in 1..Len(tree) : /\ level = tree[k] /\ idx \in 1..Len(level)
                                    /\ trail[Len(trail)] = level[idx]
      BY <1>1 DEF IInv, Trail, Proved
    <2>2. idx = 1
      BY <1>1, <2>1
    <2> QED
      BY <1>1, <2>1, <2>2, RootLevel DEF IInv
  <1>5. Trail'
    BY <1>1, <1>2, <1>4 DEF IInv, Trail, Proved, prover
  <1> QED
    BY <1>2, <1>3, <1>5 DEF IInv

\* Steps of the signer leave the proof alone.
LEMMA TrailDone ==
  ASSUME Levels, Trail, pc \in {"write", "verify"}, pc' \in {"verify", "done"},
         UNCHANGED <<builder, tree, prover>>
  PROVE  Trail'
  <1>1. Root' = Root /\ LeafHashes' = LeafHashes /\ scripts' = scripts
    BY LevelsDone
  <1> QED
    BY <1>1 DEF Trail, Proved, prover

THEOREM TapTreeShow ==
  ASSUME IInv, pc = "write", NEW c \in Showable, Show(c)
  PROVE  IInv'
  <1>1. /\ shown' = c /\ acc' = TapLeafHash(c.script, c.version) /\ pos' = 0
        /\ pc' = "verify" /\ UNCHANGED <<builder, tree, prover, verdict>>
    BY DEF Show
  <1>2. Levels' /\ Trail'
    BY <1>1, LevelsDone, TrailDone DEF IInv
  <1>3. TypeOK'
    BY <1>1 DEF IInv, TypeOK, builder, prover
  <1>4. proof' = proof /\ trail' = trail /\ scripts' = scripts /\ target' = target
    BY <1>1 DEF builder, prover
  <1>5. Len(proof) \in Nat
    BY ListFacts DEF IInv, TypeOK
  <1>6. \/ c.path = proof
        \/ c.script = scripts[target] /\ c.version = LeafVersion
    BY DEF Showable, ControlBlock
  <1>7. verdict' = FALSE
    BY <1>1 DEF IInv, TypeOK, Checked
  <1>8. Checked'
    <2>1. CASE c.path = proof
      <3>1. pos' <= Len(proof') /\ pos' + 1 = 1
        BY <1>1, <1>4, <1>5
      <3> QED
        BY <1>1, <1>4, <1>7, <2>1, <3>1 DEF Checked
    <2>2. CASE c.path # proof
      BY <1>1, <1>4, <1>6, <1>7, <2>2 DEF Checked
    <2> QED
      BY <2>1, <2>2
  <1> QED
    BY <1>2, <1>3, <1>8 DEF IInv

THEOREM TapTreeFold == IInv /\ Fold => IInv'
  <1> SUFFICES ASSUME IInv, Fold PROVE IInv'
    OBVIOUS
  <1>1. /\ pc = "verify" /\ pc' = "verify" /\ pos < Len(shown.path)
        /\ acc' = TapBranchHash(acc, shown.path[pos + 1]) /\ pos' = pos + 1
        /\ UNCHANGED <<builder, tree, prover, shown, verdict>>
    BY DEF Fold
  <1>2. Levels' /\ Trail'
    BY <1>1, LevelsDone, TrailDone DEF IInv
  <1>3. pos \in Nat /\ pos' \in Nat
    BY <1>1 DEF IInv, TypeOK
  <1>4. TypeOK'
    BY <1>1, <1>3 DEF IInv, TypeOK, builder, prover
  <1>5. proof' = proof /\ trail' = trail /\ scripts' = scripts /\ target' = target
    BY <1>1 DEF builder, prover
  <1>6. verdict' = FALSE
    BY <1>1 DEF IInv, TypeOK, Checked
  <1>7. Checked'
    <2>1. CASE shown.path = proof
      <3> DEFINE m == Len(proof)
                 Own == TapLeafHash(shown.script, shown.version) = trail[1]
      <3>1. m \in Nat /\ pos < m /\ acc' = BranchHash(acc, proof[pos + 1])
        BY <1>1, <2>1, ListFacts, BranchSymmetric DEF IInv, TypeOK
      <3>2. trail[pos + 2] = BranchHash(trail[pos + 1], proof[pos + 1])
        <4>1. pos + 1 \in 1..m /\ (pos + 1) + 1 = pos + 2
          BY <1>3, <3>1
        <4> QED
          BY <1>1, <4>1 DEF IInv, Trail, Proved
      <3>3. acc = trail[pos + 1] <=> Own
        BY <1>1, <2>1 DEF IInv, Checked
      <3> HIDE DEF Own
      <3>4. acc' = trail[pos + 2] <=> acc = trail[pos + 1]
        BY <3>1, <3>2, BranchInjective
      <3>5. pos' <= m /\ pos' + 1 = pos + 2
        BY <1>1, <1>3, <3>1
      <3>6. acc' = trail'[pos' + 1] <=> Own
        BY <1>5, <3>3, <3>4, <3>5
      <3> QED
        BY <1>1, <1>5, <1>6, <2>1, <3>5, <3>6 DEF Checked, Own, TapLeafHash
    <2>2. CASE shown.path # proof
      BY <1>1, <1>5, <1>6, <2>2 DEF IInv, Checked
    <2> QED
      BY <2>1, <2>2
  <1> QED
    BY <1>2, <1>4, <1>7 DEF IInv

THEOREM TapTreeDecide == IInv /\ Decide => IInv'
  <1> SUFFICES ASSUME IInv, Decide PROVE IInv'
    OBVIOUS
  <1>1. /\ pc = "verify" /\ pc' = "done" /\ pos = Len(shown.path)
        /\ verdict' = Opens(shown, acc)
        /\ UNCHANGED <<builder, tree, prover, shown, acc, pos>>
    BY DEF Decide
  <1>2. Levels' /\ Trail'
    BY <1>1, LevelsDone, TrailDone DEF IInv
  <1>3. verdict' \in BOOLEAN
    BY <1>1, Zenon DEF Opens
  <1>4. TypeOK'
    BY <1>1, <1>3 DEF IInv, TypeOK, builder, prover
  <1>5. Opens(shown, acc)' <=> Opens(shown, acc)
    <2>1. Root' = Root
      BY <1>1, LevelsDone DEF IInv
    <2> QED
      BY <1>1, <2>1 DEF Opens, OutputKey, OutputPoint, Tweaked, Internal,
                        InternalPoint, builder, Add, XOnly, Parity
  <1>6. proof' = proof /\ trail' = trail /\ scripts' = scripts /\ target' = target
    BY <1>1 DEF builder, prover
  <1>7. Checked'
    <2>1. shown.path = proof => pos = Len(proof)
      BY <1>1
    <2>2. verdict' = Opens(shown, acc)'
      <3>1. Opens(shown, acc) \in BOOLEAN /\ Opens(shown, acc)' \in BOOLEAN
        BY Zenon DEF Opens
      <3> QED
        BY <1>1, <1>5, <3>1, Zenon
    <2> QED
      BY <1>1, <1>6, <2>1, <2>2 DEF IInv, Checked
  <1> QED
    BY <1>2, <1>4, <1>7 DEF IInv

\* Every step keeps the invariant.
THEOREM TapTreeInvariant == Spec => []IInv
  <1>1. IInv /\ [Next]_vars => IInv'
    <2> SUFFICES ASSUME IInv, [Next]_vars PROVE IInv'
      OBVIOUS
    <2>1. CASE \E i \in 1..Len(scripts) : Prove(i)
      BY <2>1, TapTreeProve
    <2>2. CASE pc = "write" /\ \E c \in Showable : Show(c)
      BY <2>2, TapTreeShow
    <2>3. CASE UNCHANGED vars
      BY <2>3 DEF vars, builder, prover, signer, IInv, TypeOK, Levels, Trail,
                  Checked, Proved, LeafHashes, Top, Root, Opens, OutputKey,
                  OutputPoint, Tweaked, Internal, InternalPoint
    <2> QED
      BY <2>1, <2>2, <2>3, TapTreeHashLeaves, TapTreeReduce, TapTreeDeriveKeys,
         TapTreeClimb, TapTreeEndProof, TapTreeFold, TapTreeDecide DEF Next
  <1> QED
    BY <1>1, TapTreeInit, PTL DEF Spec

\* The control block the builder makes for a leaf opens it: the signer's hash
\* climbs the trail to the root, under the same two keys.
THEOREM LeavesOpen == Spec => []EveryLeafOpens
  <1>1. IInv => EveryLeafOpens
    <2> SUFFICES ASSUME IInv, pc = "done", shown = ControlBlock, curve
                 PROVE  verdict
      BY DEF EveryLeafOpens
    <2>1. /\ shown.path = proof /\ shown.script = scripts[target]
          /\ shown.version = LeafVersion /\ shown.internal = Internal
          /\ shown.parity = OutputParity
      BY DEF ControlBlock
    <2>2. target \in 1..Len(scripts) /\ trail[1] = LeafHashes[target]
          /\ Len(trail) = Len(proof) + 1 /\ trail[Len(trail)] = Root
      BY DEF IInv, Trail, Proved
    <2>3. TapLeafHash(shown.script, shown.version) = trail[1]
      BY <2>1, <2>2, LeavesAreAList DEF IInv, TapLeafHash, LeafHash
    <2>4. acc = Root
      <3>1. acc = trail[pos + 1] /\ pos = Len(proof)
        BY <2>1, <2>3 DEF IInv, Checked
      <3> QED
        BY <2>2, <3>1
    <2>5. OutputPoint # Infinity
      BY DEF IInv, Levels
    <2>6. Opens(shown, acc)
      BY <2>1, <2>4, <2>5 DEF Opens, OutputKey, OutputPoint, Tweaked,
                              OutputParity
    <2> QED
      BY <2>6 DEF IInv, Checked
  <1> QED
    BY <1>1, TapTreeInvariant, PTL

\* What the signer accepts is a leaf of the contract: of all leaves only the
\* one the proof was made for has a hash on the trail.
THEOREM NothingElseOpens == Spec => []OnlyTheContractOpens
  <1>1. IInv => OnlyTheContractOpens
    <2> SUFFICES ASSUME IInv, verdict
                 PROVE  /\ shown.script \in Range(scripts)
                        /\ shown.version = LeafVersion
                        /\ shown.internal = Internal
                        /\ shown.parity = OutputParity
      BY DEF OnlyTheContractOpens
    <2>1. pc = "done" /\ Opens(shown, acc)
      BY DEF IInv, Checked
    <2>2. /\ shown.internal = Internal /\ acc = Root
          /\ shown.parity = OutputParity
      BY <2>1 DEF Opens, OutputKey, OutputParity, OutputPoint, Tweaked
    <2>3. target \in 1..Len(scripts) /\ trail[1] = LeafHashes[target]
          /\ Len(trail) = Len(proof) + 1 /\ trail[Len(trail)] = Root
      BY <2>1 DEF IInv, Trail, Proved
    <2>4. shown.script = scripts[target] /\ shown.version = LeafVersion
      <3>1. CASE shown.path = proof
        <4>1. acc = trail[pos + 1] /\ pos = Len(proof)
          BY <2>1, <2>2, <2>3, <3>1 DEF IInv, Checked
        <4>2. TapLeafHash(shown.script, shown.version) = LeafHash(scripts[target])
          BY <2>1, <2>3, <3>1, <4>1, LeavesAreAList DEF IInv, Checked
        <4> QED
          BY <4>2, LeafHashInjective
      <3>2. CASE shown.path # proof
        BY <2>1, <3>2 DEF IInv, Checked
      <3> QED
        BY <3>1, <3>2
    <2>5. scripts[target] \in Range(scripts)
      <3>1. target \in DOMAIN scripts
        BY <2>3 DEF IInv, TypeOK
      <3> QED
        BY <3>1 DEF Range
    <2> QED
      BY <2>2, <2>4, <2>5
  <1> QED
    BY <1>1, TapTreeInvariant, PTL

=============================================================================
