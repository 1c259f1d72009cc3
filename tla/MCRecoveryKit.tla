--------------------------- MODULE MCRecoveryKit ----------------------------
(***************************************************************************)
(* The kits of a swap of either version at every stage, and incomplete or  *)
(* wrongly marked ones of a funded swap.  Sizes and limits are small       *)
(* numbers; the values lie on both sides of every limit.                   *)
(***************************************************************************)
EXTENDS RecoveryKit, FiniteSets

MCValues == 1 .. 12

Both(x) == [leg \in Leg |-> x]

\* What a leg lacks while there is no contract yet, no funding yet, or nothing.
Stages == {{"txid", "descriptor", "tree"}, {"txid"}, {}}

Prebuilts(lacks) ==
  SUBSET ((IF lacks["a"] = {} THEN {"SR"} ELSE {}) \cup
          (IF lacks["b"] = {} THEN {"SC"} ELSE {}))

\* Both legs have one value; a transaction is pre-built for a funded leg.
Complete(values, timeout) ==
  UNION {
    {[version |-> v, protocol |-> v,
      mark |-> IF "descriptor" \in ls["b"] THEN 1 ELSE v,
      p2sh |-> h, lacks |-> ls, value |-> Both(x), timeout |-> Both(timeout),
      secret |-> s, ephemeral |-> e, prebuilt |-> pre, completed |-> c] :
        v \in {1, 2}, h \in BOOLEAN, x \in values,
        s \in {"none", "adaptor", "revealed"}, e \in BOOLEAN,
        pre \in Prebuilts(ls), c \in BOOLEAN} : ls \in [Leg -> Stages]}

\* At most two things are missing.
Gaps == {{f, g} : f, g \in Field \ {"descriptor"}} \cup
        {{"descriptor", "tree"}, {"descriptor", "tree", "txid"}, {}}

\* Any marks, any timeout, and gaps in one of the legs.
Faulty(x) ==
  {k \in {[version |-> v, protocol |-> p, mark |-> m, p2sh |-> h,
           lacks |-> [Both({}) EXCEPT ![leg] = gap], value |-> Both(x),
           timeout |-> Both(t), secret |-> s, ephemeral |-> TRUE,
           prebuilt |-> {}, completed |-> FALSE] :
             v, p, m \in {1, 2}, h \in BOOLEAN, leg \in Leg, gap \in Gaps,
             t \in {"kit", "descriptor", "zero", "none"},
             s \in {"none", "adaptor", "revealed"}} : Coherent(k)}

MCKits == Complete(MCValues, "kit") \cup Faulty(9)

\* The timeouts are only in the descriptors, where the builders look as well.
ByDescriptor == Complete({9}, "descriptor")

=============================================================================
