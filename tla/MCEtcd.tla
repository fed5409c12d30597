------------------------------- MODULE MCEtcd -------------------------------
(* Small instances of Etcd for TLC.                                        *)
EXTENDS Etcd

CONSTANTS k1, k2, v1

\* A single key, the other one, and the prefix that covers both.
MCRanges == {{k1}, {k1, k2}}

PutOp(k) == [op |-> "put", keys |-> {k}, value |-> v1, rev |-> 0]
DeleteOp(ks) == [op |-> "delete", keys |-> ks, value |-> NoValue, rev |-> 0]
RangeOp(r) == [op |-> "range", keys |-> Keys, value |-> NoValue, rev |-> r]

Cmp(k, target, result, operand) ==
  [key |-> k, target |-> target, result |-> result, operand |-> operand]

\* Store.create: put if the key has no version.
CreateTxn(k) ==
  [compare |-> {Cmp(k, "Version", "Equal", 0)}, success |-> <<PutOp(k)>>, failure |-> <<>>]

\* A guarded swap of both keys at one revision, or a read.
SwapTxn ==
  [compare |-> {Cmp(k1, "Create", "Greater", 0), Cmp(k2, "Value", "NotEqual", v1)},
   success |-> <<DeleteOp({k1}), PutOp(k2)>>,
   failure |-> <<RangeOp(0), DeleteOp({k2})>>]

\* Store.update and Store.delete: compare-and-swap on the mod revision.
CasTxns ==
  {[compare |-> {Cmp(k1, "Mod", "Equal", r)}, success |-> <<PutOp(k1)>>,
    failure |-> <<>>] : r \in 1..2}

MCTxns == {CreateTxn(k1), SwapTxn}
MCAllTxns == MCTxns \cup CasTxns
NoTxns == {}
=============================================================================
