------------------------- MODULE MerkleCohort_proofs -------------------------
(***************************************************************************)
(* For every cohort, of any size: an honest proof is accepted, and what is *)
(* accepted, whatever was received, opens a node of the tree.              *)
(*                                                                         *)
(* The induction follows the loops.  Walk(ix, n) says that ix lists the    *)
(* positions of the leaf's ancestors in rows 0 .. n and that the path      *)
(* holds the sibling of each of them but the last; proof() extends the     *)
(* walk by a row per pass, and verify() climbs the same rows, its node     *)
(* being the ancestor in each.                                             *)
(***************************************************************************)
EXTENDS MerkleCohort, FiniteSetTheorems, FunctionTheorems, WellFoundedInduction,
        TLAPS

TreePhases == Phases \ ({"build"} \cup BuildErrors)
BuiltPhases == TreePhases \ {"levels"}
ProofPhases == BuiltPhases \ {"built", "LeafNotFound"}
ProvedPhases == ProofPhases \ {"proof"}

IsProof(p) ==
  p = [leaf_hash |-> p.leaf_hash, leaf_index |-> p.leaf_index,
       sibling_hashes |-> p.sibling_hashes, merkle_root |-> p.merkle_root,
       round_id |-> p.round_id]

Walk(ix, n) ==
  /\ ix[0] = proof.leaf_index
  /\ levels.at[0].at[ix[0]] = proof.leaf_hash
  /\ \A j \in 0 .. n : ix[j] \in 0 .. levels.at[j].len - 1
  /\ \A j \in 0 .. n - 1 :
       /\ ix[j + 1] = ix[j] \div 2
       /\ proof.sibling_hashes.at[j] = SiblingIn(levels.at[j], ix[j])

Honest == received = proof /\ expected = [root |-> Root, round |-> proof.round_id]

TreeInv ==
  pc \in TreePhases =>
    /\ levels.len \in Nat \ {0}
    /\ \A k \in 0 .. levels.len - 2 : levels.at[k + 1] = NextRow(levels.at[k])

TipInv == pc \in BuiltPhases => levels.at[levels.len - 1].len = 1

ProofInv ==
  pc \in ProofPhases =>
    /\ IsProof(proof)
    /\ proof.leaf_index \in Nat
    /\ proof.merkle_root = Root
    /\ proof.sibling_hashes.len \in 0 .. levels.len - 1
    /\ \E ix \in [Nat -> Nat] :
         /\ Walk(ix, proof.sibling_hashes.len)
         /\ pc = "proof" => index = ix[proof.sibling_hashes.len]

ProvedInv == pc \in ProvedPhases => proof.sibling_hashes.len = levels.len - 1

ClimbInv ==
  pc = "verify" /\ Honest =>
    /\ used \in 0 .. levels.len - 1
    /\ \E ix \in [Nat -> Nat] :
         /\ Walk(ix, levels.len - 1)
         /\ index = ix[used]
         /\ node = levels.at[used].at[ix[used]]

Inv ==
  /\ TypeOK /\ TreeInv /\ TipInv /\ ProofInv /\ ProvedInv /\ ClimbInv
  /\ HonestProofAccepted

-----------------------------------------------------------------------------
\* A row halves, rounded up, and stays non-empty (build's chunks(2)).
LEMMA RowShrinks ==
  ASSUME NEW row, row.len \in Nat \ {0}
  PROVE  /\ NextRow(row).len \in Nat \ {0}
         /\ DOMAIN NextRow(row).at = 0 .. NextRow(row).len - 1
         /\ \A i \in 0 .. row.len - 1 : i \div 2 \in 0 .. NextRow(row).len - 1
BY DEF NextRow

\* Hashing a node with its sibling, in the order its index says, gives the node
\* above it, also when the node is the odd one and is its own sibling.
LEMMA FoldIsParent ==
  ASSUME NEW row, row.len \in Nat \ {0}, NEW i \in 0 .. row.len - 1
  PROVE  FoldIn(row.at[i], i, SiblingIn(row, i)) = NextRow(row).at[i \div 2]
<1>1. i \div 2 \in 0 .. (row.len + 1) \div 2 - 1
  OBVIOUS
<1>2. NextRow(row).at[i \div 2]
        = Parent(row.at[2 * (i \div 2)],
                 GetOr(row, 2 * (i \div 2) + 1, row.at[2 * (i \div 2)]))
  BY <1>1 DEF NextRow
<1>3. CASE i % 2 = 0
  <2>1. 2 * (i \div 2) = i
    BY <1>3
  <2>2. SiblingIn(row, i) = GetOr(row, i + 1, row.at[i])
    BY <1>3 DEF SiblingIn, SiblingIndex
  <2> QED
    BY <1>2, <1>3, <2>1, <2>2 DEF FoldIn
<1>4. CASE i % 2 # 0
  <2>1. 2 * (i \div 2) = i - 1 /\ i - 1 \in 0 .. row.len - 1 /\ i - 1 < row.len
    BY <1>4
  <2>2. SiblingIn(row, i) = row.at[i - 1]
    BY <1>4, <2>1 DEF SiblingIn, SiblingIndex, GetOr
  <2>3. GetOr(row, 2 * (i \div 2) + 1, row.at[2 * (i \div 2)]) = row.at[i]
    BY <2>1 DEF GetOr
  <2> QED
    BY <1>2, <1>4, <2>1, <2>2, <2>3 DEF FoldIn
<1> QED
  BY <1>3, <1>4

\* Push keeps what a Vec holds and adds one element at its end.
LEMMA PushFacts ==
  ASSUME NEW v, NEW x, v.len \in Nat
  PROVE  /\ Push(v, x).len = v.len + 1
         /\ \A i \in 0 .. v.len - 1 : Push(v, x).at[i] = v.at[i]
         /\ Push(v, x).at[v.len] = x
BY DEF Push

\* A received proof carries an index, honest or altered.
LEMMA ReceivedIndex ==
  ASSUME IsProof(proof), proof.leaf_index \in Nat,
         NEW p \in {proof} \cup Altered(proof)
  PROVE  p.leaf_index \in Nat
<1>1. CASE \E x \in Digests, i \in Indices, q \in Parts(proof.sibling_hashes) :
             p = Moved(proof, x, i, q)
  BY <1>1, InputAssumption DEF Moved
<1>2. CASE \E q \in Forged(proof.sibling_hashes) :
             p = [proof EXCEPT !.sibling_hashes = q]
  BY <1>2 DEF IsProof
<1>3. CASE \E r \in RoundIds : p = [proof EXCEPT !.round_id = r]
  BY <1>3 DEF IsProof
<1>4. CASE \E x \in Digests : p = [proof EXCEPT !.merkle_root = x]
  BY <1>4 DEF IsProof
<1>5. CASE p = proof
  BY <1>5
<1> QED
  BY <1>1, <1>2, <1>3, <1>4, <1>5 DEF Altered

-----------------------------------------------------------------------------
LEMMA InitInv == Init => Inv
BY DEF Init, Inv, TypeOK, TreeInv, TipInv, ProofInv, ProvedInv, ClimbInv,
       HonestProofAccepted, Phases, TreePhases, BuiltPhases, ProofPhases,
       ProvedPhases, BuildErrors, Rejections, EmptyVec

USE DEF Phases, TreePhases, BuiltPhases, ProofPhases, ProvedPhases,
        BuildErrors, Rejections

LEMMA BuildKeeps == Inv /\ Build => Inv'
<1> SUFFICES ASSUME Inv, Build PROVE Inv'
  OBVIOUS
<1> USE DEF Build
<1>1. CASE levels' = levels /\ pc' \in BuildErrors
  BY <1>1, SMTT(30) DEF Inv, TypeOK, TreeInv, TipInv, ProofInv, ProvedInv, ClimbInv,
       HonestProofAccepted
<1>2. CASE /\ Len(input) \in 1 .. MaxLeaves
           /\ levels' = Push(EmptyVec, Sorted(input))
           /\ pc' = "levels"
  <2>1. input \in Seq(Nat) /\ Len(input) \in Nat \ {0}
    BY <1>2, InputAssumption DEF Inv, TypeOK
  <2>2. /\ Sorted(input).len \in Nat \ {0}
        /\ DOMAIN Sorted(input).at = 0 .. Sorted(input).len - 1
    BY <2>1 DEF Sorted
  <2>3. levels'.len = 1 /\ levels'.at[0] = Sorted(input)
    BY <1>2, PushFacts DEF EmptyVec
  <2>4. TypeOK'
    BY <1>2, <2>2, <2>3 DEF Inv, TypeOK
  <2>5. TreeInv'
    BY <2>3 DEF TreeInv
  <2> QED
    BY <1>2, <2>4, <2>5 DEF Inv, TipInv, ProofInv, ProvedInv, ClimbInv,
         HonestProofAccepted
<1> QED
  BY <1>1, <1>2

LEMMA AddLevelKeeps == Inv /\ AddLevel => Inv'
<1> SUFFICES ASSUME Inv, AddLevel PROVE Inv'
  OBVIOUS
<1> USE DEF AddLevel
<1>1. levels.len \in Nat \ {0}
  BY DEF Inv, TreeInv
<1>2. CASE LastOf(levels).len > 1
  <2> DEFINE row == levels.at[levels.len - 1]
  <2>1. row.len \in Nat \ {0}
    BY <1>1 DEF Inv, TypeOK
  <2>2. levels' = Push(levels, NextRow(row)) /\ pc' = "levels"
    BY <1>2 DEF LastOf
  <2>3. /\ levels'.len = levels.len + 1
        /\ \A i \in 0 .. levels.len - 1 : levels'.at[i] = levels.at[i]
        /\ levels'.at[levels.len] = NextRow(row)
    BY <1>1, <2>2, PushFacts
  <2>4. TypeOK'
    <3>1. ASSUME NEW i \in 0 .. levels.len
          PROVE  /\ levels'.at[i].len \in Nat \ {0}
                 /\ DOMAIN levels'.at[i].at = 0 .. levels'.at[i].len - 1
      <4>1. CASE i = levels.len
        BY <2>1, <2>3, <4>1, RowShrinks
      <4>2. CASE i \in 0 .. levels.len - 1
        BY <2>3, <4>2 DEF Inv, TypeOK
      <4> QED
        BY <1>1, <4>1, <4>2
    <3>2. levels'.len \in Nat /\ levels'.len - 1 = levels.len
      BY <1>1, <2>3
    <3> QED
      BY <2>2, <3>1, <3>2 DEF Inv, TypeOK
  <2>5. TreeInv'
    BY <1>1, <2>2, <2>3 DEF Inv, TreeInv
  <2> QED
    BY <2>2, <2>4, <2>5 DEF Inv, TipInv, ProofInv, ProvedInv, ClimbInv,
         HonestProofAccepted
<1>3. CASE ~(LastOf(levels).len > 1)
  <2>1. levels.at[levels.len - 1].len \in Nat \ {0}
    BY <1>1 DEF Inv, TypeOK
  <2>2. TipInv'
    BY <1>1, <1>3, <2>1 DEF TipInv, LastOf
  <2> QED
    BY <1>3, <2>2 DEF Inv, TypeOK, TreeInv, ProofInv, ProvedInv, ClimbInv,
         HonestProofAccepted
<1> QED
  BY <1>2, <1>3

LEMMA ProofKeeps ==
  ASSUME Inv, NEW d \in Queries, NEW round \in RoundIds, Proof(d, round)
  PROVE  Inv'
<1> USE DEF Proof
<1>1. CASE pc' = "LeafNotFound" /\ UNCHANGED <<index, proof>>
  BY <1>1 DEF Inv, TypeOK, TreeInv, TipInv, ProofInv, ProvedInv, ClimbInv,
       HonestProofAccepted
<1>2. ASSUME NEW i \in 0 .. levels.at[0].len - 1,
             levels.at[0].at[i] = Leaf(d),
             index' = i,
             proof' = [leaf_hash |-> Leaf(d), leaf_index |-> i,
                       sibling_hashes |-> EmptyVec, merkle_root |-> Root,
                       round_id |-> round],
             pc' = "proof"
      PROVE  Inv'
  <2>1. levels.len \in Nat \ {0} /\ levels.at[0].len \in Nat \ {0} /\ i \in Nat
    BY <1>2 DEF Inv, TypeOK, TreeInv
  <2>2. proof'.sibling_hashes.len = 0
    BY <1>2 DEF EmptyVec
  <2>3. TypeOK'
    BY <1>2, <2>1, <2>2 DEF Inv, TypeOK
  <2>4. TreeInv' /\ TipInv'
    BY <1>2 DEF Inv, TreeInv, TipInv
  <2>5. ProofInv'
    <3> DEFINE ix == [j \in Nat |-> i]
    <3>1. ix \in [Nat -> Nat] /\ ix[0] = i
      BY <2>1
    <3>2. Walk(ix, 0)'
      BY <1>2, <2>1, <3>1 DEF Walk
    <3>3. IsProof(proof') /\ proof'.leaf_index \in Nat
      BY <1>2, <2>1 DEF IsProof
    <3>4. proof'.merkle_root = Root'
      BY <1>2 DEF Root, LastOf
    <3> HIDE DEF ix
    <3> QED
      BY <1>2, <2>1, <2>2, <3>1, <3>2, <3>3, <3>4 DEF ProofInv
  <2> QED
    BY <1>2, <2>3, <2>4, <2>5 DEF Inv, ProvedInv, ClimbInv, HonestProofAccepted
<1> QED
  BY <1>1, <1>2

LEMMA AddSiblingKeeps == Inv /\ AddSibling => Inv'
<1> SUFFICES ASSUME Inv, AddSibling PROVE Inv'
  OBVIOUS
<1> DEFINE k == proof.sibling_hashes.len
           row == levels.at[k]
           sibling == SiblingIn(row, index)
<1>1. /\ pc = "proof" /\ levels.len \in Nat \ {0} /\ k \in 0 .. levels.len - 1
      /\ index \in 0 .. row.len - 1 /\ row.len \in Nat \ {0}
      /\ IsProof(proof) /\ proof.merkle_root = Root /\ proof.leaf_index \in Nat
  BY DEF Inv, TypeOK, TreeInv, ProofInv, AddSibling
<1>2. Root' = Root /\ levels' = levels
  BY DEF AddSibling, Root
<1>3. CASE k < levels.len - 1
  <2>1. /\ proof' = [proof EXCEPT !.sibling_hashes = Push(@, sibling)]
        /\ index' = index \div 2 /\ pc' = "proof"
    BY <1>3 DEF AddSibling
  <2>2. /\ IsProof(proof')
        /\ proof'.sibling_hashes = Push(proof.sibling_hashes, sibling)
        /\ proof'.merkle_root = proof.merkle_root
        /\ proof'.leaf_hash = proof.leaf_hash
        /\ proof'.leaf_index = proof.leaf_index
    BY <1>1, <2>1 DEF IsProof
  <2>3. /\ proof'.sibling_hashes.len = k + 1
        /\ \A i \in 0 .. k - 1 : proof'.sibling_hashes.at[i] = proof.sibling_hashes.at[i]
        /\ proof'.sibling_hashes.at[k] = sibling
    BY <1>1, <2>2, PushFacts
  <2>4. levels.at[k + 1] = NextRow(row)
    BY <1>1, <1>3 DEF Inv, TreeInv
  <2>5. index \div 2 \in 0 .. levels.at[k + 1].len - 1
    BY <1>1, <2>4, RowShrinks
  <2>6. TypeOK'
    <3>1. proof'.sibling_hashes.len \in 0 .. levels'.len - 1
      BY <1>1, <1>2, <1>3, <2>3
    <3>2. index' \in 0 .. levels'.at[proof'.sibling_hashes.len].len - 1
      BY <1>2, <2>1, <2>3, <2>5
    <3>3. index' \in Nat
      BY <1>1, <2>1
    <3> QED
      BY <1>2, <2>1, <3>1, <3>2, <3>3 DEF Inv, TypeOK, AddSibling
  <2>7. ProofInv'
    <3>1. PICK ix \in [Nat -> Nat] : Walk(ix, k) /\ index = ix[k]
      BY <1>1 DEF Inv, ProofInv
    <3>2. PICK n \in Nat : n = k
      BY <1>1
    <3>3. PICK jx \in [Nat -> Nat] :
            jx[n + 1] = index \div 2 /\ \A j \in 0 .. n : jx[j] = ix[j]
      <4> DEFINE jx == [j \in Nat |-> IF j = n + 1 THEN index \div 2 ELSE ix[j]]
      <4>1. jx \in [Nat -> Nat]
        BY <1>1
      <4>2. jx[n + 1] = index \div 2 /\ \A j \in 0 .. n : jx[j] = ix[j]
        OBVIOUS
      <4> QED
        BY <4>1, <4>2
    <3>4. Walk(jx, n + 1)'
      <4> HIDE DEF k, row, sibling
      <4>a. /\ ix[0] = proof.leaf_index /\ levels.at[0].at[ix[0]] = proof.leaf_hash
            /\ \A j \in 0 .. n : ix[j] \in 0 .. levels.at[j].len - 1
            /\ \A j \in 0 .. n - 1 :
                 /\ ix[j + 1] = ix[j] \div 2
                 /\ proof.sibling_hashes.at[j] = SiblingIn(levels.at[j], ix[j])
        BY <3>1, <3>2 DEF Walk
      <4>1. jx[0] = proof'.leaf_index /\ levels'.at[0].at[jx[0]] = proof'.leaf_hash
        <5>1. jx[0] = ix[0]
          BY <3>3
        <5> QED
          BY <1>2, <2>2, <4>a, <5>1
      <4>2. \A j \in 0 .. n + 1 : jx[j] \in 0 .. levels'.at[j].len - 1
        <5>1. ASSUME NEW j \in 0 .. n + 1
              PROVE  jx[j] \in 0 .. levels.at[j].len - 1
          <6>1. CASE j = n + 1
            BY <2>5, <3>2, <3>3, <6>1
          <6>2. CASE j \in 0 .. n
            <7>1. jx[j] = ix[j] /\ ix[j] \in 0 .. levels.at[j].len - 1
              BY <3>3, <4>a, <6>2
            <7> QED
              BY <7>1
          <6> QED
            BY <6>1, <6>2
        <5> QED
          BY <1>2, <5>1
      <4>3. ASSUME NEW j \in 0 .. n
            PROVE  /\ jx[j + 1] = jx[j] \div 2
                   /\ proof'.sibling_hashes.at[j] = SiblingIn(levels'.at[j], jx[j])
        <5>1. CASE j = n
          <6>1. jx[j] = index /\ jx[j + 1] = index \div 2
            BY <3>1, <3>2, <3>3, <5>1
          <6>2. proof'.sibling_hashes.at[j] = SiblingIn(levels.at[j], index)
            BY <2>3, <3>2, <5>1 DEF row, sibling
          <6> QED
            BY <1>2, <6>1, <6>2
        <5>2. CASE j \in 0 .. n - 1
          <6>1. jx[j] = ix[j] /\ jx[j + 1] = ix[j + 1]
            BY <3>3, <5>2
          <6>2. proof'.sibling_hashes.at[j] = proof.sibling_hashes.at[j]
            BY <2>3, <3>2, <5>2
          <6>3. /\ ix[j + 1] = ix[j] \div 2
                /\ proof.sibling_hashes.at[j] = SiblingIn(levels.at[j], ix[j])
            BY <4>a, <5>2
          <6> QED
            BY <1>2, <6>1, <6>2, <6>3
        <5> QED
          BY <5>1, <5>2
      <4>4. 0 .. (n + 1) - 1 = 0 .. n
        OBVIOUS
      <4>5. \A j \in 0 .. (n + 1) - 1 :
              /\ jx[j + 1] = jx[j] \div 2
              /\ proof'.sibling_hashes.at[j] = SiblingIn(levels'.at[j], jx[j])
        BY ONLY <4>3, <4>4, Zenon
      <4> QED
        BY ONLY <4>1, <4>2, <4>5, Zenon DEF Walk, SiblingIn, GetOr
    <3>5. proof'.sibling_hashes.len = n + 1 /\ index' = jx[n + 1]
      BY <2>1, <2>3, <3>2, <3>3
    <3>6. Walk(jx, proof.sibling_hashes.len)'
      BY ONLY <3>4, <3>5, Zenon
    <3>7. /\ IsProof(proof') /\ proof'.leaf_index \in Nat /\ proof'.merkle_root = Root'
          /\ proof'.sibling_hashes.len \in 0 .. levels'.len - 1
      <4>1. IsProof(proof') /\ proof'.leaf_index \in Nat /\ proof'.merkle_root = Root'
        BY <1>1, <1>2, <2>2, Zenon
      <4>2. k + 1 \in 0 .. levels.len - 1
        BY <1>1, <1>3
      <4> QED
        BY <1>2, <2>3, <4>1, <4>2, Zenon
    <3>8. jx \in [Nat -> Nat] /\ index' = jx[proof'.sibling_hashes.len]
      BY <3>3, <3>5
    <3> HIDE DEF Walk
    <3> QED
      BY <3>6, <3>7, <3>8, Zenon DEF ProofInv
  <2> QED
    BY <1>1, <1>2, <2>1, <2>6, <2>7 DEF Inv, TreeInv, TipInv, ProvedInv, ClimbInv,
         HonestProofAccepted
<1>4. CASE ~(k < levels.len - 1)
  <2>1. pc' = "proved" /\ index' = index /\ proof' = proof
    BY <1>4 DEF AddSibling
  <2>2. ProvedInv'
    BY <1>1, <1>2, <1>4, <2>1 DEF ProvedInv
  <2>3. ProofInv'
    BY <1>1, <1>2, <2>1 DEF Inv, ProofInv, Walk
  <2> QED
    BY <1>2, <2>1, <2>2, <2>3 DEF AddSibling, Inv, TypeOK, TreeInv, TipInv,
         ClimbInv, HonestProofAccepted
<1> QED
  BY <1>3, <1>4

LEMMA VerifyKeeps ==
  ASSUME Inv, pc = "proved", NEW p, p.leaf_index \in Nat,
         NEW round \in RoundIds, Verify(p, Root, round)
  PROVE  Inv'
<1>1. /\ IsProof(proof) /\ proof.leaf_index \in Nat /\ proof.merkle_root = Root
      /\ levels.len \in Nat \ {0} /\ proof.sibling_hashes.len = levels.len - 1
  BY DEF Inv, TreeInv, ProofInv, ProvedInv
<1>2. /\ levels' = levels /\ proof' = proof /\ Root' = Root /\ input' = input
      /\ pc' \in {"WrongRound", "WrongRoot", "verify"} /\ used' = 0
      /\ received' = p /\ expected' = [root |-> Root, round |-> round]
  BY DEF Verify, Root
<1>4. TypeOK'
  BY <1>2 DEF Verify, Inv, TypeOK
<1>5. TreeInv' /\ TipInv' /\ ProvedInv'
  BY <1>2 DEF Inv, TreeInv, TipInv, ProvedInv
<1>6. PICK ix \in [Nat -> Nat] : Walk(ix, levels.len - 1)
  BY <1>1 DEF Inv, ProofInv
<1>7. Walk(ix, levels.len - 1)'
  BY <1>2, <1>6 DEF Walk
<1>8. ProofInv'
  BY <1>1, <1>2, <1>6, <1>7 DEF ProofInv
<1>9. ClimbInv'
  <2> SUFFICES ASSUME pc' = "verify", Honest'
               PROVE  /\ used' \in 0 .. levels'.len - 1
                      /\ index' = ix[used']
                      /\ node' = levels'.at[used'].at[ix[used']]
    BY <1>6, <1>7 DEF ClimbInv
  <2>1. p = proof /\ index' = proof.leaf_index /\ node' = proof.leaf_hash
    BY <1>2 DEF Honest, Verify
  <2> QED
    BY <1>1, <1>2, <1>6, <2>1 DEF Walk
<1>10. HonestProofAccepted'
  <2> SUFFICES ASSUME pc' \in Rejections, Honest' PROVE FALSE
    BY DEF HonestProofAccepted, Honest
  <2>1. p = proof /\ round = proof.round_id
    BY <1>2 DEF Honest
  <2> QED
    BY <1>1, <2>1 DEF Verify
<1> QED
  BY <1>4, <1>5, <1>8, <1>9, <1>10 DEF Inv

LEMMA ClimbKeeps == Inv /\ Climb => Inv'
<1> SUFFICES ASSUME Inv, Climb PROVE Inv'
  OBVIOUS
<1>1. /\ levels' = levels /\ proof' = proof /\ Root' = Root /\ input' = input
      /\ received' = received /\ expected' = expected /\ (Honest' <=> Honest)
      /\ pc = "verify" /\ pc' \in {"verify", "accepted", "InvalidProof"}
  BY DEF Climb, Root, Honest
<1>2. /\ levels.len \in Nat \ {0} /\ proof.sibling_hashes.len = levels.len - 1
      /\ levels.at[levels.len - 1].len = 1
  BY <1>1 DEF Inv, TreeInv, TipInv, ProvedInv
<1>3. TypeOK'
  BY <1>1 DEF Inv, TypeOK, Climb
<1>4. TreeInv' /\ TipInv' /\ ProvedInv'
  BY <1>1 DEF Inv, TreeInv, TipInv, ProvedInv
<1>5. ProofInv'
  BY <1>1 DEF Inv, ProofInv, Walk
<1>6. ClimbInv' /\ HonestProofAccepted'
  <2>1. CASE ~Honest
    BY <1>1, <2>1 DEF ClimbInv, HonestProofAccepted, Honest
  <2>2. CASE Honest
    <3>1. PICK ix \in [Nat -> Nat] : /\ Walk(ix, levels.len - 1)
                                    /\ index = ix[used]
                                    /\ node = levels.at[used].at[ix[used]]
      BY <1>1, <2>2 DEF Inv, ClimbInv
    <3>2. used \in 0 .. levels.len - 1
      BY <1>1, <2>2 DEF Inv, ClimbInv
    <3>3. received.sibling_hashes = proof.sibling_hashes /\ expected.root = Root
      BY <2>2 DEF Honest
    <3>4. Walk(ix, levels.len - 1)'
      BY <1>1, <3>1 DEF Walk
    <3>5. CASE used < levels.len - 1
      <4> DEFINE row == levels.at[used]
      <4>1. /\ node' = FoldIn(node, index, proof.sibling_hashes.at[used])
            /\ index' = index \div 2 /\ used' = used + 1 /\ pc' = "verify"
        BY <1>1, <1>2, <3>3, <3>5 DEF Climb
      <4>2. /\ proof.sibling_hashes.at[used] = SiblingIn(row, ix[used])
            /\ ix[used + 1] = ix[used] \div 2
            /\ ix[used] \in 0 .. row.len - 1
        BY <1>2, <3>1, <3>2, <3>5 DEF Walk
      <4>3. row.len \in Nat \ {0}
        BY <1>2, <3>2 DEF Inv, TypeOK
      <4>4. levels.at[used + 1] = NextRow(row)
        BY <1>1, <1>2, <3>2, <3>5 DEF Inv, TreeInv
      <4>5. node' = levels.at[used + 1].at[ix[used + 1]]
        BY <3>1, <4>1, <4>2, <4>3, <4>4, FoldIsParent
      <4> QED
        BY <1>1, <1>2, <3>1, <3>2, <3>4, <3>5, <4>1, <4>2, <4>5
        DEF ClimbInv, HonestProofAccepted
    <3>6. CASE used = levels.len - 1
      <4>1. ix[used] = 0
        BY <1>2, <3>1, <3>2, <3>6 DEF Walk
      <4>2. node = Root
        BY <3>1, <3>6, <4>1 DEF Root, LastOf
      <4>3. pc' = "accepted"
        BY <1>1, <1>2, <3>3, <3>6, <4>2 DEF Climb
      <4> QED
        BY <4>3 DEF ClimbInv, HonestProofAccepted
    <3> QED
      BY <1>2, <3>2, <3>5, <3>6
  <2> QED
    BY <2>1, <2>2
<1> QED
  BY <1>3, <1>4, <1>5, <1>6 DEF Inv

LEMMA StutterKeeps == Inv /\ UNCHANGED vars => Inv'
<1> SUFFICES ASSUME Inv, UNCHANGED vars PROVE Inv'
  OBVIOUS
<1>1. TypeOK' /\ TreeInv' /\ TipInv' /\ ProvedInv'
  BY DEF Inv, TypeOK, TreeInv, TipInv, ProvedInv, vars
<1>2. ProofInv'
  BY DEF Inv, ProofInv, Walk, Root, vars
<1>3. ClimbInv' /\ HonestProofAccepted'
  BY DEF Inv, ClimbInv, HonestProofAccepted, Walk, Honest, Root, vars
<1> QED
  BY <1>1, <1>2, <1>3 DEF Inv

\* The invariant that carries both loops.
THEOREM Invariance == Spec => []Inv
<1>1. ASSUME Inv, pc = "proved", NEW p \in {proof} \cup Altered(proof)
      PROVE  p.leaf_index \in Nat
  BY <1>1, ReceivedIndex DEF Inv, ProofInv
<1>2. Inv /\ [Next]_vars => Inv'
  BY <1>1, BuildKeeps, AddLevelKeeps, ProofKeeps, AddSiblingKeeps, VerifyKeeps,
     ClimbKeeps, StutterKeeps DEF Next
<1> QED
  BY InitInv, <1>2, PTL DEF Spec

\* The loops of build, proof and verify stay inside the tree's rows.
THEOREM TypeCorrect == Spec => []TypeOK
<1>1. Inv => TypeOK
  BY DEF Inv
<1> QED
  BY Invariance, <1>1, PTL

\* Every leaf of every cohort gets a proof that verify() accepts.
THEOREM ProofsComplete == Spec => []HonestProofAccepted
<1>1. Inv => HonestProofAccepted
  BY DEF Inv
<1> QED
  BY Invariance, <1>1, PTL

-----------------------------------------------------------------------------
(***************************************************************************)
(* Soundness: whatever copy of a proof verify() accepts opens a leaf.      *)
(*                                                                         *)
(* The nodes verify() computed are kept as a history up to the root.  From *)
(* there the argument goes down the rows: a node of a row is a pair, a     *)
(* pair is of one left and one right digest only, so the node verify() had *)
(* a step earlier is one of the two below.  A leaf is never a pair, so     *)
(* the way down ends in row 0 after as many steps as the tree has rows.    *)
(***************************************************************************)

\* What holds of 0 and passes from each number to the next holds of all.
LEMMA AllNumbers ==
  ASSUME NEW S, S \subseteq Nat, 0 \in S, \A n \in S : n + 1 \in S
  PROVE  Nat \subseteq S
<1> SUFFICES ASSUME NEW m \in Nat, m \notin S PROVE FALSE
  OBVIOUS
<1> DEFINE T == Nat \ S
           R == OpToRel(<, Nat)
<1>1. \A x, y \in Nat : x < y => <<x, y>> \in R
  BY DEF OpToRel
<1>2. IsWellFoundedOn(R, Nat)
  BY NatLessThanWellFounded
<1>3. T \subseteq Nat /\ T # {}
  OBVIOUS
<1> HIDE DEF R
<1>4. PICK x \in T : \A y \in T : ~(<<y, x>> \in R)
  BY <1>2, <1>3, WFMin
<1>5. x \in Nat /\ x # 0 /\ x - 1 \in Nat /\ x - 1 + 1 = x
  BY <1>4
<1>6. x - 1 \in T
  BY <1>4, <1>5
<1>7. <<x - 1, x>> \in R
  BY <1>1, <1>5
<1> QED
  BY <1>4, <1>6, <1>7

\* In a finite set of numbers every place below its size is taken: some member
\* has exactly that many smaller ones (what sorting needs).
LEMMA EveryRankTaken ==
  ASSUME NEW S, S \subseteq Nat, IsFiniteSet(S), NEW i \in 0 .. Cardinality(S) - 1
  PROVE  \E d \in S : Cardinality({e \in S : e < d}) = i
<1> DEFINE Below(d) == {e \in S : e < d}
           T == 0 .. Cardinality(S) - 1
           rank == [d \in S |-> Cardinality(Below(d))]
<1>1. Cardinality(S) \in Nat
  BY FS_CardinalityType
<1>2. ASSUME NEW d \in S
      PROVE  IsFiniteSet(Below(d)) /\ Cardinality(Below(d)) \in T
  <2>1. Below(d) \in SUBSET S /\ d \notin Below(d)
    OBVIOUS
  <2>2. /\ IsFiniteSet(Below(d)) /\ Cardinality(Below(d)) <= Cardinality(S)
        /\ Cardinality(S) # Cardinality(Below(d))
    BY <2>1, FS_Subset
  <2>3. Cardinality(Below(d)) \in Nat
    BY <2>2, FS_CardinalityType
  <2> HIDE DEF Below
  <2> QED
    BY <1>1, <2>2, <2>3
<1>3. ASSUME NEW d \in S, NEW e \in S, d < e
      PROVE  Cardinality(Below(d)) # Cardinality(Below(e))
  <2>0. d \in Nat /\ e \in Nat /\ \A x \in S : x \in Nat
    OBVIOUS
  <2>1. Below(d) \in SUBSET Below(e) /\ d \in Below(e) /\ d \notin Below(d)
    <3>1. \A x \in Below(d) : x \in Below(e)
      BY <1>3, <2>0
    <3>2. d \in Below(e) /\ d \notin Below(d)
      BY <1>3, <2>0
    <3> HIDE DEF Below
    <3> QED
      BY <3>1, <3>2
  <2>2. IsFiniteSet(Below(e))
    BY <1>2
  <2> HIDE DEF Below
  <2> QED
    BY <2>1, <2>2, FS_Subset
<1>4. rank \in Injection(S, T)
  <2>1. rank \in [S -> T]
    BY <1>2
  <2>2. ASSUME NEW d \in S, NEW e \in S, rank[d] = rank[e] PROVE d = e
    <3> HIDE DEF Below
    <3>1. d \in Nat /\ e \in Nat /\ Cardinality(Below(d)) = Cardinality(Below(e))
      BY <2>2
    <3> QED
      BY <1>3, <3>1
  <2> HIDE DEF rank, T
  <2> QED
    BY <2>1, <2>2 DEF Injection, IsInjective
<1>5. IsFiniteSet(T) /\ Cardinality(T) = Cardinality(S)
  BY <1>1, FS_Interval
<1>6. rank \in Surjection(S, T)
  BY <1>4, <1>5, FS_Injection
<1>7. PICK d \in S : rank[d] = i
  BY <1>6 DEF Surjection
<1> QED
  BY <1>7

\* A list without duplicates has as many members as places.
LEMMA ValuesCounted ==
  ASSUME NEW s \in Seq(Nat), ~HasDuplicate(s)
  PROVE  /\ Values(s) \subseteq Nat /\ IsFiniteSet(Values(s))
         /\ Cardinality(Values(s)) = Len(s)
<1> DEFINE S == 1 .. Len(s)
           f == [i \in S |-> s[i]]
<1>1. Len(s) \in Nat /\ DOMAIN s = S /\ \A i \in S : s[i] \in Nat
  OBVIOUS
<1>2. IsFiniteSet(S) /\ Cardinality(S) = Len(s)
  BY <1>1, FS_Interval
<1>3. f \in [S -> Values(s)] /\ \A t \in Values(s) : \E i \in S : f[i] = t
  BY <1>1 DEF Values
<1>4. ASSUME NEW i \in S, NEW j \in S, f[i] = f[j] PROVE i = j
  <2>1. s[i] = s[j] /\ i \in Int /\ j \in Int
    BY <1>4
  <2>2. ~(i < j) /\ ~(j < i)
    BY <1>1, <2>1 DEF HasDuplicate
  <2> QED
    BY <2>1, <2>2
<1> HIDE DEF f, S
<1>5. f \in Bijection(S, Values(s))
  BY <1>3, <1>4 DEF Bijection, Injection, Surjection, IsInjective
<1>6. ExistsBijection(S, Values(s))
  BY <1>5 DEF ExistsBijection
<1>7. Values(s) \subseteq Nat
  BY <1>1 DEF Values
<1> QED
  BY <1>2, <1>6, <1>7, FS_Bijection

\* sort_unstable: the sorted row holds the members of the list and no others.
LEMMA SortedHolds ==
  ASSUME NEW s \in Seq(Nat), ~HasDuplicate(s)
  PROVE  {Sorted(s).at[i] : i \in 0 .. Sorted(s).len - 1}
           = {Leaf(d) : d \in Values(s)}
<1> DEFINE V == Values(s)
           Rank(d) == Cardinality({e \in V : e < d})
           At(i) == CHOOSE d \in V : Rank(d) = i
<1>1. V \subseteq Nat /\ IsFiniteSet(V) /\ Cardinality(V) = Len(s) /\ Len(s) \in Nat
  BY ValuesCounted
<1>2. Sorted(s).len = Len(s) /\ \A i \in 0 .. Len(s) - 1 : Sorted(s).at[i] = Leaf(At(i))
  BY DEF Sorted
<1>3. ASSUME NEW i \in 0 .. Len(s) - 1 PROVE At(i) \in V /\ Rank(At(i)) = i
  <2>1. \E d \in V : Rank(d) = i
    BY <1>1, EveryRankTaken
  <2> HIDE DEF V, Rank
  <2> QED
    BY <2>1
<1>4. ASSUME NEW d \in V
      PROVE  Rank(d) \in 0 .. Len(s) - 1 /\ At(Rank(d)) = d
  <2>1. /\ {e \in V : e < d} \in SUBSET V /\ d \notin {e \in V : e < d}
        /\ d \in Nat
    BY <1>1
  <2>2. /\ IsFiniteSet({e \in V : e < d}) /\ Rank(d) <= Cardinality(V)
        /\ Rank(d) # Cardinality(V) /\ Rank(d) \in Nat
    BY <1>1, <2>1, FS_Subset, FS_CardinalityType
  <2>3. Rank(d) \in 0 .. Len(s) - 1
    <3> HIDE DEF Rank
    <3> QED
      BY <1>1, <2>2
  <2>4. PICK c \in V : c = At(Rank(d)) /\ Rank(c) = Rank(d)
    <3> HIDE DEF Rank
    <3> QED
      BY <1>3, <2>3
  <2>5. ASSUME NEW x \in V, NEW y \in V, x < y PROVE Rank(x) # Rank(y)
    <3>1. /\ {e \in V : e < x} \in SUBSET {e \in V : e < y}
          /\ x \in {e \in V : e < y} /\ x \notin {e \in V : e < x}
      BY <1>1, <2>5
    <3>2. IsFiniteSet({e \in V : e < y})
      BY <1>1, FS_Subset
    <3> QED
      BY <3>1, <3>2, FS_Subset
  <2>6. c \in Nat /\ d \in Nat
    BY <1>1
  <2> HIDE DEF Rank, V, At
  <2>7. c = d
    BY <2>4, <2>5, <2>6
  <2> QED
    BY <2>3, <2>4, <2>7
<1> HIDE DEF V, Rank, At
<1> QED
  BY <1>2, <1>3, <1>4 DEF V

\* The sorted row, and with it every row above, depends on the set alone.
LEMMA SortedIsOfTheSet ==
  ASSUME NEW s \in Seq(Nat), NEW t \in Seq(Nat), ~HasDuplicate(s), ~HasDuplicate(t),
         Values(s) = Values(t)
  PROVE  Sorted(s) = Sorted(t)
<1>1. Len(s) = Len(t)
  BY ValuesCounted
<1> QED
  BY <1>1 DEF Sorted

\* The hash is free: a parent has one left and one right child, and is no leaf.
LEMMA PairsAreFree ==
  ASSUME NEW a, NEW b, NEW c, NEW d
  PROVE  /\ Parent(a, b) = Parent(c, d) => a = c /\ b = d
         /\ Parent(a, b) # Leaf(c)
<1>1. Len(<<a, b>>) = 2 /\ Len(<<c>>) = 1
  OBVIOUS
<1>2. <<a, b>>[1] = a /\ <<a, b>>[2] = b /\ <<c, d>>[1] = c /\ <<c, d>>[2] = d
  OBVIOUS
<1> QED
  BY <1>1, <1>2 DEF Parent, Leaf

\* Going down one row: if a node is FoldIn of a digest and a sibling, the digest
\* is one of its two children, and the sibling the other.
LEMMA FoldOpens ==
  ASSUME NEW row, row.len \in Nat \ {0}, NEW q \in 0 .. NextRow(row).len - 1,
         NEW n, NEW i \in Nat, NEW s, NextRow(row).at[q] = FoldIn(n, i, s)
  PROVE  \E r \in 0 .. row.len - 1 :
           /\ q = r \div 2 /\ n = row.at[r] /\ s = SiblingIn(row, r)
           /\ SiblingIndex(r) < row.len => i % 2 = r % 2
<1> DEFINE l == 2 * q
<1>1. /\ l \in 0 .. row.len - 1 /\ l % 2 = 0 /\ (l + 1) % 2 = 1
      /\ q = l \div 2 /\ q = (l + 1) \div 2
  BY DEF NextRow
<1>2. NextRow(row).at[q] = Parent(row.at[l], GetOr(row, l + 1, row.at[l]))
  BY DEF NextRow
<1> HIDE DEF l
<1>3. PICK a, b : a = row.at[l] /\ b = GetOr(row, l + 1, row.at[l])
  OBVIOUS
<1>4. SiblingIn(row, l) = GetOr(row, l + 1, row.at[l]) /\ SiblingIndex(l) = l + 1
  BY <1>1 DEF SiblingIn, SiblingIndex
<1>5. CASE i % 2 = 0
  <2>1. n = row.at[l] /\ s = GetOr(row, l + 1, row.at[l])
    <3>1. Parent(n, s) = Parent(a, b)
      BY <1>2, <1>3, <1>5 DEF FoldIn
    <3> QED
      BY <1>3, <3>1, PairsAreFree
  <2> QED
    BY <1>1, <1>4, <1>5, <2>1
<1>6. CASE i % 2 # 0
  <2>0. i % 2 = 1
    BY <1>6
  <2>1. s = row.at[l] /\ n = GetOr(row, l + 1, row.at[l])
    <3>1. Parent(s, n) = Parent(a, b)
      BY <1>2, <1>3, <1>6 DEF FoldIn
    <3> QED
      BY <1>3, <3>1, PairsAreFree
  <2>2. CASE l + 1 < row.len
    <3>1. /\ l + 1 \in 0 .. row.len - 1 /\ n = row.at[l + 1]
          /\ SiblingIndex(l + 1) = l
      BY <1>1, <2>1, <2>2 DEF GetOr, SiblingIndex
    <3>2. SiblingIn(row, l + 1) = row.at[l]
      BY <1>1, <3>1 DEF SiblingIn, GetOr
    <3> QED
      BY <1>1, <2>0, <2>1, <3>1, <3>2
  <2>3. CASE ~(l + 1 < row.len)
    <3>1. n = row.at[l] /\ SiblingIn(row, l) = row.at[l]
      BY <1>4, <2>1, <2>3 DEF GetOr
    <3> QED
      BY <1>1, <1>4, <2>1, <2>3, <3>1
  <2> QED
    BY <2>2, <2>3
<1> QED
  BY <1>5, <1>6

\* A list that halves from each row to the next is Halves of its first element.
LEMMA HalvesAre ==
  ASSUME NEW x, NEW n \in Nat,
         \A k \in 0 .. n - 1 : x[k + 1] = x[k] \div 2
  PROVE  \A k \in 0 .. n : Halves(x[0], n)[k] = x[k]
<1> DEFINE D == 0 .. n
           Eq(g) == g = [k \in D |-> IF k = 0 THEN x[0] ELSE g[k - 1] \div 2]
           g == [k \in D |-> x[k]]
<1>1. Eq(g)
  <2>1. ASSUME NEW k \in D, k # 0 PROVE k - 1 \in D /\ g[k - 1] \div 2 = x[k]
    <3>1. k - 1 \in D /\ k - 1 \in 0 .. n - 1 /\ k - 1 + 1 = k
      BY <2>1
    <3>2. x[k - 1 + 1] = x[k - 1] \div 2
      BY <3>1
    <3> QED
      BY <3>1, <3>2
  <2>2. \A k \in D : g[k] = IF k = 0 THEN x[0] ELSE g[k - 1] \div 2
    BY <2>1
  <2> QED
    BY <2>2
<1> HIDE DEF g
<1>2. Halves(x[0], n) = CHOOSE h : Eq(h)
  BY DEF Halves
<1>3. PICK h : h = Halves(x[0], n) /\ Eq(h)
  BY <1>1, <1>2
<1>4. \A k \in D : h[k] = IF k = 0 THEN x[0] ELSE h[k - 1] \div 2
  BY <1>3
<1> DEFINE S == {k \in Nat : k \in D => h[k] = x[k]}
<1>5. 0 \in S
  BY <1>4
<1>6. ASSUME NEW k \in S PROVE k + 1 \in S
  <2> SUFFICES ASSUME k + 1 \in D PROVE h[k + 1] = x[k + 1]
    OBVIOUS
  <2>1. k \in D /\ k + 1 # 0 /\ k + 1 - 1 = k /\ k \in 0 .. n - 1
    OBVIOUS
  <2>2. h[k] = x[k] /\ x[k + 1] = x[k] \div 2
    BY <2>1
  <2>3. h[k + 1] = h[k + 1 - 1] \div 2
    BY <1>4, <2>1
  <2> QED
    BY <2>1, <2>2, <2>3
<1>7. Nat \subseteq S
  <2>1. S \subseteq Nat
    OBVIOUS
  <2> HIDE DEF S
  <2> QED
    BY <1>5, <1>6, <2>1, AllNumbers
<1>8. \A k \in D : k \in Nat
  OBVIOUS
<1> HIDE DEF D
<1> QED
  BY <1>3, <1>7, <1>8 DEF D

-----------------------------------------------------------------------------
\* Row 0 is the sorted list of the commitments.
RowsInv ==
  pc \in TreePhases => ~HasDuplicate(input) /\ levels.at[0] = Sorted(input)

\* The leaves' digests, as proof() searches them.
LeafDigests == {levels.at[0].at[i] : i \in 0 .. levels.at[0].len - 1}

\* The path proof() collects is a Vec.
PathInv == pc \in ProofPhases => DOMAIN proof.sibling_hashes = {"len", "at"}

\* The nodes n and indices ix that the passes of verify()'s loop went through.
Climbed(n, ix) ==
  /\ n[0] = received.leaf_hash /\ ix[0] = received.leaf_index
  /\ n[used] = node /\ ix[used] = index
  /\ \A j \in 0 .. used - 1 :
       /\ n[j + 1] = FoldIn(n[j], ix[j], received.sibling_hashes.at[j])
       /\ ix[j + 1] = ix[j] \div 2

HistoryInv ==
  pc \in {"verify", "accepted"} =>
    /\ expected.root = Root /\ received.round_id = expected.round
    /\ received.sibling_hashes.len \in Nat
    /\ used \in 0 .. received.sibling_hashes.len
    /\ \E n, ix : ix \in [Nat -> Nat] /\ Climbed(n, ix)
    /\ pc = "accepted" => used = received.sibling_hashes.len /\ node = Root

SoundInv == RowsInv /\ PathInv /\ HistoryInv

\* All that is known of what verify() is given: its index and the length of its
\* path are numbers.  leaf_hash and the siblings may be anything.
IsCopy(p) == p.leaf_index \in Nat /\ p.sibling_hashes.len \in Nat

\* An honest proof and every altered one is such a copy.
LEMMA ReceivedIsCopy ==
  ASSUME IsProof(proof), proof.leaf_index \in Nat,
         DOMAIN proof.sibling_hashes = {"len", "at"},
         proof.sibling_hashes.len \in Nat,
         NEW p \in {proof} \cup Altered(proof)
  PROVE  IsCopy(p)
<1> DEFINE path == proof.sibling_hashes
<1> SUFFICES p.sibling_hashes.len \in Nat
  BY ReceivedIndex DEF IsCopy
<1>1. CASE \E x \in Digests, i \in Indices, q \in Parts(path) :
             p = Moved(proof, x, i, q)
  <2>1. PICK q \in Parts(path) : p.sibling_hashes = q
    BY <1>1 DEF Moved
  <2>2. PICK c \in (0 .. path.len) \X (0 .. path.len) :
               c[1] <= c[2] /\ q = Part(path, c)
    BY DEF Parts
  <2>3. c[1] \in Nat /\ c[2] \in Nat /\ c[2] - c[1] \in Nat
    BY <2>2
  <2> QED
    BY <2>1, <2>2, <2>3 DEF Part
<1>2. CASE \E q \in Forged(path) : p = [proof EXCEPT !.sibling_hashes = q]
  <2>1. PICK q \in Forged(path) : p = [proof EXCEPT !.sibling_hashes = q]
    BY <1>2
  <2>2. p.sibling_hashes = q
    BY <2>1 DEF IsProof
  <2>3. CASE \E x \in Digests : q = Push(path, x)
    BY <2>2, <2>3 DEF Push
  <2>4. CASE \E i \in 0 .. path.len - 1, x \in Digests :
               q = [path EXCEPT !.at[i] = x]
    <3>1. q.len = path.len
      BY <2>4
    <3> QED
      BY <2>2, <3>1
  <2> QED
    BY <2>1, <2>3, <2>4 DEF Forged
<1>3. CASE \E r \in RoundIds : p = [proof EXCEPT !.round_id = r]
  BY <1>3 DEF IsProof
<1>4. CASE \E x \in Digests : p = [proof EXCEPT !.merkle_root = x]
  BY <1>4 DEF IsProof
<1>5. CASE p = proof
  BY <1>5
<1> QED
  BY <1>1, <1>2, <1>3, <1>4, <1>5 DEF Altered

LEMMA SoundInit == Init => SoundInv
BY DEF Init, SoundInv, RowsInv, PathInv, HistoryInv

LEMMA BuildSound == Inv /\ SoundInv /\ (Build \/ AddLevel) => SoundInv'
<1> SUFFICES ASSUME Inv, SoundInv, Build \/ AddLevel PROVE SoundInv'
  OBVIOUS
<1>1. PathInv' /\ HistoryInv'
  BY DEF Build, AddLevel, PathInv, HistoryInv
<1>2. RowsInv'
  <2>1. CASE Build
    <3>1. CASE pc' \in BuildErrors
      BY <3>1 DEF RowsInv
    <3>2. CASE pc' = "levels"
      <4>1. ~HasDuplicate(input) /\ levels' = Push(EmptyVec, Sorted(input)) /\ input' = input
        BY <2>1, <3>2 DEF Build
      <4>2. levels'.at[0] = Sorted(input)
        BY <4>1, PushFacts DEF EmptyVec
      <4> QED
        BY <4>1, <4>2 DEF RowsInv, HasDuplicate, Sorted, Values
    <3> QED
      BY <2>1, <3>1, <3>2 DEF Build
  <2>2. CASE AddLevel
    <3>1. levels.len \in Nat \ {0} /\ pc \in TreePhases /\ input' = input
      BY <2>2 DEF AddLevel, Inv, TreeInv
    <3>2. levels'.at[0] = levels.at[0]
      <4>1. CASE levels' = levels
        BY <4>1
      <4>2. CASE levels' = Push(levels, NextRow(LastOf(levels)))
        BY <3>1, <4>2, PushFacts
      <4> QED
        BY <2>2, <4>1, <4>2 DEF AddLevel
    <3> QED
      BY <3>1, <3>2 DEF SoundInv, RowsInv, HasDuplicate, Sorted, Values
  <2> QED
    BY <2>1, <2>2
<1> QED
  BY <1>1, <1>2 DEF SoundInv

LEMMA ProofSound ==
  ASSUME Inv, SoundInv,
         AddSibling \/ \E d \in Queries, round \in RoundIds : Proof(d, round)
  PROVE  SoundInv'
<1>1. /\ levels' = levels /\ input' = input /\ pc \in TreePhases
      /\ pc' \in {"LeafNotFound", "proof", "proved"}
  BY DEF AddSibling, Proof
<1>2. RowsInv' /\ HistoryInv'
  BY <1>1 DEF SoundInv, RowsInv, HistoryInv, HasDuplicate, Sorted, Values
<1>3. PathInv'
  <2>1. CASE AddSibling
    <3> DEFINE path == proof.sibling_hashes
    <3>1. /\ pc = "proof" /\ IsProof(proof) /\ DOMAIN path = {"len", "at"}
      BY <2>1 DEF AddSibling, Inv, ProofInv, SoundInv, PathInv
    <3>2. CASE proof' = proof
      BY <3>1, <3>2 DEF PathInv
    <3>3. CASE proof' = [proof EXCEPT !.sibling_hashes =
                           Push(@, SiblingIn(levels.at[path.len], index))]
      <4>1. proof'.sibling_hashes = Push(path, SiblingIn(levels.at[path.len], index))
        BY <3>1, <3>3 DEF IsProof
      <4>2. DOMAIN proof'.sibling_hashes = {"len", "at"}
        BY <4>1 DEF Push
      <4> QED
        BY <4>2 DEF PathInv
    <3> QED
      BY <2>1, <3>2, <3>3 DEF AddSibling
  <2>2. ASSUME NEW d \in Queries, NEW round \in RoundIds, Proof(d, round)
        PROVE  PathInv'
    BY <2>2 DEF Proof, PathInv, EmptyVec
  <2> QED
    BY <2>1, <2>2
<1> QED
  BY <1>2, <1>3 DEF SoundInv

LEMMA VerifySound ==
  ASSUME Inv, SoundInv, pc = "proved", NEW p, IsCopy(p),
         NEW round \in RoundIds, Verify(p, Root, round)
  PROVE  SoundInv'
<1>1. /\ levels' = levels /\ input' = input /\ proof' = proof /\ Root' = Root
      /\ pc' \in {"WrongRound", "WrongRoot", "verify"} /\ used' = 0
      /\ received' = p /\ expected' = [root |-> Root, round |-> round]
  BY DEF Verify, Root
<1>2. RowsInv' /\ PathInv'
  BY <1>1 DEF SoundInv, RowsInv, PathInv, HasDuplicate, Sorted, Values
<1>3. HistoryInv'
  <2> SUFFICES ASSUME pc' = "verify" PROVE HistoryInv'
    BY <1>1 DEF HistoryInv
  <2>1. p.round_id = round /\ node' = p.leaf_hash /\ index' = p.leaf_index
    BY DEF Verify
  <2>2. p.leaf_index \in Nat /\ p.sibling_hashes.len \in Nat
    BY DEF IsCopy
  <2> DEFINE n == [j \in Nat |-> p.leaf_hash]
             ix == [j \in Nat |-> p.leaf_index]
  <2>4. ix \in [Nat -> Nat] /\ n[0] = p.leaf_hash /\ ix[0] = p.leaf_index
    BY <2>2
  <2> HIDE DEF n, ix
  <2>5. Climbed(n, ix)'
    BY <1>1, <2>1, <2>4 DEF Climbed
  <2>6. \E m, jx : jx \in [Nat -> Nat] /\ Climbed(m, jx)'
    BY <2>4, <2>5
  <2> QED
    BY <1>1, <2>1, <2>2, <2>6 DEF HistoryInv
<1> QED
  BY <1>2, <1>3 DEF SoundInv

LEMMA ClimbSound == Inv /\ SoundInv /\ Climb => SoundInv'
<1> SUFFICES ASSUME Inv, SoundInv, Climb PROVE SoundInv'
  OBVIOUS
<1>1. /\ levels' = levels /\ input' = input /\ proof' = proof /\ Root' = Root
      /\ received' = received /\ expected' = expected
      /\ pc = "verify" /\ pc' \in {"verify", "accepted", "InvalidProof"}
  BY DEF Climb, Root
<1>2. RowsInv' /\ PathInv'
  BY <1>1 DEF SoundInv, RowsInv, PathInv, HasDuplicate, Sorted, Values
<1> DEFINE path == received.sibling_hashes
<1>3. /\ expected.root = Root /\ received.round_id = expected.round
      /\ path.len \in Nat /\ used \in 0 .. path.len
  BY <1>1 DEF SoundInv, HistoryInv
<1>4. PICK n, ix : ix \in [Nat -> Nat] /\ Climbed(n, ix)
  BY <1>1 DEF SoundInv, HistoryInv
<1>5. HistoryInv'
  <2>1. CASE used < path.len
    <3>1. /\ node' = FoldIn(node, index, path.at[used]) /\ index' = index \div 2
          /\ used' = used + 1 /\ pc' = "verify"
      BY <1>1, <2>1 DEF Climb
    <3>2. used \in Nat /\ index \in Nat /\ index \div 2 \in Nat
      BY <1>3 DEF Inv, TypeOK
    <3>3. PICK m, jx : /\ jx \in [Nat -> Nat]
                       /\ m[used + 1] = node' /\ jx[used + 1] = index'
                       /\ \A j \in 0 .. used : m[j] = n[j] /\ jx[j] = ix[j]
      <4> DEFINE m == [j \in Nat |-> IF j = used + 1 THEN node' ELSE n[j]]
                 jx == [j \in Nat |-> IF j = used + 1 THEN index' ELSE ix[j]]
      <4>1. jx \in [Nat -> Nat]
        BY <1>4, <3>1, <3>2
      <4>2. /\ m[used + 1] = node' /\ jx[used + 1] = index'
            /\ \A j \in 0 .. used : m[j] = n[j] /\ jx[j] = ix[j]
        BY <3>2
      <4> HIDE DEF m, jx
      <4> QED
        BY <4>1, <4>2
    <3>4. /\ n[0] = received.leaf_hash /\ ix[0] = received.leaf_index
          /\ n[used] = node /\ ix[used] = index
          /\ \A j \in 0 .. used - 1 : /\ n[j + 1] = FoldIn(n[j], ix[j], path.at[j])
                                      /\ ix[j + 1] = ix[j] \div 2
      BY <1>4 DEF Climbed
    <3> HIDE DEF path
    <3>5. ASSUME NEW j \in 0 .. used
          PROVE  m[j + 1] = FoldIn(m[j], jx[j], path.at[j]) /\ jx[j + 1] = jx[j] \div 2
      <4>1. m[j] = n[j] /\ jx[j] = ix[j]
        BY <3>3
      <4>2. CASE j = used
        BY <3>1, <3>3, <3>4, <4>1, <4>2
      <4>3. CASE j \in 0 .. used - 1
        <5>1. m[j + 1] = n[j + 1] /\ jx[j + 1] = ix[j + 1]
          BY <3>2, <3>3, <4>3
        <5> QED
          BY <3>4, <4>1, <4>3, <5>1
      <4> QED
        BY <3>2, <4>2, <4>3
    <3>6. m[0] = received.leaf_hash /\ jx[0] = received.leaf_index
      BY <3>2, <3>3, <3>4
    <3>7. used' - 1 = used
      BY <3>1, <3>2
    <3>8. Climbed(m, jx)'
      BY <1>1, <3>1, <3>3, <3>5, <3>6, <3>7 DEF Climbed, path
    <3>9. \E k, kx : kx \in [Nat -> Nat] /\ Climbed(k, kx)'
      BY <3>3, <3>8
    <3> QED
      BY <1>1, <1>3, <2>1, <3>1, <3>2, <3>9 DEF HistoryInv, path
  <2>2. CASE ~(used < path.len)
    <3>1. /\ pc' = IF node = Root THEN "accepted" ELSE "InvalidProof"
          /\ node' = node /\ index' = index /\ used' = used /\ used = path.len
      BY <1>1, <1>3, <2>2 DEF Climb
    <3>2. Climbed(n, ix)'
      BY <1>1, <1>4, <3>1 DEF Climbed
    <3>3. \E k, kx : kx \in [Nat -> Nat] /\ Climbed(k, kx)'
      BY <1>4, <3>2
    <3> QED
      BY <1>1, <1>3, <3>1, <3>3 DEF HistoryInv
  <2> QED
    BY <2>1, <2>2
<1> QED
  BY <1>2, <1>5 DEF SoundInv

LEMMA StutterSound == SoundInv /\ UNCHANGED vars => SoundInv'
<1> SUFFICES ASSUME SoundInv, UNCHANGED vars PROVE SoundInv'
  OBVIOUS
<1>1. RowsInv' /\ PathInv'
  BY DEF SoundInv, RowsInv, PathInv, HasDuplicate, Sorted, Values, vars
<1>2. HistoryInv'
  <2> SUFFICES ASSUME pc \in {"verify", "accepted"} PROVE HistoryInv'
    BY DEF HistoryInv, vars
  <2>1. PICK n, ix : ix \in [Nat -> Nat] /\ Climbed(n, ix)
    BY DEF SoundInv, HistoryInv
  <2>2. Climbed(n, ix)' /\ Root' = Root
    BY <2>1 DEF Climbed, Root, vars
  <2>3. \E m, jx : jx \in [Nat -> Nat] /\ Climbed(m, jx)'
    BY <2>1, <2>2
  <2> QED
    BY <2>2, <2>3 DEF SoundInv, HistoryInv, vars
<1> QED
  BY <1>1, <1>2 DEF SoundInv

\* What verify() accepted, seen from the root down.
LEMMA AcceptedOpens == Inv /\ SoundInv => AcceptedOpensRoot
<1> SUFFICES ASSUME Inv, SoundInv, pc = "accepted" PROVE AcceptedOpensRoot
  BY DEF AcceptedOpensRoot
<1> DEFINE top == levels.len - 1
           len == received.sibling_hashes.len
           sib == received.sibling_hashes.at
<1>1. /\ levels.len \in Nat \ {0} /\ top \in Nat /\ len \in Nat
      /\ \A k \in 0 .. top : levels.at[k].len \in Nat \ {0}
      /\ \A k \in 0 .. top - 1 : levels.at[k + 1] = NextRow(levels.at[k])
      /\ levels.at[top].len = 1
  <2>1. levels.len \in Nat \ {0} /\ top \in Nat /\ len \in Nat /\ levels.at[top].len = 1
    BY DEF Inv, TreeInv, TipInv, SoundInv, HistoryInv
  <2>2. \A k \in 0 .. top : levels.at[k].len \in Nat \ {0}
    BY DEF Inv, TypeOK
  <2>3. 0 .. top - 1 = 0 .. levels.len - 2
    BY <2>1
  <2>4. \A k \in 0 .. levels.len - 2 : levels.at[k + 1] = NextRow(levels.at[k])
    BY DEF Inv, TreeInv
  <2> QED
    BY <2>1, <2>2, <2>3, <2>4
<1>2. PICK n, ix : ix \in [Nat -> Nat] /\ Climbed(n, ix)
  BY DEF SoundInv, HistoryInv
<1>3. /\ n[0] = received.leaf_hash /\ ix[0] = received.leaf_index
      /\ n[len] = Root
      /\ \A j \in 0 .. len - 1 : /\ n[j + 1] = FoldIn(n[j], ix[j], sib[j])
                                 /\ ix[j + 1] = ix[j] \div 2
  BY <1>2 DEF SoundInv, HistoryInv, Climbed
<1>5. /\ input \in Seq(Nat) /\ levels.at[0] = Sorted(input)
      /\ \A i \in 0 .. levels.at[0].len - 1 :
           levels.at[0].at[i] \in {Leaf(d) : d \in Values(input)}
  <2>1. input \in Seq(Nat) /\ ~HasDuplicate(input) /\ levels.at[0] = Sorted(input)
    BY InputAssumption DEF Inv, TypeOK, SoundInv, RowsInv
  <2>2. {Sorted(input).at[i] : i \in 0 .. Sorted(input).len - 1}
          = {Leaf(d) : d \in Values(input)}
    BY <2>1, SortedHolds
  <2> QED
    BY <2>1, <2>2
<1>6. Root = levels.at[top].at[0]
  BY DEF Root, LastOf
<1> HIDE DEF top, len, sib
\* The rows top - t .. top have been opened, at the places q.
<1> DEFINE
      Below(q, k) ==
        /\ q[k + 1] = q[k] \div 2
        /\ sib[len - top + k] = SiblingIn(levels.at[k], q[k])
        /\ SiblingIndex(q[k]) < levels.at[k].len => ix[len - top + k] % 2 = q[k] % 2
      Opened(q, t) ==
        /\ \A k \in top - t .. top :
             /\ q[k] \in 0 .. levels.at[k].len - 1
             /\ n[len - top + k] = levels.at[k].at[q[k]]
        /\ \A k \in top - t .. top - 1 : Below(q, k)
      Good == {t \in Nat : t <= top /\ t <= len => \E q \in [Nat -> Nat] : Opened(q, t)}
<1>7. 0 \in Good
  <2> DEFINE q == [k \in Nat |-> 0]
  <2>1. q \in [Nat -> Nat] /\ q[top] = 0
    BY <1>1
  <2>2. top - 0 .. top = {top} /\ top - 0 .. top - 1 = {} /\ len - top + top = len
    BY <1>1
  <2> HIDE DEF q
  <2>3. q[top] \in 0 .. levels.at[top].len - 1
    BY <1>1, <2>1
  <2>4. n[len - top + top] = levels.at[top].at[q[top]]
    BY <1>3, <1>6, <2>1, <2>2
  <2>5. Opened(q, 0)
    BY <2>2, <2>3, <2>4
  <2> QED
    BY <2>1, <2>5
<1>8. ASSUME NEW t \in Good PROVE t + 1 \in Good
  <2> SUFFICES ASSUME t + 1 <= top, t + 1 <= len
               PROVE  \E q \in [Nat -> Nat] : Opened(q, t + 1)
    OBVIOUS
  <2>0. top \in Nat /\ len \in Nat /\ t \in Nat /\ t + 1 <= top /\ t + 1 <= len
    BY <1>1
  <2>1. t \in Nat /\ t <= top /\ t <= len
    BY <2>0
  <2>2. PICK q \in [Nat -> Nat] : Opened(q, t)
    BY <2>1
  <2>3. PICK k \in Nat : k = top - t - 1
    BY <1>1, <2>1
  <2>4. PICK j \in Nat : j = len - top + k
    BY <1>1, <2>1, <2>3
  <2>5. /\ k \in 0 .. top - 1 /\ k \in 0 .. top /\ k + 1 \in top - t .. top
        /\ j \in 0 .. len - 1 /\ len - top + (k + 1) = j + 1
    BY <1>1, <2>1, <2>3, <2>4
  <2>6. /\ q[k + 1] \in 0 .. levels.at[k + 1].len - 1
        /\ n[j + 1] = levels.at[k + 1].at[q[k + 1]]
    BY <2>2, <2>5
  <2> DEFINE row == levels.at[k]
  <2>7. levels.at[k + 1] = NextRow(row) /\ row.len \in Nat \ {0}
    BY <1>1, <2>5
  <2>8. n[j + 1] = FoldIn(n[j], ix[j], sib[j]) /\ ix[j] \in Nat
    BY <1>2, <1>3, <2>5
  <2> HIDE DEF row
  <2>9. PICK r \in 0 .. row.len - 1 :
          /\ q[k + 1] = r \div 2 /\ n[j] = row.at[r] /\ sib[j] = SiblingIn(row, r)
          /\ SiblingIndex(r) < row.len => ix[j] % 2 = r % 2
    <3>1. q[k + 1] \in 0 .. NextRow(row).len - 1
      BY <2>6, <2>7
    <3>2. NextRow(row).at[q[k + 1]] = FoldIn(n[j], ix[j], sib[j])
      BY <2>6, <2>7, <2>8
    <3>3. PICK q1, x, s, i : q1 = q[k + 1] /\ x = n[j] /\ s = sib[j] /\ i = ix[j]
      OBVIOUS
    <3>4. /\ q1 \in 0 .. NextRow(row).len - 1 /\ i \in Nat
          /\ NextRow(row).at[q1] = FoldIn(x, i, s)
      BY <2>8, <3>1, <3>2, <3>3
    <3>5. \E r \in 0 .. row.len - 1 :
            /\ q1 = r \div 2 /\ x = row.at[r] /\ s = SiblingIn(row, r)
            /\ SiblingIndex(r) < row.len => i % 2 = r % 2
      BY <2>7, <3>4, FoldOpens
    <3> QED
      BY <3>3, <3>5
  <2>10. PICK p \in [Nat -> Nat] : p[k] = r /\ \A i \in Nat : i # k => p[i] = q[i]
    <3> DEFINE p == [i \in Nat |-> IF i = k THEN r ELSE q[i]]
    <3>1. p \in [Nat -> Nat] /\ p[k] = r /\ \A i \in Nat : i # k => p[i] = q[i]
      BY <2>7, <2>9
    <3> HIDE DEF p
    <3> QED
      BY <3>1
  <2>11. p[k + 1] = q[k + 1]
    BY <2>10
  <2>12. ASSUME NEW i \in top - (t + 1) .. top
         PROVE  /\ p[i] \in 0 .. levels.at[i].len - 1
                /\ n[len - top + i] = levels.at[i].at[p[i]]
    <3>1. CASE i = k
      BY <2>4, <2>9, <2>10, <3>1 DEF row
    <3>2. CASE i # k
      <4>1. i \in top - t .. top /\ i \in Nat
        BY <2>0, <2>3, <3>2
      <4>2. p[i] = q[i]
        BY <2>10, <3>2, <4>1
      <4>3. /\ q[i] \in 0 .. levels.at[i].len - 1
            /\ n[len - top + i] = levels.at[i].at[q[i]]
        BY <2>2, <4>1
      <4> QED
        BY <4>2, <4>3
    <3> QED
      BY <3>1, <3>2
  <2>13. ASSUME NEW i \in top - (t + 1) .. top - 1 PROVE Below(p, i)
    <3>1. CASE i = k
      BY <2>4, <2>9, <2>10, <2>11, <3>1 DEF row
    <3>2. CASE i # k
      <4>1. i \in top - t .. top - 1 /\ i \in Nat /\ i + 1 \in Nat /\ i + 1 # k
        BY <2>0, <2>3, <3>2
      <4>2. p[i] = q[i] /\ p[i + 1] = q[i + 1]
        BY <2>10, <3>2, <4>1
      <4>3. Below(q, i)
        BY <2>2, <4>1
      <4> QED
        BY <4>2, <4>3
    <3> QED
      BY <3>1, <3>2
  <2> HIDE DEF Below
  <2>14. Opened(p, t + 1)
    BY <2>12, <2>13
  <2> QED
    BY <2>10, <2>14
<1>9. \A t \in Nat : t <= top /\ t <= len => \E q \in [Nat -> Nat] : Opened(q, t)
  <2>1. Good \subseteq Nat
    OBVIOUS
  <2>2. Nat \subseteq Good
    <3> HIDE DEF Good
    <3> QED
      BY <1>7, <1>8, <2>1, AllNumbers
  <2> HIDE DEF Opened
  <2> QED
    BY <2>2
\* A longer path would fold a leaf out of a pair.
<1>10. len <= top
  <2> SUFFICES ASSUME len > top PROVE FALSE
    BY <1>1
  <2>1. PICK q \in [Nat -> Nat] : Opened(q, top)
    <3>1. top \in Nat /\ top <= top /\ top <= len
      BY <1>1
    <3> HIDE DEF Opened
    <3> QED
      BY <1>9, <3>1
  <2>2. PICK j \in Nat : j + 1 = len - top
    BY <1>1
  <2>3. /\ 0 \in top - top .. top /\ len - top + 0 = j + 1 /\ j \in 0 .. len - 1
    BY <1>1, <2>2
  <2>4. q[0] \in 0 .. levels.at[0].len - 1 /\ n[j + 1] = levels.at[0].at[q[0]]
    BY <2>1, <2>3
  <2>5. PICK d : n[j + 1] = Leaf(d)
    BY <1>5, <2>4
  <2>6. n[j + 1] = FoldIn(n[j], ix[j], sib[j])
    BY <1>3, <2>3
  <2>7. PICK a, b : n[j + 1] = Parent(a, b)
    BY <2>6 DEF FoldIn
  <2> QED
    BY <2>5, <2>7, PairsAreFree
\* Below the root there are as many rows as the path has siblings.
<1>11. PICK q \in [Nat -> Nat] : Opened(q, len)
  <2>1. len \in Nat /\ len <= top /\ len <= len
    BY <1>1, <1>10
  <2> HIDE DEF Opened
  <2> QED
    BY <1>9, <2>1
<1>12. PICK base \in 0 .. top : base = top - len
  BY <1>1, <1>10
<1>13. PICK r \in [Nat -> Nat] : \A k \in Nat : r[k] = q[base + k]
  <2> DEFINE r == [k \in Nat |-> q[base + k]]
  <2>1. r \in [Nat -> Nat] /\ \A k \in Nat : r[k] = q[base + k]
    BY <1>1, <1>11, <1>12
  <2> HIDE DEF r
  <2> QED
    BY <2>1
<1>14. r[0] \in 0 .. levels.at[base].len - 1 /\ n[0] = levels.at[base].at[r[0]]
  <2>1. /\ base \in top - len .. top /\ len - top + base = 0 /\ base + 0 = base
        /\ 0 \in Nat
    BY <1>1, <1>12
  <2>2. r[0] = q[base]
    BY <1>13, <2>1
  <2> QED
    BY <1>11, <2>1, <2>2
<1>15. ASSUME NEW k \in 0 .. len - 1
       PROVE  /\ r[k + 1] = r[k] \div 2
              /\ sib[k] = SiblingIn(levels.at[base + k], r[k])
              /\ SiblingIndex(r[k]) < levels.at[base + k].len => ix[k] % 2 = r[k] % 2
  <2>1. /\ base + k \in top - len .. top - 1 /\ len - top + (base + k) = k
        /\ k \in Nat /\ k + 1 \in Nat /\ base + (k + 1) = (base + k) + 1
    BY <1>1, <1>12
  <2>2. r[k] = q[base + k] /\ r[k + 1] = q[(base + k) + 1]
    BY <1>13, <2>1
  <2>3. Below(q, base + k)
    BY <1>11, <2>1
  <2> QED
    BY <2>1, <2>2, <2>3
<1> HIDE DEF Below, Opened, Good
<1>16. \A k \in 0 .. len : Halves(r[0], len)[k] = r[k]
  BY <1>1, <1>15, HalvesAre
<1>17. \A k \in 0 .. len : Halves(received.leaf_index, len)[k] = ix[k]
  <2>1. \A k \in 0 .. len - 1 : ix[k + 1] = ix[k] \div 2
    BY <1>3
  <2>2. \A k \in 0 .. len : Halves(ix[0], len)[k] = ix[k]
    BY <1>1, <2>1, HalvesAre
  <2> QED
    BY <1>3, <2>2
<1>18. Opens(received, base, r[0])
  <2>1. received.leaf_hash = levels.at[base].at[r[0]]
    BY <1>3, <1>14
  <2>2. ASSUME NEW k \in 0 .. len - 1
        PROVE  /\ sib[k] = SiblingIn(levels.at[base + k], Halves(r[0], len)[k])
               /\ SiblingIndex(Halves(r[0], len)[k]) < levels.at[base + k].len =>
                    Halves(received.leaf_index, len)[k] % 2 = Halves(r[0], len)[k] % 2
    <3>1. k \in 0 .. len
      BY <1>1
    <3>2. Halves(r[0], len)[k] = r[k] /\ Halves(received.leaf_index, len)[k] = ix[k]
      BY <1>16, <1>17, <3>1
    <3> QED
      BY <1>15, <3>2
  <2> QED
    BY <2>1, <2>2 DEF Opens, len, sib
\* A node above row 0 is a pair.
<1>19. ASSUME IsLeaf(received.leaf_hash)
       PROVE  base = 0 /\ received.leaf_hash \in {Leaf(d) : d \in Values(input)}
  <2>1. PICK d : n[0] = Leaf(d)
    BY <1>3, <1>19 DEF IsLeaf
  <2>2. base = 0
    <3> SUFFICES ASSUME base # 0 PROVE FALSE
      OBVIOUS
    <3>1. PICK k \in 0 .. top - 1 : k + 1 = base
      <4>1. base - 1 \in 0 .. top - 1 /\ (base - 1) + 1 = base
        BY <1>1, <1>12
      <4> QED
        BY <4>1
    <3>2. levels.at[base] = NextRow(levels.at[k])
      BY <1>1, <3>1
    <3>3. PICK a, b : n[0] = Parent(a, b)
      BY <1>14, <3>2 DEF NextRow
    <3> QED
      BY <2>1, <3>3, PairsAreFree
  <2> QED
    BY <1>3, <1>5, <1>14, <2>2
<1>20. received.round_id = expected.round
  BY DEF SoundInv, HistoryInv
<1>21. levels.len - 1 - len = base /\ 0 .. levels.len - 1 = 0 .. top
  BY <1>1, <1>12 DEF top
<1> QED
  BY <1>12, <1>14, <1>18, <1>19, <1>20, <1>21 DEF AcceptedOpensRoot, len

\* The nodes verify() climbs through are known all the way.
THEOREM HistoryKept == Spec => []SoundInv
<1>1. ASSUME Inv, SoundInv, pc = "proved", NEW p \in {proof} \cup Altered(proof)
      PROVE  IsCopy(p)
  <2>1. /\ IsProof(proof) /\ proof.leaf_index \in Nat
        /\ DOMAIN proof.sibling_hashes = {"len", "at"}
        /\ proof.sibling_hashes.len \in Nat
    BY <1>1 DEF Inv, TreeInv, ProofInv, SoundInv, PathInv
  <2> QED
    BY <1>1, <2>1, ReceivedIsCopy
<1>2. Inv /\ SoundInv /\ [Next]_vars => SoundInv'
  BY <1>1, BuildSound, ProofSound, VerifySound, ClimbSound, StutterSound DEF Next
<1> QED
  BY SoundInit, Invariance, <1>2, PTL DEF Spec

\* Whatever altered copy of a proof verify() accepts opens a node of the tree, and
\* if it is of a ticket commitment it is the proof of a member.
THEOREM ProofsSound == Spec => []AcceptedOpensRoot
BY HistoryKept, Invariance, AcceptedOpens, PTL

-----------------------------------------------------------------------------
\* The same program with a verifier that may be handed anything: any leaf_hash, any
\* index, any siblings, as many as one likes.
VerifyAny ==
  /\ pc = "proved"
  /\ \E p : IsCopy(p) /\ \E round \in RoundIds : Verify(p, Root, round)

NextAny ==
  \/ Build
  \/ AddLevel
  \/ \E d \in Queries, round \in RoundIds : Proof(d, round)
  \/ AddSibling
  \/ VerifyAny
  \/ Climb

\* Nothing depends on which copies the model tries: verify() is sound, and honest
\* proofs are accepted, whatever bytes it is handed.
THEOREM SoundForAnyCopy ==
  Init /\ [][NextAny]_vars => [](AcceptedOpensRoot /\ HonestProofAccepted)
<1>1. ASSUME Inv, SoundInv, VerifyAny PROVE Inv' /\ SoundInv'
  <2>1. pc = "proved"
    BY <1>1 DEF VerifyAny
  <2>2. PICK p : IsCopy(p) /\ \E round \in RoundIds : Verify(p, Root, round)
    BY <1>1 DEF VerifyAny
  <2>3. PICK round \in RoundIds : Verify(p, Root, round)
    BY <2>2
  <2>4. p.leaf_index \in Nat
    BY <2>2 DEF IsCopy
  <2> QED
    BY <1>1, <2>1, <2>2, <2>3, <2>4, VerifyKeeps, VerifySound
<1>2. Inv /\ SoundInv /\ [NextAny]_vars => Inv' /\ SoundInv'
  BY <1>1, BuildKeeps, AddLevelKeeps, ProofKeeps, AddSiblingKeeps, ClimbKeeps,
     StutterKeeps, BuildSound, ProofSound, ClimbSound, StutterSound DEF NextAny
<1>3. Inv /\ SoundInv => AcceptedOpensRoot /\ HonestProofAccepted
  BY AcceptedOpens DEF Inv
<1> QED
  BY InitInv, SoundInit, <1>2, <1>3, PTL

\* Once the tree is built, its first row is the sorted list of the commitments, for
\* whatever list of the same set build() was given, and holds each of them:
\* proof() finds every member, and the rows above follow from the set alone.
CohortIsTheSet ==
  pc \in TreePhases =>
    /\ LeafDigests = {Leaf(d) : d \in Values(input)}
    /\ \A s \in Inputs :
         ~HasDuplicate(s) /\ Values(s) = Values(input) => levels.at[0] = Sorted(s)
    /\ \A k \in 0 .. levels.len - 2 : levels.at[k + 1] = NextRow(levels.at[k])

\* Root and proofs depend on the set of commitments, not on their order.
THEOREM TreeIsOfTheSet == Spec => []CohortIsTheSet
<1>1. Inv /\ SoundInv => CohortIsTheSet
  <2> SUFFICES ASSUME Inv, SoundInv, pc \in TreePhases
               PROVE  /\ LeafDigests = {Leaf(d) : d \in Values(input)}
                      /\ \A s \in Inputs : ~HasDuplicate(s) /\ Values(s) = Values(input)
                            => levels.at[0] = Sorted(s)
                      /\ \A k \in 0 .. levels.len - 2 :
                           levels.at[k + 1] = NextRow(levels.at[k])
    BY DEF CohortIsTheSet
  <2>1. input \in Seq(Nat) /\ ~HasDuplicate(input) /\ levels.at[0] = Sorted(input)
    BY InputAssumption DEF Inv, TypeOK, SoundInv, RowsInv
  <2>2. LeafDigests = {Leaf(d) : d \in Values(input)}
    BY <2>1, SortedHolds DEF LeafDigests
  <2>3. ASSUME NEW s \in Inputs, ~HasDuplicate(s), Values(s) = Values(input)
        PROVE  levels.at[0] = Sorted(s)
    <3>1. s \in Seq(Nat)
      BY InputAssumption
    <3> QED
      BY <2>1, <2>3, <3>1, SortedIsOfTheSet
  <2>4. \A k \in 0 .. levels.len - 2 : levels.at[k + 1] = NextRow(levels.at[k])
    BY DEF Inv, TreeInv
  <2> QED
    BY <2>2, <2>3, <2>4
<1> QED
  BY HistoryKept, Invariance, <1>1, PTL

-----------------------------------------------------------------------------
(***************************************************************************)
(* The root is the canonical one.                                          *)
(*                                                                         *)
(* The rows are compared with the reference tree from row 0 up.  That a    *)
(* node has a right child is "2i + 1 is inside the row" in build() and     *)
(* "there is a leaf from (2i + 1) * 2^k on" in the reference; RowsAreWide  *)
(* says that the two are the same.                                         *)
(***************************************************************************)

\* build() adds a row only above one of two or more nodes.
TallInv ==
  pc \in TreePhases => \A k \in 0 .. levels.len - 2 : levels.at[k].len > 1

LEMMA TallStep == Inv /\ TallInv /\ [Next]_vars => TallInv'
<1> SUFFICES ASSUME Inv, TallInv, [Next]_vars PROVE TallInv'
  OBVIOUS
<1>1. CASE Build
  <2>1. pc' = "levels" => levels' = Push(EmptyVec, Sorted(input))
    BY <1>1 DEF Build
  <2>2. pc' = "levels" => levels'.len = 1
    BY <2>1, PushFacts DEF EmptyVec
  <2> QED
    BY <1>1, <2>2 DEF Build, TallInv
<1>2. CASE AddLevel
  <2>1. levels.len \in Nat \ {0} /\ pc \in TreePhases
    BY <1>2 DEF AddLevel, Inv, TreeInv
  <2>2. CASE levels' = levels
    BY <2>1, <2>2 DEF TallInv
  <2>3. CASE /\ LastOf(levels).len > 1
             /\ levels' = Push(levels, NextRow(LastOf(levels)))
    <3>1. /\ levels'.len = levels.len + 1
          /\ \A i \in 0 .. levels.len - 1 : levels'.at[i] = levels.at[i]
      BY <2>1, <2>3, PushFacts
    <3>2. ASSUME NEW k \in 0 .. levels.len - 1 PROVE levels.at[k].len > 1
      <4>1. CASE k = levels.len - 1
        BY <2>3, <4>1 DEF LastOf
      <4>2. CASE k \in 0 .. levels.len - 2
        BY <2>1, <4>2 DEF TallInv
      <4> QED
        BY <2>1, <4>1, <4>2
    <3>3. levels'.len - 2 = levels.len - 1
      BY <2>1, <3>1
    <3> QED
      BY <3>1, <3>2, <3>3 DEF TallInv
  <2> QED
    BY <1>2, <2>2, <2>3 DEF AddLevel
<1>3. CASE levels' = levels /\ (pc' \in TreePhases => pc \in TreePhases)
  BY <1>3 DEF TallInv
<1> QED
  BY <1>1, <1>2, <1>3 DEF Next, Proof, AddSibling, Verify, Climb, vars

\* No row but the last one of a built tree is a single node.
THEOREM TreeIsTall == Spec => []TallInv
<1>1. Init => TallInv
  BY DEF Init, TallInv
<1> QED
  BY <1>1, TallStep, Invariance, PTL DEF Spec

\* The powers of two, by their equation.
LEMMA WidthDoubles ==
  ASSUME levels.len \in Nat \ {0}
  PROVE  /\ Width[0] = 1
         /\ \A k \in 0 .. levels.len - 1 : Width[k] \in Nat \ {0}
         /\ \A k \in 0 .. levels.len - 2 : Width[k + 1] = 2 * Width[k]
<1> DEFINE D == 0 .. levels.len - 1
           Eq(w) == w = [k \in D |-> IF k = 0 THEN 1 ELSE 2 * w[k - 1]]
           Upto(w, n) == \A k \in D : k <= n => w[k] = IF k = 0 THEN 1 ELSE 2 * w[k - 1]
           Good == {n \in Nat : \E w \in [D -> Nat] : Upto(w, n)}
<1>1. 0 \in Good
  <2> DEFINE w == [k \in D |-> 1]
  <2>1. w \in [D -> Nat] /\ Upto(w, 0)
    OBVIOUS
  <2> QED
    BY <2>1
<1>2. ASSUME NEW n \in Good PROVE n + 1 \in Good
  <2>1. PICK w \in [D -> Nat] : Upto(w, n)
    OBVIOUS
  <2> DEFINE v == [k \in D |-> IF k = n + 1 THEN 2 * w[n] ELSE w[k]]
  <2>2. v \in [D -> Nat]
    <3>1. ASSUME NEW k \in D, k = n + 1 PROVE n \in D
      BY <3>1
    <3> QED
      BY <3>1
  <2>3. ASSUME NEW k \in D, k <= n + 1
        PROVE  v[k] = IF k = 0 THEN 1 ELSE 2 * v[k - 1]
    <3>1. CASE k = n + 1
      <4>1. n \in D /\ v[n] = w[n] /\ k - 1 = n /\ k # 0
        BY <3>1
      <4> QED
        BY <3>1, <4>1
    <3>2. CASE k <= n
      <4>1. v[k] = w[k] /\ (k # 0 => k - 1 \in D /\ v[k - 1] = w[k - 1])
        BY <3>2
      <4> QED
        BY <2>1, <3>2, <4>1
    <3> QED
      BY <2>3, <3>1, <3>2
  <2> HIDE DEF v
  <2>4. Upto(v, n + 1)
    BY <2>3
  <2> HIDE DEF Upto
  <2> QED
    BY <2>2, <2>4
<1>3. PICK w \in [D -> Nat] : Upto(w, levels.len)
  <2>1. Nat \subseteq Good
    <3>1. Good \subseteq Nat
      OBVIOUS
    <3> HIDE DEF Good
    <3> QED
      BY <1>1, <1>2, <3>1, AllNumbers
  <2> HIDE DEF Upto
  <2> QED
    BY <2>1
<1>4. Eq(w)
  <2>1. \A k \in D : w[k] = IF k = 0 THEN 1 ELSE 2 * w[k - 1]
    BY <1>3
  <2> QED
    BY <2>1
<1>5. Width = CHOOSE u : Eq(u)
  BY DEF Width
<1>6. PICK u : u = Width /\ Eq(u)
  BY <1>4, <1>5
<1>7. \A k \in D : u[k] = IF k = 0 THEN 1 ELSE 2 * u[k - 1]
  BY <1>6
<1>8. u[0] = 1
  BY <1>7
<1>9. ASSUME NEW k \in 0 .. levels.len - 2 PROVE u[k + 1] = 2 * u[k]
  <2>1. k + 1 \in D /\ k + 1 # 0 /\ k + 1 - 1 = k
    OBVIOUS
  <2> QED
    BY <1>7, <2>1
<1> DEFINE S == {k \in Nat : k \in D => u[k] \in Nat \ {0}}
<1>10. ASSUME NEW k \in S PROVE k + 1 \in S
  <2> SUFFICES ASSUME k + 1 \in D PROVE u[k + 1] \in Nat \ {0}
    OBVIOUS
  <2>1. k \in D /\ k \in 0 .. levels.len - 2
    OBVIOUS
  <2>2. u[k] \in Nat \ {0}
    BY <2>1
  <2> QED
    BY <1>9, <2>1, <2>2
<1>11. \A k \in D : u[k] \in Nat \ {0}
  <2>1. S \subseteq Nat /\ 0 \in S
    BY <1>8
  <2>2. Nat \subseteq S
    <3> HIDE DEF S
    <3> QED
      BY <1>10, <2>1, AllNumbers
  <2> QED
    BY <2>2
<1> QED
  BY <1>6, <1>8, <1>9, <1>11

\* The shape of a tree: non-empty rows, each computed from the one below.
RowsOverRows ==
  /\ levels.len \in Nat \ {0}
  /\ \A k \in 0 .. levels.len - 1 : levels.at[k].len \in Nat \ {0}
  /\ \A k \in 0 .. levels.len - 2 : levels.at[k + 1] = NextRow(levels.at[k])

\* A place is inside a row exactly if there is a leaf where its node begins.
LEMMA RowsAreWide ==
  ASSUME RowsOverRows, NEW k \in 0 .. levels.len - 1, NEW i \in Nat
  PROVE  i < levels.at[k].len <=> i * Width[k] < levels.at[0].len
<1> USE DEF RowsOverRows
<1> DEFINE n == levels.at[0].len
           S == {m \in Nat : m \in 0 .. levels.len - 1 =>
                   \A j \in Nat : j < levels.at[m].len <=> j * Width[m] < n}
<1>1. 0 \in S
  BY WidthDoubles
<1>2. ASSUME NEW m \in S PROVE m + 1 \in S
  <2> SUFFICES ASSUME m + 1 \in 0 .. levels.len - 1, NEW j \in Nat
               PROVE  j < levels.at[m + 1].len <=> j * Width[m + 1] < n
    OBVIOUS
  <2>1. m \in 0 .. levels.len - 1 /\ m \in 0 .. levels.len - 2
    OBVIOUS
  <2>2. PICK l \in Nat \ {0} : l = levels.at[m].len
    BY <2>1
  <2>3. levels.at[m + 1].len = (l + 1) \div 2
    <3>1. levels.at[m + 1] = NextRow(levels.at[m])
      BY <2>1
    <3> QED
      BY <2>2, <3>1 DEF NextRow
  <2>4. PICK w \in Nat \ {0} : w = Width[m] /\ Width[m + 1] = 2 * w
    BY <2>1, WidthDoubles
  <2>5. j < (l + 1) \div 2 <=> 2 * j < l
    OBVIOUS
  <2>6. 2 * j \in Nat
    OBVIOUS
  <2>7. 2 * j < l <=> (2 * j) * w < n
    BY <2>1, <2>2, <2>4, <2>6
  <2>8. (2 * j) * w = j * (2 * w)
    OBVIOUS
  <2> QED
    BY <2>3, <2>4, <2>5, <2>7, <2>8
<1>3. Nat \subseteq S
  <2>1. S \subseteq Nat
    OBVIOUS
  <2> HIDE DEF S
  <2> QED
    BY <1>1, <1>2, <2>1, AllNumbers
<1> QED
  BY <1>3

\* One node of the reference tree, above the rows that g holds.
Places(k) ==
  {j \in 0 .. levels.at[0].len - 1 : j * Width[k] < levels.at[0].len}

RefNode(g, k, i) ==
  IF k = 0 THEN levels.at[0].at[i]
  ELSE Parent(g[k - 1][2 * i],
              g[k - 1][IF (2 * i + 1) * Width[k - 1] < levels.at[0].len
                         THEN 2 * i + 1 ELSE 2 * i])

LEMMA PlacesAreRow ==
  ASSUME RowsOverRows, NEW k \in 0 .. levels.len - 1
  PROVE  Places(k) = 0 .. levels.at[k].len - 1
<1> DEFINE n == levels.at[0].len
<1>1. PICK w \in Nat \ {0} : w = Width[k]
  BY WidthDoubles DEF RowsOverRows
<1>2. n \in Nat /\ levels.at[k].len \in Nat
  BY DEF RowsOverRows
<1>3. ASSUME NEW j \in Nat PROVE j < levels.at[k].len <=> j * w < n
  BY <1>1, RowsAreWide
<1>4. ASSUME NEW j \in Nat, j * w < n PROVE j \in 0 .. n - 1
  <2>1. j <= j * w
    <3>1. PICK v \in Nat : w = v + 1
      BY <1>1
    <3>2. j * (v + 1) = j * v + j /\ j * v \in Nat
      BY <3>1
    <3> QED
      BY <3>1, <3>2
  <2>2. j * w \in Nat
    BY <1>1
  <2> QED
    BY <1>2, <1>4, <2>1, <2>2
<1>5. ASSUME NEW j \in Places(k) PROVE j \in 0 .. levels.at[k].len - 1
  BY <1>1, <1>2, <1>3 DEF Places
<1>6. ASSUME NEW j \in 0 .. levels.at[k].len - 1 PROVE j \in Places(k)
  <2>1. j \in Nat /\ j < levels.at[k].len
    BY <1>2
  <2>2. j * w < n
    BY <1>3, <2>1
  <2> QED
    BY <1>1, <1>4, <2>1, <2>2 DEF Places
<1> QED
  BY <1>5, <1>6

\* If g holds row k, the reference node above it is build()'s.
LEMMA RefStep ==
  ASSUME RowsOverRows, NEW k \in 0 .. levels.len - 2, NEW g,
         \A j \in 0 .. levels.at[k].len - 1 : g[k][j] = levels.at[k].at[j],
         NEW i \in 0 .. levels.at[k + 1].len - 1
  PROVE  RefNode(g, k + 1, i) = levels.at[k + 1].at[i]
<1> DEFINE row == levels.at[k]
<1>1. row.len \in Nat \ {0} /\ levels.at[k + 1] = NextRow(row) /\ k \in 0 .. levels.len - 1
      /\ k + 1 # 0 /\ k + 1 - 1 = k
  BY DEF RowsOverRows
<1> HIDE DEF row
<1>2. /\ i \in Nat /\ 2 * i \in 0 .. row.len - 1
      /\ levels.at[k + 1].at[i] = Parent(row.at[2 * i], GetOr(row, 2 * i + 1, row.at[2 * i]))
  BY <1>1 DEF NextRow
<1>3. (2 * i + 1) * Width[k] < levels.at[0].len <=> 2 * i + 1 < row.len
  BY <1>1, <1>2, RowsAreWide DEF row
<1>4. \A j \in 0 .. row.len - 1 : g[k][j] = row.at[j]
  BY DEF row
<1>5. RefNode(g, k + 1, i)
        = Parent(g[k][2 * i], g[k][IF 2 * i + 1 < row.len THEN 2 * i + 1 ELSE 2 * i])
  BY <1>1, <1>3 DEF RefNode
<1>6. CASE 2 * i + 1 < row.len
  <2>1. 2 * i + 1 \in 0 .. row.len - 1
    BY <1>1, <1>2, <1>6
  <2> QED
    BY <1>2, <1>4, <1>5, <1>6, <2>1 DEF GetOr
<1>7. CASE ~(2 * i + 1 < row.len)
  BY <1>2, <1>4, <1>5, <1>7 DEF GetOr
<1> QED
  BY <1>6, <1>7

\* The rows of build() are the rows of the reference tree.
LEMMA RefIsRows ==
  ASSUME RowsOverRows, NEW k \in 0 .. levels.len - 1, NEW i \in 0 .. levels.at[k].len - 1
  PROVE  RefTree[k][i] = levels.at[k].at[i]
<1> DEFINE D == 0 .. levels.len - 1
           Eq(g) == g = [m \in D |-> [j \in Places(m) |-> RefNode(g, m, j)]]
           g == [m \in D |-> [j \in Places(m) |-> levels.at[m].at[j]]]
<1>1. \A m \in D : Places(m) = 0 .. levels.at[m].len - 1
  BY PlacesAreRow
<1>2. ASSUME NEW h, NEW m \in Nat, m + 1 \in D,
             \A j \in Places(m) : h[m][j] = levels.at[m].at[j],
             NEW j \in Places(m + 1)
      PROVE  RefNode(h, m + 1, j) = levels.at[m + 1].at[j]
  <2>1. m \in 0 .. levels.len - 2 /\ m \in D
    BY <1>2 DEF RowsOverRows
  <2>2. j \in 0 .. levels.at[m + 1].len - 1
    BY <1>1, <1>2
  <2>3. \A x \in 0 .. levels.at[m].len - 1 : h[m][x] = levels.at[m].at[x]
    BY <1>1, <1>2, <2>1
  <2> QED
    BY <2>1, <2>2, <2>3, RefStep
<1>3. Eq(g)
  <2>1. ASSUME NEW m \in D, NEW j \in Places(m)
        PROVE  RefNode(g, m, j) = levels.at[m].at[j]
    <3>1. CASE m = 0
      BY <3>1 DEF RefNode
    <3>2. CASE m # 0
      <4>1. PICK x \in Nat : m = x + 1 /\ x \in D
        BY <3>2 DEF RowsOverRows
      <4>2. \A y \in Places(x) : g[x][y] = levels.at[x].at[y]
        BY <4>1
      <4> HIDE DEF g
      <4> QED
        BY <1>2, <4>1, <4>2
    <3> QED
      BY <3>1, <3>2
  <2>2. ASSUME NEW m \in D
        PROVE  [j \in Places(m) |-> levels.at[m].at[j]]
                 = [j \in Places(m) |-> RefNode(g, m, j)]
    BY <2>1
  <2> QED
    BY <2>2
<1> HIDE DEF g
<1>4. RefTree = CHOOSE h : Eq(h)
  BY DEF RefTree, Places, RefNode
<1>5. PICK h : h = RefTree /\ Eq(h)
  <2> HIDE DEF Eq
  <2> QED
    BY <1>3, <1>4
<1>6. \A m \in D : \A j \in Places(m) : h[m][j] = RefNode(h, m, j)
  <2> SUFFICES ASSUME NEW m \in D, NEW j \in Places(m)
               PROVE  h[m][j] = RefNode(h, m, j)
    OBVIOUS
  <2>1. h = [x \in D |-> [y \in Places(x) |-> RefNode(h, x, y)]]
    BY <1>5
  <2>2. h[m] = [y \in Places(m) |-> RefNode(h, m, y)]
    BY <2>1, Zenon
  <2> QED
    BY <2>2, Zenon
<1> DEFINE S == {m \in Nat : m \in D => \A j \in Places(m) : h[m][j] = levels.at[m].at[j]}
<1>7. 0 \in S
  <2>1. 0 \in D
    BY DEF RowsOverRows
  <2>2. \A j \in Places(0) : h[0][j] = RefNode(h, 0, j)
    BY <1>6, <2>1
  <2>3. \A j \in Places(0) : h[0][j] = levels.at[0].at[j]
    BY <2>2 DEF RefNode
  <2> QED
    BY <2>3
<1>8. ASSUME NEW m \in S PROVE m + 1 \in S
  <2> SUFFICES ASSUME m + 1 \in D, NEW j \in Places(m + 1)
               PROVE  h[m + 1][j] = levels.at[m + 1].at[j]
    OBVIOUS
  <2>1. m \in Nat /\ m \in D
    BY DEF RowsOverRows
  <2>2. \A x \in Places(m) : h[m][x] = levels.at[m].at[x]
    BY <2>1
  <2> QED
    BY <1>2, <1>6, <2>1, <2>2
<1>9. Nat \subseteq S
  <2>1. S \subseteq Nat
    OBVIOUS
  <2> HIDE DEF S
  <2> QED
    BY <1>7, <1>8, <2>1, AllNumbers
<1>10. k \in Nat /\ k \in D /\ i \in Places(k)
  BY <1>1 DEF RowsOverRows
<1>11. k \in S
  BY <1>9, <1>10
<1>12. h[k][i] = levels.at[k].at[i]
  BY <1>10, <1>11
<1> QED
  BY <1>5, <1>12

\* The digests of a row, and one set of leaves above the sets that u holds.
RowSet(k) == {levels.at[k].at[i] : i \in 0 .. levels.at[k].len - 1}

UnderNode(u, k, x) == IF k = 0 THEN {x} ELSE u[k - 1][x[1]] \cup u[k - 1][x[2]]

\* Every digest of a row is half of one above, and both halves of one are below it.
LEMMA RowPairs ==
  ASSUME RowsOverRows, NEW k \in 0 .. levels.len - 2
  PROVE  /\ \A x \in RowSet(k + 1) : x[1] \in RowSet(k) /\ x[2] \in RowSet(k)
         /\ \A y \in RowSet(k) : \E x \in RowSet(k + 1) : y = x[1] \/ y = x[2]
<1> DEFINE row == levels.at[k]
           up == levels.at[k + 1]
<1>1. row.len \in Nat \ {0} /\ up = NextRow(row)
  BY DEF RowsOverRows
<1> HIDE DEF row, up
<1>2. RowSet(k) = {row.at[i] : i \in 0 .. row.len - 1}
      /\ RowSet(k + 1) = {up.at[i] : i \in 0 .. up.len - 1}
  BY DEF RowSet, row, up
<1>3. up.len = (row.len + 1) \div 2
  BY <1>1 DEF NextRow
<1>4. ASSUME NEW i \in 0 .. up.len - 1
      PROVE  /\ i \in Nat /\ 2 * i \in 0 .. row.len - 1
             /\ up.at[i][1] = row.at[2 * i]
             /\ up.at[i][2] = GetOr(row, 2 * i + 1, row.at[2 * i])
  BY <1>1, <1>3 DEF NextRow, Parent
<1>5. ASSUME NEW i \in 0 .. up.len - 1
      PROVE  up.at[i][1] \in RowSet(k) /\ up.at[i][2] \in RowSet(k)
  <2>1. up.at[i][1] \in RowSet(k)
    BY <1>2, <1>4
  <2>2. CASE 2 * i + 1 < row.len
    <3>1. 2 * i + 1 \in 0 .. row.len - 1
      BY <1>1, <1>4, <2>2
    <3>2. up.at[i][2] = row.at[2 * i + 1]
      BY <1>4, <2>2 DEF GetOr
    <3> QED
      BY <1>2, <2>1, <3>1, <3>2
  <2>3. CASE ~(2 * i + 1 < row.len)
    BY <1>4, <2>1, <2>3 DEF GetOr
  <2> QED
    BY <2>2, <2>3
<1>6. ASSUME NEW j \in 0 .. row.len - 1
      PROVE  \E i \in 0 .. up.len - 1 : row.at[j] = up.at[i][1] \/ row.at[j] = up.at[i][2]
  <2>1. PICK i \in 0 .. up.len - 1 : j = 2 * i \/ j = 2 * i + 1
    <3>1. j \div 2 \in 0 .. (row.len + 1) \div 2 - 1 /\ (j = 2 * (j \div 2) \/ j = 2 * (j \div 2) + 1)
      BY <1>1
    <3> QED
      BY <1>3, <3>1
  <2>2. CASE j = 2 * i
    BY <1>4, <2>2
  <2>3. CASE j = 2 * i + 1
    <3>1. up.at[i][2] = row.at[j]
      BY <1>1, <1>4, <2>3 DEF GetOr
    <3> QED
      BY <3>1
  <2> QED
    BY <2>1, <2>2, <2>3
<1> QED
  BY <1>2, <1>5, <1>6

\* The recursion that LeavesUnder stands for has a solution.
LEMMA UnderNodes ==
  ASSUME RowsOverRows
  PROVE  \A k \in 0 .. levels.len - 1 : \A x \in RowSet(k) :
           LeavesUnder[k][x] = UnderNode(LeavesUnder, k, x)
<1> DEFINE D == 0 .. levels.len - 1
           Eq(u) == u = [k \in D |-> [x \in RowSet(k) |-> UnderNode(u, k, x)]]
           Upto(u, n) == \A k \in D : k <= n => u[k] = [x \in RowSet(k) |-> UnderNode(u, k, x)]
           Good == {n \in Nat : \E u : Upto(u, n)}
<1>1. 0 \in Good
  <2> DEFINE u == [k \in D |-> [x \in RowSet(k) |-> {x}]]
  <2>1. ASSUME NEW k \in D, k <= 0
        PROVE  u[k] = [x \in RowSet(k) |-> UnderNode(u, k, x)]
    <3>1. k = 0
      BY <2>1
    <3>2. \A x : UnderNode(u, k, x) = {x}
      BY <3>1 DEF UnderNode
    <3> QED
      BY <3>2
  <2> HIDE DEF u
  <2>2. Upto(u, 0)
    BY <2>1
  <2> HIDE DEF Upto
  <2> QED
    BY <2>2
<1>2. ASSUME NEW n \in Good PROVE n + 1 \in Good
  <2>1. PICK u : Upto(u, n)
    OBVIOUS
  <2>2. n \in Nat
    OBVIOUS
  <2> DEFINE v == [k \in D |-> IF k <= n THEN u[k]
                               ELSE [x \in RowSet(k) |-> UnderNode(u, k, x)]]
  <2>3. ASSUME NEW k \in D, k <= n + 1
        PROVE  v[k] = [x \in RowSet(k) |-> UnderNode(v, k, x)]
    <3>1. v[k] = [x \in RowSet(k) |-> UnderNode(u, k, x)]
      BY <2>1
    <3>2. ASSUME NEW x PROVE UnderNode(v, k, x) = UnderNode(u, k, x)
      <4>1. CASE k = 0
        BY <4>1 DEF UnderNode
      <4>2. CASE k # 0
        <5>1. k - 1 \in D /\ k - 1 <= n
          BY <2>2, <2>3, <4>2 DEF RowsOverRows
        <5>2. v[k - 1] = u[k - 1]
          BY <5>1
        <5> HIDE DEF v
        <5> QED
          BY <5>2 DEF UnderNode
      <4> QED
        BY <4>1, <4>2
    <3> HIDE DEF v
    <3> QED
      BY <3>1, <3>2
  <2> HIDE DEF v
  <2>4. Upto(v, n + 1)
    BY <2>3
  <2> HIDE DEF Upto
  <2> QED
    BY <2>2, <2>4
<1>3. PICK u : Upto(u, levels.len)
  <2>1. Nat \subseteq Good
    <3>1. Good \subseteq Nat
      OBVIOUS
    <3> HIDE DEF Good
    <3> QED
      BY <1>1, <1>2, <3>1, AllNumbers
  <2>2. levels.len \in Good
    BY <2>1 DEF RowsOverRows
  <2> HIDE DEF Upto
  <2> QED
    BY <2>2
<1>4. \E v : Eq(v)
  <2> DEFINE v == [k \in D |-> u[k]]
  <2>1. ASSUME NEW k \in D PROVE u[k] = [x \in RowSet(k) |-> UnderNode(v, k, x)]
    <3>1. u[k] = [x \in RowSet(k) |-> UnderNode(u, k, x)]
      BY <1>3 DEF RowsOverRows
    <3>2. ASSUME NEW x PROVE UnderNode(v, k, x) = UnderNode(u, k, x)
      <4>1. CASE k = 0
        BY <4>1 DEF UnderNode
      <4>2. CASE k # 0
        <5>1. k - 1 \in D
          BY <4>2 DEF RowsOverRows
        <5>2. v[k - 1] = u[k - 1]
          BY <5>1
        <5> HIDE DEF v
        <5> QED
          BY <5>2 DEF UnderNode
      <4> QED
        BY <4>1, <4>2
    <3> HIDE DEF v
    <3> QED
      BY <3>1, <3>2
  <2>2. v = [k \in D |-> [x \in RowSet(k) |-> UnderNode(v, k, x)]]
    BY <2>1
  <2> HIDE DEF v
  <2>3. Eq(v)
    BY <2>2
  <2> HIDE DEF Eq
  <2> QED
    BY <2>3
<1>5. LeavesUnder = CHOOSE h : Eq(h)
  BY DEF LeavesUnder, RowSet, UnderNode
<1>6. PICK h : h = LeavesUnder /\ Eq(h)
  <2> HIDE DEF Eq
  <2> QED
    BY <1>4, <1>5
<1> SUFFICES ASSUME NEW k \in D, NEW x \in RowSet(k) PROVE h[k][x] = UnderNode(h, k, x)
  BY <1>6
<1>7. h = [m \in D |-> [y \in RowSet(m) |-> UnderNode(h, m, y)]]
  BY <1>6
<1>8. h[k] = [y \in RowSet(k) |-> UnderNode(h, k, y)]
  BY <1>7, Zenon
<1> QED
  BY <1>8, Zenon

\* No leaf is lost on the way up, and none is added.
LEMMA RowsKeepLeaves ==
  ASSUME RowsOverRows, NEW k \in 0 .. levels.len - 1
  PROVE  UNION {LeavesUnder[k][x] : x \in RowSet(k)} = LeafDigests
<1> DEFINE D == 0 .. levels.len - 1
<1>1. PICK u : u = LeavesUnder
  OBVIOUS
<1> DEFINE All(m) == UNION {u[m][x] : x \in RowSet(m)}
           S == {m \in Nat : m \in D => All(m) = LeafDigests}
<1>2. \A m \in D : \A x \in RowSet(m) : u[m][x] = UnderNode(u, m, x)
  BY <1>1, UnderNodes
<1>3. 0 \in S
  <2>1. 0 \in D
    BY DEF RowsOverRows
  <2>2. \A x \in RowSet(0) : u[0][x] = {x}
    BY <1>2, <2>1 DEF UnderNode
  <2>3. RowSet(0) = LeafDigests
    BY DEF RowSet, LeafDigests
  <2>4. All(0) = LeafDigests
    BY <2>2, <2>3
  <2> QED
    BY <2>4
<1>4. ASSUME NEW m \in S PROVE m + 1 \in S
  <2> SUFFICES ASSUME m + 1 \in D PROVE All(m + 1) = LeafDigests
    OBVIOUS
  <2>1. m \in Nat /\ m \in D /\ m \in 0 .. levels.len - 2 /\ m + 1 # 0 /\ m + 1 - 1 = m
    BY DEF RowsOverRows
  <2>2. All(m) = LeafDigests
    BY <2>1
  <2>3. /\ \A x \in RowSet(m + 1) : x[1] \in RowSet(m) /\ x[2] \in RowSet(m)
        /\ \A y \in RowSet(m) : \E x \in RowSet(m + 1) : y = x[1] \/ y = x[2]
    BY <2>1, RowPairs
  <2>4. \A x \in RowSet(m + 1) : u[m + 1][x] = u[m][x[1]] \cup u[m][x[2]]
    <3>1. \A x : UnderNode(u, m + 1, x) = u[m][x[1]] \cup u[m][x[2]]
      BY <2>1 DEF UnderNode
    <3>2. \A x \in RowSet(m + 1) : u[m + 1][x] = UnderNode(u, m + 1, x)
      BY <1>2
    <3> QED
      BY <3>1, <3>2
  <2>5. All(m + 1) \subseteq All(m)
    BY <2>3, <2>4
  <2>6. All(m) \subseteq All(m + 1)
    <3> SUFFICES ASSUME NEW y \in RowSet(m), NEW e \in u[m][y]
                 PROVE  e \in All(m + 1)
      OBVIOUS
    <3>1. PICK x \in RowSet(m + 1) : y = x[1] \/ y = x[2]
      BY <2>3
    <3>2. e \in u[m + 1][x]
      BY <2>4, <3>1
    <3> QED
      BY <3>2
  <2> QED
    BY <2>2, <2>5, <2>6
<1>5. Nat \subseteq S
  <2>1. S \subseteq Nat
    OBVIOUS
  <2> HIDE DEF S
  <2> QED
    BY <1>3, <1>4, <2>1, AllNumbers
<1>6. All(k) = LeafDigests
  <2>1. k \in Nat
    BY DEF RowsOverRows
  <2> QED
    BY <1>5, <2>1
<1> QED
  BY <1>1, <1>6

\* sort_unstable leaves the row strictly ascending.
LEMMA SortedAscends ==
  ASSUME NEW s \in Seq(Nat), ~HasDuplicate(s),
         NEW i \in 0 .. Len(s) - 1, NEW j \in 0 .. Len(s) - 1, i < j
  PROVE  Sorted(s).at[i][1] < Sorted(s).at[j][1]
<1> DEFINE V == Values(s)
           Rank(d) == Cardinality({e \in V : e < d})
           At(x) == CHOOSE d \in V : Rank(d) = x
<1>1. V \subseteq Nat /\ IsFiniteSet(V) /\ Cardinality(V) = Len(s) /\ Len(s) \in Nat
  BY ValuesCounted
<1>2. \A x \in 0 .. Len(s) - 1 : Sorted(s).at[x][1] = At(x)
  BY DEF Sorted, Leaf
<1>3. ASSUME NEW x \in 0 .. Len(s) - 1 PROVE At(x) \in V /\ Rank(At(x)) = x
  <2>1. \E d \in V : Rank(d) = x
    BY <1>1, EveryRankTaken
  <2> HIDE DEF V, Rank
  <2> QED
    BY <2>1
<1>4. PICK a : a \in V /\ a = At(i) /\ Rank(a) = i
  <2> HIDE DEF V, Rank, At
  <2> QED
    BY <1>3
<1>5. PICK b : b \in V /\ b = At(j) /\ Rank(b) = j
  <2> HIDE DEF V, Rank, At
  <2> QED
    BY <1>3
<1>6. a \in Nat /\ b \in Nat
  BY <1>1, <1>4, <1>5
<1>7. ~(b <= a)
  <2> SUFFICES ASSUME b <= a PROVE FALSE
    OBVIOUS
  <2>1. {e \in V : e < b} \in SUBSET {e \in V : e < a}
    <3>1. a \in Nat /\ b \in Nat /\ \A e \in V : e \in Nat
      BY <1>1, <1>6
    <3>2. \A e \in V : e < b => e < a
      BY <3>1
    <3> HIDE DEF V
    <3> QED
      BY <3>2
  <2>2. IsFiniteSet({e \in V : e < a})
    BY <1>1, FS_Subset
  <2>3. Rank(b) <= Rank(a)
    BY <2>1, <2>2, FS_Subset
  <2> HIDE DEF Rank
  <2> QED
    BY <1>4, <1>5, <2>3
<1>8. a < b
  BY <1>6, <1>7
<1> HIDE DEF At, Rank, V
<1>9. Sorted(s).at[i][1] = At(i) /\ Sorted(s).at[j][1] = At(j)
  BY <1>2
<1> QED
  BY <1>4, <1>5, <1>8, <1>9

\* A finished tree, from its three invariants.
LEMMA BuiltIsCanonical == Inv /\ SoundInv /\ TallInv => RootIsCanonical
<1> SUFFICES ASSUME Inv, SoundInv, TallInv, pc \in Built PROVE RootIsCanonical
  BY DEF RootIsCanonical
<1> DEFINE n == levels.at[0].len
           top == levels.len - 1
<1>1. pc \in TreePhases /\ pc \in BuiltPhases
  BY DEF Built, TreePhases, BuiltPhases, BuildErrors
<1>2. RowsOverRows
  BY <1>1 DEF Inv, TypeOK, TreeInv, RowsOverRows
<1>3. top \in Nat /\ top \in 0 .. levels.len - 1 /\ levels.at[top].len = 1
      /\ n \in Nat \ {0} /\ 0 \in 0 .. levels.at[top].len - 1
  <2>1. levels.len \in Nat \ {0} /\ levels.at[levels.len - 1].len = 1
    BY <1>1, <1>2 DEF Inv, TipInv, RowsOverRows
  <2>2. levels.at[0].len \in Nat \ {0}
    BY <1>2 DEF RowsOverRows
  <2> QED
    BY <2>1, <2>2
<1>4. input \in Seq(Nat) /\ ~HasDuplicate(input) /\ levels.at[0] = Sorted(input)
  BY <1>1, InputAssumption DEF Inv, TypeOK, SoundInv, RowsInv
<1>5. \A i, j \in 0 .. n - 1 : i < j => levels.at[0].at[i][1] < levels.at[0].at[j][1]
  <2>1. n = Len(input)
    BY <1>4 DEF Sorted
  <2> QED
    BY <1>4, <2>1, SortedAscends
<1>6. n <= Width[top]
  <2>1. PICK w \in Nat : w = Width[top]
    BY <1>2, <1>3, WidthDoubles DEF RowsOverRows
  <2>2. 1 < levels.at[top].len <=> 1 * w < n
    BY <1>2, <1>3, <2>1, RowsAreWide
  <2> HIDE DEF n, top
  <2> QED
    BY <1>3, <2>1, <2>2
<1>7. ASSUME top > 0 PROVE Width[top - 1] < n
  <2>1. top - 1 \in 0 .. levels.len - 1 /\ top - 1 \in 0 .. levels.len - 2
    BY <1>2, <1>3, <1>7 DEF RowsOverRows
  <2>2. levels.at[top - 1].len > 1
    BY <1>1, <2>1 DEF TallInv
  <2>3. levels.at[top - 1].len \in Nat
    BY <1>2, <2>1 DEF RowsOverRows
  <2>4. PICK w \in Nat : w = Width[top - 1]
    BY <1>2, <2>1, WidthDoubles DEF RowsOverRows
  <2>5. 1 < levels.at[top - 1].len <=> 1 * w < n
    BY <1>2, <2>1, <2>4, RowsAreWide
  <2> HIDE DEF n, top
  <2> QED
    BY <1>3, <2>2, <2>3, <2>4, <2>5
<1>8. Root = levels.at[top].at[0]
  BY DEF Root, LastOf
<1>9. Root = RefTree[top][0]
  <2>1. RefTree[top][0] = levels.at[top].at[0]
    BY <1>2, <1>3, RefIsRows
  <2> QED
    BY <1>8, <2>1
<1>10. LeavesUnder[top][Root] = {Leaf(d) : d \in Values(input)}
  <2>1. UNION {LeavesUnder[top][x] : x \in RowSet(top)} = LeafDigests
    BY <1>2, <1>3, RowsKeepLeaves
  <2>2. RowSet(top) = {Root}
    BY <1>3, <1>8 DEF RowSet
  <2>3. LeafDigests = {Leaf(d) : d \in Values(input)}
    BY <1>4, SortedHolds DEF LeafDigests
  <2> HIDE DEF top
  <2> QED
    BY <2>1, <2>2, <2>3
<1> QED
  BY <1>5, <1>6, <1>7, <1>9, <1>10 DEF RootIsCanonical

\* build()'s root, for every list of commitments: the reference tree of least
\* height over the ascending leaves has the same root, all commitments are under it
\* and nothing else is.
THEOREM RootCorrect == Spec => []RootIsCanonical
BY Invariance, HistoryKept, TreeIsTall, BuiltIsCanonical, PTL
=============================================================================
