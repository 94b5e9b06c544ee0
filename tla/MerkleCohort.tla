---------------------------- MODULE MerkleCohort ----------------------------
(***************************************************************************)
(* One cohort tree, one inclusion proof from it and one verification       *)
(* (crates/mirror-pool-merkle/src/lib.rs), loop by loop.                   *)
(*                                                                         *)
(* The hash is free: the digest of a node is the pair of its children's    *)
(* digests, and a leaf, a ticket commitment hashed under another domain,   *)
(* is never such a pair.  Leaf digests are numbers in their byte order.    *)
(* A Vec is a record of its length and its contents, counted from 0.       *)
(***************************************************************************)
EXTENDS Integers, Sequences, FiniteSets

CONSTANTS
  Inputs,      \* the leaf lists build may be given: sequences of naturals
  Queries,     \* the leaves a proof may be asked for
  RoundIds,    \* the round_id values of proofs and verifiers
  MaxLeaves,   \* MAX_LEAVES
  Indices,     \* the leaf_index values a received proof may carry
  NoProof      \* the value of a proof not made yet

ASSUME InputAssumption ==
  /\ Inputs \subseteq Seq(Nat) /\ Queries \subseteq Nat /\ Indices \subseteq Nat
  /\ MaxLeaves \in Nat

VARIABLES
  pc,        \* the loop the code is in, or the result it returned
  input,     \* the leaves given to build
  levels,    \* MerkleCohort.levels, the sorted leaves first
  index,     \* the local index of proof and of verify
  proof,     \* the CohortProof that proof returns
  received,  \* the CohortProof that verify is called on
  expected,  \* verify's arguments: [root, round]
  node,      \* the local node of verify
  used       \* how many siblings verify has consumed

vars == <<pc, input, levels, index, proof, received, expected, node, used>>

BuildErrors == {"EmptyTree", "TooManyLeaves", "DuplicateLeaf"}
Rejections == {"WrongRound", "WrongRoot", "InvalidProof"}

-----------------------------------------------------------------------------
\* Vec
EmptyVec == [len |-> 0, at |-> [i \in {} |-> i]]

Push(v, x) ==
  [len |-> v.len + 1,
   at |-> [i \in 0 .. v.len |-> IF i < v.len THEN v.at[i] ELSE x]]

GetOr(v, i, default) == IF i < v.len THEN v.at[i] ELSE default

LastOf(v) == v.at[v.len - 1]

\* Digests
Leaf(d) == <<d>>

Parent(left, right) == <<left, right>>

-----------------------------------------------------------------------------
HasDuplicate(s) == \E i, j \in DOMAIN s : i < j /\ s[i] = s[j]

Values(s) == {s[i] : i \in DOMAIN s}

Unsorted(s) == [len |-> Len(s), at |-> [i \in 0 .. Len(s) - 1 |-> Leaf(s[i + 1])]]

\* sort_unstable on a list without duplicates: the i-th leaf has i smaller ones.
Sorted(s) ==
  [len |-> Len(s),
   at |-> [i \in 0 .. Len(s) - 1 |->
             Leaf(CHOOSE d \in Values(s) :
                    Cardinality({e \in Values(s) : e < d}) = i)]]

OddDropped(row) ==
  [len |-> row.len \div 2,
   at |-> [i \in 0 .. row.len \div 2 - 1 |->
             Parent(row.at[2 * i], row.at[2 * i + 1])]]

\* One pass of the while loop of build: an odd node is paired with itself.
NextRow(row) ==
  [len |-> (row.len + 1) \div 2,
   at |-> [i \in 0 .. (row.len + 1) \div 2 - 1 |->
             Parent(row.at[2 * i], GetOr(row, 2 * i + 1, row.at[2 * i]))]]

Root == LastOf(levels).at[0]

Build ==
  /\ pc = "build"
  /\ \/ input = <<>> /\ pc' = "EmptyTree" /\ levels' = levels
     \/ Len(input) > MaxLeaves /\ pc' = "TooManyLeaves" /\ levels' = levels
     \/ /\ Len(input) \in 1 .. MaxLeaves
        /\ HasDuplicate(input)
        /\ pc' = "DuplicateLeaf"
        /\ levels' = levels
     \/ /\ Len(input) \in 1 .. MaxLeaves
        /\ ~HasDuplicate(input)
        /\ pc' = "levels"
        /\ levels' = Push(EmptyVec, Sorted(input))
  /\ UNCHANGED <<input, index, proof, received, expected, node, used>>

AddLevel ==
  /\ pc = "levels"
  /\ IF LastOf(levels).len > 1
       THEN levels' = Push(levels, NextRow(LastOf(levels))) /\ pc' = pc
       ELSE pc' = "built" /\ levels' = levels
  /\ UNCHANGED <<input, index, proof, received, expected, node, used>>

-----------------------------------------------------------------------------
NextSibling(i) == i + 1

SiblingIndex(i) == IF i % 2 = 0 THEN i + 1 ELSE i - 1

SiblingIn(row, i) == GetOr(row, SiblingIndex(i), row.at[i])

\* proof: the binary search of the leaf, then the loop over the levels.
Proof(d, round) ==
  /\ pc = "built"
  /\ \/ /\ \E i \in 0 .. levels.at[0].len - 1 :
             /\ levels.at[0].at[i] = Leaf(d)
             /\ index' = i
             /\ proof' = [leaf_hash |-> Leaf(d), leaf_index |-> i,
                          sibling_hashes |-> EmptyVec, merkle_root |-> Root,
                          round_id |-> round]
        /\ pc' = "proof"
     \/ /\ \A i \in 0 .. levels.at[0].len - 1 : levels.at[0].at[i] # Leaf(d)
        /\ pc' = "LeafNotFound"
        /\ UNCHANGED <<index, proof>>
  /\ UNCHANGED <<input, levels, received, expected, node, used>>

AddSibling ==
  /\ pc = "proof"
  /\ LET k == proof.sibling_hashes.len
     IN  IF k < levels.len - 1
           THEN /\ proof' = [proof EXCEPT !.sibling_hashes =
                               Push(@, SiblingIn(levels.at[k], index))]
                /\ index' = index \div 2
                /\ pc' = pc
           ELSE pc' = "proved" /\ UNCHANGED <<index, proof>>
  /\ UNCHANGED <<input, levels, received, expected, node, used>>

-----------------------------------------------------------------------------
\* What may reach the verifier instead of the proof.  verify() is given a
\* deserialized CohortProof: its leaf_hash may be any digest, a node of the tree as
\* well as a commitment, and its path may have lost siblings at either end.
Digests ==
  {Leaf(d) : d \in Queries}
  \cup UNION {{levels.at[k].at[i] : i \in 0 .. levels.at[k].len - 1} :
                k \in 0 .. levels.len - 1}

Part(path, c) ==
  [len |-> c[2] - c[1], at |-> [i \in 0 .. c[2] - c[1] - 1 |-> path.at[c[1] + i]]]

Parts(path) ==
  {Part(path, c) : c \in {b \in (0 .. path.len) \X (0 .. path.len) : b[1] <= b[2]}}

\* One digest added or replaced.
Forged(path) ==
  {Push(path, x) : x \in Digests}
  \cup {[path EXCEPT !.at[i] = x] : i \in 0 .. path.len - 1, x \in Digests}

Moved(p, x, i, path) ==
  [leaf_hash |-> x, leaf_index |-> i, sibling_hashes |-> path,
   merkle_root |-> p.merkle_root, round_id |-> p.round_id]

Altered(p) ==
  {Moved(p, x, i, path) :
     x \in Digests, i \in Indices, path \in Parts(p.sibling_hashes)}
  \cup {[p EXCEPT !.sibling_hashes = q] : q \in Forged(p.sibling_hashes)}
  \cup {[p EXCEPT !.round_id = r] : r \in RoundIds}
  \cup {[p EXCEPT !.merkle_root = x] : x \in Digests}

VerifyUnbound(p, root, round) ==
  /\ pc = "proved"
  /\ received' = p
  /\ expected' = [root |-> root, round |-> round]
  /\ pc' = "verify" /\ node' = p.leaf_hash /\ index' = p.leaf_index
  /\ used' = 0
  /\ UNCHANGED <<input, levels, proof>>

\* CohortProof::verify up to its loop.
Verify(p, root, round) ==
  /\ pc = "proved"
  /\ received' = p
  /\ expected' = [root |-> root, round |-> round]
  /\ \/ p.round_id # round /\ pc' = "WrongRound" /\ UNCHANGED <<node, index>>
     \/ /\ p.round_id = round /\ p.merkle_root # root
        /\ pc' = "WrongRoot"
        /\ UNCHANGED <<node, index>>
     \/ /\ p.round_id = round /\ p.merkle_root = root
        /\ pc' = "verify"
        /\ node' = p.leaf_hash
        /\ index' = p.leaf_index
  /\ used' = 0
  /\ UNCHANGED <<input, levels, proof>>

FoldIn(n, i, sibling) ==
  IF i % 2 = 0 THEN Parent(n, sibling) ELSE Parent(sibling, n)

\* The loop of verify and its last comparison.
Climb ==
  /\ pc = "verify"
  /\ IF used < received.sibling_hashes.len
       THEN /\ node' = FoldIn(node, index, received.sibling_hashes.at[used])
            /\ index' = index \div 2
            /\ used' = used + 1
            /\ pc' = pc
       ELSE /\ pc' = IF node = expected.root THEN "accepted" ELSE "InvalidProof"
            /\ UNCHANGED <<node, index, used>>
  /\ UNCHANGED <<input, levels, proof, received, expected>>

-----------------------------------------------------------------------------
Init ==
  /\ pc = "build"
  /\ input \in Inputs
  /\ levels = EmptyVec
  /\ index = 0
  /\ proof = NoProof /\ received = NoProof /\ expected = NoProof /\ node = NoProof
  /\ used = 0

Next ==
  \/ Build
  \/ AddLevel
  \/ \E d \in Queries, round \in RoundIds : Proof(d, round)
  \/ AddSibling
  \/ /\ pc = "proved"
     /\ \E p \in {proof} \cup Altered(proof), round \in RoundIds :
          Verify(p, Root, round)
  \/ Climb

Spec == Init /\ [][Next]_vars

-----------------------------------------------------------------------------
Phases == {"build", "levels", "built", "proof", "proved", "verify", "accepted",
           "LeafNotFound"} \cup BuildErrors \cup Rejections

\* Every row of the tree is a non-empty Vec, and the cursors are counters: the
\* index arithmetic of proof (index - 1, level[index]) never goes below 0 or
\* past a row.
TypeOK ==
  /\ pc \in Phases
  /\ input \in Inputs
  /\ levels.len \in Nat
  /\ \A k \in 0 .. levels.len - 1 :
       /\ levels.at[k].len \in Nat \ {0}
       /\ DOMAIN levels.at[k].at = 0 .. levels.at[k].len - 1
  /\ index \in Nat /\ used \in Nat
  /\ pc = "proof" =>
       LET k == proof.sibling_hashes.len
       IN  k \in 0 .. levels.len - 1 /\ index \in 0 .. levels.at[k].len - 1

\* Whatever the size of the cohort, odd rows included, and whichever leaf was
\* asked for: the proof that proof() returns is accepted by verify() against the
\* tree's own root and the round it was made for.
HonestProofAccepted ==
  pc \in Rejections =>
    ~(received = proof /\ expected = [root |-> Root, round |-> proof.round_id])

\* A position in a row and its halves: where its ancestors are, up to n rows above.
Halves(i, n) ==
  LET at[k \in 0 .. n] == IF k = 0 THEN i ELSE at[k - 1] \div 2
  IN  at

\* p leads from node i of the row `base` to the root: its path holds the sibling of
\* every ancestor, and the bits of its index say on which side, except where a node
\* is paired with itself and stands on both.
Opens(p, base, i) ==
  LET n == p.sibling_hashes.len
  IN  /\ p.leaf_hash = levels.at[base].at[i]
      /\ \A k \in 0 .. n - 1 :
           LET place == Halves(i, n)[k]
               row == levels.at[base + k]
           IN  /\ p.sibling_hashes.at[k] = SiblingIn(row, place)
               /\ SiblingIndex(place) < row.len =>
                    Halves(p.leaf_index, n)[k] % 2 = place % 2

\* The digest is that of a commitment and not of a pair.
IsLeaf(x) == x = Leaf(x[1])

\* What verify accepts, for its own round, is a node of this tree with the path
\* that leads from it to the root: no digest from outside is ever opened.  The
\* path says which row the node is in.  verify does not ask for row 0, so the node
\* may be an inner one; whoever compares leaf_hash with a ticket commitment knows
\* in addition that the commitment is in the cohort and the path is proof()'s own,
\* as long as the tree is high.
AcceptedOpensRoot ==
  pc = "accepted" =>
    LET base == levels.len - 1 - received.sibling_hashes.len
    IN  /\ received.round_id = expected.round
        /\ base \in 0 .. levels.len - 1
        /\ \E i \in 0 .. levels.at[base].len - 1 : Opens(received, base, i)
        /\ IsLeaf(received.leaf_hash) =>
             base = 0 /\ received.leaf_hash \in {Leaf(d) : d \in Values(input)}

Built == Phases \ ({"build", "levels"} \cup BuildErrors)

\* 2 ^ k: how many leaves fit under a node of row k.
Width ==
  LET w[k \in 0 .. levels.len - 1] == IF k = 0 THEN 1 ELSE 2 * w[k - 1]
  IN  w

\* The reference tree over row 0.  Node i of height k stands for Width[k] positions
\* from i * Width[k] on and exists if there is a leaf at the first of them; a node
\* whose right half is empty has its left half on both sides.
RefTree ==
  LET Exists(i, k) == i * Width[k] < levels.at[0].len
      tree[k \in 0 .. levels.len - 1] ==
        [i \in {j \in 0 .. levels.at[0].len - 1 : Exists(j, k)} |->
           IF k = 0 THEN levels.at[0].at[i]
           ELSE Parent(tree[k - 1][2 * i],
                       tree[k - 1][IF Exists(2 * i + 1, k - 1) THEN 2 * i + 1 ELSE 2 * i])]
  IN  tree

\* The leaves under a digest of row k, found by taking pairs apart.
LeavesUnder ==
  LET under[k \in 0 .. levels.len - 1] ==
        [x \in {levels.at[k].at[i] : i \in 0 .. levels.at[k].len - 1} |->
           IF k = 0 THEN {x} ELSE under[k - 1][x[1]] \cup under[k - 1][x[2]]]
  IN  under

\* The root build computes bottom-up, pairing odd nodes with themselves, is the
\* root of the reference tree of least height over the ascending leaves: it depends
\* on the set of commitments alone, and contains all of them and nothing else.
RootIsCanonical ==
  pc \in Built =>
    LET n == levels.at[0].len
        top == levels.len - 1
    IN  /\ \A i, j \in 0 .. n - 1 :
             i < j => levels.at[0].at[i][1] < levels.at[0].at[j][1]
        /\ n <= Width[top] /\ (top > 0 => Width[top - 1] < n)
        /\ Root = RefTree[top][0]
        /\ LeavesUnder[top][Root] = {Leaf(d) : d \in Values(input)}
=============================================================================
