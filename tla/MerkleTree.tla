------------------------------ MODULE MerkleTree ------------------------------
(***************************************************************************)
(* The hash trees of DividendsService and of the merkle-tree processor,    *)
(* and the verification DividendDistributor relies on.  keccak256 of the   *)
(* sorted pair is the set of the two: the order of the two does not        *)
(* matter, and different pairs have different hashes.                      *)
(***************************************************************************)
EXTENDS Naturals, Sequences

HashPair(left, right) == {left, right}

\* Element i of a layer, the one before it when a last element is alone.
At(layer, i) == IF i \in DOMAIN layer THEN layer[i] ELSE layer[i - 1]

\* buildMerkleTree: the layer above; an odd last element is paired with itself.
Above(layer) ==
  [i \in 1 .. (Len(layer) + 1) \div 2 |-> HashPair(layer[2 * i - 1], At(layer, 2 * i))]

\* All layers of the tree over leaves, the root's last.
MerkleLayers(leaves) ==
  LET upTo[k \in 1 .. Len(leaves)] ==
        IF k = 1 THEN <<leaves>>
        ELSE LET below == upTo[k - 1]
                 top   == below[Len(below)]
             IN  IF Len(top) = 1 THEN below ELSE Append(below, Above(top))
  IN  upTo[Len(leaves)]

MerkleRoot(leaves) == LET layers == MerkleLayers(leaves) IN layers[Len(layers)][1]

\* Mutant: the parity of a place counted from 0.
SiblingFromZero(i) == IF i % 2 = 0 THEN i + 1 ELSE i - 1

Sibling(i) == IF i % 2 = 0 THEN i - 1 ELSE i + 1

\* buildMerkleProof: the siblings on the way up, an element alone being its own;
\* place is where the leaf's ancestor is in each layer, counted from 1.
MerkleProof(leaves, i) ==
  LET layers == MerkleLayers(leaves)
      place[k \in DOMAIN layers] == IF k = 1 THEN i ELSE (place[k - 1] + 1) \div 2
  IN  [k \in 1 .. Len(layers) - 1 |->
         LET s == Sibling(place[k])
         IN  IF s \in DOMAIN layers[k] THEN layers[k][s] ELSE layers[k][place[k]]]

\* OpenZeppelin's MerkleProof.verify.
Verifies(proof, root, leaf) ==
  LET hash[k \in 0 .. Len(proof)] ==
        IF k = 0 THEN leaf ELSE HashPair(hash[k - 1], proof[k])
  IN  hash[Len(proof)] = root
==============================================================================
