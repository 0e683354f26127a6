------------------------------ MODULE UrnTree ------------------------------
(***************************************************************************)
(* The root over the rows of the urn: a tree of hashes over the leaves in  *)
(* the order of their hashes, with the number of leaves in the root.       *)
(* A hash is what it is made of: nobody finds two values with one hash.    *)
(* Two urns stand beside each other, as at the closing and as it is read   *)
(* again: rows are added to each in any order.                             *)
(***************************************************************************)
EXTENDS Naturals, Sequences, FiniteSets

CONSTANTS
    BallotIds,
    Hashes,      \* of ciphertexts
    HashOrder,   \* where a leaf's hash comes among them: any order
    MaxRows

VARIABLES left, right

treeVars == <<left, right>>

Rows == [ballotId : BallotIds, ciphertextHash : Hashes]

TreeInit == left = <<>> /\ right = <<>>

Add ==
    \/ /\ Len(left) < MaxRows
       /\ \E row \in Rows : left' = Append(left, row)
       /\ UNCHANGED right
    \/ /\ Len(right) < MaxRows
       /\ \E row \in Rows : right' = Append(right, row)
       /\ UNCHANGED left

TreeSpec == TreeInit /\ [][Add]_treeVars

----------------------------------------------------------------------------
\* Flawed: the ballot is not in the leaf.
urnLeaf_WithoutBallot(row) == <<"leaf", row.ciphertextHash>>

urnLeaf(row) == <<"leaf", row.ballotId, row.ciphertextHash>>

Leaves == {urnLeaf(row) : row \in Rows}

ASSUME UrnTreeAssumption ==
    /\ MaxRows \in Nat
    /\ HashOrder \in [Leaves -> Nat]
    /\ \A a, b \in Leaves : HashOrder[a] = HashOrder[b] => a = b

\* Two leaves with one hash are the same leaf, and stay as they stood.
Precedes(leaves, j, i) ==
    \/ HashOrder[leaves[j]] < HashOrder[leaves[i]]
    \/ leaves[j] = leaves[i] /\ j < i

PlaceOf(leaves, i) == Cardinality({j \in DOMAIN leaves : Precedes(leaves, j, i)}) + 1

\* sort: the leaves in the order of their hashes.
SortedLeaves(leaves) ==
    [place \in DOMAIN leaves |->
        leaves[CHOOSE i \in DOMAIN leaves : PlaceOf(leaves, i) = place]]

NodeOf(l, r) == <<"node", l, r>>

\* finalise
Finalise(top, count) == <<"root", count, top>>

\* A level above: pairs from the left, and an odd last node as it is.
LevelAbove(level) ==
    [i \in 1..((Len(level) + 1) \div 2) |->
        IF 2 * i <= Len(level) THEN NodeOf(level[2 * i - 1], level[2 * i]) ELSE level[2 * i - 1]]

\* The top after as many levels as there could be.
TopOf(leaves) ==
    LET at[n \in 0..Len(leaves)] == IF n = 0 THEN leaves ELSE LevelAbove(at[n - 1])
    IN at[Len(leaves)][1]

merkleRoot(leaves) ==
    IF leaves = <<>> THEN Finalise(<<"leaf">>, 0)
    ELSE Finalise(TopOf(SortedLeaves(leaves)), Len(leaves))

urnRootOf(rows) == merkleRoot([i \in DOMAIN rows |-> urnLeaf(rows[i])])

----------------------------------------------------------------------------
Copies(rows, row) == Cardinality({i \in DOMAIN rows : rows[i] = row})

TreeTypeOK ==
    /\ left \in Seq(Rows) /\ Len(left) <= MaxRows
    /\ right \in Seq(Rows) /\ Len(right) <= MaxRows

\* One root for the same rows in any order, and for no others: a row that is removed,
\* doubled, altered or moved to another ballot changes it.
RootIsTheUrn ==
    (urnRootOf(left) = urnRootOf(right)) <=> \A row \in Rows : Copies(left, row) = Copies(right, row)
=============================================================================
