---------------------------- MODULE MCFileSharing ----------------------------
(* FileSharing for TLC.  The requests are interchangeable, the nodes differ *)
(* in what may happen to them.                                              *)
EXTENDS FileSharing, Chunker, TLC

Requests == Permutations(Req)

(* What the tree is, from the root down: above position j of level k stands *)
(* the pair of the positions 2j and 2j + 1, where there is no second one    *)
(* the first one twice.                                                     *)
LastOf(n, k) == (n - 1) \div 2 ^ k

RECURSIVE Subtree(_, _, _)
Subtree(hashes, k, j) ==
    IF k = 0 THEN hashes[j + 1]
    ELSE <<Subtree(hashes, k - 1, 2 * j),
           Subtree(hashes, k - 1, IF 2 * j + 1 <= LastOf(Len(hashes), k - 1)
                                  THEN 2 * j + 1 ELSE 2 * j)>>

Height(n) == CHOOSE k \in 0 .. n : LastOf(n, k) = 0 /\ \A i \in 0 .. k - 1 : LastOf(n, i) > 0

(* The root computed level by level is the root of that tree. *)
RootIsTree(hashes) == compute_merkle_root(hashes) = Subtree(hashes, Height(Len(hashes)), 0)

(* What an upload makes of a file, by the algorithms of Chunker: checked    *)
(* for every list of up to seven hashes, with repetitions, and for file     *)
(* sizes round every boundary.                                              *)
Leaves == {<<"h">>, <<"i">>}
HashLists == UNION {[1 .. n -> Leaves] : n \in 1 .. 7}
FileSizes ==
    UNION {s - 2 .. s + 2 : s \in {2, 256 * KB, 512 * KB, 50 * MB, 51 * MB, 500 * MB, 504 * MB}}

ASSUME MerkleRoots == \A hashes \in HashLists : RootIsTree(hashes)
ASSUME MerkleProofs == \A hashes \in HashLists : ProofsSeparate(hashes, Leaves)
ASSUME MerkleRootsDiffer ==
    \A n \in 0 .. 6 : \A hashes, others \in [1 .. n -> Leaves] : RootsSeparate(hashes, others)
ASSUME Reading == \A size \in FileSizes : ReadsWhole(size)
=============================================================================
