------------------------------ MODULE Chunker ------------------------------
(***************************************************************************)
(* The pure algorithms of backend/file_engine/chunker.py: the size of the  *)
(* chunks of a file, what the streaming reader yields, and the Merkle tree *)
(* over the hashes of the chunks with its proofs.                          *)
(*                                                                         *)
(* The hash of two concatenated hashes is the pair of them: SHA-256 is     *)
(* taken to be collision-free.  The hash of a chunk is a tuple of length   *)
(* one, so that no leaf is a pair.  Indices are those of the code, from 0. *)
(***************************************************************************)
EXTENDS Naturals, SequencesExt

KB == 1024
MB == 1024 * KB

get_optimal_chunk_size(size) ==
    IF size < 50 * MB THEN 256 * KB ELSE IF size < 500 * MB THEN MB ELSE 4 * MB

(* _stream_chunks: the sizes that f.read returns until it returns nothing.  *)
StreamChunks(size, chunk) ==
    [i \in 1 .. (size + chunk - 1) \div chunk |->
        IF i * chunk <= size THEN chunk ELSE size - (i - 1) * chunk]

-----------------------------------------------------------------------------
sha256_hash(left, right) == <<left, right>>
HashOfNothing == <<>>

(* Left and right of the pair number j; an odd last hash is its own pair.   *)
Left(level, j) == level[2 * j + 1]
Right(level, j) == level[IF 2 * j + 1 < Len(level) THEN 2 * j + 2 ELSE 2 * j + 1]

NextLevel(level) ==
    [k \in 1 .. (Len(level) + 1) \div 2 |-> sha256_hash(Left(level, k - 1), Right(level, k - 1))]

(* The loop of the root and of the proof, which goes on while the level has *)
(* more than one hash: the level after k rounds, and how many rounds.       *)
Levels(hashes) ==
    LET level[k \in 0 .. Len(hashes)] == IF k = 0 THEN hashes ELSE NextLevel(level[k - 1])
    IN  level

Ends(hashes, k) == Len(Levels(hashes)[k]) <= 1

Rounds(hashes) ==
    CHOOSE k \in 0 .. Len(hashes) : Ends(hashes, k) /\ \A i \in 0 .. k - 1 : ~Ends(hashes, i)

compute_merkle_root(hashes) ==
    IF hashes = <<>> THEN HashOfNothing ELSE Levels(hashes)[Rounds(hashes)][1]

(* The position above a chunk after k rounds of the proof's loop, and what  *)
(* the next round appends: the sibling of that position, and its side.      *)
Positions(hashes, index) ==
    LET idx[k \in 0 .. Len(hashes)] == IF k = 0 THEN index ELSE idx[k - 1] \div 2
    IN  idx

Sibling(level, idx) ==
    IF idx % 2 = 0 THEN [hash |-> Right(level, idx \div 2), position |-> "right"]
    ELSE [hash |-> Left(level, idx \div 2), position |-> "left"]

compute_merkle_proof(hashes, index) ==
    [k \in 1 .. Rounds(hashes) |->
        Sibling(Levels(hashes)[k - 1], Positions(hashes, index)[k - 1])]

Climb(current, step) ==
    IF step.position = "right" THEN sha256_hash(current, step.hash)
    ELSE sha256_hash(step.hash, current)

(* The hash that the verification has after k steps of the proof. *)
Walk(leaf, proof) ==
    LET current[k \in 0 .. Len(proof)] ==
            IF k = 0 THEN leaf ELSE Climb(current[k - 1], proof[k])
    IN  current

verify_merkle_proof(leaf, proof, root) == Walk(leaf, proof)[Len(proof)] = root

-----------------------------------------------------------------------------
(* The proof of a chunk, also of an odd last one, leads from its hash and   *)
(* from no other one of Leaf to the root.                                   *)
ProofsSeparate(hashes, Leaf) ==
    \A i \in DOMAIN hashes : \A leaf \in Leaf :
        verify_merkle_proof(leaf, compute_merkle_proof(hashes, i - 1), compute_merkle_root(hashes))
            <=> leaf = hashes[i]

(* The root that merge_chunks compares tells any two lists of hashes of the *)
(* same length apart.                                                       *)
RootsSeparate(hashes, others) ==
    Len(hashes) = Len(others) /\ compute_merkle_root(hashes) = compute_merkle_root(others)
        => hashes = others

(* The reader yields the whole file in chunks of which only the last may be *)
(* short and none is empty: the others and it add up to the file.           *)
ReadsWhole(size) ==
    LET chunk == get_optimal_chunk_size(size)
        pieces == StreamChunks(size, chunk)
    IN  /\ size = IF pieces = <<>> THEN 0 ELSE (Len(pieces) - 1) * chunk + Last(pieces)
        /\ \A i \in DOMAIN pieces : 0 < pieces[i] /\ (i < Len(pieces) => pieces[i] = chunk)
============================================================================
