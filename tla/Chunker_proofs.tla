--------------------------- MODULE Chunker_proofs ---------------------------
(***************************************************************************)
(* Proofs about the algorithms of Chunker, for every list of hashes and    *)
(* every file size: what the reader yields is the file, the Merkle proof   *)
(* of a chunk verifies for its hash and for no other one, and the Merkle   *)
(* root tells lists of hashes of one length apart.                         *)
(***************************************************************************)
EXTENDS Chunker, SequenceTheorems, WellFoundedInduction, TLAPS

-----------------------------------------------------------------------------
(* Induction, stated with sets: to show P(n) for every n, a lemma is used   *)
(* with {n \in Nat : P(n)}.                                                 *)

(* A set of naturals has a least element. *)
LEMMA Least ==
    ASSUME NEW T \in SUBSET Nat, T # {}
    PROVE  \E x \in T : \A y \in T : x <= y
<1>1. \E x \in T : \A y \in T : ~ (<<y, x>> \in OpToRel(<, Nat))
  BY NatLessThanWellFounded, WFMin, Zenon
<1>2. ASSUME NEW x \in Nat, NEW y \in Nat, ~ (<<y, x>> \in OpToRel(<, Nat))
      PROVE  x <= y
  BY <1>2 DEF OpToRel
<1> QED BY <1>1, <1>2

(* A set of naturals that holds zero and is closed under successor holds    *)
(* all of them: what is missing would have a least element.                 *)
LEMMA Induct ==
    ASSUME NEW T \in SUBSET Nat, 0 \in T, \A n \in T : n + 1 \in T
    PROVE  T = Nat
<1> SUFFICES ASSUME T # Nat PROVE FALSE
  OBVIOUS
<1>1. PICK x \in Nat \ T : \A y \in Nat \ T : x <= y
  BY Least
<1>2. x # 0 /\ x - 1 \in Nat
  BY <1>1
<1>3. x - 1 \in T
  BY <1>1, <1>2
<1>4. (x - 1) + 1 = x
  BY <1>1
<1> QED BY <1>1, <1>3, <1>4

-----------------------------------------------------------------------------
(* The reader. *)

(* The three chunk sizes, as numbers. *)
LEMMA ChunkSizes ==
    ASSUME NEW size \in Nat
    PROVE  get_optimal_chunk_size(size) \in {262144, 1048576, 4194304}
BY DEF get_optimal_chunk_size, KB, MB

(* The number of reads that return something, and what they return: the     *)
(* whole size, or for the last one the rest of the file.                    *)
LEMMA Reads ==
    ASSUME NEW size \in Nat, NEW chunk \in {262144, 1048576, 4194304},
           NEW n, n = (size + chunk - 1) \div chunk
    PROVE  /\ n \in Nat /\ chunk \in Nat
           /\ n = 0 => size = 0
           /\ \A i \in 1 .. n :
                 /\ i < n => i * chunk <= size
                 /\ i * chunk <= size => i < n \/ chunk = size - (i - 1) * chunk
                 /\ size - (i - 1) * chunk \in Nat /\ 0 < size - (i - 1) * chunk
                 /\ size = (i - 1) * chunk + (size - (i - 1) * chunk)
<1>1. CASE chunk = 262144
  BY <1>1
<1>2. CASE chunk = 1048576
  BY <1>2
<1>3. CASE chunk = 4194304
  BY <1>3
<1> QED BY <1>1, <1>2, <1>3

(* What f.read returns is never empty, full but for the last time, and adds *)
(* up to the file, whatever its size.                                       *)
THEOREM ReaderReadsWhole == \A size \in Nat : ReadsWhole(size)
<1> SUFFICES ASSUME NEW size \in Nat PROVE ReadsWhole(size)
  OBVIOUS
<1> DEFINE chunk == get_optimal_chunk_size(size)
           n == (size + chunk - 1) \div chunk
           p == StreamChunks(size, chunk)
<1>0. chunk \in {262144, 1048576, 4194304}
  BY ChunkSizes
<1> HIDE DEF chunk
<1>1. n \in Nat /\ chunk \in Nat /\ (n = 0 => size = 0)
  BY <1>0, Reads
<1>2. \A i \in 1 .. n :
         /\ i < n => i * chunk <= size
         /\ i * chunk <= size => i < n \/ chunk = size - (i - 1) * chunk
         /\ size - (i - 1) * chunk \in Nat /\ 0 < size - (i - 1) * chunk
         /\ size = (i - 1) * chunk + (size - (i - 1) * chunk)
  BY <1>0, Reads
<1>3. p = [i \in 1 .. n |-> IF i * chunk <= size THEN chunk ELSE size - (i - 1) * chunk]
  BY DEF StreamChunks
<1> HIDE DEF n, p
<1>4. /\ p \in Seq(Nat) /\ Len(p) = n /\ DOMAIN p = 1 .. n
      /\ \A i \in 1 .. n : p[i] = IF i * chunk <= size THEN chunk
                                  ELSE size - (i - 1) * chunk
  BY <1>1, <1>2, <1>3
<1>5. chunk > 0
  BY <1>0
<1>6. \A i \in 1 .. n : 0 < p[i] /\ (i < n => p[i] = chunk)
  BY <1>2, <1>4, <1>5
<1>7. p = <<>> <=> n = 0
  BY <1>1, <1>4
<1>8. ASSUME n # 0 PROVE size = (n - 1) * chunk + Last(p)
  <2>1. n \in 1 .. n /\ ~ (n < n)
    BY <1>1, <1>8
  <2>2. p[n] = size - (n - 1) * chunk
    BY <1>2, <1>4, <2>1
  <2>3. Last(p) = p[n]
    BY <1>4 DEF Last
  <2> QED BY <1>2, <2>1, <2>2, <2>3
<1> QED BY <1>1, <1>4, <1>6, <1>7, <1>8 DEF ReadsWhole, chunk, p

-----------------------------------------------------------------------------
(* The three loops are functions of the number of rounds, each defined by   *)
(* an equation.  That there is such a function is shown by induction: there *)
(* is one for the rounds up to n, for every n.                              *)

LevelAfter(g, hashes, k) == IF k = 0 THEN hashes ELSE NextLevel(g[k - 1])

LEMMA LevelsExist ==
    ASSUME NEW hashes, NEW N \in Nat
    PROVE  \E g : g = [k \in 0 .. N |-> LevelAfter(g, hashes, k)]
<1> DEFINE Good(g, n) == g = [k \in 0 .. n |-> LevelAfter(g, hashes, k)]
           T == {n \in Nat : \E g : Good(g, n)}
<1>1. 0 \in T
  <2> DEFINE g == [k \in 0 .. 0 |-> hashes]
  <2>1. Good(g, 0)
    BY DEF LevelAfter
  <2> QED BY <2>1
<1>2. ASSUME NEW n \in T PROVE n + 1 \in T
  <2>1. PICK g : Good(g, n)
    OBVIOUS
  <2> DEFINE h == [k \in 0 .. n + 1 |-> LevelAfter(g, hashes, k)]
  <2>2. ASSUME NEW k \in 0 .. n + 1 PROVE LevelAfter(g, hashes, k) = LevelAfter(h, hashes, k)
    <3>1. CASE k = 0
      BY <3>1 DEF LevelAfter
    <3>2. CASE k # 0
      <4>1. k - 1 \in 0 .. n /\ k - 1 \in 0 .. n + 1
        BY <3>2
      <4>2. g[k - 1] = LevelAfter(g, hashes, k - 1)
        BY <2>1, <4>1
      <4>3. h[k - 1] = LevelAfter(g, hashes, k - 1)
        BY <4>1
      <4> QED BY <3>2, <4>2, <4>3 DEF LevelAfter
    <3> QED BY <3>1, <3>2
  <2>3. h = [k \in 0 .. n + 1 |-> LevelAfter(h, hashes, k)]
    <3> HIDE DEF h
    <3>1. h = [k \in 0 .. n + 1 |-> LevelAfter(g, hashes, k)]
      BY DEF h
    <3> QED BY <2>2, <3>1
  <2> HIDE DEF h
  <2> QED BY <2>3
<1>3. T = Nat
  <2> HIDE DEF T
  <2>1. T \in SUBSET Nat
    BY DEF T
  <2> QED BY <1>1, <1>2, <2>1, Induct
<1>4. N \in T
  BY <1>3
<1> QED BY <1>4

LEMMA LevelsDef ==
    ASSUME NEW H, NEW hashes \in Seq(H)
    PROVE  /\ Levels(hashes)[0] = hashes
           /\ \A k \in 0 .. Len(hashes) - 1 :
                 Levels(hashes)[k + 1] = NextLevel(Levels(hashes)[k])
<1> DEFINE N == Len(hashes)
           G(g) == g = [k \in 0 .. N |-> LevelAfter(g, hashes, k)]
           L == CHOOSE g : G(g)
<1>0. N \in Nat
  OBVIOUS
<1>1. Levels(hashes) = L
  BY DEF Levels, LevelAfter
<1>2. G(L)
  BY <1>0, LevelsExist
<1> HIDE DEF L, N
<1>3. \A k \in 0 .. N : L[k] = LevelAfter(L, hashes, k)
  BY <1>2
<1>4. L[0] = hashes
  BY <1>0, <1>3 DEF LevelAfter
<1>5. ASSUME NEW k \in 0 .. N - 1 PROVE L[k + 1] = NextLevel(L[k])
  <2>1. k + 1 \in 0 .. N /\ k + 1 # 0 /\ (k + 1) - 1 = k
    BY <1>0
  <2> QED BY <1>3, <2>1 DEF LevelAfter
<1> QED BY <1>1, <1>4, <1>5 DEF N

(* The position of a chunk, likewise. *)
PositionAfter(g, index, k) == IF k = 0 THEN index ELSE g[k - 1] \div 2

LEMMA PositionsExist ==
    ASSUME NEW index, NEW N \in Nat
    PROVE  \E g : g = [k \in 0 .. N |-> PositionAfter(g, index, k)]
<1> DEFINE Good(g, n) == g = [k \in 0 .. n |-> PositionAfter(g, index, k)]
           T == {n \in Nat : \E g : Good(g, n)}
<1>1. 0 \in T
  <2> DEFINE g == [k \in 0 .. 0 |-> index]
  <2>1. Good(g, 0)
    BY DEF PositionAfter
  <2> QED BY <2>1
<1>2. ASSUME NEW n \in T PROVE n + 1 \in T
  <2>1. PICK g : Good(g, n)
    OBVIOUS
  <2> DEFINE h == [k \in 0 .. n + 1 |-> PositionAfter(g, index, k)]
  <2>2. ASSUME NEW k \in 0 .. n + 1 PROVE PositionAfter(g, index, k) = PositionAfter(h, index, k)
    <3>1. CASE k = 0
      BY <3>1 DEF PositionAfter
    <3>2. CASE k # 0
      <4>1. k - 1 \in 0 .. n /\ k - 1 \in 0 .. n + 1
        BY <3>2
      <4>2. g[k - 1] = PositionAfter(g, index, k - 1)
        BY <2>1, <4>1
      <4>3. h[k - 1] = PositionAfter(g, index, k - 1)
        BY <4>1
      <4> QED BY <3>2, <4>2, <4>3 DEF PositionAfter
    <3> QED BY <3>1, <3>2
  <2>3. h = [k \in 0 .. n + 1 |-> PositionAfter(h, index, k)]
    <3> HIDE DEF h
    <3>1. h = [k \in 0 .. n + 1 |-> PositionAfter(g, index, k)]
      BY DEF h
    <3> QED BY <2>2, <3>1
  <2> HIDE DEF h
  <2> QED BY <2>3
<1>3. T = Nat
  <2> HIDE DEF T
  <2>1. T \in SUBSET Nat
    BY DEF T
  <2> QED BY <1>1, <1>2, <2>1, Induct
<1>4. N \in T
  BY <1>3
<1> QED BY <1>4

LEMMA PositionsDef ==
    ASSUME NEW H, NEW hashes \in Seq(H), NEW index
    PROVE  /\ Positions(hashes, index)[0] = index
           /\ \A k \in 0 .. Len(hashes) - 1 :
                 Positions(hashes, index)[k + 1] = Positions(hashes, index)[k] \div 2
<1> DEFINE N == Len(hashes)
           G(g) == g = [k \in 0 .. N |-> PositionAfter(g, index, k)]
           L == CHOOSE g : G(g)
<1>0. N \in Nat
  OBVIOUS
<1>1. Positions(hashes, index) = L
  BY DEF Positions, PositionAfter
<1>2. G(L)
  BY <1>0, PositionsExist
<1> HIDE DEF L, N
<1>3. \A k \in 0 .. N : L[k] = PositionAfter(L, index, k)
  BY <1>2
<1>4. L[0] = index
  BY <1>0, <1>3 DEF PositionAfter
<1>5. ASSUME NEW k \in 0 .. N - 1 PROVE L[k + 1] = L[k] \div 2
  <2>1. k + 1 \in 0 .. N /\ k + 1 # 0 /\ (k + 1) - 1 = k
    BY <1>0
  <2> QED BY <1>3, <2>1 DEF PositionAfter
<1> QED BY <1>1, <1>4, <1>5 DEF N

(* And the hash that the verification has. *)
HashAfter(g, leaf, proof, k) == IF k = 0 THEN leaf ELSE Climb(g[k - 1], proof[k])

LEMMA WalkExists ==
    ASSUME NEW leaf, NEW proof, NEW N \in Nat
    PROVE  \E g : g = [k \in 0 .. N |-> HashAfter(g, leaf, proof, k)]
<1> DEFINE Good(g, n) == g = [k \in 0 .. n |-> HashAfter(g, leaf, proof, k)]
           T == {n \in Nat : \E g : Good(g, n)}
<1>1. 0 \in T
  <2> DEFINE g == [k \in 0 .. 0 |-> leaf]
  <2>1. Good(g, 0)
    BY DEF HashAfter
  <2> QED BY <2>1
<1>2. ASSUME NEW n \in T PROVE n + 1 \in T
  <2>1. PICK g : Good(g, n)
    OBVIOUS
  <2> DEFINE h == [k \in 0 .. n + 1 |-> HashAfter(g, leaf, proof, k)]
  <2>2. ASSUME NEW k \in 0 .. n + 1 PROVE HashAfter(g, leaf, proof, k) = HashAfter(h, leaf, proof, k)
    <3>1. CASE k = 0
      BY <3>1 DEF HashAfter
    <3>2. CASE k # 0
      <4>1. k - 1 \in 0 .. n /\ k - 1 \in 0 .. n + 1
        BY <3>2
      <4>2. g[k - 1] = HashAfter(g, leaf, proof, k - 1)
        BY <2>1, <4>1
      <4>3. h[k - 1] = HashAfter(g, leaf, proof, k - 1)
        BY <4>1
      <4> QED BY <3>2, <4>2, <4>3 DEF HashAfter
    <3> QED BY <3>1, <3>2
  <2>3. h = [k \in 0 .. n + 1 |-> HashAfter(h, leaf, proof, k)]
    <3> HIDE DEF h
    <3>1. h = [k \in 0 .. n + 1 |-> HashAfter(g, leaf, proof, k)]
      BY DEF h
    <3> QED BY <2>2, <3>1
  <2> HIDE DEF h
  <2> QED BY <2>3
<1>3. T = Nat
  <2> HIDE DEF T
  <2>1. T \in SUBSET Nat
    BY DEF T
  <2> QED BY <1>1, <1>2, <2>1, Induct
<1>4. N \in T
  BY <1>3
<1> QED BY <1>4

LEMMA WalkDef ==
    ASSUME NEW H, NEW proof \in Seq(H), NEW leaf
    PROVE  /\ Walk(leaf, proof)[0] = leaf
           /\ \A k \in 0 .. Len(proof) - 1 :
                 Walk(leaf, proof)[k + 1] = Climb(Walk(leaf, proof)[k], proof[k + 1])
<1> DEFINE N == Len(proof)
           G(g) == g = [k \in 0 .. N |-> HashAfter(g, leaf, proof, k)]
           L == CHOOSE g : G(g)
<1>0. N \in Nat
  OBVIOUS
<1>1. Walk(leaf, proof) = L
  BY DEF Walk, HashAfter
<1>2. G(L)
  BY <1>0, WalkExists
<1> HIDE DEF L, N
<1>3. \A k \in 0 .. N : L[k] = HashAfter(L, leaf, proof, k)
  BY <1>2
<1>4. L[0] = leaf
  BY <1>0, <1>3 DEF HashAfter
<1>5. ASSUME NEW k \in 0 .. N - 1 PROVE L[k + 1] = Climb(L[k], proof[k + 1])
  <2>1. k + 1 \in 0 .. N /\ k + 1 # 0 /\ (k + 1) - 1 = k
    BY <1>0
  <2> QED BY <1>3, <2>1 DEF HashAfter
<1> QED BY <1>1, <1>4, <1>5 DEF N

-----------------------------------------------------------------------------
(* The levels: each has half the hashes of the one before, rounded up, so   *)
(* that after some rounds there is one left.                                *)

IsLevel(s) == \E S : s \in Seq(S)

LEMMA NextLevelShape ==
    ASSUME NEW level, IsLevel(level), Len(level) > 0
    PROVE  /\ IsLevel(NextLevel(level)) /\ Len(level) \in Nat
           /\ Len(NextLevel(level)) = (Len(level) + 1) \div 2
           /\ \A k \in 1 .. (Len(level) + 1) \div 2 :
                 NextLevel(level)[k] = sha256_hash(Left(level, k - 1), Right(level, k - 1))
<1>1. PICK S : level \in Seq(S)
  BY DEF IsLevel
<1> DEFINE m == (Len(level) + 1) \div 2
           hash(k) == sha256_hash(Left(level, k - 1), Right(level, k - 1))
           t == [k \in 1 .. m |-> hash(k)]
           R == {hash(k) : k \in 1 .. m}
<1>2. Len(level) \in Nat
  BY <1>1
<1>3. m \in Nat
  BY <1>2
<1>4. NextLevel(level) = t
  BY DEF NextLevel
<1> HIDE DEF m, hash
<1>5. t \in Seq(R) /\ Len(t) = m /\ \A k \in 1 .. m : t[k] = hash(k)
  <2>1. \A k \in 1 .. m : hash(k) \in R
    OBVIOUS
  <2> HIDE DEF R
  <2>2. t \in Seq(R)
    BY <1>3, <2>1
  <2>3. Len(t) = m
    BY <1>3, <2>1
  <2> QED BY <2>2, <2>3
<1> HIDE DEF t, R
<1>6. IsLevel(NextLevel(level))
  BY <1>4, <1>5 DEF IsLevel
<1> QED BY <1>2, <1>4, <1>5, <1>6 DEF m, hash

(* What Levels is used for from here on. *)
LEMMA LevelShape ==
    ASSUME NEW H, NEW hashes \in Seq(H), hashes # <<>>, NEW n \in 0 .. Len(hashes)
    PROVE  /\ IsLevel(Levels(hashes)[n]) /\ Len(Levels(hashes)[n]) \in Nat
           /\ Len(Levels(hashes)[n]) > 0
           /\ Len(Levels(hashes)[n]) <= Len(hashes) - n \/ Len(Levels(hashes)[n]) = 1
<1> DEFINE L == Levels(hashes)
           N == Len(hashes)
           T == {k \in Nat : k <= N => /\ IsLevel(L[k]) /\ Len(L[k]) \in Nat /\ Len(L[k]) > 0
                                       /\ Len(L[k]) <= N - k \/ Len(L[k]) = 1}
<1>0. N \in Nat /\ N > 0
  OBVIOUS
<1>1. 0 \in T
  <2>1. L[0] = hashes
    BY LevelsDef
  <2>2. IsLevel(hashes)
    BY DEF IsLevel
  <2> HIDE DEF L
  <2> QED BY <1>0, <2>1, <2>2
<1>2. ASSUME NEW k \in T PROVE k + 1 \in T
  <2> SUFFICES ASSUME k + 1 <= N
               PROVE  /\ IsLevel(L[k + 1]) /\ Len(L[k + 1]) \in Nat /\ Len(L[k + 1]) > 0
                      /\ Len(L[k + 1]) <= N - (k + 1) \/ Len(L[k + 1]) = 1
    OBVIOUS
  <2>1. k <= N /\ k \in 0 .. N - 1
    BY <1>0
  <2>2. L[k + 1] = NextLevel(L[k])
    BY <2>1, LevelsDef
  <2>3. /\ IsLevel(L[k]) /\ Len(L[k]) \in Nat /\ Len(L[k]) > 0
        /\ Len(L[k]) <= N - k \/ Len(L[k]) = 1
    BY <2>1
  <2> HIDE DEF L, N, T
  <2>4. IsLevel(L[k + 1]) /\ Len(L[k + 1]) = (Len(L[k]) + 1) \div 2
    BY <2>2, <2>3, NextLevelShape
  <2>5. CASE Len(L[k]) = 1
    BY <2>4, <2>5
  <2>6. CASE Len(L[k]) # 1
    <3> DEFINE m == Len(L[k])
    <3>1. m \in Nat /\ m > 1 /\ m <= N - k
      <4>1. m \in Nat /\ m > 0 /\ m # 1 /\ m <= N - k
        BY <2>3, <2>6, Zenon
      <4> HIDE DEF m
      <4> QED BY <4>1
    <3> HIDE DEF m
    <3>2. (m + 1) \div 2 \in Nat /\ (m + 1) \div 2 > 0
      BY <3>1
    <3>3. (m + 1) \div 2 <= m - 1
      BY <3>1
    <3>4. (m + 1) \div 2 <= N - (k + 1)
      BY <1>0, <2>1, <3>1, <3>2, <3>3
    <3> QED BY <2>4, <3>2, <3>4 DEF m
  <2> QED BY <2>5, <2>6
<1>3. T = Nat
  <2> HIDE DEF T
  <2>1. T \in SUBSET Nat
    BY DEF T
  <2> QED BY <1>1, <1>2, <2>1, Induct
<1>4. n \in Nat /\ n <= N
  BY <1>0
<1>5. n \in T
  BY <1>3, <1>4
<1> HIDE DEF L, N
<1>6. /\ IsLevel(L[n]) /\ Len(L[n]) \in Nat /\ Len(L[n]) > 0
      /\ Len(L[n]) <= N - n \/ Len(L[n]) = 1
  BY <1>4, <1>5
<1> QED BY <1>6 DEF L, N

(* The loop ends, on a level with one hash, and not before. *)
LEMMA RoundsDef ==
    ASSUME NEW H, NEW hashes \in Seq(H), hashes # <<>>
    PROVE  /\ Rounds(hashes) \in 0 .. Len(hashes)
           /\ Len(Levels(hashes)[Rounds(hashes)]) = 1
           /\ \A i \in 0 .. Rounds(hashes) - 1 : Len(Levels(hashes)[i]) > 1
<1> DEFINE N == Len(hashes)
           len(k) == Len(Levels(hashes)[k])
           R == Rounds(hashes)
<1>0. N \in Nat
  OBVIOUS
<1>1. \A k \in 0 .. N : len(k) \in Nat /\ len(k) > 0
  BY LevelShape
<1>2. len(N) <= 1
  <2>1. N \in 0 .. N
    BY <1>0
  <2>2. len(N) \in Nat /\ (len(N) <= N - N \/ len(N) = 1)
    BY <2>1, LevelShape
  <2> HIDE DEF len, N
  <2> QED BY <1>0, <2>2
<1>3. R = CHOOSE k \in 0 .. N : len(k) <= 1 /\ \A i \in 0 .. k - 1 : ~ (len(i) <= 1)
  BY DEF Rounds, Ends
<1> HIDE DEF len, N, R
<1>4. \E k \in 0 .. N : len(k) <= 1 /\ \A i \in 0 .. k - 1 : ~ (len(i) <= 1)
  <2> DEFINE T == {k \in 0 .. N : len(k) <= 1}
  <2>1. T \in SUBSET Nat /\ T # {}
    BY <1>0, <1>2
  <2>2. PICK x \in T : \A y \in T : x <= y
    BY <2>1, Least
  <2>3. \A i \in 0 .. x - 1 : i \in 0 .. N /\ ~ (x <= i)
    BY <1>0, <2>1, <2>2
  <2>4. \A i \in 0 .. x - 1 : ~ (len(i) <= 1)
    BY <2>2, <2>3
  <2> QED BY <2>2, <2>4
<1>5. R \in 0 .. N /\ len(R) <= 1 /\ \A i \in 0 .. R - 1 : ~ (len(i) <= 1)
  BY <1>3, <1>4
<1>6. len(R) = 1
  BY <1>1, <1>5
<1>7. ASSUME NEW i \in 0 .. R - 1 PROVE len(i) > 1
  <2>1. i \in 0 .. N
    BY <1>0, <1>5
  <2> QED BY <1>1, <1>5, <2>1
<1> QED BY <1>5, <1>6, <1>7 DEF len, N, R

-----------------------------------------------------------------------------
(* The proof of a chunk. *)

(* One round: hashing a position with its sibling gives the position above. *)
LEMMA OneRound ==
    ASSUME NEW level, IsLevel(level), Len(level) > 0, NEW pos \in 0 .. Len(level) - 1
    PROVE  /\ pos \div 2 \in 0 .. Len(NextLevel(level)) - 1
           /\ Climb(level[pos + 1], Sibling(level, pos)) = NextLevel(level)[pos \div 2 + 1]
<1> DEFINE n == Len(level)
           j == pos \div 2
<1>1. n \in Nat /\ n > 0
  BY NextLevelShape
<1> HIDE DEF n
<1>2. /\ j \in Nat /\ j + 1 \in 1 .. (n + 1) \div 2 /\ (j + 1) - 1 = j
      /\ (n + 1) \div 2 \in Nat
  BY <1>1 DEF n
<1>3. CASE pos % 2 = 0
  <2>1. 2 * j = pos
    BY <1>1, <1>3 DEF n
  <2>2. Left(level, j) = level[pos + 1]
    BY <2>1 DEF Left
  <2>3. Climb(level[pos + 1], Sibling(level, pos)) = sha256_hash(Left(level, j), Right(level, j))
    BY <1>3, <2>2 DEF Climb, Sibling
  <2>4. NextLevel(level)[j + 1] = sha256_hash(Left(level, j), Right(level, j))
    BY <1>2, NextLevelShape DEF n
  <2> QED BY <1>1, <1>2, <2>3, <2>4, NextLevelShape DEF n
<1>4. CASE pos % 2 # 0
  <2>1. 2 * j + 1 = pos /\ 2 * j + 1 < n /\ 2 * j + 2 = pos + 1
    BY <1>1, <1>4 DEF n
  <2>2. Right(level, j) = level[pos + 1]
    BY <2>1 DEF Right, n
  <2>3. Climb(level[pos + 1], Sibling(level, pos)) = sha256_hash(Left(level, j), Right(level, j))
    BY <1>4, <2>2 DEF Climb, Sibling
  <2>4. NextLevel(level)[j + 1] = sha256_hash(Left(level, j), Right(level, j))
    BY <1>2, NextLevelShape DEF n
  <2> QED BY <1>1, <1>2, <2>3, <2>4, NextLevelShape DEF n
<1> QED BY <1>3, <1>4

(* Two hashes that a step of a proof makes equal were equal: collisions are *)
(* excluded.                                                                *)
LEMMA ClimbInjective ==
    ASSUME NEW a, NEW b, NEW step, Climb(a, step) = Climb(b, step)
    PROVE  a = b
BY DEF Climb, sha256_hash

LEMMA ProofShape ==
    ASSUME NEW H, NEW hashes \in Seq(H), hashes # <<>>, NEW index
    PROVE  /\ \E S : compute_merkle_proof(hashes, index) \in Seq(S)
           /\ Len(compute_merkle_proof(hashes, index)) = Rounds(hashes)
           /\ \A k \in 0 .. Rounds(hashes) - 1 :
                 compute_merkle_proof(hashes, index)[k + 1] =
                     Sibling(Levels(hashes)[k], Positions(hashes, index)[k])
<1> DEFINE R == Rounds(hashes)
           step(k) == Sibling(Levels(hashes)[k], Positions(hashes, index)[k])
           p == [k \in 1 .. R |-> step(k - 1)]
           S == {step(k - 1) : k \in 1 .. R}
<1>1. R \in Nat
  BY RoundsDef
<1>2. compute_merkle_proof(hashes, index) = p
  BY DEF compute_merkle_proof
<1> HIDE DEF R, step
<1>3. \A k \in 1 .. R : step(k - 1) \in S
  OBVIOUS
<1> HIDE DEF S
<1>4. p \in Seq(S)
  BY <1>1, <1>3
<1>5. Len(p) = R
  BY <1>1, <1>3
<1>6. ASSUME NEW k \in 0 .. R - 1 PROVE p[k + 1] = step(k)
  <2>1. k + 1 \in 1 .. R /\ (k + 1) - 1 = k
    BY <1>1
  <2> QED BY <2>1
<1> HIDE DEF p
<1> QED BY <1>2, <1>4, <1>5, <1>6 DEF R, step

(* From the hash of the chunk, k steps of its proof lead to its position on *)
(* the level after k rounds; and to no other one from another hash.         *)
LEMMA WalksUp ==
    ASSUME NEW H, NEW hashes \in Seq(H), NEW i \in 1 .. Len(hashes), NEW leaf
    PROVE  LET L == Levels(hashes)
               P == Positions(hashes, i - 1)
               W == Walk(leaf, compute_merkle_proof(hashes, i - 1))
               R == Rounds(hashes)
           IN  /\ P[R] \in 0 .. Len(L[R]) - 1
               /\ leaf = hashes[i] <=> W[R] = L[R][P[R] + 1]
<1> DEFINE N == Len(hashes)
           L == Levels(hashes)
           P == Positions(hashes, i - 1)
           proof == compute_merkle_proof(hashes, i - 1)
           W == Walk(leaf, proof)
           R == Rounds(hashes)
           T == {k \in Nat : k <= R => /\ P[k] \in 0 .. Len(L[k]) - 1
                                       /\ leaf = hashes[i] <=> W[k] = L[k][P[k] + 1]}
<1>0. N \in Nat /\ hashes # <<>>
  OBVIOUS
<1>1. R \in Nat /\ R <= N
  BY <1>0, RoundsDef
<1>2. PICK S : proof \in Seq(S) /\ Len(proof) = R
  BY <1>0, ProofShape
<1>3. \A k \in 0 .. R - 1 : proof[k + 1] = Sibling(L[k], P[k])
  BY <1>0, ProofShape
<1>4. L[0] = hashes /\ P[0] = i - 1
  BY LevelsDef, PositionsDef
<1>5. \A k \in 0 .. N - 1 : L[k + 1] = NextLevel(L[k]) /\ P[k + 1] = P[k] \div 2
  BY LevelsDef, PositionsDef
<1>6. W[0] = leaf /\ \A k \in 0 .. R - 1 : W[k + 1] = Climb(W[k], proof[k + 1])
  BY <1>2, WalkDef
<1>7. \A k \in 0 .. N : IsLevel(L[k]) /\ Len(L[k]) > 0
  BY <1>0, LevelShape
<1> HIDE DEF L, P, W, R, N, proof
<1>8. 0 \in T
  <2>1. i - 1 \in 0 .. Len(hashes) - 1 /\ (i - 1) + 1 = i
    BY <1>0 DEF N
  <2> QED BY <1>4, <1>6, <2>1
<1>9. ASSUME NEW k \in T PROVE k + 1 \in T
  <2> SUFFICES ASSUME k + 1 <= R
               PROVE  /\ P[k + 1] \in 0 .. Len(L[k + 1]) - 1
                      /\ leaf = hashes[i] <=> W[k + 1] = L[k + 1][P[k + 1] + 1]
    OBVIOUS
  <2>1. k \in Nat /\ k <= R /\ k \in 0 .. R - 1 /\ k \in 0 .. N - 1 /\ k \in 0 .. N
    BY <1>0, <1>1
  <2>2. P[k] \in 0 .. Len(L[k]) - 1 /\ (leaf = hashes[i] <=> W[k] = L[k][P[k] + 1])
    BY <2>1
  <2> HIDE DEF T
  <2>3. /\ P[k] \div 2 \in 0 .. Len(NextLevel(L[k])) - 1
        /\ Climb(L[k][P[k] + 1], Sibling(L[k], P[k])) = NextLevel(L[k])[P[k] \div 2 + 1]
    BY <1>7, <2>1, <2>2, OneRound
  <2>4. L[k + 1] = NextLevel(L[k]) /\ P[k + 1] = P[k] \div 2
    BY <1>5, <2>1
  <2>5. P[k + 1] \in 0 .. Len(L[k + 1]) - 1
    BY <2>3, <2>4
  <2>6. Climb(L[k][P[k] + 1], Sibling(L[k], P[k])) = L[k + 1][P[k + 1] + 1]
    BY <2>3, <2>4
  <2>7. W[k + 1] = Climb(W[k], Sibling(L[k], P[k]))
    BY <1>3, <1>6, <2>1
  <2>8. W[k + 1] = L[k + 1][P[k + 1] + 1] <=> W[k] = L[k][P[k] + 1]
    BY <2>6, <2>7, ClimbInjective
  <2> QED BY <2>2, <2>5, <2>8
<1>10. T = Nat
  <2> HIDE DEF T
  <2>1. T \in SUBSET Nat
    BY DEF T
  <2> QED BY <1>8, <1>9, <2>1, Induct
<1>11. R \in T
  BY <1>1, <1>10
<1>12. P[R] \in 0 .. Len(L[R]) - 1 /\ (leaf = hashes[i] <=> W[R] = L[R][P[R] + 1])
  BY <1>1, <1>11
<1> QED BY <1>12 DEF L, P, W, R, proof

(* The proof of any chunk of any file verifies for the hash of that chunk   *)
(* and for no other one.                                                    *)
THEOREM MerkleProofsSeparate ==
    ASSUME NEW H
    PROVE  \A hashes \in Seq(H) : ProofsSeparate(hashes, H)
<1> SUFFICES ASSUME NEW hashes \in Seq(H), NEW i \in DOMAIN hashes, NEW leaf \in H
             PROVE  verify_merkle_proof(leaf, compute_merkle_proof(hashes, i - 1),
                                        compute_merkle_root(hashes)) <=> leaf = hashes[i]
  BY DEF ProofsSeparate
<1> DEFINE L == Levels(hashes)
           P == Positions(hashes, i - 1)
           proof == compute_merkle_proof(hashes, i - 1)
           W == Walk(leaf, proof)
           R == Rounds(hashes)
<1>1. i \in 1 .. Len(hashes) /\ hashes # <<>>
  OBVIOUS
<1>2. P[R] \in 0 .. Len(L[R]) - 1 /\ (leaf = hashes[i] <=> W[R] = L[R][P[R] + 1])
  BY <1>1, WalksUp
<1>3. Len(L[R]) = 1 /\ Len(proof) = R
  BY <1>1, RoundsDef, ProofShape
<1> HIDE DEF L, P, W, R, proof
<1>4. P[R] + 1 = 1
  BY <1>2, <1>3
<1>5. compute_merkle_root(hashes) = L[R][1]
  BY <1>1 DEF compute_merkle_root, L, R
<1>6. verify_merkle_proof(leaf, proof, compute_merkle_root(hashes)) <=> W[R] = L[R][1]
  BY <1>3, <1>5 DEF verify_merkle_proof, W
<1> QED BY <1>2, <1>4, <1>6 DEF proof

-----------------------------------------------------------------------------
(* The root. *)

(* A level is determined by the one above it and its length. *)
LEMMA NextLevelInjective ==
    ASSUME NEW a, NEW b, IsLevel(a), IsLevel(b), Len(a) > 0, Len(a) = Len(b),
           NextLevel(a) = NextLevel(b)
    PROVE  a = b
<1> DEFINE m == Len(a)
           hash(s, j) == sha256_hash(Left(s, j), Right(s, j))
<1>1. m \in Nat /\ Len(b) = m
  BY NextLevelShape
<1>2. ASSUME NEW j \in Nat, j + 1 <= (m + 1) \div 2
      PROVE  Left(a, j) = Left(b, j) /\ Right(a, j) = Right(b, j)
  <2>1. j + 1 \in 1 .. (m + 1) \div 2 /\ (j + 1) - 1 = j
    BY <1>1, <1>2
  <2>2. NextLevel(a)[j + 1] = hash(a, j)
    BY <2>1, NextLevelShape
  <2>3. NextLevel(b)[j + 1] = hash(b, j)
    BY <1>1, <2>1, NextLevelShape
  <2> QED BY <2>2, <2>3 DEF sha256_hash
<1>3. ASSUME NEW n \in 1 .. m PROVE a[n] = b[n]
  <2> DEFINE j == (n - 1) \div 2
  <2>1. j \in Nat /\ j + 1 <= (m + 1) \div 2
    BY <1>1
  <2>2. Left(a, j) = Left(b, j) /\ Right(a, j) = Right(b, j)
    BY <1>2, <2>1
  <2>3. CASE n = 2 * j + 1
    BY <2>2, <2>3 DEF Left
  <2>4. CASE n = 2 * j + 2
    <3>1. 2 * j + 1 < m
      BY <1>1, <2>1, <2>4
    <3> QED BY <1>1, <2>2, <2>4, <3>1 DEF Right
  <2>5. n = 2 * j + 1 \/ n = 2 * j + 2
    BY <1>1
  <2> QED BY <2>3, <2>4, <2>5
<1> HIDE DEF m
<1>4. a = [n \in 1 .. m |-> a[n]] /\ b = [n \in 1 .. m |-> b[n]]
  <2>1. PICK S : a \in Seq(S)
    BY DEF IsLevel
  <2>2. PICK S2 : b \in Seq(S2)
    BY DEF IsLevel
  <2> QED BY <1>1, <2>1, <2>2 DEF m
<1> QED BY <1>3, <1>4

(* Two files of as many chunks have levels of the same lengths and end with *)
(* the same round.                                                          *)
LEMMA SameShape ==
    ASSUME NEW H, NEW a \in Seq(H), NEW b \in Seq(H), Len(a) = Len(b), a # <<>>
    PROVE  /\ b # <<>>
           /\ \A k \in 0 .. Len(a) : Len(Levels(a)[k]) = Len(Levels(b)[k])
           /\ Rounds(a) = Rounds(b)
<1> DEFINE N == Len(a)
           A == Levels(a)
           B == Levels(b)
           T == {k \in Nat : k <= N => Len(A[k]) = Len(B[k])}
<1>0. N \in Nat /\ Len(b) = N /\ b # <<>>
  OBVIOUS
<1>1. A[0] = a /\ B[0] = b
  BY LevelsDef
<1>2. \A k \in 0 .. N - 1 : A[k + 1] = NextLevel(A[k]) /\ B[k + 1] = NextLevel(B[k])
  BY <1>0, LevelsDef
<1>3. \A k \in 0 .. N : IsLevel(A[k]) /\ Len(A[k]) > 0 /\ IsLevel(B[k]) /\ Len(B[k]) > 0
  BY <1>0, LevelShape
<1> HIDE DEF A, B
<1>4. 0 \in T
  BY <1>0, <1>1
<1> HIDE DEF N
<1>5. ASSUME NEW k \in T PROVE k + 1 \in T
  <2> SUFFICES ASSUME k + 1 <= N PROVE Len(A[k + 1]) = Len(B[k + 1])
    OBVIOUS
  <2>1. k \in 0 .. N - 1 /\ k \in 0 .. N
    BY <1>0
  <2>2. Len(A[k]) = Len(B[k])
    BY <2>1
  <2>3. /\ Len(NextLevel(A[k])) = (Len(A[k]) + 1) \div 2
        /\ Len(NextLevel(B[k])) = (Len(B[k]) + 1) \div 2
    BY <1>3, <2>1, NextLevelShape
  <2> QED BY <1>2, <2>1, <2>2, <2>3
<1>6. T = Nat
  <2> HIDE DEF T
  <2>1. T \in SUBSET Nat
    BY DEF T
  <2> QED BY <1>4, <1>5, <2>1, Induct
<1>7. \A k \in 0 .. N : Len(A[k]) = Len(B[k])
  BY <1>0, <1>6
<1>8. Rounds(a) = Rounds(b)
  <2> DEFINE Q == Rounds(a)
             R == Rounds(b)
  <2>1. Q \in 0 .. N /\ Len(A[Q]) = 1 /\ \A i \in 0 .. Q - 1 : Len(A[i]) > 1
    BY RoundsDef DEF A, N
  <2>2. R \in 0 .. N /\ Len(B[R]) = 1 /\ \A i \in 0 .. R - 1 : Len(B[i]) > 1
    BY <1>0, RoundsDef DEF B
  <2> HIDE DEF Q, R
  <2>3. ~ (Q < R)
    <3> SUFFICES ASSUME Q < R PROVE FALSE
      OBVIOUS
    <3>1. Q \in 0 .. R - 1
      BY <1>0, <2>1, <2>2
    <3>2. Len(B[Q]) > 1 /\ Len(B[Q]) = 1
      BY <1>7, <2>1, <2>2, <3>1
    <3> QED BY <3>2
  <2>4. ~ (R < Q)
    <3> SUFFICES ASSUME R < Q PROVE FALSE
      OBVIOUS
    <3>1. R \in 0 .. Q - 1
      BY <1>0, <2>1, <2>2
    <3>2. Len(A[R]) > 1 /\ Len(A[R]) = 1
      BY <1>7, <2>1, <2>2, <3>1
    <3> QED BY <3>2
  <2>5. Q = R
    BY <1>0, <2>1, <2>2, <2>3, <2>4
  <2> QED BY <2>5 DEF Q, R
<1> QED BY <1>0, <1>7, <1>8 DEF A, B, N

(* The root of a manifest fits one list of as many chunk hashes only: what  *)
(* merge_chunks compares before it decrypts.                                *)
THEOREM MerkleRootsSeparate ==
    ASSUME NEW H
    PROVE  \A a, b \in Seq(H) : RootsSeparate(a, b)
<1> SUFFICES ASSUME NEW a \in Seq(H), NEW b \in Seq(H), Len(a) = Len(b),
                    compute_merkle_root(a) = compute_merkle_root(b)
             PROVE  a = b
  BY DEF RootsSeparate
<1>1. CASE a = <<>>
  <2>1. Len(b) = 0
    BY <1>1
  <2> QED BY <1>1, <2>1
<1>2. CASE a # <<>>
  <2> DEFINE N == Len(a)
             A == Levels(a)
             B == Levels(b)
             R == Rounds(a)
             T == {k \in Nat : k <= R /\ A[k] = B[k] => a = b}
  <2>0. N \in Nat /\ Len(b) = N /\ b # <<>>
    BY <1>2
  <2>1. R \in Nat /\ R <= N /\ Len(A[R]) = 1
    BY <1>2, <2>0, RoundsDef
  <2>2. A[0] = a /\ B[0] = b
    BY LevelsDef
  <2>3. \A k \in 0 .. N - 1 : A[k + 1] = NextLevel(A[k]) /\ B[k + 1] = NextLevel(B[k])
    BY <2>0, LevelsDef
  <2>4. \A k \in 0 .. N : IsLevel(A[k]) /\ Len(A[k]) > 0 /\ IsLevel(B[k])
    BY <1>2, <2>0, LevelShape
  <2>5. /\ \A k \in 0 .. N : Len(A[k]) = Len(B[k])
        /\ Rounds(b) = R
    BY <1>2, <2>0, SameShape
  <2>6. A[R][1] = B[R][1]
    BY <1>2, <2>0, <2>5 DEF compute_merkle_root
  <2> HIDE DEF A, B, R, N
  <2>7. A[R] = B[R]
    <3>1. R \in 0 .. N
      BY <2>0, <2>1
    <3>2. PICK S : A[R] \in Seq(S)
      BY <2>4, <3>1 DEF IsLevel
    <3>3. PICK S2 : B[R] \in Seq(S2)
      BY <2>4, <3>1 DEF IsLevel
    <3>4. Len(B[R]) = 1
      BY <2>1, <2>5, <3>1
    <3> QED BY <2>1, <2>6, <3>2, <3>3, <3>4
  <2>8. 0 \in T
    BY <2>2
  <2>9. ASSUME NEW k \in T PROVE k + 1 \in T
    <3> SUFFICES ASSUME k + 1 <= R, A[k + 1] = B[k + 1] PROVE a = b
      OBVIOUS
    <3>1. k \in Nat /\ k <= R /\ k \in 0 .. N - 1 /\ k \in 0 .. N
      BY <2>0, <2>1
    <3>2. NextLevel(A[k]) = NextLevel(B[k])
      BY <2>3, <3>1
    <3>3. A[k] = B[k]
      BY <2>4, <2>5, <3>1, <3>2, NextLevelInjective
    <3> QED BY <3>1, <3>3
  <2>10. T = Nat
    <3> HIDE DEF T
    <3>1. T \in SUBSET Nat
      BY DEF T
    <3> QED BY <2>8, <2>9, <3>1, Induct
  <2>11. R \in T
    BY <2>1, <2>10
  <2> QED BY <2>1, <2>7, <2>11
<1> QED BY <1>1, <1>2
=============================================================================
