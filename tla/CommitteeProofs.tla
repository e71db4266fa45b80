--------------------------- MODULE CommitteeProofs ---------------------------
(***************************************************************************)
(* Facts about the thresholds of core/config.go, for every committee, and  *)
(* about natural numbers, functions and finite sets in general.            *)
(***************************************************************************)
EXTENDS Committee, FiniteSetTheorems, TLAPS

\* The two thresholds are natural numbers of at least one.
LEMMA ThresholdType ==
  /\ Size \in Nat \ {0}
  /\ LowThreshold \in Nat \ {0}
  /\ HightThreshold \in Nat \ {0}
<1>1. Size \in Nat \ {0}
  BY CommitteeAssumption, FS_CardinalityType, FS_EmptySet DEF Size
<1> QED
  BY <1>1 DEF LowThreshold, HightThreshold

\* A set of nodes is finite, and a larger set has at least as many elements.
LEMMA NodeSets ==
  ASSUME NEW T \in SUBSET Node, NEW S \in SUBSET T
  PROVE  /\ IsFiniteSet(T)
         /\ Cardinality(T) \in Nat
         /\ Cardinality(S) \in Nat
         /\ Cardinality(S) <= Cardinality(T)
<1>1. IsFiniteSet(T)
  BY CommitteeAssumption, FS_Subset
<1>2. IsFiniteSet(S) /\ Cardinality(S) <= Cardinality(T)
  BY <1>1, FS_Subset
<1> QED
  BY <1>1, <1>2, FS_CardinalityType

\* A quorum has a member.
LEMMA QuorumNotEmpty ==
  ASSUME NEW Q \in Quorums
  PROVE  Q # {} /\ Q \subseteq Node
<1>1. Cardinality(Q) >= HightThreshold /\ Q \subseteq Node
  BY DEF Quorums
<1> QED
  BY <1>1, FS_EmptySet, ThresholdType

\* In a committee of 3f+1 nodes, two sets of HightThreshold nodes share at
\* least LowThreshold = f+1 nodes: one more than may be faulty.
THEOREM QuorumsOverlap ==
  ASSUME NEW f \in Nat, Size = 3 * f + 1,
         NEW P \in SUBSET Node, Cardinality(P) >= HightThreshold,
         NEW Q \in SUBSET Node, Cardinality(Q) >= HightThreshold
  PROVE  Cardinality(P \cap Q) >= LowThreshold
<1>1. HightThreshold = 2 * f + 1 /\ LowThreshold = f + 1
  BY DEF HightThreshold, LowThreshold
<1>2. Cardinality(P \cup Q) <= Size
  BY NodeSets DEF Size
<1>3. Cardinality(P \cup Q) = Cardinality(P) + Cardinality(Q) - Cardinality(P \cap Q)
  BY NodeSets, FS_Union
<1>4. /\ Cardinality(P) \in Nat /\ Cardinality(Q) \in Nat
      /\ Cardinality(P \cap Q) \in Nat /\ Cardinality(P \cup Q) \in Nat
  BY NodeSets
<1> QED
  BY <1>1, <1>2, <1>3, <1>4

\* Whenever twice HightThreshold exceeds the committee, two quorums meet.
LEMMA QuorumsMeet ==
  ASSUME 2 * HightThreshold > Size,
         NEW P \in SUBSET Node, Cardinality(P) >= HightThreshold,
         NEW Q \in SUBSET Node, Cardinality(Q) >= HightThreshold
  PROVE  P \cap Q # {}
<1>1. Cardinality(P) \in Nat /\ Cardinality(Q) \in Nat
  BY NodeSets
<1>2. Cardinality(P) + Cardinality(Q) > Size
  BY <1>1, ThresholdType
<1> QED
  BY <1>2, CommitteeAssumption, FS_MajoritiesIntersect DEF Size

\* Updating one entry of a function of functions.
LEMMA EntryUpdate ==
  ASSUME NEW A, NEW B, NEW C, NEW g \in [A -> [B -> C]], NEW a \in A, NEW b \in B, NEW c \in C
  PROVE  /\ [g EXCEPT ![a][b] = c] \in [A -> [B -> C]]
         /\ \A x \in A, y \in B :
              [g EXCEPT ![a][b] = c][x][y] = IF x = a /\ y = b THEN c ELSE g[x][y]
OBVIOUS

-----------------------------------------------------------------------------
\* A set of natural numbers has a least element.
LEMMA LeastElement ==
  ASSUME NEW T \in SUBSET Nat, T # {}
  PROVE  \E x \in T : \A y \in T : x <= y
<1> DEFINE R == {ss \in Nat \X Nat : ss[1] < ss[2]}
<1>1. IsWellFoundedOn(R, Nat)
  BY NatLessThanWellFounded DEF OpToRel
<1>2. \A x, y \in Nat : y < x => <<y, x>> \in R
  OBVIOUS
<1> HIDE DEF R
<1>3. PICK x \in T : \A y \in T : ~ (<<y, x>> \in R)
  BY <1>1, WFMin, Zenon
<1>4. \A y \in T : ~ (y < x)
  BY <1>2, <1>3, Zenon
<1>5. \A y \in T : x <= y
  BY <1>4
<1> QED
  BY <1>5

\* The elements of a finite set can be numbered.
LEMMA Numbering ==
  ASSUME NEW S, IsFiniteSet(S)
  PROVE  /\ Cardinality(S) \in Nat
         /\ \E f \in [1 .. Cardinality(S) -> S] :
              /\ \A a, b \in 1 .. Cardinality(S) : f[a] = f[b] => a = b
              /\ \A s \in S : \E a \in 1 .. Cardinality(S) : f[a] = s
<1> DEFINE n == Cardinality(S)
<1>1. n \in Nat /\ ExistsBijection(1 .. n, S)
  BY FS_CardinalityType
<1>2. PICK f \in Bijection(1 .. n, S) : TRUE
  BY <1>1 DEF ExistsBijection
<1> HIDE DEF n
<1>3. /\ f \in [1 .. n -> S]
      /\ \A a, b \in 1 .. n : f[a] = f[b] => a = b
      /\ \A s \in S : \E a \in 1 .. n : f[a] = s
  BY <1>2 DEF Bijection, Injection, Surjection, IsInjective
<1> QED
  BY <1>1, <1>3 DEF n

\* A finite set has subsets of every smaller size.
LEMMA SubsetOfSize ==
  ASSUME NEW S, IsFiniteSet(S), NEW k \in Nat, k <= Cardinality(S)
  PROVE  \E T \in SUBSET S : IsFiniteSet(T) /\ Cardinality(T) = k
<1>1. Cardinality(S) \in Nat
  BY Numbering
<1>2. PICK f \in [1 .. Cardinality(S) -> S] :
        \A a, b \in 1 .. Cardinality(S) : f[a] = f[b] => a = b
  BY Numbering
<1> DEFINE T == {f[a] : a \in 1 .. k}
           g == [a \in 1 .. k |-> f[a]]
<1>3. 1 .. k \subseteq 1 .. Cardinality(S)
  BY <1>1
<1>4. g \in Bijection(1 .. k, T)
  BY <1>2, <1>3 DEF Bijection, Injection, Surjection, IsInjective
<1>5. IsFiniteSet(1 .. k) /\ Cardinality(1 .. k) = k
  BY FS_Interval
<1> HIDE DEF g
<1>6. ExistsBijection(1 .. k, T)
  BY <1>4 DEF ExistsBijection
<1>7. T \in SUBSET S
  BY <1>2, <1>3
<1> HIDE DEF T
<1>8. IsFiniteSet(T) /\ Cardinality(T) = k
  BY <1>5, <1>6, FS_Bijection
<1> QED
  BY <1>7, <1>8

LEMMA IsInjection ==
  ASSUME NEW S, NEW T, NEW f \in [S -> T], \A a, b \in S : f[a] = f[b] => a = b
  PROVE  f \in Injection(S, T)
BY DEF Injection, IsInjective

\* Counting the pairs <<r, p>> with p \in H[r] in two ways.
LEMMA DoubleCounting ==
  ASSUME NEW R, IsFiniteSet(R), NEW P, IsFiniteSet(P), NEW k \in Nat, NEW m \in Nat,
         NEW H \in [R -> SUBSET P],
         \A r \in R : Cardinality(H[r]) >= k,
         \A p \in P : Cardinality({r \in R : p \in H[r]}) <= m
  PROVE  Cardinality(R) * k <= Cardinality(P) * m
<1> DEFINE Of(p) == {r \in R : p \in H[r]}
           In(f, r) == f \in [1 .. k -> H[r]] /\ \A a, b \in 1 .. k : f[a] = f[b] => a = b
           To(g, p) == g \in [Of(p) -> 1 .. m] /\ \A r, s \in Of(p) : g[r] = g[s] => r = s
           F == [r \in R |-> CHOOSE f : In(f, r)]
           G == [p \in P |-> CHOOSE g : To(g, p)]
<1>1. ASSUME NEW r \in R PROVE In(F[r], r)
  <2>1. IsFiniteSet(H[r])
    BY FS_Subset
  <2>2. Cardinality(H[r]) \in Nat
    BY <2>1, Numbering
  <2>3. PICK f \in [1 .. Cardinality(H[r]) -> H[r]] :
          \A a, b \in 1 .. Cardinality(H[r]) : f[a] = f[b] => a = b
    BY <2>1, Numbering, Zenon
  <2>4. 1 .. k \subseteq 1 .. Cardinality(H[r])
    BY <2>2
  <2>5. In([a \in 1 .. k |-> f[a]], r)
    BY <2>3, <2>4
  <2> HIDE DEF In
  <2> QED
    BY <2>5
<1>2. ASSUME NEW p \in P PROVE To(G[p], p)
  <2>1. IsFiniteSet(Of(p)) /\ Cardinality(Of(p)) <= m
    BY FS_Subset
  <2> DEFINE n == Cardinality(Of(p))
  <2> HIDE DEF Of
  <2>2. n \in Nat
    BY <2>1, Numbering
  <2>3. PICK f \in [1 .. n -> Of(p)] : \A r \in Of(p) : \E a \in 1 .. n : f[a] = r
    BY <2>1, Numbering
  <2>4. 1 .. n \subseteq 1 .. m
    BY <2>1, <2>2
  <2> DEFINE g == [r \in Of(p) |-> CHOOSE a \in 1 .. n : f[a] = r]
  <2>5. \A r \in Of(p) : g[r] \in 1 .. n /\ f[g[r]] = r
    BY <2>3
  <2>6. g \in [Of(p) -> 1 .. m]
    BY <2>4, <2>5
  <2> HIDE DEF g
  <2>7. \A r, s \in Of(p) : g[r] = g[s] => r = s
    BY <2>5
  <2>8. To(g, p)
    BY <2>6, <2>7
  <2> HIDE DEF To
  <2> QED
    BY <2>8
<1> HIDE DEF F, G
<1> DEFINE J == [x \in R \X (1 .. k) |-> <<F[x[1]][x[2]], G[F[x[1]][x[2]]][x[1]]>>]
<1>3. ASSUME NEW r \in R, NEW a \in 1 .. k
      PROVE  /\ F[r][a] \in H[r]
             /\ F[r][a] \in P
             /\ r \in Of(F[r][a])
             /\ G[F[r][a]][r] \in 1 .. m
  <2>1. F[r][a] \in H[r]
    BY <1>1
  <2>2. F[r][a] \in P /\ r \in Of(F[r][a])
    BY <2>1
  <2> QED
    BY <1>2, <2>1, <2>2, Zenon
<1>4. J \in [R \X (1 .. k) -> P \X (1 .. m)]
  BY <1>3
<1>5. ASSUME NEW x \in R \X (1 .. k), NEW y \in R \X (1 .. k), J[x] = J[y] PROVE x = y
  <2>1. PICK r \in R, a \in 1 .. k : x = <<r, a>>
    OBVIOUS
  <2>2. PICK s \in R, b \in 1 .. k : y = <<s, b>>
    OBVIOUS
  <2>3. F[r][a] = F[s][b] /\ G[F[r][a]][r] = G[F[s][b]][s]
    BY <1>5, <2>1, <2>2
  <2> DEFINE p == F[r][a]
  <2>4. p \in P /\ r \in Of(p) /\ s \in Of(p) /\ G[p][r] = G[p][s]
    BY <1>3, <2>3
  <2> HIDE DEF p, Of
  <2>5. r = s
    BY <1>2, <2>4
  <2>6. a = b
    BY <1>1, <2>3, <2>5
  <2> QED
    BY <2>1, <2>2, <2>5, <2>6
<1>6. J \in Injection(R \X (1 .. k), P \X (1 .. m))
  <2> HIDE DEF J
  <2> QED
    BY <1>4, <1>5, IsInjection
<1> HIDE DEF J
<1>7. /\ IsFiniteSet(1 .. k) /\ Cardinality(1 .. k) = k
      /\ IsFiniteSet(1 .. m) /\ Cardinality(1 .. m) = m
  BY FS_Interval
<1>8. /\ Cardinality(R \X (1 .. k)) = Cardinality(R) * k
      /\ IsFiniteSet(P \X (1 .. m))
      /\ Cardinality(P \X (1 .. m)) = Cardinality(P) * m
  BY <1>7, FS_Product, ZenonT(40)
<1>9. Cardinality(R \X (1 .. k)) <= Cardinality(P \X (1 .. m))
  BY <1>6, <1>8, FS_Injection
<1> QED
  BY <1>8, <1>9

=============================================================================
