------------------------------- MODULE Counting -------------------------------
(***************************************************************************)
(* Counting lemmas for the admission of jobs to a queue, shared by the     *)
(* proofs about the Go engine and the serverless worker.  A holder that    *)
(* has read a budget b is granted the pairs <<holder, 1>> to <<holder, b>>; *)
(* rows active and pairs granted are counted together.                     *)
(***************************************************************************)
EXTENDS Integers, FiniteSetTheorems, TLAPS

\* The grants of one holder.
LEMMA PairCount ==
  ASSUME NEW x, NEW n \in Nat
  PROVE  IsFiniteSet({x} \X (1..n)) /\ Cardinality({x} \X (1..n)) = n
<1>1. IsFiniteSet(1..n) /\ Cardinality(1..n) = n
  BY FS_Interval
<1>2. IsFiniteSet({x}) /\ Cardinality({x}) = 1
  BY Zenon, FS_Singleton
<1>3. /\ IsFiniteSet({x} \X (1..n))
      /\ Cardinality({x} \X (1..n)) = Cardinality({x}) * Cardinality(1..n)
  BY Zenon, <1>1, <1>2, FS_Product
<1> QED
  BY <1>1, <1>2, <1>3

\* All holders but x together have at most L each.
LEMMA OthersBounded ==
  ASSUME NEW T, IsFiniteSet(T), NEW x \in T, NEW L \in Nat,
         NEW G \in SUBSET ((T \ {x}) \X (1..L))
  PROVE  IsFiniteSet(G) /\ Cardinality(G) \in Nat /\ Cardinality(G) + L <= L * Cardinality(T)
<1>1. IsFiniteSet(1..L) /\ Cardinality(1..L) = L
  BY FS_Interval
<1>2. IsFiniteSet(T \ {x}) /\ Cardinality(T \ {x}) = Cardinality(T) - 1
  BY Zenon, FS_RemoveElement
<1>3. /\ IsFiniteSet((T \ {x}) \X (1..L))
      /\ Cardinality((T \ {x}) \X (1..L)) = Cardinality(T \ {x}) * Cardinality(1..L)
  BY Zenon, <1>1, <1>2, FS_Product
<1>4. IsFiniteSet(G) /\ Cardinality(G) <= Cardinality((T \ {x}) \X (1..L))
  BY Zenon, <1>3, FS_Subset
<1>5. Cardinality(T) \in Nat /\ Cardinality(G) \in Nat
  BY Zenon, <1>4, FS_CardinalityType
<1>6. Cardinality(G) <= (Cardinality(T) - 1) * L
  BY Zenon, <1>1, <1>2, <1>3, <1>4
<1>7. \A n \in Nat : (n - 1) * L + L = L * n
  OBVIOUS
<1>8. (Cardinality(T) - 1) * L \in Int
  BY <1>5
<1> QED
  BY <1>4, <1>5, <1>6, <1>7, <1>8

\* Grants drawn from the holders' pairs are finite.
LEMMA GrantsFinite ==
  ASSUME NEW T, IsFiniteSet(T), NEW L \in Nat, NEW G \in SUBSET (T \X (1..L))
  PROVE  IsFiniteSet(G) /\ Cardinality(G) \in Nat
<1>1. IsFiniteSet(1..L)
  BY FS_Interval
<1>2. IsFiniteSet(T \X (1..L))
  BY Zenon, <1>1, FS_Product
<1> QED
  BY Zenon, <1>2, FS_Subset, FS_CardinalityType

\* A budget b that leaves room for a active rows fits under one limit per
\* holder, whatever the other holders were granted.
LEMMA BudgetFits ==
  ASSUME NEW T, IsFiniteSet(T), NEW x \in T, NEW L \in Nat,
         NEW a \in Nat, NEW b \in Nat, a + b = L,
         NEW O \in SUBSET ((T \ {x}) \X (1..L)),
         NEW G, G \subseteq O \cup ({x} \X (1..b))
  PROVE  a + Cardinality(G) <= L * Cardinality(T)
<1> DEFINE own == {x} \X (1..b)
<1>1. /\ IsFiniteSet(O) /\ Cardinality(O) \in Nat
      /\ Cardinality(O) + L <= L * Cardinality(T)
  BY Zenon, OthersBounded
<1>2. IsFiniteSet(own) /\ Cardinality(own) = b
  BY Zenon, PairCount
<1> HIDE DEF own
<1>3. /\ IsFiniteSet(O \cup own)
      /\ Cardinality(O \cup own) = Cardinality(O) + Cardinality(own) - Cardinality(O \cap own)
  BY Zenon, <1>1, <1>2, FS_Union
<1>4. Cardinality(O \cap own) \in Nat
  BY Zenon, <1>1, FS_Subset, FS_CardinalityType
<1>5. IsFiniteSet(G) /\ Cardinality(G) <= Cardinality(O \cup own)
  BY Zenon, <1>3, FS_Subset DEF own
<1>6. Cardinality(G) \in Nat /\ Cardinality(T) \in Nat
  BY Zenon, <1>5, FS_CardinalityType
<1>7. L * Cardinality(T) \in Nat
  BY <1>6
<1> QED
  BY <1>1, <1>2, <1>3, <1>4, <1>5, <1>6, <1>7

\* A claim of at most n rows uses up a grant of n pairs.
LEMMA ClaimFits ==
  ASSUME NEW A, IsFiniteSet(A), NEW G, IsFiniteSet(G), NEW S, IsFiniteSet(S),
         NEW x, NEW n \in Nat, Cardinality(S) <= n,
         NEW B, B \subseteq A \cup S,
         NEW H, H \subseteq G,
         {x} \X (1..n) \subseteq G, H \cap ({x} \X (1..n)) = {}
  PROVE  Cardinality(B) + Cardinality(H) <= Cardinality(A) + Cardinality(G)
<1> DEFINE own == {x} \X (1..n)
<1>1. IsFiniteSet(own) /\ Cardinality(own) = n
  BY Zenon, PairCount
<1>0. own \subseteq G /\ H \cap own = {}
  BY Zenon
<1> HIDE DEF own
<1>2. IsFiniteSet(H) /\ Cardinality(H) \in Nat /\ Cardinality(H \cap own) = 0
  BY Zenon, <1>0, FS_Subset, FS_CardinalityType, FS_EmptySet
<1>3. /\ IsFiniteSet(H \cup own)
      /\ Cardinality(H \cup own) = Cardinality(H) + Cardinality(own) - Cardinality(H \cap own)
  BY Zenon, <1>1, <1>2, FS_Union
<1>4. Cardinality(H \cup own) <= Cardinality(G) /\ Cardinality(G) \in Nat
  BY Zenon, <1>0, FS_Subset, FS_CardinalityType
<1>5. /\ IsFiniteSet(A \cup S)
      /\ Cardinality(A \cup S) = Cardinality(A) + Cardinality(S) - Cardinality(A \cap S)
  BY Zenon, FS_Union
<1>6. Cardinality(A) \in Nat /\ Cardinality(S) \in Nat /\ Cardinality(A \cap S) \in Nat
  BY Zenon, FS_Subset, FS_CardinalityType
<1>7. Cardinality(B) <= Cardinality(A \cup S) /\ Cardinality(B) \in Nat
  BY Zenon, <1>5, FS_Subset, FS_CardinalityType
<1> QED
  BY <1>1, <1>2, <1>3, <1>4, <1>5, <1>6, <1>7
=============================================================================
