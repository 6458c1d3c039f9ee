--------------------------- MODULE SummaryProofs ---------------------------
(***************************************************************************)
(* Proofs about Summary.  What an answer says is a sum over the tables as  *)
(* they were when a query ran; the invariant, IInv, ties each number among *)
(* the handler's locals to such a sum, over a prefix of the rows that no   *)
(* later insert can change.  The theorems then compare the sums of one     *)
(* response with each other.                                               *)
(*                                                                         *)
(* The first part is about sums over finite sets in general: SumOf(w, S)   *)
(* is the sum of the weights w[i], i in S.  The sums of Summary, written   *)
(* with the library's MapThenSumSet, are shown to be such sums.            *)
(*                                                                         *)
(* The last part proves about Assessment, whose baseline is made of such   *)
(* sums too: how many rows a category has, and of what magnitude.  There   *)
(* AInv says of the transaction in flight what the stub made of it.        *)
(***************************************************************************)
EXTENDS Summary, Assessment, FiniteSetTheorems, SequenceTheorems, NaturalsInduction,
        WellFoundedInduction, TLAPS

(* Of natural numbers one is the least.                                    *)
LEMMA LeastOf ==
  ASSUME NEW T, T \subseteq Nat, T # {}
  PROVE  \E x \in T : \A y \in T : x <= y
<1>. DEFINE R == OpToRel(<, Nat)
<1>1. IsWellFoundedOn(R, Nat)
  BY NatLessThanWellFounded, Zenon
<1>. HIDE DEF R
<1>2. PICK x \in T : \A y \in T : ~(<<y, x>> \in R)
  BY <1>1, WFMin
<1>3. \A y \in T : ~(y < x)
  BY <1>2 DEF R, OpToRel
<1>4. \A y \in T : x <= y
  BY <1>3
<1>. QED  BY <1>4

(* Induction over the naturals and over the subsets of a finite set, for a *)
(* set instead of a predicate.                                             *)
LEMMA SetInduction ==
  ASSUME NEW S, 0 \in S, \A n \in Nat : n \in S => n + 1 \in S
  PROVE  Nat \subseteq S
<1>. SUFFICES ASSUME Nat \ S # {} PROVE FALSE
  OBVIOUS
<1>. DEFINE T == Nat \ S
<1>1. T \subseteq Nat /\ T # {}
  OBVIOUS
<1>. HIDE DEF T
<1>2. PICK x \in T : \A y \in T : x <= y
  BY <1>1, LeastOf
<1>3. x \in Nat
  BY <1>1
<1>4. \A y \in T : ~(y < x)
  BY <1>1, <1>2, <1>3
<1>5. x \in Nat /\ x # 0 /\ x - 1 \in Nat /\ x - 1 < x
  BY DEF T
<1>6. x - 1 \in S
  BY <1>4, <1>5 DEF T
<1>. QED  BY <1>5, <1>6 DEF T

LEMMA OneLess ==
  ASSUME NEW T, IsFiniteSet(T), NEW x \in T, NEW n \in Nat, Cardinality(T) = n + 1
  PROVE  IsFiniteSet(T \ {x}) /\ Cardinality(T \ {x}) = n
<1>1. IsFiniteSet(T \ {x}) /\ Cardinality(T \ {x}) = Cardinality(T) - 1
  BY FS_RemoveElement
<1>. QED  BY <1>1

LEMMA FiniteInduction ==
  ASSUME NEW S, IsFiniteSet(S), NEW F, {} \in F,
         \A T \in SUBSET S : T # {} /\ (\A x \in T : T \ {x} \in F) => T \in F
  PROVE  S \in F
<1>. DEFINE N == {n \in Nat : \A T \in SUBSET S : Cardinality(T) = n => T \in F}
<1>1. \A T \in SUBSET S : IsFiniteSet(T) /\ Cardinality(T) \in Nat
  BY FS_Subset, FS_CardinalityType
<1>2. 0 \in N
  BY <1>1, FS_EmptySet
<1>3. ASSUME NEW n \in Nat, n \in N PROVE n + 1 \in N
  <2>. SUFFICES ASSUME NEW T \in SUBSET S, Cardinality(T) = n + 1 PROVE T \in F
    OBVIOUS
  <2>1. T # {}
    <3>1. n + 1 # 0 /\ Cardinality({}) = 0
      BY FS_EmptySet
    <3>. QED  BY <3>1
  <2>2. ASSUME NEW x \in T PROVE T \ {x} \in F
    <3>1. Cardinality(T \ {x}) = n /\ T \ {x} \in SUBSET S
      BY <1>1, OneLess
    <3>. QED  BY <1>3, <3>1
  <2>. QED  BY <2>1, <2>2
<1>. HIDE DEF N
<1>4. IsFiniteSet(S) /\ Cardinality(S) \in N
  BY <1>1, <1>2, <1>3, SetInduction
<1>. QED  BY <1>4 DEF N

-----------------------------------------------------------------------------
(* Sums.  `it` is what MapThenSumSet computes with: the sum of the weights *)
(* w over every set of D, which is closed under taking an element away.    *)
Pick(s) == CHOOSE x \in s : TRUE

SumsOver(it, w, D) ==
  it = [s \in D |-> IF s = {} THEN 0 ELSE w[Pick(s)] + it[s \ {Pick(s)}]]

Sums(it, w, S) == SumsOver(it, w, SUBSET S)

SumOf(w, S) == (CHOOSE it : Sums(it, w, S))[S]

LEMMA PickIn == ASSUME NEW s, s # {} PROVE Pick(s) \in s
  BY DEF Pick

(* There is such a function, for sets of one size more at a time.          *)
LEMMA SumsExist ==
  ASSUME NEW w, NEW S, IsFiniteSet(S)
  PROVE  \E it : Sums(it, w, S)
<1>. DEFINE D(n) == {T \in SUBSET S : Cardinality(T) <= n}
            N == {n \in Nat : \E it : SumsOver(it, w, D(n))}
<1>1. \A T \in SUBSET S : IsFiniteSet(T) /\ Cardinality(T) \in Nat
                          /\ Cardinality(T) <= Cardinality(S)
  BY FS_Subset, FS_CardinalityType
<1>2. ASSUME NEW T \in SUBSET S, T # {}
      PROVE  Cardinality(T \ {Pick(T)}) = Cardinality(T) - 1 /\ T \ {Pick(T)} \in SUBSET S
             /\ Cardinality(T) >= 1
  <2>1. Pick(T) \in T /\ Cardinality(T) # 0
    BY <1>1, <1>2, PickIn, FS_EmptySet
  <2>. QED  BY <1>1, <2>1, FS_RemoveElement
<1>3. 0 \in N
  <2>. DEFINE f == [s \in D(0) |-> 0]
  <2>1. \A s \in D(0) : s = {}
    BY <1>1, FS_EmptySet
  <2>2. f = [s \in D(0) |-> IF s = {} THEN 0 ELSE w[Pick(s)] + f[s \ {Pick(s)}]]
    BY <2>1
  <2>. HIDE DEF f
  <2>3. SumsOver(f, w, D(0))
    BY <2>2 DEF SumsOver
  <2>. QED  BY <2>3
<1>4. ASSUME NEW n \in Nat, n \in N PROVE n + 1 \in N
  <2>1. PICK f : SumsOver(f, w, D(n))
    BY <1>4
  <2>. DEFINE g == [s \in D(n + 1) |-> IF s = {} THEN 0 ELSE w[Pick(s)] + f[s \ {Pick(s)}]]
  <2>2. ASSUME NEW s \in D(n + 1), s # {} PROVE s \ {Pick(s)} \in D(n) /\ s \ {Pick(s)} \in D(n + 1)
    BY <1>1, <1>2, <2>2
  <2>3. \A s \in D(n) : s \in D(n + 1) /\ g[s] = f[s]
    <3>1. \A s \in D(n) : s \in D(n + 1)
      BY <1>1
    <3>2. \A s \in D(n) : f[s] = IF s = {} THEN 0 ELSE w[Pick(s)] + f[s \ {Pick(s)}]
      BY <2>1 DEF SumsOver
    <3>. QED  BY <3>1, <3>2
  <2>4. \A s \in D(n + 1) : g[s] = IF s = {} THEN 0 ELSE w[Pick(s)] + f[s \ {Pick(s)}]
    OBVIOUS
  <2>5. g = [s \in D(n + 1) |-> g[s]]
    OBVIOUS
  <2>. HIDE DEF g, D
  <2>6. \A s \in D(n + 1) : g[s] = IF s = {} THEN 0 ELSE w[Pick(s)] + g[s \ {Pick(s)}]
    BY <2>2, <2>3, <2>4
  <2>7. SumsOver(g, w, D(n + 1))
    BY <2>5, <2>6 DEF SumsOver
  <2>. QED  BY <2>7
<1>5. Cardinality(S) \in N
  <2>. HIDE DEF N
  <2>1. IsFiniteSet(S) /\ Cardinality(S) \in Nat
    BY <1>1
  <2>. QED  BY <1>3, <1>4, <2>1, SetInduction
<1>6. D(Cardinality(S)) = SUBSET S
  BY <1>1
<1>. QED  BY <1>5, <1>6 DEF Sums

(* The result depends on the weights of the elements only.                 *)
LEMMA SumsAgree ==
  ASSUME NEW f, NEW v, NEW A, Sums(f, v, A),
         NEW g, NEW w, NEW B, Sums(g, w, B),
         NEW T, IsFiniteSet(T), T \subseteq A, T \subseteq B, \A i \in T : v[i] = w[i]
  PROVE  f[T] = g[T]
<1>. DEFINE F == {U \in SUBSET T : f[U] = g[U]}
<1>1. /\ \A s \in SUBSET A : f[s] = IF s = {} THEN 0 ELSE v[Pick(s)] + f[s \ {Pick(s)}]
      /\ \A s \in SUBSET B : g[s] = IF s = {} THEN 0 ELSE w[Pick(s)] + g[s \ {Pick(s)}]
  BY DEF Sums, SumsOver
<1>2. {} \in F
  BY <1>1
<1>3. ASSUME NEW U \in SUBSET T, U # {}, \A x \in U : U \ {x} \in F PROVE U \in F
  <2>1. Pick(U) \in U
    BY <1>3, PickIn
  <2>2. f[U \ {Pick(U)}] = g[U \ {Pick(U)}] /\ v[Pick(U)] = w[Pick(U)]
    BY <1>3, <2>1
  <2>3. f[U] = v[Pick(U)] + f[U \ {Pick(U)}] /\ g[U] = w[Pick(U)] + g[U \ {Pick(U)}]
    BY <1>1, <1>3
  <2>. QED  BY <2>2, <2>3
<1>. HIDE DEF F
<1>4. T \in F
  BY <1>2, <1>3, FiniteInduction
<1>. QED  BY <1>4 DEF F

(* It is the value of any such function, over any larger set.              *)
LEMMA SumOfIs ==
  ASSUME NEW f, NEW v, NEW A, Sums(f, v, A),
         NEW w, NEW T, IsFiniteSet(T), T \subseteq A, \A i \in T : v[i] = w[i]
  PROVE  SumOf(w, T) = f[T]
<1>. DEFINE g == CHOOSE it : Sums(it, w, T)
<1>1. Sums(g, w, T)
  BY SumsExist
<1>2. SumOf(w, T) = g[T]
  BY DEF SumOf
<1>. HIDE DEF g
<1>. QED  BY <1>1, <1>2, SumsAgree

LEMMA SumOfSame ==
  ASSUME NEW S, IsFiniteSet(S), NEW v, NEW w, \A i \in S : v[i] = w[i]
  PROVE  SumOf(v, S) = SumOf(w, S)
<1>1. PICK f : Sums(f, v, S)
  BY SumsExist
<1>. QED  BY <1>1, SumOfIs

LEMMA SumOfEmpty == ASSUME NEW w PROVE SumOf(w, {}) = 0
<1>1. PICK f : Sums(f, w, {})
  BY SumsExist, FS_EmptySet
<1>2. f[{}] = 0
  BY <1>1 DEF Sums, SumsOver
<1>. QED  BY <1>1, <1>2, SumOfIs, FS_EmptySet

LEMMA SumOfPick ==
  ASSUME NEW S, IsFiniteSet(S), S # {}, NEW w
  PROVE  SumOf(w, S) = w[Pick(S)] + SumOf(w, S \ {Pick(S)})
<1>1. PICK f : Sums(f, w, S)
  BY SumsExist
<1>2. f[S] = w[Pick(S)] + f[S \ {Pick(S)}]
  BY <1>1 DEF Sums, SumsOver
<1>3. IsFiniteSet(S \ {Pick(S)}) /\ S \ {Pick(S)} \subseteq S
  BY FS_RemoveElement
<1>4. SumOf(w, S \ {Pick(S)}) = f[S \ {Pick(S)}]
  BY <1>1, <1>3, SumOfIs
<1>5. SumOf(w, S) = f[S]
  BY <1>1, SumOfIs
<1>. QED  BY <1>2, <1>4, <1>5

LEMMA SumOfInt ==
  ASSUME NEW S, IsFiniteSet(S), NEW w, \A i \in S : w[i] \in Int
  PROVE  SumOf(w, S) \in Int
<1>. DEFINE F == {T \in SUBSET S : SumOf(w, T) \in Int}
<1>1. {} \in F
  BY SumOfEmpty
<1>2. ASSUME NEW T \in SUBSET S, T # {}, \A x \in T : T \ {x} \in F PROVE T \in F
  <2>1. Pick(T) \in T /\ IsFiniteSet(T)
    BY <1>2, PickIn, FS_Subset
  <2>2. SumOf(w, T \ {Pick(T)}) \in Int /\ w[Pick(T)] \in Int
    BY <1>2, <2>1
  <2>3. SumOf(w, T) = w[Pick(T)] + SumOf(w, T \ {Pick(T)})
    BY <1>2, <2>1, SumOfPick
  <2>. QED  BY <2>2, <2>3
<1>. HIDE DEF F
<1>3. S \in F
  BY <1>1, <1>2, FiniteInduction
<1>. QED  BY <1>3 DEF F

(* Any element may be taken out.                                           *)
LEMMA SumOfRemove ==
  ASSUME NEW S, IsFiniteSet(S), NEW w, \A i \in S : w[i] \in Int, NEW x \in S
  PROVE  SumOf(w, S) = w[x] + SumOf(w, S \ {x})
<1>. DEFINE F == {T \in SUBSET S : \A y \in T : SumOf(w, T) = w[y] + SumOf(w, T \ {y})}
<1>1. {} \in F
  OBVIOUS
<1>2. ASSUME NEW T \in SUBSET S, T # {}, \A y \in T : T \ {y} \in F PROVE T \in F
  <2>. SUFFICES ASSUME NEW y \in T PROVE SumOf(w, T) = w[y] + SumOf(w, T \ {y})
    OBVIOUS
  <2>. DEFINE c == Pick(T)
  <2>1. c \in T /\ IsFiniteSet(T) /\ SumOf(w, T) = w[c] + SumOf(w, T \ {c})
    BY <1>2, PickIn, FS_Subset, SumOfPick
  <2>. HIDE DEF c
  <2>2. CASE y = c
    BY <2>1, <2>2
  <2>3. CASE y # c
    <3>. DEFINE R == T \ {c, y}
    <3>1. T \ {c} \in F /\ T \ {y} \in F /\ y \in T \ {c} /\ c \in T \ {y}
      BY <1>2, <2>1, <2>3
    <3>2. (T \ {c}) \ {y} = R /\ (T \ {y}) \ {c} = R
      OBVIOUS
    <3>3. SumOf(w, T \ {c}) = w[y] + SumOf(w, R)
      BY <3>1, <3>2
    <3>4. SumOf(w, T \ {y}) = w[c] + SumOf(w, R)
      BY <3>1, <3>2
    <3>5. SumOf(w, R) \in Int
      <4>1. R \in SUBSET S /\ IsFiniteSet(R)
        BY FS_Subset
      <4>. HIDE DEF R
      <4>. QED  BY <4>1, SumOfInt
    <3>6. w[c] \in Int /\ w[y] \in Int
      BY <2>1
    <3>. HIDE DEF R
    <3>. QED  BY <2>1, <3>3, <3>4, <3>5, <3>6
  <2>. QED  BY <2>2, <2>3
<1>. HIDE DEF F
<1>3. S \in F
  BY <1>1, <1>2, FiniteInduction
<1>. QED  BY <1>3 DEF F

(* Two sets with nothing in common.                                        *)
LEMMA SumOfUnion ==
  ASSUME NEW A, IsFiniteSet(A), NEW B, IsFiniteSet(B), A \cap B = {},
         NEW w, \A i \in A \cup B : w[i] \in Int
  PROVE  SumOf(w, A \cup B) = SumOf(w, A) + SumOf(w, B)
<1>. DEFINE F == {T \in SUBSET B : SumOf(w, A \cup T) = SumOf(w, A) + SumOf(w, T)}
<1>0. SumOf(w, A) \in Int
  BY SumOfInt
<1>1. {} \in F
  <2>1. A \cup {} = A
    OBVIOUS
  <2>. QED  BY <1>0, <2>1, SumOfEmpty
<1>2. ASSUME NEW T \in SUBSET B, T # {}, \A y \in T : T \ {y} \in F PROVE T \in F
  <2>1. PICK y \in T : TRUE
    BY <1>2
  <2>2. IsFiniteSet(T) /\ IsFiniteSet(A \cup T) /\ IsFiniteSet(T \ {y})
    BY FS_Subset, FS_Union, FS_RemoveElement
  <2>. DEFINE U == A \cup T
              V == T \ {y}
  <2>3. y \in U /\ U \ {y} = A \cup V /\ \A i \in U : w[i] \in Int
    BY <2>1
  <2>4. SumOf(w, A \cup V) = SumOf(w, A) + SumOf(w, V)
    BY <1>2, <2>1
  <2>5. SumOf(w, T) = w[y] + SumOf(w, V)
    BY <2>1, <2>2, SumOfRemove
  <2>6. SumOf(w, V) \in Int /\ w[y] \in Int
    BY <2>1, <2>2, SumOfInt
  <2>. HIDE DEF U, V
  <2>7. SumOf(w, U) = w[y] + SumOf(w, A \cup V)
    <3>1. IsFiniteSet(U)
      BY <2>2 DEF U
    <3>2. SumOf(w, U) = w[y] + SumOf(w, U \ {y})
      BY <2>3, <3>1, SumOfRemove
    <3>. QED  BY <2>3, <3>2
  <2>8. SumOf(w, U) = SumOf(w, A) + SumOf(w, T)
    BY <1>0, <2>4, <2>5, <2>6, <2>7
  <2>. QED  BY <2>8 DEF U
<1>. HIDE DEF F
<1>3. B \in F
  BY <1>1, <1>2, FiniteInduction
<1>. QED  BY <1>3 DEF F

(* Weights of the other sign, of no less than zero, added up, and zero.    *)
LEMMA SumOfOpposite ==
  ASSUME NEW S, IsFiniteSet(S), NEW v, NEW w, \A i \in S : w[i] \in Int /\ v[i] = -w[i]
  PROVE  SumOf(v, S) = -SumOf(w, S)
<1>. DEFINE F == {T \in SUBSET S : SumOf(v, T) = -SumOf(w, T)}
<1>1. {} \in F
  BY SumOfEmpty
<1>2. ASSUME NEW T \in SUBSET S, T # {}, \A y \in T : T \ {y} \in F PROVE T \in F
  <2>1. PICK y \in T : TRUE
    BY <1>2
  <2>2. IsFiniteSet(T) /\ IsFiniteSet(T \ {y})
    BY FS_Subset, FS_RemoveElement
  <2>3. SumOf(w, T \ {y}) \in Int /\ w[y] \in Int /\ v[y] = -w[y]
    BY <2>1, <2>2, SumOfInt
  <2>4. SumOf(w, T) = w[y] + SumOf(w, T \ {y})
    BY <2>1, <2>2, SumOfRemove
  <2>5. SumOf(v, T) = v[y] + SumOf(v, T \ {y})
    <3>1. \A i \in T : v[i] \in Int
      OBVIOUS
    <3>. QED  BY <2>1, <2>2, <3>1, SumOfRemove
  <2>6. SumOf(v, T \ {y}) = -SumOf(w, T \ {y})
    BY <1>2, <2>1
  <2>. QED  BY <2>3, <2>4, <2>5, <2>6
<1>. HIDE DEF F
<1>3. S \in F
  BY <1>1, <1>2, FiniteInduction
<1>. QED  BY <1>3 DEF F

LEMMA SumOfPlus ==
  ASSUME NEW S, IsFiniteSet(S), NEW u, NEW v, NEW w,
         \A i \in S : v[i] \in Int /\ w[i] \in Int /\ u[i] = v[i] + w[i]
  PROVE  SumOf(u, S) = SumOf(v, S) + SumOf(w, S)
<1>. DEFINE F == {T \in SUBSET S : SumOf(u, T) = SumOf(v, T) + SumOf(w, T)}
<1>1. {} \in F
  BY SumOfEmpty
<1>2. ASSUME NEW T \in SUBSET S, T # {}, \A y \in T : T \ {y} \in F PROVE T \in F
  <2>1. PICK y \in T : TRUE
    BY <1>2
  <2>2. IsFiniteSet(T) /\ IsFiniteSet(T \ {y})
    BY FS_Subset, FS_RemoveElement
  <2>3. /\ SumOf(v, T \ {y}) \in Int /\ SumOf(w, T \ {y}) \in Int
        /\ v[y] \in Int /\ w[y] \in Int /\ u[y] = v[y] + w[y]
    BY <2>1, <2>2, SumOfInt
  <2>4. SumOf(v, T) = v[y] + SumOf(v, T \ {y}) /\ SumOf(w, T) = w[y] + SumOf(w, T \ {y})
    BY <2>1, <2>2, SumOfRemove
  <2>5. SumOf(u, T) = u[y] + SumOf(u, T \ {y})
    <3>1. \A i \in T : u[i] \in Int
      OBVIOUS
    <3>. QED  BY <2>1, <2>2, <3>1, SumOfRemove
  <2>6. SumOf(u, T \ {y}) = SumOf(v, T \ {y}) + SumOf(w, T \ {y})
    BY <1>2, <2>1
  <2>. QED  BY <2>3, <2>4, <2>5, <2>6
<1>. HIDE DEF F
<1>3. S \in F
  BY <1>1, <1>2, FiniteInduction
<1>. QED  BY <1>3 DEF F

LEMMA SumOfZeros ==
  ASSUME NEW S, IsFiniteSet(S), NEW w, \A i \in S : w[i] = 0
  PROVE  SumOf(w, S) = 0
<1>1. SumOf(w, S) = -SumOf(w, S)
  <2>1. \A i \in S : w[i] \in Int /\ w[i] = -w[i]
    OBVIOUS
  <2>. QED  BY <2>1, SumOfOpposite
<1>2. SumOf(w, S) \in Int
  BY SumOfInt
<1>. QED  BY <1>1, <1>2

LEMMA SumOfNatural ==
  ASSUME NEW S, IsFiniteSet(S), NEW w, \A i \in S : w[i] \in Nat
  PROVE  /\ SumOf(w, S) \in Nat
         /\ \A x \in S : w[x] <= SumOf(w, S)
<1>. DEFINE F == {T \in SUBSET S : SumOf(w, T) \in Nat}
<1>1. {} \in F
  BY SumOfEmpty
<1>2. ASSUME NEW T \in SUBSET S, NEW y \in T, T \ {y} \in F
      PROVE  T \in F /\ w[y] <= SumOf(w, T)
  <2>1. IsFiniteSet(T) /\ SumOf(w, T \ {y}) \in Nat /\ w[y] \in Nat
    BY <1>2, FS_Subset
  <2>2. \A i \in T : w[i] \in Int
    OBVIOUS
  <2>3. SumOf(w, T) = w[y] + SumOf(w, T \ {y})
    BY <2>1, <2>2, SumOfRemove
  <2>. QED  BY <2>1, <2>3
<1>. HIDE DEF F
<1>3. \A T \in SUBSET S : T \in F
  <2>. SUFFICES ASSUME NEW T \in SUBSET S PROVE T \in F
    OBVIOUS
  <2>1. IsFiniteSet(T)
    BY FS_Subset
  <2>2. \A U \in SUBSET T : U # {} /\ (\A y \in U : U \ {y} \in F) => U \in F
    BY <1>2
  <2>. QED  BY <1>1, <2>1, <2>2, FiniteInduction
<1>4. \A x \in S : w[x] <= SumOf(w, S)
  BY <1>2, <1>3
<1>. QED  BY <1>3, <1>4 DEF F

(* Weights that are compared one by one; and a factor taken out.           *)
LEMMA SumOfLess ==
  ASSUME NEW S, IsFiniteSet(S), NEW v, NEW w,
         \A i \in S : v[i] \in Int /\ w[i] \in Int /\ v[i] <= w[i]
  PROVE  SumOf(v, S) <= SumOf(w, S)
<1>. DEFINE d == [i \in S |-> w[i] - v[i]]
<1>1. \A i \in S : d[i] \in Nat /\ v[i] \in Int /\ w[i] = v[i] + d[i] /\ d[i] \in Int
  OBVIOUS
<1>. HIDE DEF d
<1>2. SumOf(d, S) \in Nat
  BY <1>1, SumOfNatural
<1>3. SumOf(w, S) = SumOf(v, S) + SumOf(d, S)
  BY <1>1, SumOfPlus
<1>4. SumOf(v, S) \in Int
  BY <1>1, SumOfInt
<1>. QED  BY <1>2, <1>3, <1>4

LEMMA Distribute ==
  ASSUME NEW a \in Int, NEW b \in Int, NEW c \in Int
  PROVE  a * (b + c) = a * b + a * c
  OBVIOUS

LEMMA SumOfMultiples ==
  ASSUME NEW S, IsFiniteSet(S), NEW v, NEW w, NEW n \in Int,
         \A i \in S : w[i] \in Int /\ v[i] = n * w[i]
  PROVE  SumOf(v, S) = n * SumOf(w, S)
<1>. DEFINE F == {T \in SUBSET S : SumOf(v, T) = n * SumOf(w, T)}
<1>1. {} \in F
  BY SumOfEmpty
<1>2. ASSUME NEW T \in SUBSET S, T # {}, \A y \in T : T \ {y} \in F PROVE T \in F
  <2>1. PICK y \in T : TRUE
    BY <1>2
  <2>2. IsFiniteSet(T) /\ IsFiniteSet(T \ {y})
    BY FS_Subset, FS_RemoveElement
  <2>3. SumOf(w, T \ {y}) \in Int /\ w[y] \in Int /\ v[y] = n * w[y]
    BY <2>1, <2>2, SumOfInt
  <2>4. SumOf(w, T) = w[y] + SumOf(w, T \ {y})
    BY <2>1, <2>2, SumOfRemove
  <2>5. SumOf(v, T) = v[y] + SumOf(v, T \ {y})
    <3>1. \A i \in T : v[i] \in Int
      OBVIOUS
    <3>. QED  BY <2>1, <2>2, <3>1, SumOfRemove
  <2>6. SumOf(v, T \ {y}) = n * SumOf(w, T \ {y})
    BY <1>2, <2>1
  <2>7. n * (w[y] + SumOf(w, T \ {y})) = n * w[y] + n * SumOf(w, T \ {y})
    BY <2>3, Distribute
  <2>. QED  BY <2>3, <2>4, <2>5, <2>6, <2>7
<1>. HIDE DEF F
<1>3. S \in F
  BY <1>1, <1>2, FiniteInduction
<1>. QED  BY <1>3 DEF F

(* What weighs nothing may be left out.                                    *)
LEMMA SumOfPart ==
  ASSUME NEW S, IsFiniteSet(S), NEW T, T \subseteq S, NEW w,
         \A i \in S : w[i] \in Int, \A i \in S \ T : w[i] = 0
  PROVE  SumOf(w, S) = SumOf(w, T)
<1>. DEFINE R == S \ T
<1>1. IsFiniteSet(T) /\ IsFiniteSet(R) /\ T \cap R = {} /\ S = T \cup R
  BY FS_Subset
<1>2. \A i \in T \cup R : w[i] \in Int
  OBVIOUS
<1>3. \A i \in R : w[i] = 0
  OBVIOUS
<1>. HIDE DEF R
<1>4. SumOf(w, T \cup R) = SumOf(w, T) + SumOf(w, R)
  BY <1>1, <1>2, SumOfUnion
<1>5. SumOf(w, R) = 0
  BY <1>1, <1>3, SumOfZeros
<1>6. SumOf(w, T) \in Int
  BY <1>1, <1>2, SumOfInt
<1>. QED  BY <1>1, <1>4, <1>5, <1>6

(* Adding up by kind: g gives the sum over the elements of each kind in C. *)
OfKind(S, kind, c)  == {i \in S : kind[i] = c}
OfKinds(S, kind, C) == {i \in S : kind[i] \in C}

LEMMA SumByKind ==
  ASSUME NEW S, NEW w, NEW kind, NEW C, NEW g,
         IsFiniteSet(S), \A i \in S : w[i] \in Int, IsFiniteSet(C),
         \A c \in C : g[c] = SumOf(w, OfKind(S, kind, c))
  PROVE  SumOf(g, C) = SumOf(w, OfKinds(S, kind, C))
<1>. DEFINE F == {T \in SUBSET C : SumOf(g, T) = SumOf(w, OfKinds(S, kind, T))}
<1>1. \A T : IsFiniteSet(OfKinds(S, kind, T)) /\ \A i \in OfKinds(S, kind, T) : w[i] \in Int
  <2>. SUFFICES ASSUME NEW T
                PROVE  IsFiniteSet(OfKinds(S, kind, T)) /\ \A i \in OfKinds(S, kind, T) : w[i] \in Int
    OBVIOUS
  <2>1. OfKinds(S, kind, T) \in SUBSET S
    BY DEF OfKinds
  <2>. QED  BY <2>1, FS_Subset
<1>2. \A c : IsFiniteSet(OfKind(S, kind, c)) /\ \A i \in OfKind(S, kind, c) : w[i] \in Int
  <2>. SUFFICES ASSUME NEW c
                PROVE  IsFiniteSet(OfKind(S, kind, c)) /\ \A i \in OfKind(S, kind, c) : w[i] \in Int
    OBVIOUS
  <2>1. OfKind(S, kind, c) \in SUBSET S
    BY DEF OfKind
  <2>. QED  BY <2>1, FS_Subset
<1>3. {} \in F
  <2>1. OfKinds(S, kind, {}) = {}
    BY DEF OfKinds
  <2>. QED  BY <2>1, SumOfEmpty
<1>4. ASSUME NEW T \in SUBSET C, T # {}, \A y \in T : T \ {y} \in F PROVE T \in F
  <2>1. PICK y \in T : TRUE
    BY <1>4
  <2>. DEFINE A == OfKinds(S, kind, T \ {y})
              B == OfKind(S, kind, y)
  <2>2. IsFiniteSet(T) /\ IsFiniteSet(A) /\ IsFiniteSet(B)
    BY <1>1, <1>2, FS_Subset
  <2>3. OfKinds(S, kind, T) = A \cup B /\ A \cap B = {}
    BY <2>1 DEF OfKinds, OfKind
  <2>4. SumOf(g, T \ {y}) = SumOf(w, A) /\ g[y] = SumOf(w, B)
    BY <1>4, <2>1
  <2>5. \A c \in T : g[c] \in Int
    BY <1>2, SumOfInt
  <2>6. SumOf(g, T) = g[y] + SumOf(g, T \ {y})
    BY <2>1, <2>2, <2>5, SumOfRemove
  <2>7. \A i \in A \cup B : w[i] \in Int
    BY <1>1, <1>2
  <2>. HIDE DEF A, B
  <2>8. SumOf(w, A \cup B) = SumOf(w, A) + SumOf(w, B)
    BY <2>2, <2>3, <2>7, SumOfUnion
  <2>9. SumOf(w, A) \in Int /\ SumOf(w, B) \in Int
    BY <2>2, <2>7, SumOfInt
  <2>10. SumOf(g, T) = SumOf(w, A) + SumOf(w, B)
    BY <2>4, <2>6, <2>9
  <2>. QED  BY <2>3, <2>8, <2>10
<1>. HIDE DEF F
<1>5. C \in F
  BY <1>3, <1>4, FiniteInduction
<1>. QED  BY <1>5 DEF F

-----------------------------------------------------------------------------
(* The sums of Summary are such sums: Total over given rows, and Spend.    *)
TotalOf(r, ids) == MapThenSumSet(LAMBDA i : r[i].row.amount, ids)

LEMMA TotalIsSum ==
  ASSUME NEW r, NEW w, NEW S, IsFiniteSet(S), \A i \in S : w[i] = r[i].row.amount
  PROVE  TotalOf(r, S) = SumOf(w, S)
<1>. DEFINE g == CHOOSE f : f = [s \in SUBSET S |->
                   IF s = {} THEN 0 ELSE r[CHOOSE x \in s : TRUE].row.amount
                                          + f[s \ {CHOOSE x \in s : TRUE}]]
<1>1. \E f : f = [s \in SUBSET S |->
                   IF s = {} THEN 0 ELSE r[CHOOSE x \in s : TRUE].row.amount
                                          + f[s \ {CHOOSE x \in s : TRUE}]]
  <2>1. PICK f : Sums(f, w, S)
    BY SumsExist
  <2>2. ASSUME NEW s \in SUBSET S, s # {}
        PROVE  w[Pick(s)] = r[CHOOSE x \in s : TRUE].row.amount /\ Pick(s) = CHOOSE x \in s : TRUE
    BY <2>2, PickIn DEF Pick
  <2>3. f = [s \in SUBSET S |->
                   IF s = {} THEN 0 ELSE r[CHOOSE x \in s : TRUE].row.amount
                                          + f[s \ {CHOOSE x \in s : TRUE}]]
    BY <2>1, <2>2 DEF Sums, SumsOver
  <2>. QED  BY <2>3
<1>2. g = [s \in SUBSET S |->
             IF s = {} THEN 0 ELSE r[CHOOSE x \in s : TRUE].row.amount
                                          + g[s \ {CHOOSE x \in s : TRUE}]]
  BY <1>1, Zenon
<1>3. TotalOf(r, S) = g[S]
  BY DEF TotalOf, MapThenSumSet, MapThenFoldSet
<1>. HIDE DEF g
<1>4. Sums(g, w, S)
  <2>1. ASSUME NEW s \in SUBSET S, s # {} PROVE w[Pick(s)] = r[Pick(s)].row.amount
    BY <2>1, PickIn
  <2>2. \A s \in SUBSET S :
          g[s] = IF s = {} THEN 0 ELSE r[Pick(s)].row.amount + g[s \ {Pick(s)}]
    BY <1>2 DEF Pick
  <2>4. \A s \in SUBSET S : g[s] = IF s = {} THEN 0 ELSE w[Pick(s)] + g[s \ {Pick(s)}]
    BY <2>1, <2>2
  <2>3. g = [s \in SUBSET S |-> g[s]]
    BY <1>2
  <2>. QED  BY <2>3, <2>4 DEF Sums, SumsOver
<1>. QED  BY <1>3, <1>4, SumOfIs

SpendOf(cats) == MapThenSumSet(LAMBDA c : cats[c].total, DOMAIN cats)

LEMMA SpendIsSum ==
  ASSUME NEW cats, IsFiniteSet(DOMAIN cats), NEW w, \A c \in DOMAIN cats : w[c] = cats[c].total
  PROVE  SpendOf(cats) = SumOf(w, DOMAIN cats)
<1>. DEFINE S == DOMAIN cats
            g == CHOOSE f : f = [s \in SUBSET S |->
                   IF s = {} THEN 0 ELSE cats[CHOOSE x \in s : TRUE].total
                                          + f[s \ {CHOOSE x \in s : TRUE}]]
<1>0. IsFiniteSet(S) /\ \A c \in S : w[c] = cats[c].total
  OBVIOUS
<1>1. \E f : f = [s \in SUBSET S |->
                   IF s = {} THEN 0 ELSE cats[CHOOSE x \in s : TRUE].total
                                          + f[s \ {CHOOSE x \in s : TRUE}]]
  <2>. HIDE DEF S
  <2>1. PICK f : Sums(f, w, S)
    BY <1>0, SumsExist
  <2>2. ASSUME NEW s \in SUBSET S, s # {}
        PROVE  w[Pick(s)] = cats[CHOOSE x \in s : TRUE].total /\ Pick(s) = CHOOSE x \in s : TRUE
    BY <1>0, <2>2, PickIn DEF Pick
  <2>3. f = [s \in SUBSET S |->
                   IF s = {} THEN 0 ELSE cats[CHOOSE x \in s : TRUE].total
                                          + f[s \ {CHOOSE x \in s : TRUE}]]
    BY <2>1, <2>2 DEF Sums, SumsOver
  <2>. QED  BY <2>3
<1>2. g = [s \in SUBSET S |->
             IF s = {} THEN 0 ELSE cats[CHOOSE x \in s : TRUE].total
                                          + g[s \ {CHOOSE x \in s : TRUE}]]
  BY <1>1, Zenon
<1>3. SpendOf(cats) = g[S]
  BY DEF SpendOf, MapThenSumSet, MapThenFoldSet
<1>. HIDE DEF g, S
<1>4. Sums(g, w, S)
  <2>1. ASSUME NEW s \in SUBSET S, s # {} PROVE w[Pick(s)] = cats[Pick(s)].total
    BY <1>0, <2>1, PickIn
  <2>2. \A s \in SUBSET S :
          g[s] = IF s = {} THEN 0 ELSE cats[Pick(s)].total + g[s \ {Pick(s)}]
    BY <1>2 DEF Pick
  <2>3. g = [s \in SUBSET S |-> g[s]]
    BY <1>2
  <2>4. \A s \in SUBSET S : g[s] = IF s = {} THEN 0 ELSE w[Pick(s)] + g[s \ {Pick(s)}]
    BY <2>1, <2>2
  <2>. QED  BY <2>3, <2>4 DEF Sums, SumsOver
<1>. QED  BY <1>0, <1>3, <1>4, SumOfIs DEF S

-----------------------------------------------------------------------------
(* The invariant.                                                          *)
(* The locals of the handler.                                              *)
Fields == {"pc", "op", "user", "start", "end", "listed", "net", "deltas", "categories",
           "inflow", "outflow", "headlines", "text", "status", "seen"}

(* The tables, and how a later state of them extends an earlier one.       *)
Tables(acc, r) ==
  /\ acc \in Seq([owner : Users, balance : Balances, opened : Balances])
  /\ Len(acc) <= MaxAccounts
  /\ r \in Seq([row : Kinds, account : Nat])
  /\ \A i \in DOMAIN r : r[i].account \in DOMAIN acc
  /\ Len(r) <= MaxRows

Grown(acc, r, acc2, r2) ==
  /\ \A a \in DOMAIN acc : a \in DOMAIN acc2 /\ acc2[a] = acc[a]
  /\ Len(r) <= Len(r2)
  /\ \A i \in 1..Len(r) : r2[i] = r[i]

AmountsOf(r) == [i \in DOMAIN r |-> r[i].row.amount]

LEMMA RowsAreRows ==
  ASSUME NEW acc, NEW r, Tables(acc, r)
  PROVE  /\ Len(r) \in Nat /\ DOMAIN r = 1..Len(r)
         /\ \A i \in 1..Len(r) : /\ r[i].row \in Kinds /\ r[i].account \in Nat
                                 /\ r[i].account \in DOMAIN acc
<1>1. r \in Seq([row : Kinds, account : Nat])
  BY DEF Tables
<1>2. Len(r) \in Nat /\ DOMAIN r = 1..Len(r)
  BY <1>1
<1>3. \A i \in 1..Len(r) : r[i] \in [row : Kinds, account : Nat]
  BY <1>1, ElementOfSeq, Zenon
<1>4. \A i \in DOMAIN r : r[i].account \in DOMAIN acc
  BY DEF Tables
<1>. QED  BY <1>2, <1>3, <1>4

LEMMA RowsHaveAmounts ==
  ASSUME NEW acc, NEW r, Tables(acc, r), NEW S, S \subseteq 1..Len(r)
  PROVE  /\ IsFiniteSet(S)
         /\ \A i \in S : AmountsOf(r)[i] = r[i].row.amount /\ AmountsOf(r)[i] \in Int
         /\ TotalOf(r, S) = SumOf(AmountsOf(r), S)
         /\ TotalOf(r, S) \in Int
<1>2. Len(r) \in Nat /\ DOMAIN r = 1..Len(r) /\ \A i \in 1..Len(r) : r[i].row \in Kinds
  BY RowsAreRows
<1>3. IsFiniteSet(S)
  <2>1. 1 \in Int /\ Len(r) \in Int
    BY <1>2
  <2>. QED  BY <2>1, FS_Interval, FS_Subset, Zenon
<1>4. \A i \in S : AmountsOf(r)[i] = r[i].row.amount /\ AmountsOf(r)[i] \in Int
  <2>. SUFFICES ASSUME NEW i \in S PROVE AmountsOf(r)[i] = r[i].row.amount /\ AmountsOf(r)[i] \in Int
    OBVIOUS
  <2>1. i \in DOMAIN r /\ r[i].row \in Kinds
    BY <1>2
  <2>. QED  BY <2>1, SummaryAssumption DEF AmountsOf
<1>5. TotalOf(r, S) = SumOf(AmountsOf(r), S)
  BY <1>3, <1>4, TotalIsSum
<1>6. SumOf(AmountsOf(r), S) \in Int
  BY <1>3, <1>4, SumOfInt
<1>. QED  BY <1>3, <1>4, <1>5, <1>6

(* Among the first n rows: u's, dated from s to before e, and what of      *)
(* these goes out and comes in; the movements of account a from s on, by   *)
(* days.                                                                   *)
Window(acc, r, u, s, e, n) ==
  {i \in 1..n : acc[r[i].account].owner = u /\ r[i].row.date >= s /\ r[i].row.date < e}

Out(acc, r, u, s, e, n) == {i \in Window(acc, r, u, s, e, n) : r[i].row.amount < 0}
In(acc, r, u, s, e, n)  == {i \in Window(acc, r, u, s, e, n) : r[i].row.amount > 0}

Dated(r, a, s, days, n) ==
  {i \in 1..n : r[i].account = a /\ r[i].row.date >= s /\ Day(r[i].row.date) \in days}

DatedOn(r, a, s, d, n) ==
  {i \in 1..n : r[i].account = a /\ r[i].row.date >= s /\ Day(r[i].row.date) = d}

(* The first n rows, and what they add up to, are the same ever after.     *)
LEMMA GrownSets ==
  ASSUME NEW acc, NEW r, NEW acc2, NEW r2, Tables(acc, r), Grown(acc, r, acc2, r2),
         NEW u, NEW s, NEW e, NEW n \in 0..Len(r)
  PROVE  /\ Out(acc2, r2, u, s, e, n) = Out(acc, r, u, s, e, n)
         /\ In(acc2, r2, u, s, e, n) = In(acc, r, u, s, e, n)
<1>1. Len(r) \in Nat /\ DOMAIN r = 1..Len(r)
  BY DEF Tables
<1>2. \A i \in 1..n : r2[i] = r[i] /\ acc2[r[i].account] = acc[r[i].account]
  BY <1>1 DEF Tables, Grown
<1>3. Window(acc2, r2, u, s, e, n) = Window(acc, r, u, s, e, n)
  BY <1>2 DEF Window
<1>4. \A i \in Window(acc, r, u, s, e, n) : r2[i] = r[i]
  BY <1>2 DEF Window
<1>. QED  BY <1>3, <1>4 DEF Out, In

LEMMA GrownTotals ==
  ASSUME NEW acc, NEW r, NEW acc2, NEW r2, Tables(acc, r), Grown(acc, r, acc2, r2),
         NEW S, S \subseteq 1..Len(r)
  PROVE  TotalOf(r2, S) = TotalOf(r, S)
<1>1. \A i \in S : r2[i] = r[i]
  BY DEF Grown
<1>2. /\ IsFiniteSet(S)
      /\ \A i \in S : AmountsOf(r)[i] = r[i].row.amount /\ AmountsOf(r)[i] \in Int
      /\ TotalOf(r, S) = SumOf(AmountsOf(r), S)
      /\ TotalOf(r, S) \in Int
  BY RowsHaveAmounts, Zenon
<1>3. TotalOf(r2, S) = SumOf(AmountsOf(r), S)
  BY <1>1, <1>2, TotalIsSum
<1>. QED  BY <1>2, <1>3

(* The handler has come to one of these steps, or has answered with 200.   *)
Reached(q, steps) == q.pc \in steps \/ q.status = 200

(* The locals themselves: what each step may leave in them.                *)
Control(q) ==
  /\ DOMAIN q = Fields
  /\ DOMAIN q.seen = {"deltas", "categories", "cashflow"}
  /\ q.pc \in {"idle", "accounts", "deltas", "categories", "cashflow", "anomalies", "model", "done"}
  /\ q.status \in {0, 200, 400, 500, 503}
  /\ q.pc # "done" => q.status = 0 /\ q.text = "nothing"
  /\ q.start \in Int /\ q.end \in Int
  /\ q.op \in {"summary", "insights"}
  /\ q.pc = "model" => q.op = "insights"
  /\ q.op = "summary" /\ q.pc # "idle" => q.start = Now - 2 * Days /\ q.end = Now
  /\ q.inflow \in Nat /\ q.outflow \in Nat
  /\ q.text = "spent_less" => q.outflow <= q.inflow
  /\ \A c \in DOMAIN q.categories :
       /\ q.categories[c].total \in Int /\ q.categories[c].total > 0
       /\ q.categories[c].count \in Int /\ q.categories[c].count > 0

(* After the query for the accounts: they are the user's, with the         *)
(* balances that are stored still.                                         *)
Listing(acc, q) ==
  q.op = "summary" /\ Reached(q, {"deltas", "categories", "cashflow", "anomalies"}) =>
    q.listed \subseteq {[id |-> a, balance |-> acc[a].balance] :
                          a \in {b \in DOMAIN acc : acc[b].owner = q.user}}

(* After that for the movements: those of an account shown, on a day of    *)
(* the chart, are the sum of its rows among those committed then.          *)
Movements(r, q) ==
  q.op = "summary" /\ Reached(q, {"categories", "cashflow", "anomalies"}) =>
    /\ q.seen.deltas \in 0..Len(r)
    /\ \A a \in q.listed, d \in Day(q.start)..MaxDay :
         q.deltas[<<a.id, d>>] = TotalOf(r, DatedOn(r, a.id, q.start, d, q.seen.deltas))

(* After that for the categories: together they are what the window lost   *)
(* in the rows committed then.                                             *)
Spending(acc, r, q) ==
  Reached(q, {"cashflow", "anomalies", "model"}) =>
    /\ q.seen.categories \in 0..Len(r)
    /\ SpendOf(q.categories) =
         -TotalOf(r, Out(acc, r, q.user, q.start, q.end, q.seen.categories))

(* After that for the totals: the same of both directions, no earlier.     *)
Flowing(acc, r, q) ==
  Reached(q, {"anomalies", "model"}) =>
    /\ q.seen.cashflow \in q.seen.categories..Len(r)
    /\ q.inflow = TotalOf(r, In(acc, r, q.user, q.start, q.end, q.seen.cashflow))
    /\ q.outflow = -TotalOf(r, Out(acc, r, q.user, q.start, q.end, q.seen.cashflow))

Good(acc, r, q) ==
  /\ Control(q)
  /\ Listing(acc, q)
  /\ Movements(r, q)
  /\ Spending(acc, r, q)
  /\ Flowing(acc, r, q)
  /\ q.headlines \subseteq 1..Len(r)

IInv == Tables(accounts, rows) /\ Good(accounts, rows, req)

(* What the locals hold is about a few of them each.                       *)
LEMMA CarriedOver ==
  ASSUME NEW acc, NEW r, NEW q, NEW q2, q2.op = q.op, q2.user = q.user, q2.start = q.start
  PROVE  /\ Listing(acc, q) /\ q2.listed = q.listed
            /\ (Reached(q2, {"deltas", "categories", "cashflow", "anomalies"}) =>
                  Reached(q, {"deltas", "categories", "cashflow", "anomalies"}))
            => Listing(acc, q2)
         /\ Movements(r, q) /\ q2.listed = q.listed /\ q2.deltas = q.deltas
            /\ q2.seen.deltas = q.seen.deltas
            /\ (Reached(q2, {"categories", "cashflow", "anomalies"}) =>
                  Reached(q, {"categories", "cashflow", "anomalies"}))
            => Movements(r, q2)
<1>1. ASSUME Listing(acc, q), q2.listed = q.listed,
             Reached(q2, {"deltas", "categories", "cashflow", "anomalies"}) =>
               Reached(q, {"deltas", "categories", "cashflow", "anomalies"})
      PROVE  Listing(acc, q2)
  BY <1>1 DEF Listing
<1>2. ASSUME Movements(r, q), q2.listed = q.listed, q2.deltas = q.deltas,
             q2.seen.deltas = q.seen.deltas,
             Reached(q2, {"categories", "cashflow", "anomalies"}) =>
               Reached(q, {"categories", "cashflow", "anomalies"})
      PROVE  Movements(r, q2)
  <2>1. q2.op = "summary" /\ Reached(q2, {"categories", "cashflow", "anomalies"}) =>
          /\ q.seen.deltas \in 0..Len(r)
          /\ \A a \in q.listed, d \in Day(q.start)..MaxDay :
               q.deltas[<<a.id, d>>] = TotalOf(r, DatedOn(r, a.id, q.start, d, q.seen.deltas))
    BY <1>2 DEF Movements
  <2>. QED  BY <1>2, <2>1 DEF Movements
<1>. QED  BY <1>1, <1>2

(* An insert between two queries changes nothing of what was read before.  *)
LEMMA GoodStaysGood ==
  ASSUME NEW acc, NEW r, NEW acc2, NEW r2, NEW q,
         Tables(acc, r), Tables(acc2, r2), Grown(acc, r, acc2, r2), Good(acc, r, q)
  PROVE  Good(acc2, r2, q)
<1>0. Len(r) \in Nat /\ Len(r2) \in Nat /\ Len(r) <= Len(r2)
  BY DEF Tables, Grown
<1>1. Control(q) /\ q.headlines \subseteq 1..Len(r2)
  BY <1>0 DEF Good
<1>2. Listing(acc2, q)
  <2>1. Listing(acc, q)
    BY DEF Good
  <2>2. \A a \in DOMAIN acc : a \in DOMAIN acc2 /\ acc2[a] = acc[a]
    BY DEF Grown
  <2>. QED  BY <2>1, <2>2 DEF Listing
<1>3. ASSUME NEW u, NEW s, NEW e, NEW n \in 0..Len(r)
      PROVE  /\ TotalOf(r2, Out(acc2, r2, u, s, e, n)) = TotalOf(r, Out(acc, r, u, s, e, n))
             /\ TotalOf(r2, In(acc2, r2, u, s, e, n)) = TotalOf(r, In(acc, r, u, s, e, n))
  <2>1. Out(acc, r, u, s, e, n) \subseteq 1..Len(r) /\ In(acc, r, u, s, e, n) \subseteq 1..Len(r)
    BY <1>0 DEF Out, In, Window
  <2>. QED  BY <2>1, GrownSets, GrownTotals
<1>4. ASSUME NEW a, NEW s, NEW d, NEW n \in 0..Len(r)
      PROVE  TotalOf(r2, DatedOn(r2, a, s, d, n)) = TotalOf(r, DatedOn(r, a, s, d, n))
  <2>1. DatedOn(r, a, s, d, n) \subseteq 1..Len(r)
    BY <1>0 DEF DatedOn
  <2>2. DatedOn(r2, a, s, d, n) = DatedOn(r, a, s, d, n)
    BY DEF DatedOn, Grown
  <2>. QED  BY <2>1, <2>2, GrownTotals
<1>5. Movements(r2, q)
  <2>. SUFFICES ASSUME q.op = "summary", Reached(q, {"categories", "cashflow", "anomalies"})
                PROVE  /\ q.seen.deltas \in 0..Len(r2)
                       /\ \A a \in q.listed, d \in Day(q.start)..MaxDay :
                            q.deltas[<<a.id, d>>] =
                              TotalOf(r2, DatedOn(r2, a.id, q.start, d, q.seen.deltas))
    BY DEF Movements
  <2>1. /\ q.seen.deltas \in 0..Len(r)
        /\ \A a \in q.listed, d \in Day(q.start)..MaxDay :
             q.deltas[<<a.id, d>>] = TotalOf(r, DatedOn(r, a.id, q.start, d, q.seen.deltas))
    BY DEF Good, Movements
  <2>2. q.seen.deltas \in 0..Len(r2)
    BY <1>0, <2>1
  <2>3. ASSUME NEW a \in q.listed, NEW d \in Day(q.start)..MaxDay
        PROVE  q.deltas[<<a.id, d>>] = TotalOf(r2, DatedOn(r2, a.id, q.start, d, q.seen.deltas))
    <3>1. q.deltas[<<a.id, d>>] = TotalOf(r, DatedOn(r, a.id, q.start, d, q.seen.deltas))
      BY <2>1
    <3>. QED  BY <1>4, <2>1, <3>1
  <2>. QED  BY <2>2, <2>3
<1>6. Spending(acc2, r2, q)
  BY <1>0, <1>3 DEF Good, Spending
<1>7. Flowing(acc2, r2, q)
  <2>1. Reached(q, {"anomalies", "model"}) => q.seen.categories \in 0..Len(r)
    BY DEF Good, Spending, Reached
  <2>. QED  BY <1>0, <1>3, <2>1 DEF Good, Flowing
<1>. QED  BY <1>1, <1>2, <1>5, <1>6, <1>7 DEF Good

-----------------------------------------------------------------------------
(* What each query returns, as sums.                                       *)
LEMMA TotalIs == ASSUME NEW S PROVE Total(S) = TotalOf(rows, S)
  BY DEF Total, TotalOf

LEMMA OutIsOut ==
  ASSUME Tables(accounts, rows), NEW u, NEW s, NEW e
  PROVE  /\ Within(u, s, e) = Window(accounts, rows, u, s, e, Len(rows))
         /\ {i \in Within(u, s, e) : rows[i].row.amount < 0} = Out(accounts, rows, u, s, e, Len(rows))
         /\ {i \in Within(u, s, e) : rows[i].row.amount > 0} = In(accounts, rows, u, s, e, Len(rows))
<1>1. DOMAIN rows = 1..Len(rows)
  BY RowsAreRows
<1>2. Within(u, s, e) = Window(accounts, rows, u, s, e, Len(rows))
  BY <1>1 DEF Within, Mine, Window
<1>. QED  BY <1>2 DEF Out, In

(* categoryOutflow: each category has lost something, and their totals are *)
(* all the window lost.                                                    *)
LEMMA CategoriesAddUp ==
  ASSUME Tables(accounts, rows), NEW u, NEW s, NEW e
  PROVE  LET cats == CategoryOutflow(u, s, e)
         IN  /\ \A c \in DOMAIN cats : /\ cats[c].total \in Int /\ cats[c].total > 0
                                       /\ cats[c].count \in Int /\ cats[c].count > 0
             /\ SpendOf(cats) = -TotalOf(rows, Out(accounts, rows, u, s, e, Len(rows)))
<1>. DEFINE out == Out(accounts, rows, u, s, e, Len(rows))
            Of(c) == {i \in out : rows[i].row.category = c}
            C == {rows[i].row.category : i \in out}
            cats == CategoryOutflow(u, s, e)
            neg == [i \in out |-> -rows[i].row.amount]
            kind == [i \in out |-> rows[i].row.category]
            g == [c \in C |-> cats[c].total]
<1>1. cats = [c \in C |-> [count |-> Cardinality(Of(c)), total |-> -Total(Of(c))]]
  BY OutIsOut DEF CategoryOutflow
<1>2. /\ DOMAIN cats = C
      /\ \A c \in C : cats[c].total = -TotalOf(rows, Of(c)) /\ cats[c].count = Cardinality(Of(c))
  <2>1. DOMAIN cats = C /\ \A c \in C : cats[c].total = -Total(Of(c)) /\ cats[c].count = Cardinality(Of(c))
    <3>. HIDE DEF cats, C, Of
    <3>. QED  BY <1>1
  <2>. HIDE DEF cats, C, Of
  <2>. QED  BY <2>1, TotalIs
<1>3. out \subseteq 1..Len(rows) /\ \A i \in out : rows[i].row.amount < 0
  BY DEF Out, Window
<1>. HIDE DEF cats
<1>4. /\ IsFiniteSet(out) /\ TotalOf(rows, out) = SumOf(AmountsOf(rows), out)
      /\ \A i \in out : AmountsOf(rows)[i] = rows[i].row.amount /\ AmountsOf(rows)[i] \in Int
  <2>. HIDE DEF out
  <2>. QED  BY <1>3, RowsHaveAmounts
<1>5. \A i \in out : /\ neg[i] \in Nat /\ neg[i] > 0 /\ neg[i] = -AmountsOf(rows)[i]
                     /\ kind[i] = rows[i].row.category
  BY <1>3, <1>4
<1>. HIDE DEF out, neg, kind
<1>6. ASSUME NEW T, T \subseteq out
      PROVE  IsFiniteSet(T) /\ TotalOf(rows, T) = -SumOf(neg, T) /\ SumOf(neg, T) \in Int
  <2>1. IsFiniteSet(T) /\ TotalOf(rows, T) = SumOf(AmountsOf(rows), T)
    BY <1>3, <1>6, RowsHaveAmounts
  <2>2. \A i \in T : neg[i] \in Int /\ AmountsOf(rows)[i] = -neg[i]
    BY <1>4, <1>5, <1>6
  <2>3. SumOf(AmountsOf(rows), T) = -SumOf(neg, T)
    BY <2>1, <2>2, SumOfOpposite
  <2>4. SumOf(neg, T) \in Int
    BY <2>1, <2>2, SumOfInt
  <2>. QED  BY <2>1, <2>3, <2>4
<1>7. ASSUME NEW c \in C
      PROVE  /\ g[c] = SumOf(neg, OfKind(out, kind, c))
             /\ cats[c].total \in Int /\ cats[c].total > 0
             /\ cats[c].count \in Int /\ cats[c].count > 0
  <2>1. Of(c) = OfKind(out, kind, c) /\ Of(c) \subseteq out
    BY <1>5 DEF OfKind
  <2>2. PICK i \in out : c = rows[i].row.category
    OBVIOUS
  <2>3. i \in Of(c)
    BY <2>2
  <2>. HIDE DEF Of
  <2>4. IsFiniteSet(Of(c)) /\ cats[c].total = SumOf(neg, Of(c)) /\ SumOf(neg, Of(c)) \in Int
    <3>1. IsFiniteSet(Of(c)) /\ TotalOf(rows, Of(c)) = -SumOf(neg, Of(c)) /\ SumOf(neg, Of(c)) \in Int
      BY <1>6, <2>1
    <3>. HIDE DEF C
    <3>2. cats[c].total = -TotalOf(rows, Of(c))
      BY <1>2
    <3>. QED  BY <3>1, <3>2
  <2>5. neg[i] <= SumOf(neg, Of(c)) /\ SumOf(neg, Of(c)) \in Nat
    <3>1. \A j \in Of(c) : neg[j] \in Nat
      BY <1>5, <2>1
    <3>. QED  BY <2>3, <2>4, <3>1, SumOfNatural
  <2>6. Cardinality(Of(c)) \in Nat /\ Cardinality(Of(c)) # 0
    BY <2>3, <2>4, FS_CardinalityType, FS_EmptySet
  <2>7. neg[i] > 0 /\ neg[i] \in Nat
    BY <1>5
  <2>. HIDE DEF C
  <2>8. cats[c].total \in Int /\ cats[c].total > 0
    BY <2>4, <2>5, <2>7
  <2>9. cats[c].count \in Int /\ cats[c].count > 0
    BY <1>2, <2>6
  <2>10. g[c] = cats[c].total
    OBVIOUS
  <2>. QED  BY <2>1, <2>4, <2>8, <2>9, <2>10
<1>8. IsFiniteSet(C)
  <2>1. kind \in Surjection(out, C)
    BY DEF kind, Surjection
  <2>. HIDE DEF C
  <2>. QED  BY <1>4, <2>1, FS_Surjection
<1>. HIDE DEF g
<1>9. \A c \in DOMAIN cats : g[c] = cats[c].total
  BY <1>2 DEF g
<1>10. OfKinds(out, kind, C) = out
  BY <1>5 DEF OfKinds
<1>. HIDE DEF C, Of
<1>11. SumOf(g, C) = SumOf(neg, OfKinds(out, kind, C))
  <2>1. \A i \in out : neg[i] \in Int
    BY <1>5
  <2>2. \A c \in C : g[c] = SumOf(neg, OfKind(out, kind, c))
    BY <1>7
  <2>3. IsFiniteSet(out) /\ IsFiniteSet(C)
    BY <1>4, <1>8
  <2>. QED  BY ONLY <2>1, <2>2, <2>3, SumByKind
<1>12. SpendOf(cats) = SumOf(g, C)
  <2>1. IsFiniteSet(DOMAIN cats)
    BY <1>2, <1>8
  <2>. QED  BY <1>2, <1>9, <2>1, SpendIsSum
<1>13. TotalOf(rows, out) = -SumOf(neg, out) /\ SumOf(neg, out) \in Int
  BY <1>6
<1>14. SpendOf(cats) = -TotalOf(rows, out)
  BY <1>10, <1>11, <1>12, <1>13
<1>15. \A c \in DOMAIN cats : /\ cats[c].total \in Int /\ cats[c].total > 0
                             /\ cats[c].count \in Int /\ cats[c].count > 0
  BY <1>2, <1>7
<1>. QED  BY <1>14, <1>15 DEF cats, out

(* cashflow: what came in and what went out, neither of them negative.     *)
LEMMA FlowAddsUp ==
  ASSUME Tables(accounts, rows), NEW u, NEW s, NEW e
  PROVE  LET flow == Cashflow(u, s, e)
         IN  /\ flow.inflow = TotalOf(rows, In(accounts, rows, u, s, e, Len(rows)))
             /\ flow.outflow = -TotalOf(rows, Out(accounts, rows, u, s, e, Len(rows)))
             /\ flow.inflow \in Nat /\ flow.outflow \in Nat
<1>. DEFINE in == In(accounts, rows, u, s, e, Len(rows))
            out == Out(accounts, rows, u, s, e, Len(rows))
            w == AmountsOf(rows)
            neg == [i \in out |-> -w[i]]
<1>1. /\ Cashflow(u, s, e).inflow = TotalOf(rows, in)
      /\ Cashflow(u, s, e).outflow = -TotalOf(rows, out)
  BY OutIsOut, TotalIs DEF Cashflow
<1>2. /\ in \subseteq 1..Len(rows) /\ \A i \in in : rows[i].row.amount > 0
      /\ out \subseteq 1..Len(rows) /\ \A i \in out : rows[i].row.amount < 0
  BY DEF In, Out, Window
<1>. HIDE DEF in, out
<1>3. TotalOf(rows, in) \in Nat
  <2>1. /\ IsFiniteSet(in) /\ TotalOf(rows, in) = SumOf(w, in)
        /\ \A i \in in : w[i] \in Int /\ w[i] = rows[i].row.amount
    BY <1>2, RowsHaveAmounts
  <2>2. \A i \in in : w[i] \in Nat
    BY <1>2, <2>1
  <2>. HIDE DEF w
  <2>. QED  BY <2>1, <2>2, SumOfNatural
<1>4. -TotalOf(rows, out) \in Nat
  <2>1. /\ IsFiniteSet(out) /\ TotalOf(rows, out) = SumOf(w, out)
        /\ \A i \in out : w[i] \in Int /\ w[i] = rows[i].row.amount
    BY <1>2, RowsHaveAmounts
  <2>2. \A i \in out : neg[i] \in Nat /\ w[i] \in Int /\ neg[i] = -w[i]
    BY <1>2, <2>1
  <2>. HIDE DEF w, neg
  <2>3. SumOf(neg, out) = -SumOf(w, out) /\ SumOf(neg, out) \in Nat /\ SumOf(w, out) \in Int
    BY <2>1, <2>2, SumOfOpposite, SumOfNatural, SumOfInt
  <2>. QED  BY <2>1, <2>3
<1>. QED  BY <1>1, <1>3, <1>4 DEF in, out

(* dailyDeltas: what an account of the user's moved on a day.              *)
LEMMA DeltasAddUp ==
  ASSUME Tables(accounts, rows), NEW u, NEW s, NEW a \in DOMAIN accounts, accounts[a].owner = u,
         NEW d \in Day(s)..MaxDay
  PROVE  DailyDeltas(u, s)[<<a, d>>] = TotalOf(rows, DatedOn(rows, a, s, d, Len(rows)))
<1>1. DOMAIN rows = 1..Len(rows)
  BY RowsAreRows
<1>. DEFINE ids == {i \in Mine(u) : /\ rows[i].account = a /\ rows[i].row.date >= s
                                    /\ Day(rows[i].row.date) = d}
<1>2. DailyDeltas(u, s)[<<a, d>>] = Total(ids)
  BY DEF DailyDeltas
<1>3. ids = DatedOn(rows, a, s, d, Len(rows))
  BY <1>1 DEF Mine, DatedOn
<1>. HIDE DEF ids
<1>. QED  BY <1>2, <1>3, TotalIs

-----------------------------------------------------------------------------
(* The steps.                                                              *)
(* The locals of the handler that a step leaves alone.                     *)
Same(q, q2, changed) == DOMAIN q2 = Fields /\ \A f \in Fields \ changed : q2[f] = q[f]

LEMMA InitIsGood == Init => IInv
<1>. SUFFICES ASSUME Init PROVE IInv
  OBVIOUS
<1>1. Tables(<<>>, <<>>)
  BY SummaryAssumption DEF Tables
<1>2. Control(Idle)
  <2>1. DOMAIN Idle = Fields /\ DOMAIN Idle.seen = {"deltas", "categories", "cashflow"}
    BY DEF Idle, Fields
  <2>2. DOMAIN Idle.categories = {}
    BY DEF Idle
  <2>. QED  BY <2>1, <2>2 DEF Control, Idle
<1>3. Good(<<>>, <<>>, Idle)
  BY <1>2 DEF Good, Listing, Movements, Spending, Flowing, Reached, Idle
<1>. QED  BY <1>1, <1>3 DEF IInv, Init

LEMMA WritersKeepGood ==
  ASSUME IInv, CreateAccount \/ InsertTransaction
  PROVE  IInv'
<1>1. PICK q : q = req
  OBVIOUS
<1>2. Tables(accounts, rows) /\ Good(accounts, rows, q) /\ req' = q
  BY <1>1 DEF IInv, CreateAccount, InsertTransaction
<1>3. Tables(accounts', rows') /\ Grown(accounts, rows, accounts', rows')
  <2>1. CASE CreateAccount
    <3>1. PICK u \in Users, b \in Balances :
            accounts' = Append(accounts, [owner |-> u, balance |-> b, opened |-> b])
      BY <2>1 DEF CreateAccount
    <3>2. rows' = rows /\ Len(accounts) < MaxAccounts
      BY <2>1 DEF CreateAccount
    <3>3. accounts \in Seq([owner : Users, balance : Balances, opened : Balances])
      BY <1>2 DEF Tables
    <3>4. [owner |-> u, balance |-> b, opened |-> b]
            \in [owner : Users, balance : Balances, opened : Balances]
      OBVIOUS
    <3>5. /\ accounts' \in Seq([owner : Users, balance : Balances, opened : Balances])
          /\ Len(accounts') = Len(accounts) + 1
          /\ \A a \in DOMAIN accounts : a \in DOMAIN accounts' /\ accounts'[a] = accounts[a]
      BY <3>1, <3>3, <3>4
    <3>6. Len(accounts) \in Nat /\ Len(rows) \in Nat
      BY <1>2, <3>3, RowsAreRows
    <3>. QED  BY <1>2, <3>2, <3>5, <3>6, SummaryAssumption DEF Tables, Grown
  <2>2. CASE InsertTransaction
    <3>1. PICK a \in DOMAIN accounts, k \in Kinds : rows' = Append(rows, [row |-> k, account |-> a])
      BY <2>2 DEF InsertTransaction
    <3>2. accounts' = accounts /\ Len(rows) < MaxRows
      BY <2>2 DEF InsertTransaction
    <3>3. rows \in Seq([row : Kinds, account : Nat])
      BY <1>2 DEF Tables
    <3>4. [row |-> k, account |-> a] \in [row : Kinds, account : Nat]
      BY <1>2 DEF Tables
    <3>5. /\ rows' \in Seq([row : Kinds, account : Nat])
          /\ Len(rows') = Len(rows) + 1
          /\ \A i \in 1..Len(rows) : rows'[i] = rows[i]
          /\ \A i \in DOMAIN rows' : i \in DOMAIN rows \/ rows'[i].account = a
      BY <3>1, <3>3, <3>4
    <3>6. \A i \in DOMAIN rows' : rows'[i].account \in DOMAIN accounts
      BY <1>2, <3>5, RowsAreRows
    <3>7. Len(rows) \in Nat
      BY <1>2, RowsAreRows
    <3>. QED  BY <1>2, <3>2, <3>5, <3>6, <3>7, SummaryAssumption, SMTT(30) DEF Tables, Grown
  <2>. QED  BY <2>1, <2>2
<1>4. Good(accounts', rows', q)
  BY <1>2, <1>3, GoodStaysGood
<1>. QED  BY <1>2, <1>3, <1>4 DEF IInv

(* A step of the handler leaves the tables alone: what is to show is about *)
(* its locals after the step.                                              *)
LEMMA ArriveIsGood ==
  ASSUME NEW q, Control(q), q.headlines \subseteq 1..Len(rows), q.pc = "idle", NEW q2,
         Same(q, q2, {"user", "op", "start", "end", "pc", "status"}),
         \/ /\ q2.pc = "accounts" /\ q2.op = q.op /\ q2.status = 0
            /\ q2.start = Now - 2 * Days /\ q2.end = Now
         \/ /\ q2.op = "insights" /\ q2.start \in Int /\ q2.end \in Int
            /\ \/ q2.pc = "categories" /\ q2.status = 0
               \/ q2.pc = "done" /\ q2.status = 400
  PROVE  Good(accounts, rows, q2)
<1>1. /\ DOMAIN q2 = Fields /\ q2.text = q.text
      /\ q2.inflow = q.inflow /\ q2.outflow = q.outflow /\ q2.categories = q.categories
      /\ q2.seen = q.seen /\ q2.headlines = q.headlines
  BY DEF Same, Fields
<1>2. Now \in Int /\ Now - 2 * Days \in Int
  BY SummaryAssumption
<1>3. Control(q2)
  BY <1>1, <1>2 DEF Control
<1>. QED  BY <1>1, <1>3 DEF Good, Listing, Movements, Spending, Flowing, Reached

LEMMA AccountsIsGood ==
  ASSUME NEW q, Good(accounts, rows, q), q.pc = "accounts", NEW net, NEW q2,
         q2 = [q EXCEPT !.pc = "deltas",
                 !.listed = {[id |-> a, balance |-> accounts[a].balance] :
                               a \in {b \in DOMAIN accounts : accounts[b].owner = q.user}},
                 !.net = net]
  PROVE  Good(accounts, rows, q2)
<1>1. DOMAIN q = Fields /\ Control(q)
  BY DEF Good, Control
<1>2. /\ q2.pc = "deltas"
      /\ q2.listed = {[id |-> a, balance |-> accounts[a].balance] :
                        a \in {b \in DOMAIN accounts : accounts[b].owner = q.user}}
      /\ Same(q, q2, {"pc", "listed", "net"})
  BY <1>1 DEF Fields, Same
<1>3. /\ DOMAIN q2 = Fields /\ q2.status = q.status /\ q2.text = q.text /\ q2.op = q.op
      /\ q2.user = q.user /\ q2.start = q.start /\ q2.end = q.end
      /\ q2.inflow = q.inflow /\ q2.outflow = q.outflow /\ q2.categories = q.categories
      /\ q2.seen = q.seen /\ q2.headlines = q.headlines
  BY <1>2 DEF Same, Fields
<1>4. Control(q2) /\ q2.status = 0
  BY <1>1, <1>2, <1>3 DEF Control
<1>5. Listing(accounts, q2)
  BY <1>2, <1>3 DEF Listing
<1>. QED  BY <1>2, <1>3, <1>4, <1>5 DEF Good, Movements, Spending, Flowing, Reached

LEMMA DeltasIsGood ==
  ASSUME Tables(accounts, rows), NEW q, Good(accounts, rows, q), q.pc = "deltas", NEW q2,
         q2 = [q EXCEPT !.pc = "categories", !.deltas = DailyDeltas(q.user, q.start),
                        !.seen.deltas = Len(rows)]
  PROVE  Good(accounts, rows, q2)
<1>1. DOMAIN q = Fields /\ DOMAIN q.seen = {"deltas", "categories", "cashflow"} /\ Control(q)
  BY DEF Good, Control
<1>2. /\ q2.pc = "categories" /\ q2.deltas = DailyDeltas(q.user, q.start)
      /\ q2.seen.deltas = Len(rows) /\ DOMAIN q2.seen = {"deltas", "categories", "cashflow"}
      /\ Same(q, q2, {"pc", "deltas", "seen"})
  BY <1>1 DEF Fields, Same
<1>3. /\ DOMAIN q2 = Fields /\ q2.status = q.status /\ q2.text = q.text /\ q2.op = q.op
      /\ q2.user = q.user /\ q2.start = q.start /\ q2.end = q.end /\ q2.listed = q.listed
      /\ q2.inflow = q.inflow /\ q2.outflow = q.outflow /\ q2.categories = q.categories
      /\ q2.headlines = q.headlines
  BY <1>2 DEF Same, Fields
<1>4. Control(q2) /\ q2.status = 0
  BY <1>1, <1>2, <1>3 DEF Control
<1>5. Listing(accounts, q2)
  BY <1>2, <1>3 DEF Good, Listing, Reached
<1>6. Movements(rows, q2)
  <2>. SUFFICES ASSUME q2.op = "summary"
                PROVE  /\ q2.seen.deltas \in 0..Len(rows)
                       /\ \A a \in q2.listed, d \in Day(q2.start)..MaxDay :
                            q2.deltas[<<a.id, d>>] =
                              TotalOf(rows, DatedOn(rows, a.id, q2.start, d, q2.seen.deltas))
    BY DEF Movements
  <2>1. q2.seen.deltas \in 0..Len(rows)
    BY <1>2, RowsAreRows
  <2>2. ASSUME NEW a \in q2.listed, NEW d \in Day(q2.start)..MaxDay
        PROVE  q2.deltas[<<a.id, d>>] =
                 TotalOf(rows, DatedOn(rows, a.id, q2.start, d, q2.seen.deltas))
    <3>1. a.id \in DOMAIN accounts /\ accounts[a.id].owner = q2.user
      BY <1>2, <1>5 DEF Listing, Reached
    <3>. QED  BY <1>2, <1>3, <3>1, DeltasAddUp
  <2>. QED  BY <2>1, <2>2
<1>. QED  BY <1>2, <1>3, <1>4, <1>5, <1>6 DEF Good, Spending, Flowing, Reached

LEMMA CategoriesIsGood ==
  ASSUME Tables(accounts, rows), NEW q, Good(accounts, rows, q), q.pc = "categories", NEW q2,
         q2 = [q EXCEPT !.pc = "cashflow", !.categories = CategoryOutflow(q.user, q.start, q.end),
                        !.seen.categories = Len(rows)]
  PROVE  Good(accounts, rows, q2)
<1>1. DOMAIN q = Fields /\ DOMAIN q.seen = {"deltas", "categories", "cashflow"} /\ Control(q)
  BY DEF Good, Control
<1>2. /\ q2.pc = "cashflow" /\ q2.categories = CategoryOutflow(q.user, q.start, q.end)
      /\ q2.seen.categories = Len(rows) /\ q2.seen.deltas = q.seen.deltas
      /\ DOMAIN q2.seen = {"deltas", "categories", "cashflow"}
      /\ Same(q, q2, {"pc", "categories", "seen"})
  BY <1>1 DEF Fields, Same
<1>3. /\ DOMAIN q2 = Fields /\ q2.status = q.status /\ q2.text = q.text /\ q2.op = q.op
      /\ q2.user = q.user /\ q2.start = q.start /\ q2.end = q.end /\ q2.listed = q.listed
      /\ q2.inflow = q.inflow /\ q2.outflow = q.outflow /\ q2.deltas = q.deltas
      /\ q2.headlines = q.headlines
  BY <1>2 DEF Same, Fields
<1>4. /\ \A c \in DOMAIN q2.categories :
           /\ q2.categories[c].total \in Int /\ q2.categories[c].total > 0
           /\ q2.categories[c].count \in Int /\ q2.categories[c].count > 0
      /\ SpendOf(q2.categories) =
           -TotalOf(rows, Out(accounts, rows, q.user, q.start, q.end, Len(rows)))
  BY <1>2, CategoriesAddUp
<1>5. Control(q2) /\ q2.status = 0
  BY <1>1, <1>2, <1>3, <1>4 DEF Control
<1>6. Listing(accounts, q2)
  BY <1>2, <1>3 DEF Good, Listing, Reached
<1>7. Movements(rows, q2)
  <2>1. Movements(rows, q) /\ Reached(q, {"categories", "cashflow", "anomalies"})
    BY DEF Good, Reached
  <2>. QED  BY ONLY <1>2, <1>3, <2>1, CarriedOver
<1>8. Spending(accounts, rows, q2)
  BY <1>2, <1>3, <1>4, RowsAreRows DEF Spending
<1>. QED  BY <1>2, <1>3, <1>5, <1>6, <1>7, <1>8 DEF Good, Flowing, Reached

LEMMA FlowIsGood ==
  ASSUME Tables(accounts, rows), NEW q, NEW q2, Good(accounts, rows, q), q.pc = "cashflow",
         q2.pc \in {"anomalies", "model"}, q2.pc = "model" => q.op # "summary",
         q2.inflow = Cashflow(q.user, q.start, q.end).inflow,
         q2.outflow = Cashflow(q.user, q.start, q.end).outflow,
         q2.seen.cashflow = Len(rows), q2.seen.deltas = q.seen.deltas,
         q2.seen.categories = q.seen.categories,
         DOMAIN q2.seen = {"deltas", "categories", "cashflow"},
         Same(q, q2, {"pc", "inflow", "outflow", "seen"})
  PROVE  Good(accounts, rows, q2)
<1>1. Control(q)
  BY DEF Good
<1>2. /\ DOMAIN q2 = Fields /\ q2.status = q.status /\ q2.text = q.text /\ q2.op = q.op
      /\ q2.user = q.user /\ q2.start = q.start /\ q2.end = q.end /\ q2.listed = q.listed
      /\ q2.categories = q.categories /\ q2.deltas = q.deltas /\ q2.headlines = q.headlines
  BY DEF Same, Fields
<1>3. /\ q2.inflow = TotalOf(rows, In(accounts, rows, q2.user, q2.start, q2.end, q2.seen.cashflow))
      /\ q2.outflow = -TotalOf(rows, Out(accounts, rows, q2.user, q2.start, q2.end, q2.seen.cashflow))
      /\ q2.inflow \in Nat /\ q2.outflow \in Nat
  BY <1>2, FlowAddsUp
<1>4. Control(q2) /\ q2.status = 0
  BY <1>1, <1>2, <1>3 DEF Control
<1>5. Listing(accounts, q2)
  BY <1>2 DEF Good, Listing, Reached
<1>6. Movements(rows, q2)
  <2>1. Movements(rows, q) /\ Reached(q, {"categories", "cashflow", "anomalies"})
    BY DEF Good, Reached
  <2>. QED  BY <1>2, <2>1, CarriedOver
<1>7. Spending(accounts, rows, q2)
  BY <1>2 DEF Good, Spending, Reached
<1>8. Flowing(accounts, rows, q2)
  <2>1. Len(rows) \in Nat /\ q2.seen.categories \in 0..Len(rows)
    BY RowsAreRows DEF Good, Spending, Reached
  <2>2. q2.seen.cashflow \in q2.seen.categories..Len(rows)
    BY <2>1
  <2>. QED  BY <1>3, <2>2 DEF Flowing
<1>. QED  BY <1>2, <1>4, <1>5, <1>6, <1>7, <1>8 DEF Good

(* The last steps: an answer with everything gathered, or a failure.       *)
LEMMA AnswerIsGood ==
  ASSUME NEW q, NEW q2, Good(accounts, rows, q),
         Same(q, q2, {"pc", "status", "headlines", "text"}), q2.pc = "done",
         q2.headlines \subseteq 1..Len(rows),
         q2.text = "spent_less" => q2.outflow <= q2.inflow,
         q.pc # "idle",
         \/ q2.status \in {500, 503}
         \/ q2.status = 200 /\ q.pc \in {"anomalies", "model"}
  PROVE  Good(accounts, rows, q2)
<1>1. Control(q)
  BY DEF Good
<1>2. /\ DOMAIN q2 = Fields /\ q2.op = q.op
      /\ q2.user = q.user /\ q2.start = q.start /\ q2.end = q.end /\ q2.listed = q.listed
      /\ q2.categories = q.categories /\ q2.deltas = q.deltas /\ q2.seen = q.seen
      /\ q2.inflow = q.inflow /\ q2.outflow = q.outflow
  BY DEF Same, Fields
<1>3. Control(q2)
  BY <1>1, <1>2 DEF Control
<1>4. CASE q2.status \in {500, 503}
  BY <1>2, <1>3, <1>4 DEF Good, Listing, Movements, Spending, Flowing, Reached
<1>5. CASE q2.status = 200 /\ q.pc \in {"anomalies", "model"}
  <2>1. Listing(accounts, q2) /\ Movements(rows, q2)
    <3>1. CASE q.pc = "anomalies"
      <4>1. /\ Listing(accounts, q) /\ Reached(q, {"deltas", "categories", "cashflow", "anomalies"})
            /\ Movements(rows, q) /\ Reached(q, {"categories", "cashflow", "anomalies"})
        BY <3>1 DEF Good, Reached
      <4>. QED  BY <1>2, <4>1, CarriedOver
    <3>2. CASE q.pc = "model"
      <4>1. q2.op # "summary"
        BY <1>1, <1>2, <3>2 DEF Control
      <4>. QED  BY <4>1 DEF Listing, Movements
    <3>. QED  BY <1>5, <3>1, <3>2
  <2>2. Spending(accounts, rows, q) /\ Reached(q, {"cashflow", "anomalies", "model"})
    BY <1>5 DEF Good, Reached
  <2>3. Flowing(accounts, rows, q) /\ Reached(q, {"anomalies", "model"})
    BY <1>5 DEF Good, Reached
  <2>4. Spending(accounts, rows, q2)
    BY <1>2, <2>2 DEF Spending
  <2>5. Flowing(accounts, rows, q2)
    BY <1>2, <2>3 DEF Flowing
  <2>. QED  BY <1>3, <2>1, <2>4, <2>5 DEF Good
<1>. QED  BY <1>4, <1>5

LEMMA HandlerKeepsGood ==
  ASSUME IInv, Handler
  PROVE  IInv'
<1>1. PICK q : q = req
  OBVIOUS
<1>2. PICK q2 : q2 = req'
  OBVIOUS
<1>3. Tables(accounts, rows) /\ Good(accounts, rows, q) /\ Control(q)
  BY <1>1 DEF IInv, Good
<1>4. DOMAIN q = Fields /\ DOMAIN q.seen = {"deltas", "categories", "cashflow"}
  BY <1>3 DEF Control
<1>5. accounts' = accounts /\ rows' = rows
  BY DEF Handler, Arrive, Accounts, Deltas, Categories, Flow, Headlines, Insights, QueryFails, Reply
<1>6. Good(accounts, rows, q2)
  <2>1. CASE Arrive
    <3>. DEFINE Asked(u) == [req EXCEPT !.user = u, !.start = Now - 2 * Days, !.end = Now]
    <3>1. PICK u \in Users :
            \/ q2 = [Asked(u) EXCEPT !.pc = "accounts"]
            \/ \E w \in Windows :
                 q2 = [Asked(u) EXCEPT !.op = "insights", !.start = w[1], !.end = w[2],
                         !.pc = IF w[1] < w[2] THEN "categories" ELSE "done",
                         !.status = IF w[1] < w[2] THEN 0 ELSE 400]
      BY ONLY <1>2, <2>1, ZenonT(60) DEF Arrive, Reply
    <3>2. q.pc = "idle" /\ q.status = 0 /\ q.headlines \subseteq 1..Len(rows)
      BY <1>1, <1>3, <2>1 DEF Arrive, Control, Good
    <3>3. /\ DOMAIN Asked(u) = Fields
          /\ Asked(u).start = Now - 2 * Days /\ Asked(u).end = Now
          /\ Asked(u).op = q.op /\ Asked(u).status = q.status
          /\ \A f \in Fields \ {"user", "start", "end"} : Asked(u)[f] = q[f]
      BY ONLY <1>1, <1>4 DEF Fields
    <3>4. PICK asked : asked = Asked(u)
      OBVIOUS
    <3>. HIDE DEF Asked
    <3>5. CASE q2 = [asked EXCEPT !.pc = "accounts"]
      <4>1. /\ q2.pc = "accounts" /\ q2.op = asked.op /\ q2.status = asked.status
            /\ q2.start = asked.start /\ q2.end = asked.end
            /\ Same(asked, q2, {"pc"})
        BY ONLY <3>3, <3>4, <3>5 DEF Fields, Same
      <4>2. Same(q, q2, {"user", "op", "start", "end", "pc", "status"})
        BY <3>3, <3>4, <4>1 DEF Fields, Same
      <4>3. /\ q2.pc = "accounts" /\ q2.op = q.op /\ q2.status = 0
            /\ q2.start = Now - 2 * Days /\ q2.end = Now
        BY <3>2, <3>3, <3>4, <4>1
      <4>. QED  BY <1>3, <3>2, <4>2, <4>3, ArriveIsGood
    <3>6. ASSUME NEW w \in Windows,
                 q2 = [asked EXCEPT !.op = "insights", !.start = w[1], !.end = w[2],
                         !.pc = IF w[1] < w[2] THEN "categories" ELSE "done",
                         !.status = IF w[1] < w[2] THEN 0 ELSE 400]
          PROVE  Good(accounts, rows, q2)
      <4>1. /\ q2.pc = (IF w[1] < w[2] THEN "categories" ELSE "done")
            /\ q2.status = (IF w[1] < w[2] THEN 0 ELSE 400)
            /\ q2.op = "insights" /\ q2.start = w[1] /\ q2.end = w[2]
            /\ Same(asked, q2, {"op", "start", "end", "pc", "status"})
        BY ONLY <3>3, <3>4, <3>6 DEF Fields, Same
      <4>2. Same(q, q2, {"user", "op", "start", "end", "pc", "status"})
        BY <3>3, <3>4, <4>1 DEF Fields, Same
      <4>3. w[1] \in Int /\ w[2] \in Int
        BY SummaryAssumption
      <4>4. \/ q2.pc = "categories" /\ q2.status = 0
            \/ q2.pc = "done" /\ q2.status = 400
        BY <4>1
      <4>. QED  BY <1>3, <3>2, <4>1, <4>2, <4>3, <4>4, ArriveIsGood, SMTT(30)
    <3>. QED  BY <3>1, <3>4, <3>5, <3>6
  <2>2. CASE Accounts
    <3>. DEFINE mine == {b \in DOMAIN accounts : accounts[b].owner = q.user}
    <3>1. PICK net : net = MapThenSumSet(LAMBDA a : accounts[a].balance, mine)
      OBVIOUS
    <3>2. /\ q.pc = "accounts"
          /\ q2 = [q EXCEPT !.pc = "deltas",
                     !.listed = {[id |-> a, balance |-> accounts[a].balance] : a \in mine},
                     !.net = net]
      BY <1>1, <1>2, <2>2, <3>1 DEF Accounts, Reply
    <3>. QED  BY <1>3, <3>2, AccountsIsGood
  <2>3. CASE Deltas
    <3>1. /\ q.pc = "deltas"
          /\ q2 = [q EXCEPT !.pc = "categories", !.deltas = DailyDeltas(q.user, q.start),
                            !.seen.deltas = Len(rows)]
      BY <1>1, <1>2, <2>3 DEF Deltas, Reply
    <3>. QED  BY <1>3, <3>1, DeltasIsGood
  <2>4. CASE Categories
    <3>1. /\ q.pc = "categories"
          /\ q2 = [q EXCEPT !.pc = "cashflow",
                            !.categories = CategoryOutflow(q.user, q.start, q.end),
                            !.seen.categories = Len(rows)]
      BY <1>1, <1>2, <2>4 DEF Categories, Reply
    <3>. QED  BY <1>3, <3>1, CategoriesIsGood
  <2>5. CASE Flow
    <3>. DEFINE flow == Cashflow(q.user, q.start, q.end)
    <3>1. PICK pc : pc = IF q.op = "summary" THEN "anomalies" ELSE "model"
      OBVIOUS
    <3>2. PICK in, out : in = flow.inflow /\ out = flow.outflow
      OBVIOUS
    <3>3. /\ q.pc = "cashflow"
          /\ q2 = [q EXCEPT !.pc = pc, !.inflow = in, !.outflow = out, !.seen.cashflow = Len(rows)]
      BY <1>1, <1>2, <2>5, <3>1, <3>2 DEF Flow, Reply
    <3>. HIDE DEF flow
    <3>4. /\ q2.pc = pc /\ q2.inflow = in /\ q2.outflow = out
          /\ q2.seen.cashflow = Len(rows) /\ q2.seen.deltas = q.seen.deltas
          /\ q2.seen.categories = q.seen.categories
          /\ DOMAIN q2.seen = {"deltas", "categories", "cashflow"}
          /\ Same(q, q2, {"pc", "inflow", "outflow", "seen"})
      BY ONLY <1>4, <3>3 DEF Fields, Same
    <3>5. pc \in {"anomalies", "model"} /\ (pc = "model" => q.op # "summary")
      BY <3>1
    <3>6. q2.inflow = Cashflow(q.user, q.start, q.end).inflow
          /\ q2.outflow = Cashflow(q.user, q.start, q.end).outflow
      BY <3>2, <3>4 DEF flow
    <3>7. q2.pc \in {"anomalies", "model"} /\ (q2.pc = "model" => q.op # "summary")
      BY <3>4, <3>5
    <3>. QED  BY <1>3, <3>3, <3>4, <3>6, <3>7, FlowIsGood
  <2>6. CASE Headlines
    <3>1. PICK S \in Anomalies(q.user, q.start) :
            q2 = [q EXCEPT !.pc = "done", !.status = 200, !.headlines = S]
      BY <1>1, <1>2, <2>6 DEF Headlines, Reply
    <3>2. q.pc = "anomalies" /\ q.text = "nothing"
      BY <1>1, <1>3, <2>6 DEF Headlines, Control
    <3>3. S \subseteq 1..Len(rows)
      <4>1. DOMAIN rows = 1..Len(rows)
        BY <1>3, RowsAreRows
      <4>. QED  BY <4>1 DEF Anomalies, Flagged, Mine
    <3>4. /\ q2.pc = "done" /\ q2.status = 200 /\ q2.headlines = S /\ q2.text = q.text
          /\ Same(q, q2, {"pc", "status", "headlines", "text"})
      BY ONLY <1>4, <3>1 DEF Fields, Same
    <3>. QED  BY <1>3, <3>2, <3>3, <3>4, AnswerIsGood
  <2>7. CASE Insights
    <3>1. \/ q2 = [q EXCEPT !.pc = "done", !.status = 200, !.text = StubInsights]
          \/ q2 = [q EXCEPT !.pc = "done", !.status = 200, !.text = "model"]
          \/ \E s \in {500, 503} : q2 = [q EXCEPT !.pc = "done", !.status = s]
      <4>1. \/ req' = [req EXCEPT !.pc = "done", !.status = 200, !.text = StubInsights]
            \/ req' = [req EXCEPT !.pc = "done", !.status = 200, !.text = "model"]
            \/ \E s \in {500, 503} : req' = [req EXCEPT !.pc = "done", !.status = s]
        BY ONLY <2>7 DEF Insights, Reply
      <4>. QED  BY <1>1, <1>2, <4>1
    <3>2. q.pc = "model" /\ q.text = "nothing" /\ q.headlines \subseteq 1..Len(rows)
          /\ q.inflow \in Nat /\ q.outflow \in Nat
      BY <1>1, <1>3, <2>7 DEF Insights, Control, Good
    <3>3. q.pc # "idle" /\ q.pc \in {"anomalies", "model"}
      BY <3>2
    <3>4. ASSUME NEW text, text \in {StubInsights, "model"},
                 q2 = [q EXCEPT !.pc = "done", !.status = 200, !.text = text]
          PROVE  Good(accounts, rows, q2)
      <4>1. /\ q2.pc = "done" /\ q2.status = 200 /\ q2.text = text /\ q2.headlines = q.headlines
            /\ q2.inflow = q.inflow /\ q2.outflow = q.outflow
            /\ Same(q, q2, {"pc", "status", "headlines", "text"})
        BY ONLY <1>4, <3>4 DEF Fields, Same
      <4>2. q2.text = "spent_less" => q2.outflow <= q2.inflow
        BY <1>1, <3>2, <3>4, <4>1 DEF StubInsights
      <4>3. q2.headlines \subseteq 1..Len(rows)
        BY <3>2, <4>1
      <4>. QED  BY <1>3, <3>3, <4>1, <4>2, <4>3, AnswerIsGood
    <3>5. CASE \E s \in {500, 503} : q2 = [q EXCEPT !.pc = "done", !.status = s]
      <4>1. PICK s \in {500, 503} : q2 = [q EXCEPT !.pc = "done", !.status = s]
        BY <3>5
      <4>2. /\ q2.pc = "done" /\ q2.status = s /\ q2.text = q.text /\ q2.headlines = q.headlines
            /\ Same(q, q2, {"pc", "status", "headlines", "text"})
        BY ONLY <1>4, <4>1 DEF Fields, Same
      <4>3. /\ q2.headlines \subseteq 1..Len(rows) /\ q2.status \in {500, 503}
            /\ (q2.text = "spent_less" => q2.outflow <= q2.inflow)
        BY <3>2, <4>2
      <4>. QED  BY <1>3, <3>3, <4>2, <4>3, AnswerIsGood
    <3>6. CASE q2 = [q EXCEPT !.pc = "done", !.status = 200, !.text = StubInsights]
      BY <3>4, <3>6
    <3>7. CASE q2 = [q EXCEPT !.pc = "done", !.status = 200, !.text = "model"]
      BY <3>4, <3>7
    <3>. QED  BY <3>1, <3>5, <3>6, <3>7
  <2>8. CASE QueryFails
    <3>1. /\ q.pc \in {"accounts", "deltas", "categories", "cashflow", "anomalies"}
          /\ q2 = [q EXCEPT !.pc = "done", !.status = 500]
      BY <1>1, <1>2, <2>8 DEF QueryFails, Reply
    <3>2. q.text = "nothing" /\ q.headlines \subseteq 1..Len(rows)
      BY <1>3, <3>1 DEF Control, Good
    <3>3. /\ q2.pc = "done" /\ q2.status = 500 /\ q2.text = q.text /\ q2.headlines = q.headlines
          /\ Same(q, q2, {"pc", "status", "headlines", "text"})
      BY ONLY <1>4, <3>1 DEF Fields, Same
    <3>4. /\ q2.headlines \subseteq 1..Len(rows) /\ q.pc # "idle" /\ q2.status \in {500, 503}
          /\ (q2.text = "spent_less" => q2.outflow <= q2.inflow)
      BY <3>1, <3>2, <3>3
    <3>. QED  BY <1>3, <3>3, <3>4, AnswerIsGood
  <2>. QED  BY <2>1, <2>2, <2>3, <2>4, <2>5, <2>6, <2>7, <2>8 DEF Handler
<1>. QED  BY <1>2, <1>3, <1>5, <1>6 DEF IInv

(* In every state the locals hold what the queries before found.           *)
THEOREM InvariantHolds == Spec => []IInv
<1>1. IInv /\ [Next]_vars => IInv'
  <2>. SUFFICES ASSUME IInv, [Next]_vars PROVE IInv'
    OBVIOUS
  <2>1. CASE CreateAccount \/ InsertTransaction
    BY <2>1, WritersKeepGood
  <2>2. CASE Handler
    BY <2>2, HandlerKeepsGood
  <2>3. CASE Done \/ UNCHANGED vars
    BY <2>3 DEF Done, vars, IInv
  <2>. QED  BY <2>1, <2>2, <2>3 DEF Next
<1>. QED  BY <1>1, InitIsGood, PTL DEF Spec

(* The type invariant: the tables reference what they hold, no total is    *)
(* negative, and a category shown has lost something.                      *)
THEOREM TypesHold == Spec => []TypeOK
<1>1. IInv => TypeOK
  <2>. SUFFICES ASSUME IInv PROVE TypeOK
    OBVIOUS
  <2>1. Tables(accounts, rows) /\ Good(accounts, rows, req) /\ Control(req)
    BY DEF IInv, Good
  <2>2. /\ DOMAIN rows = 1..Len(rows)
        /\ \A i \in DOMAIN rows : rows[i].account \in DOMAIN accounts /\ rows[i].row \in Kinds
    BY <2>1, RowsAreRows
  <2>3. \A a \in DOMAIN accounts : accounts[a].owner \in Users /\ accounts[a].balance \in Balances
    <3>1. accounts \in Seq([owner : Users, balance : Balances, opened : Balances])
      BY <2>1 DEF Tables
    <3>2. DOMAIN accounts = 1..Len(accounts)
      BY <3>1
    <3>3. \A a \in 1..Len(accounts) : accounts[a] \in [owner : Users, balance : Balances, opened : Balances]
      BY <3>1, ElementOfSeq, Zenon
    <3>. QED  BY <3>2, <3>3
  <2>4. req.inflow >= 0 /\ req.outflow >= 0
    BY <2>1 DEF Control
  <2>. QED  BY <2>1, <2>2, <2>3, <2>4 DEF TypeOK, Tables, Good, Control
<1>. QED  BY <1>1, InvariantHolds, PTL

(* The spending by category of a response never exceeds its outflow and,   *)
(* if nothing was committed between the two queries, is all of it; so the  *)
(* text "You spent ..., less than you took in" is true of the figures with *)
(* it, whatever is inserted while the handler runs.                        *)
THEOREM BreakdownHolds == Spec => []BreakdownWithinOutflow
<1>1. IInv => BreakdownWithinOutflow
  <2>. SUFFICES ASSUME IInv, req.status = 200
                PROVE  /\ Spend <= req.outflow
                       /\ req.seen.categories = req.seen.cashflow => Spend = req.outflow
                       /\ req.text = "spent_less" => Spend <= req.inflow
    BY DEF BreakdownWithinOutflow
  <2>. DEFINE At(n) == Out(accounts, rows, req.user, req.start, req.end, n)
              Later == At(req.seen.cashflow) \ At(req.seen.categories)
  <2>1. Tables(accounts, rows) /\ Control(req)
    BY DEF IInv, Good
  <2>2. /\ req.seen.categories \in 0..Len(rows)
        /\ SpendOf(req.categories) = -TotalOf(rows, At(req.seen.categories))
    BY DEF IInv, Good, Spending, Reached
  <2>3. /\ req.seen.cashflow \in req.seen.categories..Len(rows)
        /\ req.outflow = -TotalOf(rows, At(req.seen.cashflow))
    BY DEF IInv, Good, Flowing, Reached
  <2>4. Spend = SpendOf(req.categories)
    BY DEF Spend, SpendOf
  <2>5. Len(rows) \in Nat
    BY <2>1, RowsAreRows
  <2>6. /\ At(req.seen.cashflow) \subseteq 1..Len(rows) /\ Later \subseteq 1..Len(rows)
        /\ At(req.seen.categories) \subseteq 1..Len(rows)
        /\ At(req.seen.cashflow) = At(req.seen.categories) \cup Later
        /\ At(req.seen.categories) \cap Later = {}
        /\ \A i \in Later : rows[i].row.amount < 0
    <3>. DEFINE Q == {i \in 1..Len(rows) : /\ accounts[rows[i].account].owner = req.user
                                           /\ rows[i].row.date >= req.start
                                           /\ rows[i].row.date < req.end
                                           /\ rows[i].row.amount < 0}
    <3>1. /\ At(req.seen.cashflow) = {i \in 1..req.seen.cashflow : i \in Q}
          /\ At(req.seen.categories) = {i \in 1..req.seen.categories : i \in Q}
      BY <2>2, <2>3, <2>5 DEF Out, Window
    <3>2. \A i \in Q : i \in 1..Len(rows) /\ rows[i].row.amount < 0
      OBVIOUS
    <3>. HIDE DEF At, Q
    <3>. QED  BY <2>2, <2>3, <2>5, <3>1, <3>2
  <2>. HIDE DEF At, Later
  <2>. DEFINE w == AmountsOf(rows)
              neg == [i \in Later |-> -w[i]]
  <2>7. /\ IsFiniteSet(Later) /\ IsFiniteSet(At(req.seen.categories))
        /\ TotalOf(rows, At(req.seen.categories)) = SumOf(w, At(req.seen.categories))
        /\ TotalOf(rows, At(req.seen.cashflow)) = SumOf(w, At(req.seen.cashflow))
        /\ \A i \in Later : w[i] \in Int /\ w[i] = rows[i].row.amount
        /\ \A i \in At(req.seen.cashflow) : w[i] \in Int
        /\ TotalOf(rows, At(req.seen.categories)) \in Int
    <3>1. ASSUME NEW S, S \subseteq 1..Len(rows)
          PROVE  /\ IsFiniteSet(S)
                 /\ \A i \in S : w[i] = rows[i].row.amount /\ w[i] \in Int
                 /\ TotalOf(rows, S) = SumOf(w, S)
                 /\ TotalOf(rows, S) \in Int
      <4>1. /\ IsFiniteSet(S)
            /\ \A i \in S : AmountsOf(rows)[i] = rows[i].row.amount /\ AmountsOf(rows)[i] \in Int
            /\ TotalOf(rows, S) = SumOf(AmountsOf(rows), S)
            /\ TotalOf(rows, S) \in Int
        BY ONLY <2>1, <3>1, RowsHaveAmounts
      <4>. QED  BY ONLY <4>1
    <3>. HIDE DEF w, neg
    <3>2. IsFiniteSet(Later) /\ \A i \in Later : w[i] = rows[i].row.amount /\ w[i] \in Int
      BY ONLY <2>6, <3>1
    <3>3. /\ IsFiniteSet(At(req.seen.categories)) /\ TotalOf(rows, At(req.seen.categories)) \in Int
          /\ TotalOf(rows, At(req.seen.categories)) = SumOf(w, At(req.seen.categories))
      BY ONLY <2>6, <3>1
    <3>4. /\ TotalOf(rows, At(req.seen.cashflow)) = SumOf(w, At(req.seen.cashflow))
          /\ \A i \in At(req.seen.cashflow) : w[i] \in Int
      BY ONLY <2>6, <3>1
    <3>. QED  BY <3>2, <3>3, <3>4
  <2>8. \A i \in Later : neg[i] \in Nat /\ neg[i] = -w[i]
    BY <2>6, <2>7
  <2>. HIDE DEF w, neg
  <2>9. SumOf(neg, Later) \in Nat /\ SumOf(neg, Later) = -SumOf(w, Later) /\ SumOf(w, Later) \in Int
    BY <2>7, <2>8, SumOfOpposite, SumOfNatural, SumOfInt
  <2>10. SumOf(w, At(req.seen.cashflow)) = SumOf(w, At(req.seen.categories)) + SumOf(w, Later)
    BY <2>6, <2>7, SumOfUnion
  <2>11. Spend <= req.outflow
    BY <2>2, <2>3, <2>4, <2>7, <2>9, <2>10
  <2>12. req.seen.categories = req.seen.cashflow => Spend = req.outflow
    BY <2>2, <2>3, <2>4
  <2>13. req.text = "spent_less" => req.outflow <= req.inflow
    BY <2>1 DEF Control
  <2>14. Spend \in Int /\ req.outflow \in Int /\ req.inflow \in Int
    BY <2>1, <2>2, <2>4, <2>7 DEF Control
  <2>. QED  BY <2>11, <2>12, <2>13, <2>14
<1>. QED  BY <1>1, InvariantHolds, PTL

-----------------------------------------------------------------------------
(* Days.                                                                   *)
LEMMA DayIs ==
  ASSUME NEW t \in Nat PROVE Day(t) \in Nat /\ 2 * Day(t) <= t /\ t < 2 * Day(t) + 2
  BY DEF Day

LEMMA MaxIs ==
  ASSUME NEW S, IsFiniteSet(S), S \subseteq Int, S # {}
  PROVE  Max(S) \in S /\ \A y \in S : y <= Max(S)
<1>. DEFINE F == {T \in SUBSET S : T # {} => \E x \in T : \A y \in T : x >= y}
<1>1. ASSUME NEW T \in SUBSET S, T # {}, \A x \in T : T \ {x} \in F PROVE T \in F
  <2>1. PICK x \in T : TRUE
    BY <1>1
  <2>2. CASE T \ {x} = {}
    <3>1. \A y \in T : x >= y
      BY <2>2
    <3>. QED  BY <3>1
  <2>3. CASE T \ {x} # {}
    <3>1. PICK z \in T \ {x} : \A y \in T \ {x} : z >= y
      BY <1>1, <2>3
    <3>2. x \in Int /\ z \in Int
      OBVIOUS
    <3>3. CASE x >= z
      <4>1. \A y \in T : x >= y
        BY <3>1, <3>2, <3>3
      <4>. QED  BY <4>1
    <3>4. CASE z >= x
      <4>1. \A y \in T : z >= y
        BY <3>1, <3>2, <3>4
      <4>. QED  BY <3>1, <4>1
    <3>. QED  BY <3>2, <3>3, <3>4
  <2>. QED  BY <2>2, <2>3
<1>2. {} \in F
  OBVIOUS
<1>. HIDE DEF F
<1>3. S \in F
  BY <1>1, <1>2, FiniteInduction
<1>4. PICK x \in S : \A y \in S : x >= y
  BY <1>3 DEF F
<1>. QED  BY <1>4 DEF Max

LEMMA LastDay == MaxDay \in Int /\ Day(Now) <= MaxDay
<1>. DEFINE D == {Day(k.date) : k \in Kinds}
            dayOf == [k \in Kinds |-> Day(k.date)]
            S == {Day(Now)} \cup D
<1>1. IsFiniteSet(D)
  <2>1. dayOf \in Surjection(Kinds, D)
    BY DEF Surjection
  <2>. HIDE DEF D, dayOf
  <2>. QED  BY <2>1, FS_Surjection, SummaryAssumption
<1>2. IsFiniteSet(S)
  <2>. HIDE DEF D
  <2>. QED  BY <1>1, FS_Singleton, FS_Union
<1>3. S \subseteq Int /\ Day(Now) \in S
  BY DayIs, SummaryAssumption
<1>4. MaxDay = Max(S)
  BY DEF MaxDay
<1>. HIDE DEF S
<1>. QED  BY <1>2, <1>3, <1>4, MaxIs

LEMMA DatedIsInt ==
  ASSUME NEW acc, NEW r, Tables(acc, r), NEW n \in 0..Len(r), NEW a, NEW s, NEW d
  PROVE  TotalOf(r, DatedOn(r, a, s, d, n)) \in Int
<1>1. DatedOn(r, a, s, d, n) \subseteq 1..Len(r)
  BY RowsAreRows DEF DatedOn
<1>. QED  BY <1>1, RowsHaveAmounts

(* The movements of an account on several days are those of each day.      *)
LEMMA DatedAddUp ==
  ASSUME NEW acc, NEW r, NEW n, NEW a, NEW s, NEW C, NEW g,
         Tables(acc, r), n \in 0..Len(r), IsFiniteSet(C),
         \A d \in C : g[d] = TotalOf(r, DatedOn(r, a, s, d, n))
  PROVE  SumOf(g, C) = TotalOf(r, Dated(r, a, s, C, n))
<1>. DEFINE S == {i \in 1..n : r[i].account = a /\ r[i].row.date >= s}
            kind == [i \in S |-> Day(r[i].row.date)]
            w == AmountsOf(r)
<1>1. Len(r) \in Nat
  BY RowsAreRows
<1>2. S \subseteq 1..Len(r)
  BY <1>1
<1>3. \A T : OfKinds(S, kind, T) = Dated(r, a, s, T, n)
  BY DEF OfKinds, Dated
<1>4. \A d : OfKind(S, kind, d) = DatedOn(r, a, s, d, n)
  BY DEF OfKind, DatedOn
<1>. HIDE DEF kind
<1>5. ASSUME NEW T, T \subseteq S
      PROVE  /\ IsFiniteSet(T) /\ TotalOf(r, T) = SumOf(w, T) /\ TotalOf(r, T) \in Int
             /\ \A i \in T : w[i] \in Int
  <2>. HIDE DEF S
  <2>1. T \subseteq 1..Len(r)
    BY <1>2, <1>5
  <2>. QED  BY <2>1, RowsHaveAmounts
<1>6. \A d : Dated(r, a, s, C, n) \subseteq S /\ DatedOn(r, a, s, d, n) \subseteq S
  BY DEF Dated, DatedOn
<1>. HIDE DEF w, S
<1>7. \A d \in C : g[d] = SumOf(w, OfKind(S, kind, d))
  BY <1>4, <1>5, <1>6
<1>8. SumOf(g, C) = SumOf(w, OfKinds(S, kind, C))
  <2>1. IsFiniteSet(S) /\ \A i \in S : w[i] \in Int
    BY <1>5
  <2>. QED  BY <1>7, <2>1, SumByKind
<1>. QED  BY <1>3, <1>5, <1>6, <1>8

(* balanceSeries in closed form, from the last point back.                 *)
LEMMA SeriesIs ==
  ASSUME NEW current \in Int, NEW first \in Int, NEW last \in Int,
         NEW deltas, \A i \in first..last : deltas[i] \in Int
  PROVE  \A i \in first..last :
           BalanceSeries(current, deltas, first, last)[i] = current - SumOf(deltas, i + 1..last)
<1>. DEFINE h == [i \in first..last |-> current - SumOf(deltas, i + 1..last)]
            g == CHOOSE f : f = [i \in first..last |->
                   IF i = last THEN current ELSE f[i + 1] - deltas[i + 1]]
<1>1. ASSUME NEW i \in first..last
      PROVE  h[i] = IF i = last THEN current ELSE h[i + 1] - deltas[i + 1]
  <2>1. CASE i = last
    <3>1. i + 1..last = {}
      BY <2>1
    <3>2. SumOf(deltas, i + 1..last) = 0
      BY <3>1, SumOfEmpty
    <3>. QED  BY <2>1, <3>2
  <2>2. CASE i # last
    <3>1. /\ i + 1 \in first..last /\ i + 1 \in i + 1..last
          /\ (i + 1..last) \ {i + 1} = (i + 1) + 1..last
      BY <2>2
    <3>2. IsFiniteSet(i + 1..last) /\ IsFiniteSet((i + 1) + 1..last)
      <4>1. i + 1 \in Int /\ (i + 1) + 1 \in Int /\ last \in Int
        OBVIOUS
      <4>. QED  BY <4>1, FS_Interval, Zenon
    <3>3. (\A j \in i + 1..last : deltas[j] \in Int) /\ \A j \in (i + 1) + 1..last : deltas[j] \in Int
      OBVIOUS
    <3>4. SumOf(deltas, i + 1..last) = deltas[i + 1] + SumOf(deltas, (i + 1) + 1..last)
      <4>1. SumOf(deltas, i + 1..last) = deltas[i + 1] + SumOf(deltas, (i + 1..last) \ {i + 1})
        BY <3>1, <3>2, <3>3, SumOfRemove
      <4>. QED  BY <3>1, <4>1
    <3>5. SumOf(deltas, (i + 1) + 1..last) \in Int
      BY <3>2, <3>3, SumOfInt
    <3>6. deltas[i + 1] \in Int
      BY <3>1
    <3>7. h[i] = current - SumOf(deltas, i + 1..last)
          /\ h[i + 1] = current - SumOf(deltas, (i + 1) + 1..last)
      BY <3>1
    <3>. QED  BY <2>2, <3>4, <3>5, <3>6, <3>7
  <2>. QED  BY <2>1, <2>2
<1>2. h = [i \in first..last |-> h[i]]
  OBVIOUS
<1>3. \A i \in first..last : h[i] = current - SumOf(deltas, i + 1..last)
  OBVIOUS
<1>. HIDE DEF h
<1>4. h = [i \in first..last |-> IF i = last THEN current ELSE h[i + 1] - deltas[i + 1]]
  BY <1>1, <1>2
<1>5. g = [i \in first..last |-> IF i = last THEN current ELSE g[i + 1] - deltas[i + 1]]
  BY <1>4, Zenon
<1>6. BalanceSeries(current, deltas, first, last) = g
  BY DEF BalanceSeries
<1>. HIDE DEF g
<1>7. \A i \in first..last : g[i] = IF i = last THEN current ELSE g[i + 1] - deltas[i + 1]
  BY <1>5
<1>. DEFINE N == {n \in Nat : \A i \in first..last : last - i = n => g[i] = h[i]}
<1>8. 0 \in N
  BY <1>1, <1>7
<1>9. ASSUME NEW n \in Nat, n \in N PROVE n + 1 \in N
  <2>. SUFFICES ASSUME NEW i \in first..last, last - i = n + 1 PROVE g[i] = h[i]
    OBVIOUS
  <2>1. i # last /\ i + 1 \in first..last /\ last - (i + 1) = n
    OBVIOUS
  <2>2. g[i + 1] = h[i + 1]
    BY <1>9, <2>1
  <2>. QED  BY <1>1, <1>7, <2>1, <2>2
<1>. HIDE DEF N
<1>10. ASSUME NEW i \in first..last PROVE g[i] = h[i]
  <2>1. last - i \in Nat
    OBVIOUS
  <2>2. last - i \in N
    BY <1>8, <1>9, <2>1, SetInduction
  <2>. QED  BY <2>2 DEF N
<1>. QED  BY <1>3, <1>6, <1>10

(* A point of a sparkline, and a day of the movements, as sums of rows.    *)
LEMMA SparklineIs ==
  ASSUME IInv, Shown("summary"), NEW a \in req.listed, NEW d \in Day(req.start)..Day(req.end)
  PROVE  /\ req.seen.deltas \in 0..Len(rows)
         /\ a.id \in DOMAIN accounts /\ accounts[a.id].owner = req.user
         /\ a.balance \in Int
         /\ Sparkline(a)[d] =
              a.balance - TotalOf(rows, Dated(rows, a.id, req.start, d + 1..Day(req.end),
                                              req.seen.deltas))
         /\ req.deltas[<<a.id, d>>] =
              TotalOf(rows, DatedOn(rows, a.id, req.start, d, req.seen.deltas))
<1>. DEFINE first == Day(req.start)
            last == Day(req.end)
            n == req.seen.deltas
            deltas == [e \in first..last |-> req.deltas[<<a.id, e>>]]
<1>1. /\ Tables(accounts, rows) /\ Control(req) /\ req.op = "summary" /\ req.status = 200
      /\ Listing(accounts, req) /\ Movements(rows, req)
  BY DEF IInv, Good, Shown
<1>2. req.start = Now - 2 * Days /\ req.end = Now
  BY <1>1 DEF Control
<1>3. first \in Nat /\ last \in Nat /\ last <= MaxDay /\ MaxDay \in Int
  <2>1. req.start \in Nat /\ req.end \in Nat
    BY <1>2, SummaryAssumption
  <2>. QED  BY <1>2, <2>1, DayIs, LastDay
<1>4. PICK b \in DOMAIN accounts :
        accounts[b].owner = req.user /\ a = [id |-> b, balance |-> accounts[b].balance]
  BY <1>1 DEF Listing, Reached
<1>5. a.id \in DOMAIN accounts /\ accounts[a.id].owner = req.user /\ a.balance \in Int
  <2>1. accounts \in Seq([owner : Users, balance : Balances, opened : Balances])
    BY <1>1 DEF Tables
  <2>2. DOMAIN accounts = 1..Len(accounts)
    BY <2>1
  <2>3. accounts[b] \in [owner : Users, balance : Balances, opened : Balances]
    BY <2>1, <2>2, ElementOfSeq, Zenon
  <2>4. accounts[b].balance \in Int
    BY <2>3, SummaryAssumption
  <2>. QED  BY <1>4, <2>4
<1>6. /\ n \in 0..Len(rows)
      /\ \A e \in Day(req.start)..MaxDay :
           req.deltas[<<a.id, e>>] = TotalOf(rows, DatedOn(rows, a.id, req.start, e, n))
  BY <1>1 DEF Movements, Reached
<1>7. \A e \in first..last : e \in Day(req.start)..MaxDay
  BY <1>3
<1>8. \A e \in first..last : deltas[e] = TotalOf(rows, DatedOn(rows, a.id, req.start, e, n))
  BY <1>6, <1>7
<1>9. Sparkline(a) = BalanceSeries(a.balance, deltas, first, last)
  BY DEF Sparkline
<1>. HIDE DEF deltas, first, last
<1>13. d \in first..last
  BY DEF first, last
<1>10. \A e \in first..last : deltas[e] \in Int
  BY <1>1, <1>6, <1>8, DatedIsInt
<1>11. BalanceSeries(a.balance, deltas, first, last)[d] = a.balance - SumOf(deltas, d + 1..last)
  BY <1>3, <1>5, <1>10, <1>13, SeriesIs
<1>12. SumOf(deltas, d + 1..last) = TotalOf(rows, Dated(rows, a.id, req.start, d + 1..last, n))
  <2>1. IsFiniteSet(d + 1..last)
    BY <1>3, <1>13, FS_Interval
  <2>2. \A e \in d + 1..last : deltas[e] = TotalOf(rows, DatedOn(rows, a.id, req.start, e, n))
    BY <1>3, <1>8, <1>13
  <2>3. PICK C : C = d + 1..last
    OBVIOUS
  <2>. HIDE DEF n
  <2>4. SumOf(deltas, C) = TotalOf(rows, Dated(rows, a.id, req.start, C, n))
    <3>1. Tables(accounts, rows) /\ n \in 0..Len(rows) /\ IsFiniteSet(C)
      BY <1>1, <1>6, <2>1, <2>3
    <3>2. \A e \in C : deltas[e] = TotalOf(rows, DatedOn(rows, a.id, req.start, e, n))
      BY <2>2, <2>3
    <3>3. PICK id, s : id = a.id /\ s = req.start
      OBVIOUS
    <3>. QED  BY <3>1, <3>2, <3>3, DatedAddUp
  <2>. QED  BY <2>3, <2>4
<1>. QED  BY <1>5, <1>6, <1>7, <1>9, <1>11, <1>12, <1>13 DEF first, last

(* Each point of a sparkline is the stored balance without what is dated   *)
(* on later days of the window, as committed when the movements were read: *)
(* the walk back through balanceSeries loses and repeats no day.           *)
THEOREM SparklinesHold == Spec => []SparklinesUndoWhatCameLater
<1>1. IInv => SparklinesUndoWhatCameLater
  <2>. SUFFICES ASSUME IInv, Shown("summary"),
                       NEW a \in req.listed, NEW d \in Day(req.start)..Day(req.end)
                PROVE  Sparkline(a)[d] = a.balance -
                         Total({i \in 1..req.seen.deltas :
                                  /\ rows[i].account = a.id
                                  /\ Day(rows[i].row.date) \in (d + 1)..Day(req.end)})
    BY DEF SparklinesUndoWhatCameLater
  <2>. DEFINE n == req.seen.deltas
              later == {i \in 1..n : /\ rows[i].account = a.id
                                     /\ Day(rows[i].row.date) \in (d + 1)..Day(req.end)}
  <2>1. n \in 0..Len(rows) /\ Tables(accounts, rows)
    BY SparklineIs DEF IInv
  <2>2. \A i \in 1..n : rows[i].row.date \in Nat
    <3>1. \A i \in 1..n : rows[i].row \in Kinds
      BY <2>1, RowsAreRows
    <3>. QED  BY <3>1, SummaryAssumption
  <2>3. req.start \in Nat /\ req.end \in Nat
    <3>1. req.start = Now - 2 * Days /\ req.end = Now
      BY DEF IInv, Good, Control, Shown
    <3>. QED  BY <3>1, SummaryAssumption
  <2>4. later = Dated(rows, a.id, req.start, d + 1..Day(req.end), n)
    <3>1. ASSUME NEW i \in 1..n, Day(rows[i].row.date) \in (d + 1)..Day(req.end)
          PROVE  rows[i].row.date >= req.start
      <4>1. rows[i].row.date >= 2 * Day(rows[i].row.date) /\ Day(rows[i].row.date) \in Nat
        BY <2>2, DayIs
      <4>2. req.start < 2 * Day(req.start) + 2 /\ Day(req.start) \in Nat /\ Day(req.end) \in Nat
        BY <2>3, DayIs
      <4>3. Day(rows[i].row.date) >= Day(req.start) + 1
        BY <3>1, <4>1, <4>2
      <4>. QED  BY <2>2, <2>3, <4>1, <4>2, <4>3
    <3>. QED  BY <3>1 DEF Dated
  <2>. HIDE DEF later
  <2>5. Total(later) = TotalOf(rows, later)
    BY TotalIs
  <2>. QED  BY <2>4, <2>5, SparklineIs DEF later
<1>. QED  BY <1>1, InvariantHolds, PTL

-----------------------------------------------------------------------------
(* The two sums over the accounts shown.                                   *)
LEMMA PointIsSum ==
  ASSUME IsFiniteSet(req.listed), NEW d, NEW w, \A a \in req.listed : w[a] = Sparkline(a)[d]
  PROVE  BalancePoint(d) = SumOf(w, req.listed)
<1>. DEFINE S == req.listed
            g == CHOOSE f : f = [s \in SUBSET S |->
                   IF s = {} THEN 0 ELSE Sparkline(CHOOSE x \in s : TRUE)[d]
                                          + f[s \ {CHOOSE x \in s : TRUE}]]
<1>0. IsFiniteSet(S) /\ \A a \in S : w[a] = Sparkline(a)[d]
  OBVIOUS
<1>1. \E f : f = [s \in SUBSET S |->
                   IF s = {} THEN 0 ELSE Sparkline(CHOOSE x \in s : TRUE)[d]
                                          + f[s \ {CHOOSE x \in s : TRUE}]]
  <2>. HIDE DEF S
  <2>1. PICK f : Sums(f, w, S)
    BY <1>0, SumsExist
  <2>2. ASSUME NEW s \in SUBSET S, s # {}
        PROVE  w[Pick(s)] = Sparkline(CHOOSE x \in s : TRUE)[d] /\ Pick(s) = CHOOSE x \in s : TRUE
    BY <1>0, <2>2, PickIn DEF Pick
  <2>3. f = [s \in SUBSET S |->
                   IF s = {} THEN 0 ELSE Sparkline(CHOOSE x \in s : TRUE)[d]
                                          + f[s \ {CHOOSE x \in s : TRUE}]]
    BY <2>1, <2>2 DEF Sums, SumsOver
  <2>. QED  BY <2>3
<1>2. g = [s \in SUBSET S |->
             IF s = {} THEN 0 ELSE Sparkline(CHOOSE x \in s : TRUE)[d]
                                          + g[s \ {CHOOSE x \in s : TRUE}]]
  BY <1>1, Zenon
<1>3. BalancePoint(d) = g[S]
  BY DEF BalancePoint, MapThenSumSet, MapThenFoldSet
<1>. HIDE DEF g, S
<1>4. Sums(g, w, S)
  <2>1. ASSUME NEW s \in SUBSET S, s # {} PROVE w[Pick(s)] = Sparkline(Pick(s))[d]
    BY <1>0, <2>1, PickIn
  <2>2. \A s \in SUBSET S :
          g[s] = IF s = {} THEN 0 ELSE Sparkline(Pick(s))[d] + g[s \ {Pick(s)}]
    BY <1>2 DEF Pick
  <2>3. g = [s \in SUBSET S |-> g[s]]
    BY <1>2
  <2>4. \A s \in SUBSET S : g[s] = IF s = {} THEN 0 ELSE w[Pick(s)] + g[s \ {Pick(s)}]
    BY <2>1, <2>2
  <2>. QED  BY <2>3, <2>4 DEF Sums, SumsOver
<1>. QED  BY <1>0, <1>3, <1>4, SumOfIs DEF S

FirstOf(d) == MapThenSumSet(LAMBDA a : req.deltas[<<a.id, d>>], req.listed)

LEMMA FirstIsSum ==
  ASSUME IsFiniteSet(req.listed), NEW d, NEW w, \A a \in req.listed : w[a] = req.deltas[<<a.id, d>>]
  PROVE  FirstOf(d) = SumOf(w, req.listed)
<1>. DEFINE S == req.listed
            g == CHOOSE f : f = [s \in SUBSET S |->
                   IF s = {} THEN 0 ELSE req.deltas[<<(CHOOSE x \in s : TRUE).id, d>>]
                                          + f[s \ {CHOOSE x \in s : TRUE}]]
<1>0. IsFiniteSet(S) /\ \A a \in S : w[a] = req.deltas[<<a.id, d>>]
  OBVIOUS
<1>1. \E f : f = [s \in SUBSET S |->
                   IF s = {} THEN 0 ELSE req.deltas[<<(CHOOSE x \in s : TRUE).id, d>>]
                                          + f[s \ {CHOOSE x \in s : TRUE}]]
  <2>. HIDE DEF S
  <2>1. PICK f : Sums(f, w, S)
    BY <1>0, SumsExist
  <2>2. ASSUME NEW s \in SUBSET S, s # {}
        PROVE  /\ w[Pick(s)] = req.deltas[<<(CHOOSE x \in s : TRUE).id, d>>]
               /\ Pick(s) = CHOOSE x \in s : TRUE
    BY <1>0, <2>2, PickIn DEF Pick
  <2>3. f = [s \in SUBSET S |->
                   IF s = {} THEN 0 ELSE req.deltas[<<(CHOOSE x \in s : TRUE).id, d>>]
                                          + f[s \ {CHOOSE x \in s : TRUE}]]
    BY <2>1, <2>2 DEF Sums, SumsOver
  <2>. QED  BY <2>3
<1>2. g = [s \in SUBSET S |->
             IF s = {} THEN 0 ELSE req.deltas[<<(CHOOSE x \in s : TRUE).id, d>>]
                                          + g[s \ {CHOOSE x \in s : TRUE}]]
  BY <1>1, Zenon
<1>3. FirstOf(d) = g[S]
  BY DEF FirstOf, MapThenSumSet, MapThenFoldSet
<1>. HIDE DEF g, S
<1>4. Sums(g, w, S)
  <2>1. ASSUME NEW s \in SUBSET S, s # {} PROVE w[Pick(s)] = req.deltas[<<Pick(s).id, d>>]
    BY <1>0, <2>1, PickIn
  <2>2. \A s \in SUBSET S :
          g[s] = IF s = {} THEN 0 ELSE req.deltas[<<Pick(s).id, d>>] + g[s \ {Pick(s)}]
    BY <1>2 DEF Pick
  <2>3. g = [s \in SUBSET S |-> g[s]]
    BY <1>2
  <2>4. \A s \in SUBSET S : g[s] = IF s = {} THEN 0 ELSE w[Pick(s)] + g[s \ {Pick(s)}]
    BY <2>1, <2>2
  <2>. QED  BY <2>3, <2>4 DEF Sums, SumsOver
<1>. QED  BY <1>0, <1>3, <1>4, SumOfIs DEF S

(* What a window moved is what came in and what went out.                  *)
LEMMA WindowIsFlow ==
  ASSUME NEW acc, NEW r, Tables(acc, r), NEW u, NEW s, NEW e, NEW n \in 0..Len(r)
  PROVE  SumOf(AmountsOf(r), Window(acc, r, u, s, e, n)) =
           TotalOf(r, In(acc, r, u, s, e, n)) + TotalOf(r, Out(acc, r, u, s, e, n))
<1>. DEFINE all == Window(acc, r, u, s, e, n)
            in == In(acc, r, u, s, e, n)
            out == Out(acc, r, u, s, e, n)
            none == {i \in all : r[i].row.amount = 0}
            w == AmountsOf(r)
<1>1. all \subseteq 1..Len(r)
  BY RowsAreRows DEF Window
<1>2. \A i \in all : w[i] = r[i].row.amount /\ w[i] \in Int
  <2>. HIDE DEF all
  <2>. QED  BY <1>1, RowsHaveAmounts
<1>3. /\ in \subseteq all /\ out \subseteq all /\ none \subseteq all
      /\ all = (in \cup out) \cup none /\ in \cap out = {} /\ (in \cup out) \cap none = {}
  BY <1>2 DEF In, Out
<1>4. \A i \in none : w[i] = 0
  BY <1>2
<1>. HIDE DEF all, in, out, none
<1>5. ASSUME NEW T, T \subseteq all
      PROVE  /\ IsFiniteSet(T) /\ TotalOf(r, T) = SumOf(w, T) /\ TotalOf(r, T) \in Int
             /\ \A i \in T : w[i] \in Int
  <2>1. T \subseteq 1..Len(r)
    BY <1>1, <1>5
  <2>. QED  BY <2>1, RowsHaveAmounts
<1>. HIDE DEF w
<1>6. SumOf(w, none) = 0
  BY <1>3, <1>4, <1>5, SumOfZeros
<1>7. SumOf(w, in \cup out) = SumOf(w, in) + SumOf(w, out)
  <2>1. IsFiniteSet(in) /\ IsFiniteSet(out) /\ \A i \in in \cup out : w[i] \in Int
    BY <1>3, <1>5
  <2>. QED  BY <1>3, <2>1, SumOfUnion
<1>8. SumOf(w, all) = SumOf(w, in \cup out) + SumOf(w, none)
  <2>1. in \cup out \subseteq all
    BY <1>3
  <2>2. IsFiniteSet(in \cup out) /\ IsFiniteSet(none) /\ \A i \in (in \cup out) \cup none : w[i] \in Int
    BY <1>3, <1>5, <2>1
  <2>3. SumOf(w, (in \cup out) \cup none) = SumOf(w, in \cup out) + SumOf(w, none)
    BY <1>3, <2>2, SumOfUnion
  <2>. QED  BY <1>3, <2>3
<1>9. SumOf(w, all) = TotalOf(r, in) + TotalOf(r, out)
  BY <1>3, <1>5, <1>6, <1>7, <1>8
<1>. QED  BY <1>9 DEF w, all, in, out

(* All an account moved from the first day on: that day, and the others.   *)
LEMMA DatedFromFirst ==
  ASSUME NEW acc, NEW r, NEW n, NEW a, NEW s, NEW first, NEW last,
         Tables(acc, r), n \in 0..Len(r), first \in Int, last \in Int, first <= last
  PROVE  /\ TotalOf(r, Dated(r, a, s, first..last, n)) =
              TotalOf(r, Dated(r, a, s, first + 1..last, n)) + TotalOf(r, DatedOn(r, a, s, first, n))
         /\ TotalOf(r, Dated(r, a, s, first + 1..last, n)) \in Int
         /\ TotalOf(r, DatedOn(r, a, s, first, n)) \in Int
<1>. DEFINE all == Dated(r, a, s, first..last, n)
            A == Dated(r, a, s, first + 1..last, n)
            B == DatedOn(r, a, s, first, n)
            w == AmountsOf(r)
<1>1. all \subseteq 1..Len(r) /\ A \subseteq 1..Len(r) /\ B \subseteq 1..Len(r)
  BY RowsAreRows DEF Dated, DatedOn
<1>2. first..last = {first} \cup (first + 1..last) /\ first \notin first + 1..last
  OBVIOUS
<1>3. all = A \cup B /\ A \cap B = {}
  BY <1>2 DEF Dated, DatedOn
<1>. HIDE DEF all, A, B
<1>4. /\ IsFiniteSet(A) /\ TotalOf(r, A) = SumOf(w, A) /\ TotalOf(r, A) \in Int /\ \A i \in A : w[i] \in Int
      /\ IsFiniteSet(B) /\ TotalOf(r, B) = SumOf(w, B) /\ TotalOf(r, B) \in Int /\ \A i \in B : w[i] \in Int
      /\ TotalOf(r, all) = SumOf(w, all)
  BY <1>1, RowsHaveAmounts
<1>. HIDE DEF w
<1>5. SumOf(w, A \cup B) = SumOf(w, A) + SumOf(w, B)
  BY <1>3, <1>4, SumOfUnion
<1>6. TotalOf(r, all) = TotalOf(r, A) + TotalOf(r, B)
  BY <1>3, <1>4, <1>5
<1>. QED  BY <1>4, <1>6 DEF all, A, B

(* From its first to its last point the chart moves by inflow less         *)
(* outflow, but for the first day's own movement, if no transaction came   *)
(* between the two queries, no account was opened after the list was read, *)
(* and nothing is dated later on the day of the request.                   *)
THEOREM ChartHolds == Spec => []ChartAgreesWithTotals
<1>1. IInv => ChartAgreesWithTotals
  <2>. SUFFICES ASSUME IInv, Shown("summary"), req.seen.deltas = req.seen.cashflow,
                       \A a \in DOMAIN accounts :
                         accounts[a].owner = req.user => \E b \in req.listed : b.id = a,
                       \A i \in DOMAIN rows :
                         ~(rows[i].row.date >= req.end /\ Day(rows[i].row.date) = Day(req.end))
                PROVE  BalancePoint(Day(req.end)) - BalancePoint(Day(req.start))
                         + FirstOf(Day(req.start)) = req.inflow - req.outflow
    BY DEF ChartAgreesWithTotals, FirstOf
  <2>. DEFINE L == req.listed
              n == req.seen.deltas
              s == req.start
              first == Day(req.start)
              last == Day(req.end)
              w == AmountsOf(rows)
              S == {i \in 1..n : /\ accounts[rows[i].account].owner = req.user
                                 /\ rows[i].row.date >= s
                                 /\ Day(rows[i].row.date) \in first..last}
              record(a) == [id |-> a, balance |-> accounts[a].balance]
              kind == [i \in S |-> record(rows[i].account)]
              window == Window(accounts, rows, req.user, s, req.end, n)
              bal == [b \in L |-> b.balance]
              start == [b \in L |-> Sparkline(b)[first]]
              later == [b \in L |-> TotalOf(rows, Dated(rows, b.id, s, first + 1..last, n))]
              onFirst == [b \in L |-> TotalOf(rows, DatedOn(rows, b.id, s, first, n))]
              moved == [b \in L |-> TotalOf(rows, Dated(rows, b.id, s, first..last, n))]
  <2>1. /\ Tables(accounts, rows) /\ Control(req) /\ Listing(accounts, req)
        /\ Flowing(accounts, rows, req) /\ req.op = "summary" /\ req.status = 200
    BY DEF IInv, Good, Shown
  <2>2. /\ req.start = Now - 2 * Days /\ req.end = Now
        /\ req.start \in Nat /\ req.end \in Nat /\ req.start <= req.end
    <3>1. req.start = Now - 2 * Days /\ req.end = Now
      BY <2>1 DEF Control
    <3>. QED  BY <3>1, SummaryAssumption
  <2>3. /\ first \in Nat /\ last \in Nat /\ first <= last
        /\ first \in first..last /\ last \in first..last
        /\ 2 * first <= req.start /\ req.start < 2 * first + 2
        /\ 2 * last <= req.end /\ req.end < 2 * last + 2
    <3>1. /\ Day(req.start) \in Nat /\ 2 * Day(req.start) <= req.start
          /\ req.start < 2 * Day(req.start) + 2
      BY <2>2, DayIs
    <3>2. /\ Day(req.end) \in Nat /\ 2 * Day(req.end) <= req.end
          /\ req.end < 2 * Day(req.end) + 2
      BY <2>2, DayIs
    <3>. HIDE DEF first, last
    <3>3. first = Day(req.start) /\ last = Day(req.end)
      BY DEF first, last
    <3>. QED  BY <2>2, <3>1, <3>2, <3>3
  <2>4. L \subseteq {record(a) : a \in {b \in DOMAIN accounts : accounts[b].owner = req.user}}
    BY <2>1 DEF Listing, Reached
  <2>5. IsFiniteSet(L)
    <3>. DEFINE D == DOMAIN accounts
                f == [a \in D |-> record(a)]
                M == {record(a) : a \in D}
    <3>1. accounts \in Seq([owner : Users, balance : Balances, opened : Balances])
      BY <2>1 DEF Tables
    <3>2. D = 1..Len(accounts) /\ 1 \in Int /\ Len(accounts) \in Int
      BY <3>1
    <3>3. f \in Surjection(D, M)
      BY DEF Surjection
    <3>4. L \subseteq M
      BY <2>4
    <3>. HIDE DEF D, f, M, L, record
    <3>5. IsFiniteSet(D)
      BY <3>2, FS_Interval, Zenon
    <3>6. IsFiniteSet(M)
      BY <3>3, <3>5, FS_Surjection
    <3>. QED  BY <3>4, <3>6, FS_Subset
  <2>6. n \in 0..Len(rows)
    BY <2>1 DEF IInv, Good, Movements, Reached
  <2>. HIDE DEF first, last, n, L, s
  <2>7. ASSUME NEW b \in L
        PROVE  /\ b.balance \in Int
               /\ Sparkline(b)[first] = b.balance - TotalOf(rows, Dated(rows, b.id, s, first + 1..last, n))
               /\ Sparkline(b)[last] = b.balance - TotalOf(rows, Dated(rows, b.id, s, last + 1..last, n))
               /\ req.deltas[<<b.id, first>>] = TotalOf(rows, DatedOn(rows, b.id, s, first, n))
    BY <2>3, SparklineIs DEF first, last, n, L, s
  <2>8. BalancePoint(last) = SumOf(bal, L)
    <3>1. ASSUME NEW b \in L PROVE bal[b] = Sparkline(b)[last]
      <4>1. last + 1..last = {}
        BY <2>3
      <4>2. Dated(rows, b.id, s, last + 1..last, n) = {}
        BY <4>1 DEF Dated
      <4>3. TotalOf(rows, {}) = 0
        <5>1. IsFiniteSet({}) /\ \A i \in {} : w[i] = rows[i].row.amount
          BY FS_EmptySet
        <5>. QED  BY <5>1, TotalIsSum, SumOfEmpty
      <4>4. bal[b] = b.balance /\ b.balance \in Int
            /\ Sparkline(b)[last] = b.balance - TotalOf(rows, Dated(rows, b.id, s, last + 1..last, n))
        BY <2>7
      <4>. HIDE DEF bal
      <4>5. Sparkline(b)[last] = b.balance - 0
        BY <4>2, <4>3, <4>4
      <4>. QED  BY <4>4, <4>5
    <3>. QED  BY <2>5, <3>1, PointIsSum DEF L
  <2>9. BalancePoint(first) = SumOf(start, L)
    BY <2>5, PointIsSum DEF L
  <2>10. FirstOf(first) = SumOf(onFirst, L)
    <3>1. \A b \in L : onFirst[b] = req.deltas[<<b.id, first>>]
      BY <2>7
    <3>. QED  BY <2>5, <3>1, FirstIsSum DEF L
  <2>11. \A b \in L : /\ later[b] \in Int /\ onFirst[b] \in Int /\ moved[b] = later[b] + onFirst[b]
                      /\ start[b] \in Int /\ bal[b] = start[b] + later[b]
    <3>. SUFFICES ASSUME NEW b \in L
                  PROVE  /\ later[b] \in Int /\ onFirst[b] \in Int /\ moved[b] = later[b] + onFirst[b]
                         /\ start[b] \in Int /\ bal[b] = start[b] + later[b]
      OBVIOUS
    <3>1. later[b] \in Int /\ onFirst[b] \in Int /\ moved[b] = later[b] + onFirst[b]
      <4>1. PICK id, from : id = b.id /\ from = s
        OBVIOUS
      <4>2. /\ TotalOf(rows, Dated(rows, id, from, first..last, n)) =
                 TotalOf(rows, Dated(rows, id, from, first + 1..last, n))
                   + TotalOf(rows, DatedOn(rows, id, from, first, n))
            /\ TotalOf(rows, Dated(rows, id, from, first + 1..last, n)) \in Int
            /\ TotalOf(rows, DatedOn(rows, id, from, first, n)) \in Int
        <5>1. /\ Tables(accounts, rows) /\ n \in 0..Len(rows)
              /\ first \in Int /\ last \in Int /\ first <= last
          BY <2>1, <2>3, <2>6
        <5>. QED  BY ONLY <5>1, DatedFromFirst
      <4>. QED  BY <4>1, <4>2
    <3>2. start[b] = b.balance - later[b] /\ b.balance \in Int /\ bal[b] = b.balance
      BY <2>7
    <3>. QED  BY <3>1, <3>2
  <2>12. \A b \in L : moved[b] = SumOf(w, OfKind(S, kind, b))
    <3>. SUFFICES ASSUME NEW b \in L PROVE moved[b] = SumOf(w, OfKind(S, kind, b))
      OBVIOUS
    <3>1. PICK a \in DOMAIN accounts : accounts[a].owner = req.user /\ b = record(a)
      BY <2>4
    <3>2. b.id = a
      BY <3>1
    <3>3. \A i \in 1..n : rows[i].account = a <=> record(rows[i].account) = b
      BY <3>1, <3>2
    <3>4. OfKind(S, kind, b) = Dated(rows, a, s, first..last, n)
      BY <3>1, <3>3 DEF OfKind, Dated
    <3>5. Dated(rows, a, s, first..last, n) \subseteq 1..Len(rows)
      BY <2>1, <2>6, RowsAreRows DEF Dated
    <3>6. TotalOf(rows, Dated(rows, a, s, first..last, n)) = SumOf(w, Dated(rows, a, s, first..last, n))
      BY <2>1, <3>5, RowsHaveAmounts
    <3>. HIDE DEF w, S, kind
    <3>. QED  BY <3>2, <3>4, <3>6
  <2>13. S \subseteq 1..Len(rows) /\ IsFiniteSet(S) /\ \A i \in S : w[i] \in Int
    <3>1. S \subseteq 1..Len(rows)
      BY <2>1, <2>6, RowsAreRows
    <3>. HIDE DEF S
    <3>. QED  BY <2>1, <3>1, RowsHaveAmounts
  <2>14. OfKinds(S, kind, L) = window
    <3>1. ASSUME NEW i \in 1..n
          PROVE  /\ rows[i].row.date \in Nat /\ rows[i].account \in DOMAIN accounts
                 /\ ~(rows[i].row.date >= req.end /\ Day(rows[i].row.date) = last)
      <4>1. rows[i].row \in Kinds /\ rows[i].account \in DOMAIN accounts /\ i \in DOMAIN rows
        BY <2>1, <2>6, RowsAreRows
      <4>. QED  BY <4>1, SummaryAssumption DEF last
    <3>2. ASSUME NEW i \in 1..n, accounts[rows[i].account].owner = req.user
          PROVE  record(rows[i].account) \in L
      <4>1. PICK b \in L : b.id = rows[i].account
        BY <3>1, <3>2 DEF L
      <4>2. b = record(b.id)
        BY <2>4
      <4>. QED  BY <4>1, <4>2
    <3>3. ASSUME NEW i \in 1..n, rows[i].row.date >= s
          PROVE  rows[i].row.date < req.end <=> Day(rows[i].row.date) \in first..last
      <4>. DEFINE t == rows[i].row.date
      <4>1. t \in Nat /\ Day(t) \in Nat /\ 2 * Day(t) <= t /\ t < 2 * Day(t) + 2
        BY <3>1, DayIs
      <4>2. t >= req.start /\ ~(t >= req.end /\ Day(t) = last)
        BY <3>1, <3>3 DEF s
      <4>. HIDE DEF t
      <4>3. Day(t) >= first
        BY <2>2, <2>3, <4>1, <4>2
      <4>4. t < req.end => Day(t) <= last
        BY <2>2, <2>3, <4>1, <4>2
      <4>5. Day(t) <= last => t < req.end
        <5>1. PICK day : day = Day(t)
          OBVIOUS
        <5>. QED  BY ONLY <2>2, <2>3, <4>1, <4>2, <5>1
      <4>. QED  BY <2>3, <4>1, <4>3, <4>4, <4>5 DEF t
    <3>4. OfKinds(S, kind, L) = S
      BY <3>2 DEF OfKinds
    <3>5. S = window
      BY <3>3 DEF Window
    <3>. QED  BY <3>4, <3>5
  <2>. HIDE DEF bal, start, later, onFirst, moved, w, S, kind, window
  <2>15. SumOf(moved, L) = SumOf(w, window)
    <3>1. SumOf(moved, L) = SumOf(w, OfKinds(S, kind, L))
      BY <2>5, <2>12, <2>13, SumByKind
    <3>. QED  BY <2>14, <3>1
  <2>16. SumOf(w, window) = req.inflow - req.outflow
    <3>1. /\ req.inflow = TotalOf(rows, In(accounts, rows, req.user, s, req.end, n))
          /\ req.outflow = -TotalOf(rows, Out(accounts, rows, req.user, s, req.end, n))
          /\ req.inflow \in Nat /\ req.outflow \in Nat
      BY <2>1 DEF Flowing, Reached, Control, n, s
    <3>2. SumOf(w, window) = TotalOf(rows, In(accounts, rows, req.user, s, req.end, n))
                              + TotalOf(rows, Out(accounts, rows, req.user, s, req.end, n))
      BY <2>1, <2>6, WindowIsFlow DEF w, window
    <3>3. Out(accounts, rows, req.user, s, req.end, n) \subseteq 1..Len(rows)
      BY <2>1, <2>6, RowsAreRows DEF Out, Window
    <3>4. TotalOf(rows, Out(accounts, rows, req.user, s, req.end, n)) \in Int
      BY <2>1, <3>3, RowsHaveAmounts
    <3>. QED  BY <3>1, <3>2, <3>4
  <2>17. /\ SumOf(bal, L) = SumOf(start, L) + SumOf(later, L)
         /\ SumOf(moved, L) = SumOf(later, L) + SumOf(onFirst, L)
         /\ SumOf(start, L) \in Int /\ SumOf(later, L) \in Int /\ SumOf(onFirst, L) \in Int
    <3>1. SumOf(bal, L) = SumOf(start, L) + SumOf(later, L)
      BY <2>5, <2>11, SumOfPlus
    <3>2. SumOf(moved, L) = SumOf(later, L) + SumOf(onFirst, L)
      BY <2>5, <2>11, SumOfPlus
    <3>. QED  BY <2>5, <2>11, <3>1, <3>2, SumOfInt
  <2>18. BalancePoint(last) - BalancePoint(first) + FirstOf(first) = req.inflow - req.outflow
    BY <2>8, <2>9, <2>10, <2>15, <2>16, <2>17
  <2>. QED  BY <2>18 DEF first, last
<1>. QED  BY <1>1, InvariantHolds, PTL

-----------------------------------------------------------------------------
(* Assessment.                                                             *)
(* What the model adds up with is the sum.                                 *)
LEMMA SummedIsSum ==
  ASSUME NEW w, NEW S, IsFiniteSet(S)
  PROVE  Summed(w, S) = SumOf(w, S)
<1>. DEFINE g == CHOOSE f : f = [s \in SUBSET S |->
                   IF s = {} THEN 0 ELSE w[CHOOSE x \in s : TRUE]
                                          + f[s \ {CHOOSE x \in s : TRUE}]]
<1>1. \E f : f = [s \in SUBSET S |->
                   IF s = {} THEN 0 ELSE w[CHOOSE x \in s : TRUE]
                                          + f[s \ {CHOOSE x \in s : TRUE}]]
  <2>1. PICK f : Sums(f, w, S)
    BY SumsExist
  <2>2. f = [s \in SUBSET S |->
                   IF s = {} THEN 0 ELSE w[CHOOSE x \in s : TRUE]
                                          + f[s \ {CHOOSE x \in s : TRUE}]]
    BY <2>1 DEF Sums, SumsOver, Pick
  <2>. QED  BY <2>2
<1>2. g = [s \in SUBSET S |->
             IF s = {} THEN 0 ELSE w[CHOOSE x \in s : TRUE]
                                          + g[s \ {CHOOSE x \in s : TRUE}]]
  BY <1>1, Zenon
<1>3. Summed(w, S) = g[S]
  BY DEF Summed, MapThenSumSet, MapThenFoldSet
<1>. HIDE DEF g
<1>4. Sums(g, w, S)
  BY <1>2 DEF Sums, SumsOver, Pick
<1>. QED  BY <1>3, <1>4, SumOfIs

(* Rows are counted in natural numbers.                                    *)
Counted == stored \in [RowKinds -> Nat]

(* The closed set of categories is finite, and so is all that is added up. *)
LEMMA ListedIsFinite ==
  /\ IsFiniteSet(Listed) /\ IsFiniteSet(Amounts) /\ Amounts \subseteq Int
  /\ \A cs \in SUBSET Listed : IsFiniteSet(cs \X Amounts) /\ cs \X Amounts \subseteq RowKinds
<1>1. Keyworded \in Seq(Listed) /\ Amounts \subseteq Int /\ IsFiniteSet(Amounts)
  BY AssessmentAssumption
<1>. DEFINE Image == {Keyworded[i] : i \in DOMAIN Keyworded}
<1>2. IsFiniteSet(DOMAIN Keyworded)
  <2>1. Len(Keyworded) \in Nat /\ DOMAIN Keyworded = 1..Len(Keyworded)
    BY <1>1, LenProperties
  <2>2. 1 \in Int /\ Len(Keyworded) \in Int
    BY <2>1
  <2>3. IsFiniteSet(1..Len(Keyworded))
    BY <2>2, FS_Interval, Zenon
  <2>. QED  BY <2>1, <2>3, Zenon
<1>3. IsFiniteSet(Image)
  <2>. DEFINE f == [i \in DOMAIN Keyworded |-> Keyworded[i]]
  <2>1. f \in Surjection(DOMAIN Keyworded, Image)
    BY DEF Surjection
  <2>. HIDE DEF f, Image
  <2>. QED  BY <1>2, <2>1, FS_Surjection
<1>4. IsFiniteSet({Income}) /\ IsFiniteSet({Other})
  BY FS_Singleton
<1>5. Listed = (Image \cup {Income}) \cup {Other}
  BY DEF Listed
<1>. HIDE DEF Image
<1>6. IsFiniteSet(Listed)
  <2>1. IsFiniteSet(Image \cup {Income})
    BY <1>3, <1>4, FS_Union, Zenon
  <2>2. IsFiniteSet((Image \cup {Income}) \cup {Other})
    BY <1>4, <2>1, FS_Union, Zenon
  <2>. QED  BY <1>5, <2>2, Zenon
<1>7. ASSUME NEW cs \in SUBSET Listed
      PROVE  IsFiniteSet(cs \X Amounts) /\ cs \X Amounts \subseteq RowKinds
  <2>1. IsFiniteSet(cs)
    BY <1>6, FS_Subset
  <2>2. IsFiniteSet(cs \X Amounts)
    BY <1>1, <2>1, FS_Product, Zenon
  <2>. QED  BY <2>2 DEF RowKinds
<1>. QED  BY <1>1, <1>6, <1>7

(* An absolute value; a product of naturals.                               *)
LEMMA AbsIs ==
  ASSUME NEW n \in Int
  PROVE  Size(n) \in Nat /\ (Size(n) = n \/ Size(n) = -n)
  BY DEF Size

LEMMA Products ==
  ASSUME NEW m \in Nat, NEW n \in Nat
  PROVE  m * n \in Nat /\ 0 * n = 0
  OBVIOUS

LEMMA ProductsGrow ==
  ASSUME NEW a \in Nat, NEW b \in Nat, a <= b, NEW n \in Nat
  PROVE  a * n <= n * b
  OBVIOUS

(* Each stored row weighs one, or its magnitude.                           *)
LEMMA Weights ==
  ASSUME Counted
  PROVE  \A k \in RowKinds :
           /\ k[2] \in Int /\ Size(k[2]) \in Nat
           /\ stored[k] \in Nat /\ Magnitudes[k] \in Nat
           /\ Magnitudes[k] = stored[k] * Size(k[2])
           /\ stored[k] = 0 => Magnitudes[k] = 0
<1>. SUFFICES ASSUME NEW k \in RowKinds
              PROVE  /\ k[2] \in Int /\ Size(k[2]) \in Nat
                     /\ stored[k] \in Nat /\ Magnitudes[k] \in Nat
                     /\ Magnitudes[k] = stored[k] * Size(k[2])
                     /\ stored[k] = 0 => Magnitudes[k] = 0
  OBVIOUS
<1>1. k[2] \in Int /\ stored[k] \in Nat
  BY ListedIsFinite DEF RowKinds, Counted
<1>2. Magnitudes[k] = stored[k] * Size(k[2])
  BY DEF Magnitudes
<1>. HIDE DEF Size, Magnitudes
<1>3. Size(k[2]) \in Nat
  BY <1>1, AbsIs
<1>4. stored[k] * Size(k[2]) \in Nat /\ (stored[k] = 0 => stored[k] * Size(k[2]) = 0)
  BY <1>1, <1>3, Products
<1>. QED  BY <1>1, <1>2, <1>3, <1>4

(* The two weights a sum is taken of: w is either.                         *)
LEMMA SumOverIs ==
  ASSUME NEW w, \A k \in RowKinds : w[k] \in Nat,
         NEW cs \in SUBSET Listed
  PROVE  /\ SumOver(w, cs) = SumOf(w, cs \X Amounts) /\ SumOver(w, cs) \in Nat
         /\ \A k \in cs \X Amounts : w[k] <= SumOver(w, cs)
<1>. DEFINE S == cs \X Amounts
<1>1. IsFiniteSet(S) /\ \A k \in S : w[k] \in Nat
  BY ListedIsFinite
<1>2. SumOver(w, cs) = Summed(w, S)
  BY DEF SumOver
<1>. HIDE DEF S
<1>3. Summed(w, S) = SumOf(w, S) /\ SumOf(w, S) \in Nat /\ \A k \in S : w[k] <= SumOf(w, S)
  BY <1>1, SummedIsSum, SumOfNatural
<1>. QED  BY <1>2, <1>3 DEF S

(* The sum over some categories is that of their sums.                     *)
LEMMA SumOfCategories ==
  ASSUME NEW w, \A k \in RowKinds : w[k] \in Nat,
         NEW cs \in SUBSET Listed, NEW g, \A c \in cs : g[c] = SumOver(w, {c})
  PROVE  Summed(g, cs) = SumOver(w, cs)
<1>. DEFINE S == cs \X Amounts
            kind == [k \in S |-> k[1]]
<1>1. IsFiniteSet(S) /\ IsFiniteSet(cs) /\ \A k \in S : w[k] \in Int
  <2>1. IsFiniteSet(S) /\ S \subseteq RowKinds /\ IsFiniteSet(Listed)
    BY ListedIsFinite
  <2>2. IsFiniteSet(cs)
    BY <2>1, FS_Subset
  <2>. HIDE DEF S
  <2>. QED  BY <2>1, <2>2
<1>2. ASSUME NEW c \in cs PROVE g[c] = SumOf(w, OfKind(S, kind, c))
  <2>1. OfKind(S, kind, c) = {c} \X Amounts
    BY DEF OfKind
  <2>2. {c} \in SUBSET Listed
    OBVIOUS
  <2>3. SumOver(w, {c}) = SumOf(w, {c} \X Amounts)
    BY <2>2, SumOverIs
  <2>. QED  BY <2>1, <2>3
<1>3. OfKinds(S, kind, cs) = S
  BY DEF OfKinds
<1>4. SumOver(w, cs) = SumOf(w, S)
  BY SumOverIs
<1>. HIDE DEF S, kind
<1>5. Summed(g, cs) = SumOf(g, cs)
  BY <1>1, SummedIsSum
<1>6. SumOf(g, cs) = SumOf(w, OfKinds(S, kind, cs))
  BY <1>1, <1>2, SumByKind
<1>. QED  BY <1>3, <1>4, <1>5, <1>6

(* The categories whose rows a transaction of category c is measured by,   *)
(* and what the reason calls them.                                         *)
Rated(c) == Sizes({c}) # {}
Named(c) == IF Rated(c) THEN {c} ELSE Listed
Label(c) == IF Rated(c) THEN c ELSE Missing

(* The maximum of a finite set, zero included.                             *)
LEMMA BiggestIs ==
  ASSUME NEW S, IsFiniteSet(S), S \subseteq Nat
  PROVE  Max({0} \cup S) \in Nat /\ \A y \in S : y <= Max({0} \cup S)
<1>. DEFINE T == {0} \cup S
<1>1. IsFiniteSet(T) /\ T \subseteq Int /\ T # {} /\ T \subseteq Nat /\ S \subseteq T
  <2>1. IsFiniteSet({0}) /\ IsFiniteSet(S)
    BY FS_Singleton
  <2>2. IsFiniteSet({0} \cup S)
    BY <2>1, FS_Union, Zenon
  <2>. QED  BY <2>2
<1>. HIDE DEF T
<1>2. Max(T) \in T /\ \A y \in T : y <= Max(T)
  BY <1>1, MaxIs
<1>3. Max(T) \in Nat /\ \A y \in S : y <= Max(T)
  BY <1>1, <1>2
<1>. QED  BY <1>3 DEF T

(* The magnitudes of the rows of some categories, one by one.              *)
LEMMA SizesAre ==
  ASSUME Counted, NEW cs \in SUBSET Listed
  PROVE  /\ Sizes(cs) \subseteq Nat
         /\ Sizes(cs) = {} <=> \A k \in cs \X Amounts : stored[k] = 0
         /\ \A s \in Sizes(cs) : \E c \in cs : s \in Sizes({c})
<1>1. \A k \in cs \X Amounts : k \in RowKinds /\ stored[k] \in Nat /\ Size(k[2]) \in Nat
  BY ListedIsFinite, Weights
<1>. HIDE DEF Size
<1>2. Sizes(cs) \subseteq Nat
  BY <1>1 DEF Sizes
<1>3. Sizes(cs) = {} <=> \A k \in cs \X Amounts : stored[k] = 0
  BY <1>1 DEF Sizes
<1>4. ASSUME NEW s \in Sizes(cs) PROVE \E c \in cs : s \in Sizes({c})
  <2>1. PICK k \in cs \X Amounts : stored[k] > 0 /\ s = Size(k[2])
    BY DEF Sizes
  <2>2. k \in {k[1]} \X Amounts /\ k[1] \in cs
    BY <2>1
  <2>3. s \in Sizes({k[1]})
    BY <2>1, <2>2 DEF Sizes
  <2>. QED  BY <2>2, <2>3
<1>. QED  BY <1>2, <1>3, <1>4

(* baselineFor has a line for a category that has rows, and for no other.  *)
LEMMA BaselineIs ==
  ASSUME Counted
  PROVE  /\ DOMAIN Baseline \subseteq Listed
         /\ \A c \in Listed : c \in DOMAIN Baseline <=> Rated(c)
         /\ \A c \in DOMAIN Baseline :
              /\ Baseline[c].count = SumOver(stored, {c})
              /\ Baseline[c].total = SumOver(Magnitudes, {c})
              /\ Baseline[c].max \in Nat
              /\ \A s \in Sizes({c}) : s <= Baseline[c].max
<1>1. DOMAIN Baseline = {d \in Listed : \E a \in Amounts : stored[<<d, a>>] > 0}
      /\ \A c \in DOMAIN Baseline : Baseline[c] = Stat(c)
  BY DEF Baseline
<1>2. ASSUME NEW c \in Listed PROVE c \in DOMAIN Baseline <=> Rated(c)
  <2>1. {c} \in SUBSET Listed
    OBVIOUS
  <2>2. \A k \in {c} \X Amounts : stored[k] \in Nat
    BY <2>1, ListedIsFinite, Weights
  <2>3. Rated(c) <=> \E k \in {c} \X Amounts : stored[k] # 0
    BY <2>1, SizesAre DEF Rated
  <2>4. (\E k \in {c} \X Amounts : stored[k] # 0) <=> \E a \in Amounts : stored[<<c, a>>] > 0
    <3>1. ASSUME NEW k \in {c} \X Amounts, stored[k] # 0
          PROVE  \E a \in Amounts : stored[<<c, a>>] > 0
      <4>1. k = <<c, k[2]>> /\ k[2] \in Amounts /\ stored[k] > 0
        BY <2>2, <3>1
      <4>. QED  BY <4>1
    <3>2. ASSUME NEW a \in Amounts, stored[<<c, a>>] > 0
          PROVE  \E k \in {c} \X Amounts : stored[k] # 0
      <4>1. <<c, a>> \in {c} \X Amounts /\ stored[<<c, a>>] # 0
        BY <3>2
      <4>. QED  BY <4>1
    <3>. QED  BY <3>1, <3>2
  <2>. QED  BY <1>1, <2>3, <2>4
<1>3. ASSUME NEW c \in DOMAIN Baseline
      PROVE  /\ Baseline[c].count = SumOver(stored, {c})
             /\ Baseline[c].total = SumOver(Magnitudes, {c})
             /\ Baseline[c].max \in Nat
             /\ \A s \in Sizes({c}) : s <= Baseline[c].max
  <2>. DEFINE P == {b \in Amounts : stored[<<c, b>>] > 0}
              S == {Size(a) : a \in P}
  <2>1. /\ Stat(c).count = SumOver(stored, {c})
        /\ Stat(c).total = SumOver(Magnitudes, {c})
        /\ Stat(c).max = Max({0} \cup S)
    BY DEF Stat
  <2>2. IsFiniteSet(P) /\ P \subseteq Int
    BY ListedIsFinite, FS_Subset
  <2>3. S \subseteq Nat
    BY <2>2, AbsIs
  <2>4. IsFiniteSet(S)
    <3>. DEFINE f == [a \in P |-> Size(a)]
    <3>1. f \in Surjection(P, S)
      BY DEF Surjection
    <3>. HIDE DEF f, S, P
    <3>. QED  BY <2>2, <3>1, FS_Surjection
  <2>5. Sizes({c}) \subseteq S
    <3>. SUFFICES ASSUME NEW k \in {c} \X Amounts, stored[k] > 0 PROVE Size(k[2]) \in S
      BY DEF Sizes
    <3>1. k = <<c, k[2]>> /\ k[2] \in Amounts
      OBVIOUS
    <3>2. k[2] \in P
      BY <3>1
    <3>. QED  BY <3>2
  <2>. HIDE DEF S
  <2>6. Max({0} \cup S) \in Nat /\ \A y \in S : y <= Max({0} \cup S)
    BY <2>3, <2>4, BiggestIs
  <2>. QED  BY <1>1, <2>1, <2>5, <2>6
<1>. QED  BY <1>1, <1>2, <1>3

(* Where the rows of some categories are all there are.                    *)
LEMMA RestIsNothing ==
  ASSUME Counted
  PROVE  /\ SumOver(stored, DOMAIN Baseline) = SumOver(stored, Listed)
         /\ SumOver(Magnitudes, DOMAIN Baseline) = SumOver(Magnitudes, Listed)
         /\ \A s \in Sizes(Listed) : \E c \in DOMAIN Baseline : s \in Sizes({c})
<1>. DEFINE B == DOMAIN Baseline
            S == Listed \X Amounts
            T == B \X Amounts
<1>1. B \subseteq Listed /\ \A c \in Listed : c \in B <=> Rated(c)
  BY BaselineIs
<1>2. IsFiniteSet(S) /\ T \subseteq S /\ \A k \in S : k \in RowKinds
  BY <1>1, ListedIsFinite
<1>3. \A k \in S \ T : stored[k] = 0
  <2>. SUFFICES ASSUME NEW k \in S, k \notin T PROVE stored[k] = 0
    OBVIOUS
  <2>1. k[1] \in Listed /\ k[1] \notin B /\ k \in {k[1]} \X Amounts
    OBVIOUS
  <2>2. Sizes({k[1]}) = {}
    BY <1>1, <2>1 DEF Rated
  <2>3. {k[1]} \in SUBSET Listed
    BY <2>1
  <2>. QED  BY <2>1, <2>2, <2>3, SizesAre
<1>4. ASSUME NEW w, \A k \in RowKinds : w[k] \in Nat /\ (stored[k] = 0 => w[k] = 0)
      PROVE  SumOver(w, B) = SumOver(w, Listed)
  <2>1. SumOver(w, B) = SumOf(w, T) /\ SumOver(w, Listed) = SumOf(w, S)
    BY <1>1, <1>4, SumOverIs
  <2>2. (\A k \in S : w[k] \in Int) /\ (\A k \in S \ T : w[k] = 0)
    BY <1>2, <1>3, <1>4
  <2>. HIDE DEF S, T
  <2>3. SumOf(w, S) = SumOf(w, T)
    BY <1>2, <2>2, SumOfPart
  <2>. QED  BY <2>1, <2>3
<1>5. SumOver(stored, B) = SumOver(stored, Listed)
  BY <1>4, Weights
<1>6. SumOver(Magnitudes, B) = SumOver(Magnitudes, Listed)
  BY <1>4, Weights
<1>7. ASSUME NEW s \in Sizes(Listed) PROVE \E c \in B : s \in Sizes({c})
  <2>1. PICK c \in Listed : s \in Sizes({c})
    BY SizesAre
  <2>. QED  BY <1>1, <2>1 DEF Rated
<1>. QED  BY <1>5, <1>6, <1>7

(* What the stub compares with is what it names: their number, their total *)
(* and a bound on each of their rows.                                      *)
LEMMA ComparedIsNamed ==
  ASSUME Counted, NEW c \in Listed, NEW amount
  PROVE  \E largest \in Nat :
           /\ StubVerdict(amount, c, Baseline) =
                Scored(amount, Label(c), SumOver(stored, Named(c)),
                         SumOver(Magnitudes, Named(c)), largest)
           /\ \A s \in Sizes(Named(c)) : s <= largest
<1>. DEFINE B == Baseline
            peers == Peers(c, B)
            N == peers.in
            counts == [d \in N |-> B[d].count]
            totals == [d \in N |-> B[d].total]
            M == {B[d].max : d \in N}
            largest == Max({0} \cup M)
<1>1. /\ peers.of = Label(c)
      /\ N = IF Rated(c) THEN {c} ELSE DOMAIN B
  BY BaselineIs DEF Peers, Label
<1>2. N \subseteq DOMAIN B /\ N \subseteq Listed
  BY <1>1, BaselineIs
<1>3. StubVerdict(amount, c, B) =
        Scored(amount, peers.of, Summed(counts, N), Summed(totals, N), largest)
  BY DEF StubVerdict
<1>4. IsFiniteSet(N)
  <2>. HIDE DEF N
  <2>. QED  BY <1>2, ListedIsFinite, FS_Subset
<1>5. IsFiniteSet(M) /\ M \subseteq Nat
  <2>1. M \subseteq Nat
    BY <1>2, BaselineIs
  <2>2. [d \in N |-> B[d].max] \in Surjection(N, M)
    BY DEF Surjection
  <2>. HIDE DEF N, M
  <2>. QED  BY <1>4, <2>1, <2>2, FS_Surjection
<1>6. Summed(counts, N) = SumOver(stored, N) /\ Summed(totals, N) = SumOver(Magnitudes, N)
  <2>1. /\ \A d \in N : counts[d] = SumOver(stored, {d})
        /\ \A d \in N : totals[d] = SumOver(Magnitudes, {d})
    BY <1>2, BaselineIs
  <2>2. \A k \in RowKinds : stored[k] \in Nat /\ Magnitudes[k] \in Nat
    BY Weights
  <2>. HIDE DEF N, counts, totals
  <2>. QED  BY <1>2, <2>1, <2>2, SumOfCategories
<1>7. /\ SumOver(stored, N) = SumOver(stored, Named(c))
      /\ SumOver(Magnitudes, N) = SumOver(Magnitudes, Named(c))
      /\ \A s \in Sizes(Named(c)) : \E d \in N : s \in Sizes({d})
  <2>. HIDE DEF N
  <2>. QED  BY <1>1, RestIsNothing DEF Named
<1>8. largest \in Nat /\ \A y \in M : y <= largest
  <2>. HIDE DEF M
  <2>. QED  BY <1>5, BiggestIs
<1>9. \A s \in Sizes(Named(c)) : s <= largest
  <2>. SUFFICES ASSUME NEW s \in Sizes(Named(c)) PROVE s <= largest
    OBVIOUS
  <2>1. PICK d \in N : s \in Sizes({d})
    BY <1>7
  <2>2. d \in DOMAIN B /\ B[d].max \in M
    BY <1>2
  <2>. HIDE DEF M, N, largest
  <2>3. s <= B[d].max /\ B[d].max \in Nat /\ B[d].max <= largest
    BY <1>8, <2>1, <2>2, BaselineIs
  <2>4. s \in Nat
    <3>1. {d} \in SUBSET Listed
      BY <1>2
    <3>. QED  BY <2>1, <3>1, SizesAre
  <2>. QED  BY <1>8, <2>3, <2>4
<1>. HIDE DEF N, M, largest, counts, totals, peers, B
<1>10. StubVerdict(amount, c, B) =
        Scored(amount, Label(c), SumOver(stored, Named(c)), SumOver(Magnitudes, Named(c)), largest)
  BY <1>1, <1>3, <1>6, <1>7
<1>. QED  BY <1>8, <1>9, <1>10 DEF B

(* What a verdict says of an amount a, signed or not, beside count rows of *)
(* total, none of them beyond largest.                                     *)
Follows(v, amount, a, of, count, total, largest) ==
  /\ v.severity \in {"none", "low", "medium", "high"}
  /\ v.reason.says \in {"no_history", "times", "double", "consistent"}
  /\ v.reason.of \in {of, Missing} /\ v.reason.storable = TRUE
  /\ v.reason = [says |-> v.reason.says, of |-> v.reason.of, storable |-> TRUE]
  /\ count > 0 /\ a * count <= total => v.severity = "none"
  /\ amount <= 0 =>
       /\ v.reason.says = "no_history" => count = 0
       /\ v.reason.says = "consistent" => ~(a * count > 2 * total)
       /\ v.reason.says \in {"times", "double"} =>
            v.reason.of = of /\ a * count > 2 * total
       /\ v.reason.says = "double" => a > 2 * largest

(* The thresholds.                                                         *)
LEMMA ScoreIs ==
  ASSUME NEW amount \in Int, NEW of, NEW count \in Nat, NEW total \in Nat, NEW largest \in Nat,
         NEW v, v = Scored(amount, of, count, total, largest),
         NEW a, a = Size(amount)
  PROVE  Follows(v, amount, a, of, count, total, largest)
<1>. SUFFICES
       /\ v.severity \in {"none", "low", "medium", "high"}
       /\ v.reason.says \in {"no_history", "times", "double", "consistent"}
       /\ v.reason.of \in {of, Missing} /\ v.reason.storable = TRUE
       /\ v.reason = [says |-> v.reason.says, of |-> v.reason.of, storable |-> TRUE]
       /\ count > 0 /\ a * count <= total => v.severity = "none"
       /\ amount <= 0 =>
            /\ v.reason.says = "no_history" => count = 0
            /\ v.reason.says = "consistent" => ~(a * count > 2 * total)
            /\ v.reason.says \in {"times", "double"} =>
                 v.reason.of = of /\ a * count > 2 * total
            /\ v.reason.says = "double" => a > 2 * largest
  BY DEF Follows
<1>1. a \in Nat
  BY AbsIs
<1>. DEFINE m == a * count
<1>2. m \in Nat
  BY <1>1, Products
<1>3. v = CASE count = 0 -> Verdict("none", "no_history", Missing)
            [] count > 0 /\ amount > 0 ->
                 IF m > total * 10 THEN Verdict("low", "times", Missing)
                 ELSE Verdict("none", "consistent", Missing)
            [] OTHER ->
                 IF a > largest * 2 /\ m > total * 4 THEN Verdict("high", "double", of)
                 ELSE IF m > total * 3 THEN Verdict("medium", "times", of)
                 ELSE IF m > total * 2 THEN Verdict("low", "times", of)
                 ELSE Verdict("none", "consistent", Missing)
  BY DEF Scored
<1>4. \A severity, says, name :
        /\ Verdict(severity, says, name).severity = severity
        /\ Verdict(severity, says, name).reason = [says |-> says, of |-> name, storable |-> TRUE]
        /\ Verdict(severity, says, name).reason.says = says
        /\ Verdict(severity, says, name).reason.of = name
        /\ Verdict(severity, says, name).reason.storable = TRUE
  BY DEF Verdict
<1>. HIDE DEF m
<1>5. CASE count = 0
  <2>1. v = Verdict("none", "no_history", Missing)
    BY <1>3, <1>5
  <2>. QED  BY <1>4, <1>5, <2>1
<1>6. CASE count > 0 /\ amount > 0
  <2>1. v = IF m > total * 10 THEN Verdict("low", "times", Missing)
            ELSE Verdict("none", "consistent", Missing)
    BY <1>3, <1>6
  <2>2. m <= total => ~(m > total * 10)
    BY <1>2
  <2>. QED  BY <1>4, <1>6, <2>1, <2>2 DEF m
<1>7. CASE count > 0 /\ ~(amount > 0)
  <2>1. v = IF a > largest * 2 /\ m > total * 4 THEN Verdict("high", "double", of)
            ELSE IF m > total * 3 THEN Verdict("medium", "times", of)
            ELSE IF m > total * 2 THEN Verdict("low", "times", of)
            ELSE Verdict("none", "consistent", Missing)
    BY <1>3, <1>7
  <2>2. m <= total => ~(m > total * 4) /\ ~(m > total * 3) /\ ~(m > total * 2)
    BY <1>2
  <2>3. /\ m > total * 4 => m > 2 * total
        /\ m > total * 3 => m > 2 * total
        /\ m > total * 2 <=> m > 2 * total
        /\ a > largest * 2 => a > 2 * largest
    BY <1>1, <1>2
  <2>4. CASE a > largest * 2 /\ m > total * 4
    BY <1>4, <1>7, <2>1, <2>2, <2>3, <2>4 DEF m
  <2>5. CASE ~(a > largest * 2 /\ m > total * 4) /\ m > total * 3
    BY <1>4, <1>7, <2>1, <2>2, <2>3, <2>5 DEF m
  <2>6. CASE ~(a > largest * 2 /\ m > total * 4) /\ ~(m > total * 3) /\ m > total * 2
    BY <1>4, <1>7, <2>1, <2>2, <2>3, <2>6 DEF m
  <2>7. CASE ~(a > largest * 2 /\ m > total * 4) /\ ~(m > total * 3) /\ ~(m > total * 2)
    BY <1>4, <1>7, <2>1, <2>2, <2>3, <2>7 DEF m
  <2>. QED  BY <2>4, <2>5, <2>6, <2>7
<1>8. count = 0 \/ (count > 0 /\ amount > 0) \/ (count > 0 /\ ~(amount > 0))
  OBVIOUS
<1>. HIDE DEF m
<1>. QED  BY ONLY <1>5, <1>6, <1>7, <1>8, Zenon

-----------------------------------------------------------------------------
(* What a transaction in flight is made of.                                *)
Saying == {"nothing", "no_history", "times", "double", "consistent", "model"}

Keywords == {Keyworded[i] : i \in DOMAIN Keyworded}

Steps == {"idle", "categorize", "assess", "insert", "done"}

Reason == [says : Saying, of : Listed \cup {Missing}, storable : BOOLEAN]

Transaction ==
  [pc : Steps, amount : Amounts \cup {0},
   about : SUBSET Keywords, category : Listed \cup {Missing},
   severity : Severities \cup {Missing},
   reason : Reason,
   status : {0, 201, 500}]

(* A transaction written out, and what the actions make of one.            *)
Tx(pc, amount, about, category, severity, reason, status) ==
  [pc |-> pc, amount |-> amount, about |-> about, category |-> category,
   severity |-> severity, reason |-> reason, status |-> status]

LEMMA TxIs ==
  ASSUME NEW pc, NEW amount, NEW about, NEW category, NEW severity, NEW reason, NEW status,
         NEW q, q = Tx(pc, amount, about, category, severity, reason, status)
  PROVE  /\ q.pc = pc /\ q.amount = amount /\ q.about = about /\ q.category = category
         /\ q.severity = severity /\ q.reason = reason /\ q.status = status
         /\ (pc \in Steps /\ amount \in Amounts \cup {0} /\ about \in SUBSET Keywords
              /\ category \in Listed \cup {Missing}
              /\ severity \in Severities \cup {Missing} /\ reason \in Reason
              /\ status \in {0, 201, 500}) => q \in Transaction
  BY DEF Tx, Transaction
LEMMA TxFields ==
  ASSUME NEW q \in Transaction
  PROVE  /\ q.pc \in Steps /\ q.amount \in Amounts \cup {0} /\ q.about \in SUBSET Keywords
         /\ q.category \in Listed \cup {Missing}
         /\ q.severity \in Severities \cup {Missing} /\ q.reason \in Reason
         /\ q.status \in {0, 201, 500}
         /\ q = Tx(q.pc, q.amount, q.about, q.category, q.severity, q.reason, q.status)
  BY DEF Tx, Transaction

Arrived(q, pc, x, y)  == [q EXCEPT !.pc = pc, !.amount = x, !.category = y]
Asked(q, pc, x, y)    == [q EXCEPT !.pc = pc, !.amount = x, !.about = y]
Sorted(q, pc, x, y)   == [q EXCEPT !.pc = pc, !.about = x, !.category = y]
Assessed(q, pc, x, y) == [q EXCEPT !.pc = pc, !.severity = x, !.reason = y]
Answered(q, pc, x)    == [q EXCEPT !.pc = pc, !.status = x]
Passed(q, pc)         == [q EXCEPT !.pc = pc]

LEMMA TxExcept ==
  ASSUME NEW q \in Transaction, NEW pc, NEW x, NEW y
  PROVE  /\ Sorted(q, pc, x, y) = Tx(pc, q.amount, x, y, q.severity, q.reason, q.status)
         /\ Arrived(q, pc, x, y) = Tx(pc, x, q.about, y, q.severity, q.reason, q.status)
         /\ Asked(q, pc, x, y) = Tx(pc, x, y, q.category, q.severity, q.reason, q.status)
         /\ Assessed(q, pc, x, y) = Tx(pc, q.amount, q.about, q.category, x, y, q.status)
<1>. DEFINE a == [q EXCEPT !.pc = pc]
            b == [a EXCEPT !.about = x]
            c == [a EXCEPT !.amount = x]
            d == [a EXCEPT !.severity = x]
<1>1. a = Tx(pc, q.amount, q.about, q.category, q.severity, q.reason, q.status)
  BY DEF Transaction, Tx
<1>. HIDE DEF a
<1>2. b = Tx(pc, q.amount, x, q.category, q.severity, q.reason, q.status)
  BY <1>1 DEF Tx
<1>3. c = Tx(pc, x, q.about, q.category, q.severity, q.reason, q.status)
  BY <1>1 DEF Tx
<1>4. d = Tx(pc, q.amount, q.about, q.category, x, q.reason, q.status)
  BY <1>1 DEF Tx
<1>. HIDE DEF b, c, d
<1>6. [b EXCEPT !.category = y] = Tx(pc, q.amount, x, y, q.severity, q.reason, q.status)
  BY <1>2 DEF Tx
<1>7. [c EXCEPT !.category = y] = Tx(pc, x, q.about, y, q.severity, q.reason, q.status)
  BY <1>3 DEF Tx
<1>8. [c EXCEPT !.about = y] = Tx(pc, x, y, q.category, q.severity, q.reason, q.status)
  BY <1>3 DEF Tx
<1>9. [d EXCEPT !.reason = y] = Tx(pc, q.amount, q.about, q.category, x, y, q.status)
  BY <1>4 DEF Tx
<1>. QED
  BY <1>6, <1>7, <1>8, <1>9, Zenon DEF a, b, c, d, Sorted, Arrived, Asked, Assessed

LEMMA TxPassed ==
  ASSUME NEW q \in Transaction, NEW pc
  PROVE  Passed(q, pc) = Tx(pc, q.amount, q.about, q.category, q.severity, q.reason, q.status)
  BY DEF Transaction, Tx, Passed

LEMMA TxAnswered ==
  ASSUME NEW q \in Transaction, NEW pc, NEW x
  PROVE  Answered(q, pc, x) = Tx(pc, q.amount, q.about, q.category, q.severity, q.reason, x)
<1>. DEFINE a == Passed(q, pc)
<1>1. a = Tx(pc, q.amount, q.about, q.category, q.severity, q.reason, q.status)
  BY TxPassed
<1>. HIDE DEF a
<1>2. [a EXCEPT !.status = x] = Tx(pc, q.amount, q.about, q.category, q.severity, q.reason, x)
  BY <1>1 DEF Tx
<1>. QED  BY <1>2, Zenon DEF a, Passed, Answered

(* Before the first request there is none.                                 *)
LEMMA IdleIs ==
  /\ NoReason \in Reason /\ NoTransaction = Tx("idle", 0, {}, Missing, Missing, NoReason, 0)
  /\ NoTransaction \in Transaction
<1>1. NoReason \in Reason
  BY DEF NoReason, Reason, Saying
<1>2. NoTransaction = Tx("idle", 0, {}, Missing, Missing, NoReason, 0)
  BY DEF NoTransaction, Tx
<1>3. NoTransaction \in Transaction
  BY <1>1, <1>2, TxIs DEF Steps
<1>. QED  BY <1>1, <1>2, <1>3

(* OrdinaryIsNotFlagged and ReasonIsTrue of a transaction q beside the     *)
(* rows r.                                                                 *)
Measured(r)      == [k \in RowKinds |-> r[k] * Size(k[2])]
SizesIn(r, cs)   == {Size(k[2]) : k \in {j \in cs \X Amounts : r[j] > 0}}
Beyond(r, q, n, cs) == Size(q.amount) * SumOver(r, cs) > n * SumOver(Measured(r), cs)

Ordinary(r, q) ==
  SizesIn(r, {q.category}) # {}
  /\ (\A s \in SizesIn(r, {q.category}) : Size(q.amount) <= s) => q.severity = "none"

Truthful(r, q) ==
  q.amount <= 0 =>
    LET own   == {q.category} \cap Listed
        named == IF q.reason.of = Missing THEN Listed ELSE {q.reason.of}
    IN  CASE q.reason.says = "no_history" -> SizesIn(r, Listed) = {}
          [] q.reason.says = "consistent" ->
               ~Beyond(r, q, 2, IF SizesIn(r, own) # {} THEN own ELSE Listed)
          [] OTHER ->
               /\ q.reason.of = IF SizesIn(r, own) # {} THEN q.category ELSE Missing
               /\ Beyond(r, q, 2, named)
               /\ q.reason.says = "double" =>
                    \A s \in SizesIn(r, named) : Size(q.amount) > 2 * s

(* The invariant.  Until it is assessed a transaction has no severity; the *)
(* stub leaves none without a category, and cuts no reason; what is        *)
(* refused did not fit its columns; and what the stub has said holds until *)
(* the row is stored.                                                      *)
History(r) == r \in [RowKinds -> Nat] /\ SumOver(r, Listed) <= MaxStored

Underway(p, q) ==
  /\ q.pc \in {"categorize", "assess", "insert"} => q.amount \in Amounts
  /\ q.pc \in {"categorize", "assess"} => q.severity = Missing
  /\ p = "stub" /\ q.pc \in {"assess", "insert"} => q.category \in Listed

Refused(p, q, f) ==
  /\ q.pc # "done" => q.status = 0
  /\ f \in BOOLEAN
  /\ q.status = 500 => f = FALSE \/ q.reason.storable = FALSE
  /\ p = "stub" => q.reason.storable = TRUE

Said(p, r, q) ==
  p = "stub" /\ q.pc = "insert" /\ q.severity # Missing => Ordinary(r, q) /\ Truthful(r, q)

Weighed(p, r, q, f) ==
  /\ p \in {"stub", "bedrock"} /\ History(r) /\ q \in Transaction
  /\ Underway(p, q) /\ Refused(p, q, f) /\ Said(p, r, q)

AInv == Weighed(provider, stored, tx, fits)

(* The invariant at the start, and what each step leaves of it.            *)
LEMMA CountedIs == AInv => Counted
  BY DEF AInv, Weighed, History, Counted

LEMMA WeighedInit == AssessmentInit => AInv
<1>. SUFFICES ASSUME AssessmentInit PROVE AInv
  OBVIOUS
<1>1. provider \in {"stub", "bedrock"} /\ stored = [k \in RowKinds |-> 0] /\ tx = NoTransaction
      /\ fits = TRUE
  BY DEF AssessmentInit
<1>2. History(stored)
  <2>1. stored \in [RowKinds -> Nat] /\ \A k \in RowKinds : stored[k] = 0 /\ stored[k] \in Nat
    BY <1>1
  <2>. DEFINE S == Listed \X Amounts
  <2>2. SumOver(stored, Listed) = SumOf(stored, S)
    BY <2>1, SumOverIs
  <2>3. IsFiniteSet(S) /\ \A k \in S : stored[k] = 0
    BY <2>1, ListedIsFinite
  <2>. HIDE DEF S
  <2>4. SumOf(stored, S) = 0
    BY <2>3, SumOfZeros
  <2>. QED  BY <2>1, <2>2, <2>4, AssessmentAssumption DEF History
<1>3. tx \in Transaction /\ tx.pc = "idle" /\ tx.status = 0 /\ tx.reason.storable = TRUE
  BY <1>1, IdleIs DEF NoTransaction, NoReason
<1>. QED  BY <1>1, <1>2, <1>3 DEF AInv, Weighed, Underway, Refused, Said

(* A request: nothing has been said of it yet.                             *)
LEMMA CreateWeighs ==
  ASSUME AInv, Create PROVE AInv'
<1>1. UNCHANGED <<provider, stored>> /\ fits' \in BOOLEAN
  BY DEF Create
<1>2. tx' \in Transaction /\ tx'.pc \in {"assess", "categorize"} /\ tx'.amount \in Amounts
      /\ tx'.severity = Missing /\ (tx'.pc = "assess" => tx'.category \in Listed)
      /\ tx'.status = 0 /\ tx'.reason = NoReason
  <2>1. PICK a \in Amounts :
          \/ \E c \in Listed : tx' = Arrived(NoTransaction, "assess", a, c)
          \/ \E d \in SUBSET Keywords : tx' = Asked(NoTransaction, "categorize", a, d)
    BY Zenon DEF Create, Keywords, Arrived, Asked
  <2>2. /\ NoTransaction.about = {} /\ NoTransaction.category = Missing
        /\ NoTransaction.severity = Missing
        /\ NoTransaction.reason = NoReason /\ NoTransaction.status = 0
    BY IdleIs, TxIs
  <2>3. ASSUME NEW c, NEW d
        PROVE  /\ Arrived(NoTransaction, "assess", a, c)
                    = Tx("assess", a, {}, c, Missing, NoReason, 0)
               /\ Asked(NoTransaction, "categorize", a, d)
                    = Tx("categorize", a, d, Missing, Missing, NoReason, 0)
    <3>1. NoTransaction \in Transaction
      BY IdleIs
    <3>2. Arrived(NoTransaction, "assess", a, c)
            = Tx("assess", a, NoTransaction.about, c, NoTransaction.severity,
                 NoTransaction.reason, NoTransaction.status)
      BY <3>1, TxExcept
    <3>3. Asked(NoTransaction, "categorize", a, d)
            = Tx("categorize", a, d, NoTransaction.category, NoTransaction.severity,
                 NoTransaction.reason, NoTransaction.status)
      BY <3>1, TxExcept
    <3>. QED  BY <2>2, <3>2, <3>3, Zenon
  <2>4. ASSUME NEW c \in Listed, tx' = Arrived(NoTransaction, "assess", a, c)
        PROVE  tx' \in Transaction /\ tx'.pc \in {"assess", "categorize"} /\ tx'.amount \in Amounts
               /\ tx'.severity = Missing /\ (tx'.pc = "assess" => tx'.category \in Listed)
               /\ tx'.status = 0 /\ tx'.reason = NoReason
    BY <2>3, <2>4, IdleIs, TxIs DEF Steps
  <2>5. ASSUME NEW d \in SUBSET Keywords,
               tx' = Asked(NoTransaction, "categorize", a, d)
        PROVE  tx' \in Transaction /\ tx'.pc \in {"assess", "categorize"} /\ tx'.amount \in Amounts
               /\ tx'.severity = Missing /\ (tx'.pc = "assess" => tx'.category \in Listed)
               /\ tx'.status = 0 /\ tx'.reason = NoReason
    BY <2>3, <2>5, IdleIs, TxIs DEF Steps
  <2>. QED  BY <2>1, <2>4, <2>5
<1>3. NoReason.storable = TRUE
  BY DEF NoReason
<1>. QED  BY <1>1, <1>2, <1>3 DEF AInv, Weighed, Underway, Refused, Said

(* The stub always answers, and with a category of the set.                *)
LEMMA StubCategoryIsListed ==
  ASSUME NEW amount, NEW about
  PROVE  StubCategory(amount, about) \in Listed
<1>. DEFINE found == {i \in DOMAIN Keyworded : Keyworded[i] \in about}
<1>1. CASE found # {}
  <2>1. Keyworded \in Seq(Listed)
    BY AssessmentAssumption
  <2>2. found \subseteq Nat /\ found \subseteq DOMAIN Keyworded
    BY <2>1, LenProperties
  <2>3. Min(found) \in found
    <3>. HIDE DEF found
    <3>1. PICK x \in found : \A y \in found : x <= y
      BY <1>1, <2>2, LeastOf
    <3>. QED  BY <3>1 DEF Min
  <2>4. Keyworded[Min(found)] \in Listed
    BY <2>1, <2>2, <2>3, ElementOfSeq, LenProperties
  <2>. QED  BY <1>1, <2>4 DEF StubCategory
<1>2. CASE found = {}
  BY <1>2 DEF StubCategory, Listed
<1>. QED  BY <1>1, <1>2

(* A category of the set, or none if Bedrock fails.                        *)
LEMMA CategorizeWeighs ==
  ASSUME AInv, Categorize PROVE AInv'
<1>1. UNCHANGED <<provider, stored, fits>> /\ tx.pc = "categorize" /\ tx \in Transaction
  BY DEF Categorize, AInv, Weighed
<1>2. \E c \in Listed \cup {Missing} :
        /\ tx' = Sorted(tx, "assess", {}, c)
        /\ provider = "stub" => c \in Listed
  <2>1. CASE provider = "stub"
    BY <2>1, StubCategoryIsListed DEF Categorize, Sorted
  <2>2. CASE provider = "bedrock"
    BY <2>2 DEF Categorize, BedrockCategory, ValidCategory, Listed, Sorted
  <2>. QED  BY <2>1, <2>2 DEF AInv, Weighed
<1>3. tx' \in Transaction /\ tx'.pc = "assess" /\ tx'.amount = tx.amount
      /\ tx'.status = tx.status /\ tx'.reason = tx.reason
      /\ tx'.severity = tx.severity /\ (provider = "stub" => tx'.category \in Listed)
  <2>1. PICK c \in Listed \cup {Missing} :
          /\ tx' = Sorted(tx, "assess", {}, c)
          /\ provider = "stub" => c \in Listed
    BY <1>2
  <2>3. tx' = Tx("assess", tx.amount, {}, c, tx.severity, tx.reason, tx.status)
    BY <1>1, <2>1, TxExcept
  <2>. QED  BY <1>1, <2>1, <2>3, TxFields, TxIs DEF Steps
<1>. QED  BY <1>1, <1>3 DEF AInv, Weighed, Underway, Refused, Said

(* A category is counted when it has rows; rows none of which is smaller   *)
(* than an amount average no less.                                         *)
LEMMA CountsRows ==
  ASSUME Counted, NEW cs \in SUBSET Listed
  PROVE  /\ SumOver(stored, cs) \in Nat /\ SumOver(Magnitudes, cs) \in Nat
         /\ Sizes(cs) = {} <=> SumOver(stored, cs) = 0
<1>1. /\ \A k \in RowKinds : stored[k] \in Nat /\ Magnitudes[k] \in Nat
      /\ IsFiniteSet(cs \X Amounts) /\ cs \X Amounts \subseteq RowKinds
  BY Weights, ListedIsFinite
<1>2. /\ SumOver(stored, cs) \in Nat /\ SumOver(Magnitudes, cs) \in Nat
      /\ SumOver(stored, cs) = SumOf(stored, cs \X Amounts)
      /\ \A k \in cs \X Amounts : stored[k] <= SumOver(stored, cs)
  BY <1>1, SumOverIs
<1>3. Sizes(cs) = {} <=> \A k \in cs \X Amounts : stored[k] = 0
  BY SizesAre
<1>4. ASSUME \A k \in cs \X Amounts : stored[k] = 0 PROVE SumOver(stored, cs) = 0
  BY <1>1, <1>2, <1>4, SumOfZeros
<1>5. ASSUME SumOver(stored, cs) = 0 PROVE \A k \in cs \X Amounts : stored[k] = 0
  <2>1. ASSUME NEW k \in cs \X Amounts PROVE stored[k] = 0
    <3>1. stored[k] \in Nat /\ stored[k] <= SumOver(stored, cs)
      BY <1>1, <1>2
    <3>. QED  BY <1>5, <3>1
  <2>. QED  BY <2>1
<1>. QED  BY <1>2, <1>3, <1>4, <1>5, Zenon

LEMMA Outweighed ==
  ASSUME Counted, NEW cs \in SUBSET Listed,
         NEW a \in Nat, \A s \in Sizes(cs) : a <= s
  PROVE  a * SumOver(stored, cs) <= SumOver(Magnitudes, cs)
<1>. DEFINE S == cs \X Amounts
            v == [k \in S |-> a * stored[k]]
<1>1. IsFiniteSet(S) /\ S \subseteq RowKinds
  BY ListedIsFinite
<1>2. SumOver(stored, cs) = SumOf(stored, S) /\ SumOver(Magnitudes, cs) = SumOf(Magnitudes, S)
  <2>1. \A k \in RowKinds : stored[k] \in Nat /\ Magnitudes[k] \in Nat
    BY Weights
  <2>. QED  BY <2>1, SumOverIs
<1>3. ASSUME NEW k \in S
      PROVE  /\ stored[k] \in Int /\ v[k] \in Int /\ Magnitudes[k] \in Int
             /\ v[k] = a * stored[k] /\ v[k] <= Magnitudes[k]
  <2>1. /\ stored[k] \in Nat /\ Magnitudes[k] \in Nat /\ Size(k[2]) \in Nat
        /\ Magnitudes[k] = stored[k] * Size(k[2])
    BY <1>1, Weights
  <2>2. v[k] = a * stored[k] /\ a * stored[k] \in Nat
    BY <2>1, Products
  <2>3. CASE stored[k] = 0
    BY <2>1, <2>2, <2>3
  <2>4. CASE stored[k] > 0
    <3>1. Size(k[2]) \in Sizes(cs)
      BY <2>4 DEF Sizes
    <3>2. a <= Size(k[2])
      BY <3>1
    <3>. HIDE DEF v, Size, Magnitudes
    <3>3. a * stored[k] <= stored[k] * Size(k[2])
      BY <2>1, <3>2, ProductsGrow
    <3>. QED  BY <2>1, <2>2, <3>3
  <2>. QED  BY <2>1, <2>3, <2>4
<1>. HIDE DEF S, v
<1>4. SumOf(v, S) = a * SumOf(stored, S)
  BY <1>1, <1>3, SumOfMultiples
<1>5. SumOf(v, S) <= SumOf(Magnitudes, S)
  BY <1>1, <1>3, SumOfLess
<1>. QED  BY <1>2, <1>4, <1>5

(* What the stub says is true of the rows it was said of: the thresholds   *)
(* compare with the rows the reason names.                                 *)
LEMMA StubSpeaksTrue ==
  ASSUME Counted, NEW q, q.amount \in Amounts, q.category \in Listed,
         NEW v, v = StubVerdict(q.amount, q.category, Baseline)
  PROVE  /\ v.severity \in Severities /\ v.reason \in Reason /\ v.reason.storable = TRUE
         /\ q.severity = v.severity /\ q.reason = v.reason
              => Ordinary(stored, q) /\ Truthful(stored, q)
<1>. DEFINE c == q.category
            cs == Named(c)
            a == Size(q.amount)
            count == SumOver(stored, cs)
            total == SumOver(Magnitudes, cs)
<1>1. /\ q.amount \in Int /\ a \in Nat /\ c \in Listed /\ c # Missing
      /\ cs \in SUBSET Listed
  <2>1. q.amount \in Int /\ c # Missing
    BY ListedIsFinite, AssessmentAssumption
  <2>. QED  BY <2>1, AbsIs DEF Named
<1>2. count \in Nat /\ total \in Nat /\ (Sizes(cs) = {} <=> count = 0)
  <2>. HIDE DEF cs
  <2>. QED  BY <1>1, CountsRows
<1>3. PICK largest \in Nat :
        /\ v = Scored(q.amount, Label(c), count, total, largest)
        /\ \A s \in Sizes(cs) : s <= largest
  BY <1>1, ComparedIsNamed
<1>4. Sizes(cs) \subseteq Nat
  <2>. HIDE DEF cs
  <2>. QED  BY <1>1, SizesAre
<1>5. count > 0 /\ (\A s \in Sizes(cs) : a <= s) => a * count <= total
  <2>. HIDE DEF cs, a
  <2>. QED  BY <1>1, Outweighed
<1>6. /\ \A x : SizesIn(stored, x) = Sizes(x)
      /\ \A n : Beyond(stored, q, n, cs) <=> a * count > n * total
  BY DEF SizesIn, Sizes, Beyond, Measured, Magnitudes
<1>7. Rated(c) <=> Sizes({c}) # {}
  BY DEF Rated
<1>. HIDE DEF a, count, total, cs
<1>8. /\ v.severity \in Severities
      /\ v.reason.says \in {"no_history", "times", "double", "consistent"}
      /\ v.reason.of \in {Label(c), Missing}
      /\ v.reason = [says |-> v.reason.says, of |-> v.reason.of, storable |-> TRUE]
      /\ count > 0 /\ a * count <= total => v.severity = "none"
      /\ q.amount <= 0 =>
           /\ v.reason.says = "no_history" => count = 0
           /\ v.reason.says = "consistent" => ~(a * count > 2 * total)
           /\ v.reason.says \in {"times", "double"} =>
                v.reason.of = Label(c) /\ a * count > 2 * total
           /\ v.reason.says = "double" => a > 2 * largest
  <2>1. a = Size(q.amount)
    BY DEF a
  <2>2. Follows(v, q.amount, a, Label(c), count, total, largest)
    BY <1>1, <1>2, <1>3, <2>1, ScoreIs
  <2>. QED  BY <2>2, Zenon DEF Severities, Follows
<1>9. v.reason \in Reason /\ v.reason.storable = TRUE
  <2>1. v.reason.of \in Listed \cup {Missing}
    BY <1>1, <1>8 DEF Label
  <2>2. v.reason.says \in Saying
    BY <1>8 DEF Saying
  <2>3. \A says \in Saying, of \in Listed \cup {Missing} :
          [says |-> says, of |-> of, storable |-> TRUE] \in Reason
    BY DEF Reason
  <2>4. v.reason.storable = TRUE
    BY <1>8
  <2>. QED  BY <1>8, <2>1, <2>2, <2>3, <2>4, Zenon
<1>10. ASSUME q.severity = v.severity PROVE Ordinary(stored, q)
  <2>. SUFFICES ASSUME Sizes({c}) # {}, \A s \in Sizes({c}) : a <= s
                PROVE  q.severity = "none"
    BY <1>6 DEF Ordinary, a
  <2>1. cs = {c}
    BY <1>7 DEF cs, Named
  <2>4. Sizes(cs) # {}
    BY <2>1, Zenon
  <2>2. count > 0
    BY <1>2, <2>4
  <2>3. a * count <= total
    BY <1>5, <2>1, <2>2
  <2>. QED  BY <1>8, <1>10, <2>2, <2>3
<1>11. ASSUME q.reason = v.reason PROVE Truthful(stored, q)
  <2>. SUFFICES ASSUME q.amount <= 0 PROVE Truthful(stored, q)
    BY DEF Truthful
  <2>1. {c} \cap Listed = {c}
    BY <1>1
  <2>2. cs = IF SizesIn(stored, {c}) # {} THEN {c} ELSE Listed
    BY <1>6, <1>7 DEF cs, Named
  <2>3. Label(c) = IF SizesIn(stored, {c}) # {} THEN c ELSE Missing
    BY <1>6, <1>7 DEF Label
  <2>4. q.reason.says = "no_history" => SizesIn(stored, Listed) = {}
    BY <1>2, <1>6, <1>8, <1>11, <2>2
  <2>5. q.reason.says = "consistent" => ~Beyond(stored, q, 2, cs)
    BY <1>6, <1>8, <1>11
  <2>6. ASSUME q.reason.says \in {"times", "double"}
        PROVE  /\ q.reason.of = Label(c)
               /\ cs = IF q.reason.of = Missing THEN Listed ELSE {q.reason.of}
               /\ Beyond(stored, q, 2, cs)
               /\ q.reason.says = "double" => \A s \in SizesIn(stored, cs) : a > 2 * s
    <3>1. q.reason.of = Label(c) /\ a * count > 2 * total
      BY <1>8, <1>11, <2>6
    <3>2. cs = IF q.reason.of = Missing THEN Listed ELSE {q.reason.of}
      BY <1>1, <2>2, <2>3, <3>1
    <3>3. q.reason.says = "double" => a > 2 * largest
      BY <1>8, <1>11
    <3>4. q.reason.says = "double" => \A s \in Sizes(cs) : a > 2 * s
      BY <1>1, <1>3, <1>4, <3>3
    <3>5. SizesIn(stored, cs) = Sizes(cs) /\ Beyond(stored, q, 2, cs)
      BY <1>6, <3>1, Zenon
    <3>. QED  BY <3>1, <3>2, <3>4, <3>5, Zenon
  <2>7. q.reason.says \in {"no_history", "times", "double", "consistent"}
    BY <1>8, <1>11
  <2>8. CASE q.reason.says = "no_history"
    BY <2>4, <2>8 DEF Truthful
  <2>9. CASE q.reason.says = "consistent"
    BY <2>1, <2>2, <2>5, <2>9 DEF Truthful
  <2>10. CASE q.reason.says \in {"times", "double"}
    BY <2>1, <2>3, <2>6, <2>10 DEF Truthful, a
  <2>. QED  BY <2>7, <2>8, <2>9, <2>10
<1>. QED  BY <1>8, <1>9, <1>10, <1>11

(* A verdict of the stub, one of the language model, or none.              *)
LEMMA AssessWeighs ==
  ASSUME AInv, Assess PROVE AInv'
<1>1. /\ UNCHANGED <<provider, stored, fits>> /\ tx.pc = "assess" /\ tx \in Transaction
      /\ tx.amount \in Amounts /\ tx.severity = Missing
      /\ provider = "stub" => tx.category \in Listed /\ tx.reason.storable = TRUE
      /\ tx.status = 0
  BY DEF Assess, AInv, Weighed, Underway, Refused
<1>2. \/ /\ provider = "stub"
         /\ LET v == StubVerdict(tx.amount, tx.category, Baseline)
            IN  tx' = Assessed(tx, "insert", v.severity, v.reason)
      \/ /\ provider = "bedrock"
         /\ \E raw, text, nul :
              tx' = Assessed(tx, "insert", BedrockVerdict(raw, text, nul).severity,
                                           BedrockVerdict(raw, text, nul).reason)
      \/ tx' = Passed(tx, "insert")
  <2>. DEFINE Is(v) == tx' = Assessed(tx, "insert", v.severity, v.reason)
  <2>1. \/ provider = "stub" /\ Is(StubVerdict(tx.amount, tx.category, Baseline))
        \/ /\ provider = "bedrock"
           /\ \E reply \in Replies, raw \in Severities \cup {Unlisted}, text \in RuneTexts,
                 nul \in BOOLEAN : Complete(reply) /\ Is(BedrockVerdict(raw, text, nul))
        \/ tx' = Passed(tx, "insert")
    BY Zenon DEF Assess, Assessed, Passed
  <2>2. \/ provider = "bedrock" /\ \E raw, text, nul : Is(BedrockVerdict(raw, text, nul))
        \/ ~(\E reply \in Replies, raw \in Severities \cup {Unlisted}, text \in RuneTexts,
                nul \in BOOLEAN : Complete(reply) /\ Is(BedrockVerdict(raw, text, nul)))
        \/ provider # "bedrock"
    <3>. HIDE DEF Is
    <3>. QED  BY Zenon
  <2>. QED  BY <2>1, <2>2, Zenon
<1>3. ASSUME NEW s \in Severities \cup {Missing}, NEW r \in Reason,
             tx' = Tx("insert", tx.amount, tx.about, tx.category, s, r, tx.status)
      PROVE  /\ tx' \in Transaction /\ tx'.pc = "insert" /\ tx'.amount = tx.amount
             /\ tx'.category = tx.category /\ tx'.severity = s /\ tx'.reason = r
             /\ tx'.status = tx.status
  BY <1>1, <1>3, TxFields, TxIs DEF Steps
<1>4. CASE \E v : /\ provider = "stub"
                  /\ v = StubVerdict(tx.amount, tx.category, Baseline)
                  /\ tx' = Assessed(tx, "insert", v.severity, v.reason)
  <2>1. PICK v : /\ provider = "stub"
                 /\ v = StubVerdict(tx.amount, tx.category, Baseline)
                 /\ tx' = Assessed(tx, "insert", v.severity, v.reason)
    BY <1>4
  <2>2. Counted
    BY CountedIs
  <2>3. v.severity \in Severities /\ v.reason \in Reason /\ v.reason.storable = TRUE
    BY <1>1, <2>1, <2>2, StubSpeaksTrue
  <2>4. tx' = Tx("insert", tx.amount, tx.about, tx.category, v.severity, v.reason, tx.status)
    BY <1>1, <2>1, TxExcept
  <2>5. /\ tx' \in Transaction /\ tx'.pc = "insert" /\ tx'.amount = tx.amount
        /\ tx'.category = tx.category /\ tx'.severity = v.severity /\ tx'.reason = v.reason
        /\ tx'.status = 0
    BY <1>1, <1>3, <2>3, <2>4
  <2>6. PICK q : q = tx'
    OBVIOUS
  <2>7. Ordinary(stored, q) /\ Truthful(stored, q)
    <3>1. /\ q.amount \in Amounts /\ q.category \in Listed
          /\ v = StubVerdict(q.amount, q.category, Baseline)
          /\ q.severity = v.severity /\ q.reason = v.reason
      BY <1>1, <2>1, <2>5, <2>6
    <3>. QED  BY <2>2, <3>1, StubSpeaksTrue
  <2>. QED
    BY <1>1, <2>1, <2>3, <2>5, <2>6, <2>7, SMTT(30) DEF AInv, Weighed, Underway, Refused, Said
<1>5. CASE \E v, raw, text, nul :
             /\ provider = "bedrock" /\ v = BedrockVerdict(raw, text, nul)
             /\ tx' = Assessed(tx, "insert", v.severity, v.reason)
  <2>1. PICK v, raw, text, nul :
          /\ provider = "bedrock" /\ v = BedrockVerdict(raw, text, nul)
          /\ tx' = Assessed(tx, "insert", v.severity, v.reason)
    BY <1>5
  <2>2. v.severity = ValidSeverity(raw)
        /\ v.reason = [says |-> "model", of |-> Missing,
                       storable |-> ~CutsRune(text, MaxReason) /\ ~nul]
    BY <2>1 DEF BedrockVerdict
  <2>3. v.severity \in Severities
    BY <2>2 DEF ValidSeverity, Severities
  <2>4. v.reason \in Reason
    <3>1. CutsRune(text, MaxReason) \in BOOLEAN
      BY DEF CutsRune
    <3>. HIDE DEF CutsRune
    <3>. QED  BY <2>2, <3>1 DEF Reason, Saying
  <2>5. tx' = Tx("insert", tx.amount, tx.about, tx.category, v.severity, v.reason, tx.status)
    BY <1>1, <2>1, TxExcept
  <2>6. /\ tx' \in Transaction /\ tx'.pc = "insert" /\ tx'.amount = tx.amount
        /\ tx'.status = 0
    BY <1>1, <1>3, <2>3, <2>4, <2>5
  <2>. QED  BY <1>1, <2>1, <2>6 DEF AInv, Weighed, Underway, Refused, Said
<1>6. CASE tx' = Passed(tx, "insert")
  <2>1. tx' = Tx("insert", tx.amount, tx.about, tx.category, tx.severity, tx.reason, tx.status)
    BY <1>1, <1>6, TxPassed
  <2>2. /\ tx' \in Transaction /\ tx'.pc = "insert" /\ tx'.amount = tx.amount
        /\ tx'.category = tx.category /\ tx'.severity = Missing
        /\ tx'.reason = tx.reason /\ tx'.status = 0
    BY <1>1, <1>3, <2>1, TxFields
  <2>. QED  BY <1>1, <2>2 DEF AInv, Weighed, Underway, Refused, Said
<1>. QED  BY <1>2, <1>4, <1>5, <1>6, Zenon

(* One more row of a kind.                                                 *)
LEMMA OneMore ==
  ASSUME NEW r \in [RowKinds -> Nat], NEW k \in RowKinds,
         NEW s, s = [r EXCEPT ![k] = r[k] + 1]
  PROVE  s \in [RowKinds -> Nat] /\ SumOver(s, Listed) = SumOver(r, Listed) + 1
<1>. DEFINE S == Listed \X Amounts
            T == S \ {k}
<1>1. IsFiniteSet(S) /\ S = RowKinds /\ k \in S
  BY ListedIsFinite DEF RowKinds
<1>2. /\ s \in [RowKinds -> Nat] /\ s[k] = r[k] + 1
      /\ \A j \in RowKinds : s[j] \in Nat /\ r[j] \in Nat /\ (j # k => s[j] = r[j])
  OBVIOUS
<1>3. SumOver(s, Listed) = SumOf(s, S) /\ SumOver(r, Listed) = SumOf(r, S)
  BY <1>2, SumOverIs
<1>4. \A j \in T : s[j] = r[j]
  BY <1>1, <1>2
<1>5. IsFiniteSet(T)
  BY <1>1, FS_RemoveElement
<1>6. \A j \in S : s[j] \in Int /\ r[j] \in Int
  BY <1>1, <1>2
<1>7. \A j \in T : r[j] \in Int
  BY <1>6
<1>. HIDE DEF S
<1>8. SumOf(s, S) = s[k] + SumOf(s, T) /\ SumOf(r, S) = r[k] + SumOf(r, T)
  <2>1. (\A j \in S : s[j] \in Int) /\ (\A j \in S : r[j] \in Int)
    BY <1>6
  <2>2. SumOf(s, S) = s[k] + SumOf(s, S \ {k})
    BY <1>1, <2>1, SumOfRemove
  <2>3. SumOf(r, S) = r[k] + SumOf(r, S \ {k})
    BY <1>1, <2>1, SumOfRemove
  <2>. QED  BY <2>2, <2>3
<1>. HIDE DEF T
<1>9. SumOf(s, T) = SumOf(r, T) /\ SumOf(r, T) \in Int
  BY <1>4, <1>5, <1>7, SumOfSame, SumOfInt
<1>. QED  BY <1>2, <1>3, <1>8, <1>9

(* A row more, below the bound; or a refusal.                              *)
LEMMA InsertWeighs ==
  ASSUME AInv, Insert PROVE AInv'
<1>1. /\ provider' = provider /\ provider \in {"stub", "bedrock"}
      /\ fits' = fits /\ fits \in BOOLEAN
      /\ tx.pc = "insert" /\ tx \in Transaction /\ tx.amount \in Amounts /\ History(stored)
      /\ provider = "stub" => tx.reason.storable = TRUE
  BY DEF Insert, AInv, Weighed, Underway, Refused
<1>2. /\ tx' \in Transaction /\ tx'.pc = "done" /\ tx'.reason = tx.reason
      /\ tx'.status = 500 => fits = FALSE \/ tx.reason.storable = FALSE
  <2>1. \/ tx' = Answered(tx, "done", 201)
        \/ ~Accepted /\ tx' = Answered(tx, "done", 500)
    BY DEF Insert, Answered
  <2>2. PICK status \in {201, 500} :
          tx' = Answered(tx, "done", status) /\ (status = 500 => ~Accepted)
    BY <2>1
  <2>3. tx' = Tx("done", tx.amount, tx.about, tx.category, tx.severity, tx.reason, status)
    BY <1>1, <2>2, TxAnswered
  <2>4. tx' \in Transaction /\ tx'.pc = "done" /\ tx'.reason = tx.reason /\ tx'.status = status
    BY <1>1, <2>3, TxFields, TxIs DEF Steps
  <2>5. ~Accepted => fits = FALSE \/ tx.reason.storable = FALSE
    <3>1. tx.category \in Listed \cup {Missing} /\ tx.severity \in Severities \cup {Missing}
          /\ tx.reason.storable \in BOOLEAN
      BY <1>1, TxFields DEF Reason
    <3>2. Category \in Listed
      BY <3>1 DEF Category, Listed
    <3>. QED  BY <1>1, <3>1, <3>2 DEF Accepted
  <2>. QED  BY <2>2, <2>4, <2>5
<1>3. History(stored')
  <2>1. CASE UNCHANGED stored
    BY <1>1, <2>1
  <2>2. CASE /\ Accepted /\ SumOver(stored, Listed) < MaxStored
             /\ stored' = [stored EXCEPT ![<<Category, tx.amount>>] = @ + 1]
    <3>. DEFINE k == <<Category, tx.amount>>
    <3>1. k \in RowKinds
      BY <1>1, <2>2 DEF Accepted, RowKinds
    <3>2. stored \in [RowKinds -> Nat]
      BY <1>1 DEF History
    <3>3. stored' = [stored EXCEPT ![k] = stored[k] + 1]
      BY <2>2, <3>1, <3>2
    <3>. HIDE DEF k
    <3>4. /\ stored' \in [RowKinds -> Nat]
          /\ SumOver(stored', Listed) = SumOver(stored, Listed) + 1
      BY <3>1, <3>2, <3>3, OneMore
    <3>5. SumOver(stored, Listed) \in Nat /\ MaxStored \in Nat
      <4>1. \A j \in RowKinds : stored[j] \in Nat
        BY <3>2
      <4>. QED  BY <4>1, SumOverIs, AssessmentAssumption
    <3>. QED  BY <2>2, <3>4, <3>5 DEF History
  <2>. QED  BY <2>1, <2>2 DEF Insert
<1>. QED  BY <1>1, <1>2, <1>3 DEF AInv, Weighed, Underway, Refused, Said

(* In every state, whoever answers, a verdict of the stub that is about to *)
(* be stored is true of the rows it was drawn from.                        *)
THEOREM AssessmentInvariant == AssessmentSpec => []AInv
<1>1. AssessmentInit => AInv
  BY WeighedInit
<1>2. AInv /\ [AssessmentNext]_assessmentVars => AInv'
  <2>. SUFFICES ASSUME AInv, [AssessmentNext]_assessmentVars PROVE AInv'
    OBVIOUS
  <2>1. CASE Create
    BY <2>1, CreateWeighs
  <2>2. CASE Categorize
    BY <2>2, CategorizeWeighs
  <2>3. CASE Assess
    BY <2>3, AssessWeighs
  <2>4. CASE Insert
    BY <2>4, InsertWeighs
  <2>5. CASE Full \/ UNCHANGED assessmentVars
    <3>1. UNCHANGED <<provider, stored, tx, fits>>
      BY <2>5 DEF Full, assessmentVars
    <3>. QED  BY <3>1 DEF AInv
  <2>. QED  BY <2>1, <2>2, <2>3, <2>4, <2>5 DEF AssessmentNext
<1>. QED  BY <1>1, <1>2, PTL DEF AssessmentSpec

(* Whatever the language model says, category and severity are such as the *)
(* tables accept, and no more rows are counted than there may be.          *)
THEOREM AssessmentTypeCorrect == AssessmentSpec => []AssessmentTypeOK
<1>1. AInv => AssessmentTypeOK
  <2>. SUFFICES ASSUME AInv PROVE AssessmentTypeOK
    OBVIOUS
  <2>1. stored \in [RowKinds -> 0..MaxStored]
    <3>1. /\ stored \in [RowKinds -> Nat] /\ \A k \in RowKinds : stored[k] \in Nat
          /\ SumOver(stored, Listed) <= MaxStored /\ MaxStored \in Nat
      BY AssessmentAssumption DEF AInv, Weighed, History
    <3>2. \A k \in RowKinds : stored[k] <= SumOver(stored, Listed)
          /\ SumOver(stored, Listed) \in Nat
      BY <3>1, SumOverIs DEF RowKinds
    <3>3. \A k \in RowKinds : stored[k] \in 0..MaxStored
      BY <3>1, <3>2
    <3>. QED  BY <3>1, <3>3
  <2>2. tx \in Transaction /\ provider \in {"stub", "bedrock"} /\ fits \in BOOLEAN
    BY DEF AInv, Weighed, Refused
  <2>3. tx.reason.says \in Saying
    BY <2>2, TxFields DEF Reason
  <2>. QED  BY <2>1, <2>2, <2>3, TxFields DEF AssessmentTypeOK, Steps, Saying
<1>. QED  BY <1>1, AssessmentInvariant, PTL

(* All that can cost a user the transaction, the database being there: an  *)
(* amount or a description that its columns cannot hold, which the handler *)
(* does not look for (transactions.go:122); or a reason that a language    *)
(* model gave, with a NUL in it or cut within a rune (ai.go:210).  No      *)
(* failed call, no answer outside the closed sets and nothing the stub     *)
(* says does.                                                              *)
THEOREM OnlyWhatNoColumnHoldsIsRefused ==
  AssessmentSpec =>
    [](tx.status = 500 => ~fits \/ (provider = "bedrock" /\ ~tx.reason.storable))
<1>1. AInv => (tx.status = 500 => ~fits \/ (provider = "bedrock" /\ ~tx.reason.storable))
  BY DEF AInv, Weighed, Refused
<1>. QED  BY <1>1, AssessmentInvariant, PTL

(* A payment no larger than every earlier one of its category is ordinary  *)
(* (stub.go:133, "must not be flagged for that"): it is compared with its  *)
(* own category alone, whose mean cannot be smaller than its smallest row. *)
THEOREM AnOrdinaryPaymentIsNotFlagged ==
  AssessmentSpec => []OrdinaryIsNotFlagged
<1>1. AInv => OrdinaryIsNotFlagged
  BY DEF AInv, Weighed, Said, Ordinary, SizesIn, OrdinaryIsNotFlagged, Judged, Sizes
<1>. QED  BY <1>1, AssessmentInvariant, PTL

(* The reason stored with a transaction "describes a comparison that       *)
(* happened" (stub.go:141): the rows it names are those that were          *)
(* compared, the amount stands to them as it says, and a category is named *)
(* exactly when it has rows.                                               *)
THEOREM AReasonIsTrue == AssessmentSpec => []ReasonIsTrue
<1>1. AInv => ReasonIsTrue
  BY DEF AInv, Weighed, Said, Truthful, SizesIn, Beyond, Measured,
         ReasonIsTrue, Judged, Sizes, Exceeds, Magnitudes
<1>. QED  BY <1>1, AssessmentInvariant, PTL

=============================================================================
