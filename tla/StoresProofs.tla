---------------------------- MODULE StoresProofs ----------------------------
(* Proofs about each part of Stores, for any values of its constants.       *)
EXTENDS Stores, WellFoundedInduction, FiniteSetTheorems, TLAPS

(* A nonempty set of numbers has a least one. *)
LEMMA LeastExists ==
    ASSUME NEW S \in SUBSET Nat, S # {}
    PROVE  \E x \in S : \A y \in S : x <= y
<1> DEFINE R == OpToRel(<, Nat)
<1>1. IsWellFoundedOn(R, Nat)
  BY NatLessThanWellFounded
<1>2. \E x \in S : \A y \in S : ~ (<<y, x>> \in R)
  <2> HIDE DEF R
  <2> QED
    BY <1>1, WFMin, Zenon
<1>3. \A x, y \in Nat : ~ (<<y, x>> \in R) => x <= y
  BY DEF OpToRel
<1> QED
  BY <1>2, <1>3

-----------------------------------------------------------------------------
(* Sums. *)

(* A set of numbers that holds whatever follows its members is all of them. *)
LEMMA EveryNumber ==
    ASSUME NEW N \in SUBSET Nat,
           \A n \in Nat : (\A m \in Nat : m < n => m \in N) => n \in N
    PROVE  N = Nat
<1> SUFFICES ASSUME Nat \ N # {} PROVE FALSE
  OBVIOUS
<1>1. PICK n \in Nat \ N : \A m \in Nat \ N : n <= m
  BY LeastExists
<1>2. \A m \in Nat : m < n => m \in N
  BY <1>1
<1> QED
  BY <1>1, <1>2

(* What holds of no element, and of one more than any it holds of, holds of *)
(* a finite set.                                                            *)
LEMMA EveryFiniteSet ==
    ASSUME NEW S, IsFiniteSet(S), NEW P \in SUBSET SUBSET S,
           {} \in P, \A T \in P, x \in S : x \notin T => T \cup {x} \in P
    PROVE  S \in P
<1> DEFINE N == {n \in Nat : \A T \in SUBSET S : Cardinality(T) = n => T \in P}
<1>1. ASSUME NEW n \in Nat, \A m \in Nat : m < n => m \in N PROVE n \in N
  <2> SUFFICES ASSUME NEW T \in SUBSET S, Cardinality(T) = n PROVE T \in P
    OBVIOUS
  <2>1. IsFiniteSet(T)
    BY FS_Subset
  <2>2. CASE T = {}
    BY <2>2
  <2>3. CASE T # {}
    <3>1. PICK x : x \in T
      BY <2>3
    <3>2. Cardinality(T \ {x}) = n - 1 /\ n # 0
      BY <2>1, <2>3, <3>1, FS_RemoveElement, FS_EmptySet
    <3>3. n - 1 \in Nat /\ n - 1 < n
      BY <3>2
    <3>4. T \ {x} \in P
      BY <1>1, <3>2, <3>3
    <3>5. (T \ {x}) \cup {x} \in P
      BY <3>1, <3>4
    <3>6. (T \ {x}) \cup {x} = T
      BY <3>1
    <3> QED
      BY <3>5, <3>6
  <2> QED
    BY <2>2, <2>3
<1>2. N = Nat
  <2> HIDE DEF N
  <2>1. N \in SUBSET Nat
    BY DEF N
  <2> QED
    BY <1>1, <2>1, EveryNumber
<1>3. Cardinality(S) \in N
  BY <1>2, FS_CardinalityType
<1> QED
  BY <1>3

(* The element a sum takes next, and what the sums over some sets are to be. *)
Taken(T) == CHOOSE x \in T : TRUE

SumsOf(f, D, g) ==
    g = [T \in D |-> IF T = {} THEN 0 ELSE f[Taken(T)] + g[T \ {Taken(T)}]]

AllSums(f, S, g) == SumsOf(f, SUBSET S, g)

LEMMA TakenIn == ASSUME NEW T, T # {} PROVE Taken(T) \in T
BY DEF Taken

LEMMA SumIs ==
    ASSUME NEW f, NEW S
    PROVE  Views!SumOver(f, S) = (CHOOSE g : AllSums(f, S, g))[S]
BY DEF Views!SumOver, Views!MapThenSumSet, Views!MapThenFoldSet, AllSums, SumsOf, Taken

LEMMA SumsExist ==
    ASSUME NEW f, NEW S, IsFiniteSet(S)
    PROVE  \E g : AllSums(f, S, g)
<1> DEFINE Upto(n) == {T \in SUBSET S : Cardinality(T) <= n}
           N == {n \in Nat : \E g : SumsOf(f, Upto(n), g)}
<1>0. \A T \in SUBSET S : /\ IsFiniteSet(T) /\ Cardinality(T) \in Nat
                          /\ Cardinality(T) = 0 <=> T = {}
  BY FS_Subset, FS_CardinalityType, FS_EmptySet
<1>1. ASSUME NEW n \in Nat, \A m \in Nat : m < n => m \in N PROVE n \in N
  <2>1. CASE n = 0
    <3>1. \A T \in Upto(n) : T = {}
      BY <1>0, <2>1
    <3>2. SumsOf(f, Upto(n), [T \in Upto(n) |-> 0])
      BY <3>1 DEF SumsOf
    <3> QED
      BY <3>2
  <2>2. CASE n # 0
    <3>1. n - 1 \in Nat /\ n - 1 < n
      BY <2>2
    <3>2. PICK g : SumsOf(f, Upto(n - 1), g)
      BY <1>1, <3>1
    <3> DEFINE h == [T \in Upto(n) |-> IF T = {} THEN 0 ELSE f[Taken(T)] + g[T \ {Taken(T)}]]
    <3>3. \A T \in Upto(n) : T # {} => T \ {Taken(T)} \in Upto(n - 1)
      <4> SUFFICES ASSUME NEW T \in Upto(n), T # {} PROVE T \ {Taken(T)} \in Upto(n - 1)
        OBVIOUS
      <4>1. Cardinality(T \ {Taken(T)}) = Cardinality(T) - 1
        BY <1>0, TakenIn, FS_RemoveElement
      <4> QED
        BY <1>0, <4>1
    <3>4. \A T \in Upto(n - 1) : T \in Upto(n) /\ h[T] = g[T]
      <4>1. Upto(n - 1) \subseteq Upto(n)
        BY <1>0
      <4>2. \A T \in Upto(n - 1) : g[T] = IF T = {} THEN 0 ELSE f[Taken(T)] + g[T \ {Taken(T)}]
        BY <3>2, Zenon DEF SumsOf
      <4> HIDE DEF Upto
      <4> QED
        BY <4>1, <4>2
    <3>5. SumsOf(f, Upto(n), h)
      <4> HIDE DEF Upto
      <4> QED
        BY <3>3, <3>4 DEF SumsOf
    <3> QED
      BY <3>5
  <2> QED
    BY <2>1, <2>2
<1>2. N = Nat
  <2> HIDE DEF N
  <2>1. N \in SUBSET Nat
    BY DEF N
  <2> QED
    BY <1>1, <2>1, EveryNumber
<1>3. PICK g : SumsOf(f, Upto(Cardinality(S)), g)
  BY <1>2, FS_CardinalityType
<1>4. Upto(Cardinality(S)) = SUBSET S
  BY FS_Subset
<1> QED
  BY <1>3, <1>4 DEF AllSums

(* A part's sum is the same, of which ever set it is a part. *)
LEMMA SumsAgree ==
    ASSUME NEW f, NEW S, IsFiniteSet(S), NEW R \in SUBSET S,
           NEW g, AllSums(f, S, g), NEW h, AllSums(f, R, h)
    PROVE  g[R] = h[R]
<1> DEFINE N == {n \in Nat : \A T \in SUBSET R : Cardinality(T) = n => g[T] = h[T]}
<1>1. ASSUME NEW n \in Nat, \A m \in Nat : m < n => m \in N PROVE n \in N
  <2> SUFFICES ASSUME NEW T \in SUBSET R, Cardinality(T) = n PROVE g[T] = h[T]
    OBVIOUS
  <2>0. IsFiniteSet(T) /\ T \in SUBSET S
    BY FS_Subset
  <2>1. g[T] = IF T = {} THEN 0 ELSE f[Taken(T)] + g[T \ {Taken(T)}]
    BY <2>0, Zenon DEF AllSums, SumsOf
  <2>2. h[T] = IF T = {} THEN 0 ELSE f[Taken(T)] + h[T \ {Taken(T)}]
    BY Zenon DEF AllSums, SumsOf
  <2>3. CASE T # {}
    <3>1. Cardinality(T \ {Taken(T)}) = n - 1 /\ n # 0
      BY <2>0, <2>3, TakenIn, FS_RemoveElement, FS_EmptySet
    <3>2. n - 1 \in Nat /\ n - 1 < n
      BY <3>1
    <3>3. g[T \ {Taken(T)}] = h[T \ {Taken(T)}]
      BY <1>1, <3>1, <3>2
    <3> QED
      BY <2>1, <2>2, <2>3, <3>3
  <2> QED
    BY <2>1, <2>2, <2>3
<1>2. N = Nat
  <2> HIDE DEF N
  <2>1. N \in SUBSET Nat
    BY DEF N
  <2> QED
    BY <1>1, <2>1, EveryNumber
<1>3. Cardinality(R) \in N
  BY <1>2, FS_Subset, FS_CardinalityType
<1> QED
  BY <1>3

LEMMA SumStep ==
    ASSUME NEW f, NEW S, IsFiniteSet(S)
    PROVE  Views!SumOver(f, S) =
               IF S = {} THEN 0 ELSE f[Taken(S)] + Views!SumOver(f, S \ {Taken(S)})
<1>1. PICK R \in SUBSET S : R = S \ {Taken(S)}
  OBVIOUS
<1>2. IsFiniteSet(R)
  BY FS_Subset
<1>3. PICK g : AllSums(f, S, g) /\ Views!SumOver(f, S) = g[S]
  BY SumsExist, SumIs, Zenon
<1>4. PICK h : AllSums(f, R, h) /\ Views!SumOver(f, R) = h[R]
  BY <1>2, SumsExist, SumIs, Zenon
<1>5. g[R] = h[R]
  BY <1>3, <1>4, SumsAgree
<1>6. S \in SUBSET S
  OBVIOUS
<1>7. g[S] = IF S = {} THEN 0 ELSE f[Taken(S)] + g[R]
  BY <1>1, <1>3, <1>6, Zenon DEF AllSums, SumsOf
<1> QED
  BY <1>1, <1>3, <1>4, <1>5, <1>7

LEMMA SumType ==
    ASSUME NEW f, NEW S, IsFiniteSet(S), \A x \in S : f[x] \in Int
    PROVE  Views!SumOver(f, S) \in Int
<1> DEFINE N == {n \in Nat : \A T \in SUBSET S : Cardinality(T) = n => Views!SumOver(f, T) \in Int}
<1>1. ASSUME NEW n \in Nat, \A m \in Nat : m < n => m \in N PROVE n \in N
  <2> SUFFICES ASSUME NEW T \in SUBSET S, Cardinality(T) = n PROVE Views!SumOver(f, T) \in Int
    OBVIOUS
  <2>1. IsFiniteSet(T)
    BY FS_Subset
  <2>2. CASE T # {}
    <3>1. Cardinality(T \ {Taken(T)}) = n - 1 /\ n # 0
      BY <2>1, <2>2, TakenIn, FS_RemoveElement, FS_EmptySet
    <3>2. n - 1 \in Nat /\ n - 1 < n
      BY <3>1
    <3>3. Views!SumOver(f, T \ {Taken(T)}) \in Int
      BY <1>1, <3>1, <3>2
    <3>4. f[Taken(T)] \in Int
      BY <2>2, TakenIn
    <3> QED
      BY <2>1, <2>2, <3>3, <3>4, SumStep
  <2>3. CASE T = {}
    <3>1. Views!SumOver(f, T) = 0
      BY <2>1, <2>3, SumStep, Zenon
    <3> QED
      BY <3>1
  <2> QED
    BY <2>2, <2>3
<1>2. N = Nat
  <2> HIDE DEF N
  <2>1. N \in SUBSET Nat
    BY DEF N
  <2> QED
    BY <1>1, <2>1, EveryNumber
<1>3. Cardinality(S) \in N
  BY <1>2, FS_CardinalityType
<1> QED
  BY <1>3

(* Whichever element is taken first, the sum is the same. *)
LEMMA SumTakes ==
    ASSUME NEW f, NEW S, IsFiniteSet(S), \A x \in S : f[x] \in Int, NEW x \in S
    PROVE  Views!SumOver(f, S) = f[x] + Views!SumOver(f, S \ {x})
<1> DEFINE N == {n \in Nat : \A T \in SUBSET S : Cardinality(T) = n =>
                    \A y \in T : Views!SumOver(f, T) = f[y] + Views!SumOver(f, T \ {y})}
<1>1. ASSUME NEW n \in Nat, \A m \in Nat : m < n => m \in N PROVE n \in N
  <2> SUFFICES ASSUME NEW T \in SUBSET S, Cardinality(T) = n, NEW y \in T
               PROVE  Views!SumOver(f, T) = f[y] + Views!SumOver(f, T \ {y})
    OBVIOUS
  <2> DEFINE z == Taken(T)
  <2>1. IsFiniteSet(T) /\ z \in T
    BY TakenIn, FS_Subset
  <2>2. Views!SumOver(f, T) = f[z] + Views!SumOver(f, T \ {z})
    BY <2>1, SumStep
  <2> HIDE DEF z
  <2>3. CASE z # y
    <3>1. /\ IsFiniteSet(T \ {z}) /\ Cardinality(T \ {z}) = n - 1
          /\ IsFiniteSet(T \ {y}) /\ Cardinality(T \ {y}) = n - 1
          /\ n # 0
      BY <2>1, FS_RemoveElement, FS_EmptySet
    <3>2. n - 1 \in N
      BY <1>1, <3>1
    <3>3. /\ Views!SumOver(f, T \ {z}) = f[y] + Views!SumOver(f, (T \ {z}) \ {y})
          /\ Views!SumOver(f, T \ {y}) = f[z] + Views!SumOver(f, (T \ {y}) \ {z})
      BY <2>1, <2>3, <3>1, <3>2
    <3>4. (T \ {z}) \ {y} = (T \ {y}) \ {z} /\ IsFiniteSet((T \ {y}) \ {z})
      BY <3>1, FS_RemoveElement
    <3>5. Views!SumOver(f, (T \ {y}) \ {z}) \in Int
      BY <3>4, SumType
    <3>6. PICK a \in Int, b \in Int, c \in Int :
              a = f[y] /\ b = f[z] /\ c = Views!SumOver(f, (T \ {y}) \ {z})
      BY <2>1, <3>5
    <3>7. Views!SumOver(f, T) = b + (a + c) /\ f[y] + Views!SumOver(f, T \ {y}) = a + (b + c)
      BY <2>2, <3>3, <3>4, <3>6
    <3>8. b + (a + c) = a + (b + c)
      OBVIOUS
    <3> QED
      BY <3>7, <3>8
  <2> QED
    BY <2>2, <2>3
<1>2. N = Nat
  <2> HIDE DEF N
  <2>1. N \in SUBSET Nat
    BY DEF N
  <2> QED
    BY <1>1, <2>1, EveryNumber
<1>3. Cardinality(S) \in N
  BY <1>2, FS_CardinalityType
<1> QED
  BY <1>3

(* What a sum over two parts is, and over any finite number of them. *)
LEMMA SumJoins ==
    ASSUME NEW f, NEW A, IsFiniteSet(A), NEW B, IsFiniteSet(B), A \cap B = {},
           \A x \in A \cup B : f[x] \in Int
    PROVE  Views!SumOver(f, A \cup B) = Views!SumOver(f, A) + Views!SumOver(f, B)
<1> DEFINE P == {T \in SUBSET B :
                    Views!SumOver(f, A \cup T) = Views!SumOver(f, A) + Views!SumOver(f, T)}
<1>0. Views!SumOver(f, A) \in Int
  BY SumType
<1>1. {} \in P
  <2>1. Views!SumOver(f, {}) = 0
    BY FS_EmptySet, SumStep, Zenon
  <2>2. A \cup {} = A
    OBVIOUS
  <2> QED
    BY <1>0, <2>1, <2>2
<1>2. ASSUME NEW T \in P, NEW x \in B, x \notin T PROVE T \cup {x} \in P
  <2>1. IsFiniteSet(T) /\ IsFiniteSet(T \cup {x}) /\ IsFiniteSet(A \cup (T \cup {x}))
    <3>1. IsFiniteSet(T)
      BY FS_Subset
    <3>2. IsFiniteSet(T \cup {x})
      BY <3>1, FS_AddElement
    <3> QED
      BY <3>1, <3>2, FS_Union
  <2>2. (T \cup {x}) \ {x} = T /\ (A \cup (T \cup {x})) \ {x} = A \cup T
    BY <1>2
  <2>3. x \in T \cup {x} /\ x \in A \cup (T \cup {x}) /\ T \cup {x} \in SUBSET B
    OBVIOUS
  <2>4. \A y \in A \cup (T \cup {x}) : f[y] \in Int
    OBVIOUS
  <2>5. Views!SumOver(f, T \cup {x}) = f[x] + Views!SumOver(f, T)
    BY <2>1, <2>2, <2>3, <2>4, SumTakes
  <2>6. Views!SumOver(f, A \cup (T \cup {x})) = f[x] + Views!SumOver(f, A \cup T)
    BY <2>1, <2>2, <2>3, <2>4, SumTakes
  <2>7. Views!SumOver(f, T) \in Int /\ f[x] \in Int
    BY <2>1, SumType
  <2>8. Views!SumOver(f, A \cup T) = Views!SumOver(f, A) + Views!SumOver(f, T)
    OBVIOUS
  <2> QED
    BY <1>0, <2>3, <2>5, <2>6, <2>7, <2>8
<1>3. P \in SUBSET SUBSET B
  OBVIOUS
<1> HIDE DEF P
<1>4. B \in P
  BY <1>1, <1>2, <1>3, EveryFiniteSet
<1> QED
  BY <1>4 DEF P

LEMMA SumOfParts ==
    ASSUME NEW C, IsFiniteSet(C), NEW part, NEW f, NEW g,
           \A c \in C : IsFiniteSet(part[c]) /\ g[c] = Views!SumOver(f, part[c]),
           \A c \in C : \A x \in part[c] : f[x] \in Int,
           \A c, d \in C : c # d => part[c] \cap part[d] = {}
    PROVE  /\ IsFiniteSet(UNION {part[c] : c \in C})
           /\ Views!SumOver(f, UNION {part[c] : c \in C}) = Views!SumOver(g, C)
<1> DEFINE All(D) == UNION {part[c] : c \in D}
           P == {D \in SUBSET C : IsFiniteSet(All(D)) /\ Views!SumOver(f, All(D)) = Views!SumOver(g, D)}
<1>1. {} \in P
  <2>1. Views!SumOver(f, {}) = 0 /\ Views!SumOver(g, {}) = 0 /\ IsFiniteSet({})
    BY FS_EmptySet, SumStep, Zenon
  <2>2. All({}) = {}
    OBVIOUS
  <2> QED
    BY <2>1, <2>2
<1>2. ASSUME NEW D \in P, NEW c \in C, c \notin D PROVE D \cup {c} \in P
  <2>1. IsFiniteSet(D) /\ IsFiniteSet(D \cup {c}) /\ IsFiniteSet(part[c])
    BY FS_Subset, FS_AddElement
  <2>2. PICK U : U = All(D)
    OBVIOUS
  <2>3. PICK V : V = All(D \cup {c})
    OBVIOUS
  <2>4. V = U \cup part[c] /\ U \cap part[c] = {}
    BY <1>2, <2>2, <2>3
  <2>5. IsFiniteSet(U) /\ Views!SumOver(f, U) = Views!SumOver(g, D)
    BY <2>2
  <2>6. \A x \in U \cup part[c] : f[x] \in Int
    BY <2>2
  <2>7. IsFiniteSet(V) /\ Views!SumOver(f, V) = Views!SumOver(f, U) + Views!SumOver(f, part[c])
    <3>1. PICK W : W = part[c]
      OBVIOUS
    <3>2. IsFiniteSet(U) /\ IsFiniteSet(W) /\ U \cap W = {} /\ V = U \cup W
      BY <2>1, <2>4, <2>5, <3>1
    <3>3. \A x \in U \cup W : f[x] \in Int
      BY <2>6, <3>1
    <3>4. Views!SumOver(f, U \cup W) = Views!SumOver(f, U) + Views!SumOver(f, W)
      BY <3>2, <3>3, SumJoins
    <3>5. IsFiniteSet(U \cup W)
      BY <3>2, FS_Union
    <3> QED
      BY <3>1, <3>2, <3>4, <3>5
  <2>8. \A d \in D \cup {c} : g[d] \in Int
    <3> SUFFICES ASSUME NEW d \in C PROVE g[d] \in Int
      OBVIOUS
    <3>1. Views!SumOver(f, part[d]) \in Int
      BY SumType
    <3> QED
      BY <3>1
  <2>9. Views!SumOver(g, D \cup {c}) = g[c] + Views!SumOver(g, (D \cup {c}) \ {c})
    BY <2>1, <2>8, SumTakes
  <2>10. (D \cup {c}) \ {c} = D
    BY <1>2
  <2>11. Views!SumOver(g, D) \in Int /\ g[c] \in Int
    BY <2>1, <2>8, SumType
  <2>12. Views!SumOver(f, V) = Views!SumOver(g, D \cup {c})
    <3>1. PICK a \in Int, b \in Int : a = g[c] /\ b = Views!SumOver(g, D)
      BY <2>11
    <3>2. Views!SumOver(f, V) = b + a /\ Views!SumOver(g, D \cup {c}) = a + b
      BY <2>5, <2>7, <2>9, <2>10, <3>1
    <3> QED
      BY <3>1, <3>2
  <2>13. D \cup {c} \in SUBSET C
    OBVIOUS
  <2> QED
    BY <2>3, <2>7, <2>12, <2>13
<1>3. P \in SUBSET SUBSET C
  OBVIOUS
<1>4. C \in P
  <2> HIDE DEF P
  <2> QED
    BY <1>1, <1>2, <1>3, EveryFiniteSet
<1> QED
  BY <1>4

-----------------------------------------------------------------------------
(* Backup. *)
Outcome == {"none", "done", "thrown", "undone", "ruined"}

CallRecord ==
    [at : {"idle"} \cup Holding, op : {"create", "delete", "restore"},
     backup : BackupId \cup {None},
     sections : SUBSET Section, left : SUBSET Section,
     got : [Section -> Content \cup {None}],
     next : SUBSET BackupId,
     outcome : Outcome,
     before : [Section -> Content \cup {None}], touched : SUBSET Section]

(* The lock: a process in a call has it, and no other process is in one.    *)
Exclusive ==
    /\ \A p \in BackupProcess : proc[p].at # "idle" => locked
    /\ \A p, q \in BackupProcess : proc[p].at # "idle" /\ proc[q].at # "idle" => p = q

(* The stages each operation goes through. *)
Staged(k) ==
    /\ k.at # "idle" => k.backup \in BackupId
    /\ k.op = "create" => k.at \in {"idle", "collecting", "persisting", "releasing"}
    /\ k.op = "delete" => k.at \in {"removing", "persisting", "releasing"}
    /\ k.op = "restore" => k.at \in {"saving", "clearing", "writing", "undoing", "persisting",
                                     "releasing"}

Stages == \A p \in BackupProcess : Staged(proc[p])

(* How far a restore has come with a section nobody else has written.       *)
Progress(k, s) ==
    LET entry == archive[k.backup].entries[s] IN
    /\ s \notin k.sections => section[s] = k.before[s]
    /\ s \in k.sections =>
          /\ k.at = "saving" => /\ section[s] = k.before[s]
                                /\ s \notin k.left => k.got[s] = k.before[s]
          /\ k.at \in {"clearing", "writing", "undoing"} => k.got[s] = k.before[s]
          /\ s \notin k.left => /\ k.at = "clearing" => section[s] = None
                                /\ k.at = "writing" => section[s] = entry
                                /\ k.at = "undoing" => section[s] = k.before[s]
          /\ k.at = "persisting" => section[s] = entry
          /\ k.at = "releasing" /\ k.outcome = "done" => section[s] = entry
          /\ k.at = "releasing" /\ k.outcome = "undone" => section[s] = k.before[s]

Restoring(k) ==
    k.op = "restore" =>
        /\ archive[k.backup] \in Archive
        /\ k.sections = archive[k.backup].sections
        /\ k.left \subseteq k.sections
        /\ \A s \in Section \ k.touched : Progress(k, s)

Restores == \A p \in BackupProcess : Restoring(proc[p])

(* What a call will make of the list, while it has the lock. *)
Listing(k) ==
    /\ k.at \in {"collecting", "removing", "saving", "clearing", "writing", "undoing"}
       => k.next = Listed
    /\ k.at = "persisting" =>
          /\ k.op = "create" => k.next = Listed \cup {k.backup} /\ archive[k.backup] # None
          /\ k.op = "delete" => /\ k.next = Listed \ {k.backup}
                                /\ k.backup \in removed \/ k.backup \notin Listed
          /\ k.op = "restore" => k.next = Listed
    /\ k.at = "releasing" /\ k.op = "create" /\ k.outcome = "done" => k.backup \in Listed

ListedArchived ==
    \A b \in Listed :
        \/ archive[b] # None
        \/ b \in cut
        \/ \E p \in BackupProcess : CutsDeletion(p) /\ proc[p].backup = b

ReturnedListed == ~ lost => returned \ removed \subseteq Listed

Lists ==
    /\ \A p \in BackupProcess : Listing(proc[p])
    /\ ListedArchived
    /\ ReturnedListed

BackupInv == BackupTypeOK /\ Exclusive /\ Stages /\ Restores /\ Lists

-----------------------------------------------------------------------------
LEMMA NoCallFits == NoCall \in CallRecord /\ Staged(NoCall) /\ NoCall.at = "idle" /\ NoCall.op = "create"
BY DEF NoCall, Nothing, CallRecord, Outcome, Staged

LEMMA InvImplies == BackupInv => RestoreIsWhole /\ BackupsRestorable
<1> SUFFICES ASSUME BackupInv PROVE RestoreIsWhole /\ BackupsRestorable
  OBVIOUS
<1>1. RestoreIsWhole
  <2> SUFFICES ASSUME NEW p \in BackupProcess,
                      proc[p].op = "restore", proc[p].at = "releasing",
                      proc[p].outcome \in {"done", "undone"},
                      NEW s \in Section \ proc[p].touched
               PROVE  section[s] = IF proc[p].outcome = "undone" \/ s \notin proc[p].sections
                                   THEN proc[p].before[s]
                                   ELSE archive[proc[p].backup].entries[s]
    BY DEF RestoreIsWhole
  <2>1. Progress(proc[p], s)
    BY DEF BackupInv, Restores, Restoring
  <2> QED
    BY <2>1 DEF Progress
<1>2. BackupsRestorable
  BY DEF BackupInv, Lists, ListedArchived, ReturnedListed, BackupsRestorable, CutsDeletion
<1> QED
  BY <1>1, <1>2

LEMMA InitInv == BackupInit => BackupInv
<1> SUFFICES ASSUME BackupInit PROVE BackupInv
  OBVIOUS
<1>1. \A p \in BackupProcess : proc[p] = NoCall
  BY DEF BackupInit
<1>2. BackupTypeOK
  BY NoCallFits DEF BackupInit, BackupTypeOK, CallRecord, Outcome
<1>3. Exclusive /\ Stages /\ Restores
  BY <1>1, NoCallFits DEF Exclusive, Stages, Restores, Restoring
<1>4. Lists
  BY <1>1, NoCallFits DEF BackupInit, Lists, ListedArchived, ReturnedListed, Listing, Listed
<1> QED
  BY <1>2, <1>3, <1>4 DEF BackupInv

(* Of the calls but p's nothing is claimed: the others are idle. *)
LEMMA OthersIdle ==
    ASSUME BackupInv, NEW p \in BackupProcess, proc[p].at # "idle" \/ ~ locked,
           NEW q \in BackupProcess, q # p
    PROVE  proc[q].at = "idle" /\ proc[q].op = "create"
<1>1. proc[q].at = "idle"
  BY DEF BackupInv, Exclusive
<1>2. proc[q].op \in {"create", "delete", "restore"}
  BY DEF BackupInv, BackupTypeOK
<1> QED
  BY <1>1, <1>2 DEF BackupInv, Stages, Staged

LEMMA CallStep ==
    ASSUME BackupInv, NEW p \in BackupProcess, proc[p].at # "idle" \/ ~ locked,
           NEW next \in CallRecord, Staged(next),
           proc' \in [BackupProcess -> CallRecord], proc'[p] = next,
           \A q \in BackupProcess : q # p => proc'[q] = proc[q],
           next.at # "idle" => locked'
    PROVE  /\ Exclusive' /\ Stages'
           /\ Restoring(next)' => Restores'
           /\ Listing(next)' => \A q \in BackupProcess : Listing(proc[q])'
<1>1. \A q \in BackupProcess : q # p => proc'[q].at = "idle" /\ proc'[q].op = "create"
  BY OthersIdle
<1>2. Exclusive'
  BY <1>1 DEF Exclusive
<1>3. Stages'
  BY <1>1 DEF BackupInv, Stages
<1>4. Restoring(next)' => Restores'
  BY <1>1 DEF Restores, Restoring
<1>5. Listing(next)' => \A q \in BackupProcess : Listing(proc[q])'
  BY <1>1 DEF Listing
<1> QED
  BY <1>2, <1>3, <1>4, <1>5

-----------------------------------------------------------------------------
(* The steps that begin a call.                                             *)

LEMMA EnterStep ==
    ASSUME BackupInv, NEW p \in BackupProcess, NEW op \in {"create", "delete", "restore"},
           NEW at \in Holding, NEW b \in BackupId, NEW S \in SUBSET Section, Enter(p, op, at, b, S),
           \/ op = "create" /\ at = "collecting"
           \/ op = "delete" /\ at = "removing"
           \/ op = "delete" /\ at = "persisting" /\ b \notin Listed
           \/ op = "restore" /\ at = "saving" /\ archive[b] \in Archive /\ S = archive[b].sections
    PROVE  BackupInv'
<1>1. Listed \subseteq BackupId /\ section \in [Section -> Content \cup {None}]
  BY DEF BackupInv, BackupTypeOK, Listed
<1>2. PICK next \in CallRecord :
            next = [NoCall EXCEPT !.at = at, !.op = op, !.backup = b, !.sections = S, !.left = S,
                                  !.next = Listed, !.before = section]
  BY <1>1, NoCallFits DEF CallRecord, Outcome, NoCall
<1>a. /\ next.at = at /\ next.op = op /\ next.backup = b /\ next.sections = S /\ next.left = S
      /\ next.next = Listed /\ next.before = section /\ next.touched = {}
      /\ next.outcome = "none"
  BY <1>2 DEF NoCall
<1>3. /\ proc' = [proc EXCEPT ![p] = next] /\ locked' = TRUE /\ ~ locked
      /\ UNCHANGED <<section, records, archive, returned, removed, cut, lost>>
  BY <1>2 DEF Enter, backupHistory
<1>4. proc \in [BackupProcess -> CallRecord]
  BY DEF BackupInv, BackupTypeOK, CallRecord, Outcome
<1>5. /\ proc' \in [BackupProcess -> CallRecord] /\ proc'[p] = next
      /\ \A q \in BackupProcess : q # p => proc'[q] = proc[q]
  BY <1>2, <1>3, <1>4
<1>6. BackupTypeOK'
  BY <1>3, <1>5 DEF BackupInv, BackupTypeOK, CallRecord, Outcome
<1>7. Staged(next)
  BY <1>a DEF Staged
<1>8. Restoring(next)'
  BY <1>a, <1>3 DEF Restoring, Progress
<1>9. Listing(next)'
  BY <1>a, <1>3 DEF Listing, Listed
<1>10. Lists'
  <2>1. \A q \in BackupProcess : ~ CutsDeletion(q)
    BY <1>3 DEF BackupInv, Exclusive, CutsDeletion
  <2>2. ListedArchived'
    BY <1>3, <2>1 DEF BackupInv, Lists, ListedArchived, Listed
  <2>3. ReturnedListed'
    BY <1>3 DEF BackupInv, Lists, ReturnedListed, Listed
  <2>4. \A q \in BackupProcess : Listing(proc[q])'
    BY <1>2, <1>3, <1>5, <1>7, <1>9, CallStep
  <2> QED
    BY <2>2, <2>3, <2>4 DEF Lists
<1>11. Exclusive' /\ Stages' /\ Restores'
  BY <1>2, <1>3, <1>5, <1>7, <1>8, CallStep
<1> QED
  BY <1>6, <1>10, <1>11 DEF BackupInv

-----------------------------------------------------------------------------
(* The steps of a creation and of a restore that leave the list alone.      *)

LEMMA SectionStep ==
    ASSUME BackupInv, NEW p \in BackupProcess, NEW k \in CallRecord, k = proc[p], k.at # "idle",
           k.op # "delete",
           NEW next \in CallRecord, proc' = [proc EXCEPT ![p] = next], next.at # "idle",
           next.op = k.op, Staged(next), Listing(next), Restoring(next)',
           section' \in [Section -> Content \cup {None}],
           UNCHANGED <<records, archive, locked, backupHistory>>
    PROVE  BackupInv'
<1>1. proc \in [BackupProcess -> CallRecord]
  BY DEF BackupInv, BackupTypeOK, CallRecord, Outcome
<1>2. /\ proc' \in [BackupProcess -> CallRecord] /\ proc'[p] = next
      /\ \A q \in BackupProcess : q # p => proc'[q] = proc[q]
  BY <1>1
<1>3. BackupTypeOK'
  BY <1>2 DEF BackupInv, BackupTypeOK, CallRecord, Outcome, backupHistory
<1>4. locked'
  BY DEF BackupInv, Exclusive
<1>5. Listing(next)'
  BY DEF Listing, Listed, backupHistory
<1>6. /\ Exclusive' /\ Stages' /\ Restores'
      /\ \A q \in BackupProcess : Listing(proc[q])'
  BY <1>2, <1>4, <1>5, CallStep
<1>7. ListedArchived'
  <2>1. \A q \in BackupProcess : ~ CutsDeletion(q)
    BY OthersIdle DEF CutsDeletion
  <2> QED
    BY <2>1 DEF BackupInv, Lists, ListedArchived, Listed, backupHistory
<1>8. ReturnedListed'
  BY DEF BackupInv, Lists, ReturnedListed, Listed, backupHistory
<1> QED
  BY <1>3, <1>6, <1>7, <1>8 DEF BackupInv, Lists

LEMMA CollectStep ==
    ASSUME BackupInv, NEW p \in BackupProcess, NEW s \in Section, Collect(p, s)
    PROVE  BackupInv'
<1>1. PICK k \in CallRecord : k = proc[p]
  BY DEF BackupInv, BackupTypeOK, CallRecord, Outcome
<1>2. /\ k.at = "collecting" /\ section[s] \in Content \cup {None}
      /\ Staged(k) /\ Listing(k)
  BY <1>1 DEF Collect, BackupInv, BackupTypeOK, Stages, Lists
<1>3. PICK next \in CallRecord : next = [k EXCEPT !.got[s] = section[s], !.left = @ \ {s}]
  BY <1>2 DEF CallRecord
<1>4. /\ next.at = k.at /\ next.op = k.op /\ next.backup = k.backup /\ next.next = k.next
      /\ next.outcome = k.outcome
  BY <1>3 DEF CallRecord
<1>5. k.op = "create"
  BY <1>2 DEF Staged, CallRecord
<1>6. proc' = [proc EXCEPT ![p] = next]
  BY <1>1, <1>3 DEF Collect, BackupInv, BackupTypeOK
<1>7. Staged(next) /\ Listing(next) /\ Restoring(next)'
  BY <1>2, <1>4, <1>5 DEF Staged, Listing, Restoring
<1>8. section' \in [Section -> Content \cup {None}]
  BY DEF Collect, BackupInv, BackupTypeOK
<1> QED
  BY <1>1, <1>2, <1>4, <1>5, <1>6, <1>7, <1>8, SectionStep DEF Collect

(* A step of a restore keeps the invariant if the sections do. *)
LEMMA RestoreStep ==
    ASSUME BackupInv, NEW p \in BackupProcess, NEW k \in CallRecord, k = proc[p],
           k.at \in {"saving", "clearing", "writing", "undoing"},
           NEW next \in CallRecord, proc' = [proc EXCEPT ![p] = next],
           next.at \in {"saving", "clearing", "writing", "undoing", "persisting", "releasing"},
           next.op = k.op, next.backup = k.backup, next.sections = k.sections,
           next.before = k.before, next.touched = k.touched, next.next = k.next,
           next.left \subseteq k.sections,
           section' \in [Section -> Content \cup {None}],
           UNCHANGED <<records, archive, locked, backupHistory>>,
           k.op = "restore" => \A s \in Section \ k.touched : Progress(next, s)'
    PROVE  BackupInv'
<1>1. Staged(k) /\ Listing(k) /\ Restoring(k)
  BY DEF BackupInv, Stages, Lists, Restores
<1>2. k.op = "restore"
  BY <1>1 DEF Staged, CallRecord
<1>3. Staged(next) /\ Listing(next)
  BY <1>1, <1>2 DEF Staged, Listing
<1>4. Restoring(next)'
  BY <1>1, <1>2 DEF Restoring
<1> QED
  BY <1>2, <1>3, <1>4, SectionStep

LEMMA RestoreCall ==
    ASSUME BackupInv, NEW p \in BackupProcess, NEW k \in CallRecord, k = proc[p],
           k.at \in {"saving", "clearing", "writing", "undoing"}
    PROVE  /\ k.op = "restore" /\ Restoring(k)
           /\ archive[k.backup] \in Archive /\ k.sections = archive[k.backup].sections
           /\ k.left \subseteq k.sections /\ Written(k.backup) \subseteq k.sections
           /\ k.backup \in BackupId
<1>1. Staged(k) /\ Restoring(k)
  BY DEF BackupInv, Stages, Restores
<1>2. k.op = "restore"
  BY <1>1 DEF Staged, CallRecord
<1> QED
  BY <1>1, <1>2 DEF Staged, Restoring, Written

LEMMA SaveStep ==
    ASSUME BackupInv, NEW p \in BackupProcess, NEW s \in Section, SaveSection(p, s)
    PROVE  BackupInv'
<1>1. PICK k \in CallRecord : k = proc[p]
  BY DEF BackupInv, BackupTypeOK, CallRecord, Outcome
<1>2. k.at = "saving" /\ s \in k.left /\ section[s] \in Content \cup {None}
  BY <1>1 DEF SaveSection, BackupInv, BackupTypeOK
<1>3. PICK next \in CallRecord :
          next = [k EXCEPT !.got[s] = section[s],
                           !.at = IF k.left \ {s} = {} THEN "clearing" ELSE "saving",
                           !.left = IF k.left \ {s} = {} THEN k.sections ELSE k.left \ {s}]
  BY <1>2 DEF CallRecord, Holding
<1>4. /\ next.op = k.op /\ next.backup = k.backup /\ next.sections = k.sections
      /\ next.before = k.before /\ next.touched = k.touched /\ next.next = k.next
      /\ next.at = IF k.left \ {s} = {} THEN "clearing" ELSE "saving"
      /\ next.left = IF k.left \ {s} = {} THEN k.sections ELSE k.left \ {s}
      /\ next.got[s] = section[s] /\ \A z \in Section : z # s => next.got[z] = k.got[z]
  BY <1>3 DEF CallRecord
<1>5. /\ proc' = [proc EXCEPT ![p] = next]
      /\ UNCHANGED <<section, records, archive, locked, backupHistory>>
  BY <1>1, <1>3 DEF SaveSection, BackupInv, BackupTypeOK
<1>6. Restoring(k) /\ k.op = "restore" /\ k.left \subseteq k.sections
  BY <1>1, <1>2, RestoreCall
<1>7. ASSUME NEW z \in Section \ k.touched PROVE Progress(next, z)'
  <2>1. Progress(k, z)
    BY <1>6 DEF Restoring
  <2> QED
    BY <1>2, <1>4, <1>5, <2>1 DEF Progress
<1>8. section' \in [Section -> Content \cup {None}] /\ next.left \subseteq k.sections
  BY <1>4, <1>5, <1>6 DEF BackupInv, BackupTypeOK
<1> QED
  BY <1>1, <1>2, <1>4, <1>5, <1>7, <1>8, RestoreStep

LEMMA ClearStep ==
    ASSUME BackupInv, NEW p \in BackupProcess, NEW s \in Section, ClearSection(p, s)
    PROVE  BackupInv'
<1>1. PICK k \in CallRecord : k = proc[p]
  BY DEF BackupInv, BackupTypeOK, CallRecord, Outcome
<1>2. k.at = "clearing" /\ s \in k.left
  BY <1>1 DEF ClearSection
<1>3. /\ Restoring(k) /\ k.op = "restore" /\ k.left \subseteq k.sections
      /\ Written(k.backup) \subseteq k.sections
      /\ k.sections = archive[k.backup].sections
  BY <1>1, <1>2, RestoreCall
<1>4. PICK next \in CallRecord :
          next = [k EXCEPT !.at = IF k.left \ {s} = {} THEN "writing" ELSE "clearing",
                           !.left = IF k.left \ {s} = {} THEN Written(k.backup) ELSE k.left \ {s}]
  BY <1>3 DEF CallRecord, Holding
<1>5. /\ next.op = k.op /\ next.backup = k.backup /\ next.sections = k.sections
      /\ next.before = k.before /\ next.touched = k.touched /\ next.next = k.next
      /\ next.at = IF k.left \ {s} = {} THEN "writing" ELSE "clearing"
      /\ next.left = IF k.left \ {s} = {} THEN Written(k.backup) ELSE k.left \ {s}
      /\ next.got = k.got
  BY <1>4 DEF CallRecord
<1>6. /\ proc' = [proc EXCEPT ![p] = next]
      /\ section' = [section EXCEPT ![s] = None]
      /\ UNCHANGED <<records, archive, locked, backupHistory>>
  BY <1>1, <1>4 DEF ClearSection, Goto, BackupInv, BackupTypeOK
<1>7. section \in [Section -> Content \cup {None}]
  BY DEF BackupInv, BackupTypeOK
<1>8. section'[s] = None /\ \A z \in Section : z # s => section'[z] = section[z]
  BY <1>6, <1>7
<1>9. ASSUME NEW z \in Section \ k.touched PROVE Progress(next, z)'
  <2>1. Progress(k, z)
    BY <1>3 DEF Restoring
  <2>2. z \in k.sections /\ z \notin Written(k.backup) => archive[k.backup].entries[z] = None
    BY <1>3 DEF Written
  <2> QED
    BY <1>2, <1>3, <1>5, <1>6, <1>8, <2>1, <2>2 DEF Progress
<1>10. section' \in [Section -> Content \cup {None}] /\ next.left \subseteq k.sections
  BY <1>3, <1>5, <1>6, <1>7
<1> QED
  BY <1>1, <1>2, <1>5, <1>6, <1>9, <1>10, RestoreStep

LEMMA WriteStep ==
    ASSUME BackupInv, NEW p \in BackupProcess, NEW s \in Section, WriteSection(p, s)
    PROVE  BackupInv'
<1>1. PICK k \in CallRecord : k = proc[p]
  BY DEF BackupInv, BackupTypeOK, CallRecord, Outcome
<1>2. k.at = "writing" /\ s \in k.left
  BY <1>1 DEF WriteSection
<1>3. /\ Restoring(k) /\ k.op = "restore" /\ k.left \subseteq k.sections
      /\ archive[k.backup] \in Archive
  BY <1>1, <1>2, RestoreCall
<1>4. PICK next \in CallRecord : next = [k EXCEPT !.left = k.left \ {s}]
  BY DEF CallRecord
<1>5. /\ next.op = k.op /\ next.backup = k.backup /\ next.sections = k.sections
      /\ next.before = k.before /\ next.touched = k.touched /\ next.next = k.next
      /\ next.at = k.at /\ next.left = k.left \ {s} /\ next.got = k.got
  BY <1>4 DEF CallRecord
<1>6. /\ proc' = [proc EXCEPT ![p] = next]
      /\ section' = [section EXCEPT ![s] = archive[k.backup].entries[s]]
      /\ UNCHANGED <<records, archive, locked, backupHistory>>
  BY <1>1, <1>2, <1>4 DEF WriteSection, Goto, BackupInv, BackupTypeOK, CallRecord
<1>7. /\ section \in [Section -> Content \cup {None}]
      /\ archive[k.backup].entries[s] \in Content \cup {None}
  BY <1>3 DEF BackupInv, BackupTypeOK, Archive
<1>8. /\ section'[s] = archive[k.backup].entries[s]
      /\ \A z \in Section : z # s => section'[z] = section[z]
  BY <1>6, <1>7
<1>9. ASSUME NEW z \in Section \ k.touched PROVE Progress(next, z)'
  <2>1. Progress(k, z)
    BY <1>3 DEF Restoring
  <2> QED
    BY <1>2, <1>3, <1>5, <1>6, <1>8, <2>1 DEF Progress
<1>10. section' \in [Section -> Content \cup {None}] /\ next.left \subseteq k.sections
  BY <1>3, <1>5, <1>6, <1>7
<1> QED
  BY <1>1, <1>2, <1>5, <1>6, <1>9, <1>10, RestoreStep

LEMMA UndoSectionStep ==
    ASSUME BackupInv, NEW p \in BackupProcess, NEW s \in Section, UndoSection(p, s)
    PROVE  BackupInv'
<1>1. PICK k \in CallRecord : k = proc[p]
  BY DEF BackupInv, BackupTypeOK, CallRecord, Outcome
<1>2. k.at = "undoing" /\ s \in k.left
  BY <1>1 DEF UndoSection
<1>3. Restoring(k) /\ k.op = "restore" /\ k.left \subseteq k.sections
  BY <1>1, <1>2, RestoreCall
<1>4. PICK next \in CallRecord :
          next = IF k.left = {s} THEN [k EXCEPT !.at = "releasing", !.outcome = "undone"]
                 ELSE [k EXCEPT !.at = "undoing", !.left = k.left \ {s}]
  BY DEF CallRecord, Holding, Outcome
<1>5. /\ next.op = k.op /\ next.backup = k.backup /\ next.sections = k.sections
      /\ next.before = k.before /\ next.touched = k.touched /\ next.next = k.next
      /\ IF k.left = {s} THEN next.at = "releasing" /\ next.outcome = "undone" /\ next.left = k.left
         ELSE next.at = "undoing" /\ next.left = k.left \ {s}
      /\ next.got = k.got
  BY <1>4 DEF CallRecord
<1>6. /\ proc' = [proc EXCEPT ![p] = next]
      /\ section' = [section EXCEPT ![s] = k.got[s]]
      /\ UNCHANGED <<records, archive, locked, backupHistory>>
  BY <1>1, <1>4 DEF UndoSection, Goto, Ends, BackupInv, BackupTypeOK
<1>7. section \in [Section -> Content \cup {None}] /\ k.got[s] \in Content \cup {None}
  BY DEF BackupInv, BackupTypeOK, CallRecord
<1>8. section'[s] = k.got[s] /\ \A z \in Section : z # s => section'[z] = section[z]
  BY <1>6, <1>7
<1>9. ASSUME NEW z \in Section \ k.touched PROVE Progress(next, z)'
  <2>1. Progress(k, z)
    BY <1>3 DEF Restoring
  <2> QED
    BY <1>2, <1>3, <1>5, <1>6, <1>8, <2>1 DEF Progress
<1>10. section' \in [Section -> Content \cup {None}] /\ next.left \subseteq k.sections
  BY <1>3, <1>5, <1>6, <1>7
<1> QED
  BY <1>1, <1>2, <1>5, <1>6, <1>9, <1>10, RestoreStep

LEMMA TurnStep ==
    ASSUME BackupInv, NEW p \in BackupProcess, Undo(p) \/ Restored(p) \/ UndoFails(p)
    PROVE  BackupInv'
<1>1. PICK k \in CallRecord : k = proc[p]
  BY DEF BackupInv, BackupTypeOK, CallRecord, Outcome
<1>2. k.at \in {"clearing", "writing", "undoing"}
  BY <1>1 DEF Undo, Restored, UndoFails
<1>3. Restoring(k) /\ k.op = "restore" /\ k.left \subseteq k.sections
  BY <1>1, <1>2, RestoreCall
<1>4. section \in [Section -> Content \cup {None}] /\ proc \in [BackupProcess -> CallRecord]
  BY DEF BackupInv, BackupTypeOK, CallRecord, Outcome
<1>5. CASE Undo(p)
  <2>1. PICK next \in CallRecord : next = [k EXCEPT !.at = "undoing", !.left = k.sections]
    BY DEF CallRecord, Holding
  <2>2. /\ next.op = k.op /\ next.backup = k.backup /\ next.sections = k.sections
        /\ next.before = k.before /\ next.touched = k.touched /\ next.next = k.next
        /\ next.at = "undoing" /\ next.left = k.sections /\ next.got = k.got
    BY <2>1 DEF CallRecord
  <2>3. /\ proc' = [proc EXCEPT ![p] = next]
        /\ UNCHANGED <<section, records, archive, locked, backupHistory>>
        /\ k.at \in {"clearing", "writing"}
    BY <1>1, <1>4, <1>5, <2>1 DEF Undo, Goto
  <2>4. ASSUME NEW z \in Section \ k.touched PROVE Progress(next, z)'
    <3>1. Progress(k, z)
      BY <1>3 DEF Restoring
    <3> QED
      BY <2>2, <2>3, <3>1 DEF Progress
  <2> QED
    BY <1>1, <1>2, <1>4, <2>2, <2>3, <2>4, RestoreStep
<1>6. CASE Restored(p)
  <2>1. PICK next \in CallRecord : next = [k EXCEPT !.at = "persisting", !.left = {}]
    BY DEF CallRecord, Holding
  <2>2. /\ next.op = k.op /\ next.backup = k.backup /\ next.sections = k.sections
        /\ next.before = k.before /\ next.touched = k.touched /\ next.next = k.next
        /\ next.at = "persisting" /\ next.left = {} /\ next.got = k.got
    BY <2>1 DEF CallRecord
  <2>3. /\ proc' = [proc EXCEPT ![p] = next]
        /\ UNCHANGED <<section, records, archive, locked, backupHistory>>
        /\ k.at = "writing" /\ k.left = {}
    BY <1>1, <1>4, <1>6, <2>1 DEF Restored, Goto
  <2>4. ASSUME NEW z \in Section \ k.touched PROVE Progress(next, z)'
    <3>1. Progress(k, z)
      BY <1>3 DEF Restoring
    <3> QED
      BY <2>2, <2>3, <3>1 DEF Progress
  <2> QED
    BY <1>1, <1>2, <1>4, <2>2, <2>3, <2>4, RestoreStep
<1>7. CASE UndoFails(p)
  <2>1. PICK next \in CallRecord : next = [k EXCEPT !.at = "releasing", !.outcome = "ruined"]
    BY DEF CallRecord, Holding, Outcome
  <2>2. /\ next.op = k.op /\ next.backup = k.backup /\ next.sections = k.sections
        /\ next.before = k.before /\ next.touched = k.touched /\ next.next = k.next
        /\ next.at = "releasing" /\ next.outcome = "ruined" /\ next.left = k.left
    BY <2>1 DEF CallRecord
  <2>3. /\ proc' = [proc EXCEPT ![p] = next]
        /\ UNCHANGED <<records, archive, locked, backupHistory>>
    BY <1>1, <1>4, <1>7, <2>1 DEF UndoFails, Ends
  <2>4. /\ section' \in [Section -> Content \cup {None}]
        /\ \A z \in Section : z \notin k.sections => section'[z] = section[z]
    <3>1. PICK s \in k.left, gone \in BOOLEAN :
              section' = IF gone THEN [section EXCEPT ![s] = None] ELSE section
      BY <1>1, <1>7 DEF UndoFails
    <3> QED
      BY <1>3, <1>4, <3>1
  <2>5. ASSUME NEW z \in Section \ k.touched PROVE Progress(next, z)'
    <3>1. Progress(k, z)
      BY <1>3 DEF Restoring
    <3> QED
      BY <2>2, <2>4, <3>1 DEF Progress
  <2> QED
    BY <1>1, <1>2, <1>3, <2>2, <2>3, <2>4, <2>5, RestoreStep
<1> QED
  BY <1>5, <1>6, <1>7

-----------------------------------------------------------------------------
(* The steps that change the archives, the list or the lock.                *)

LEMMA ListStep ==
    ASSUME BackupInv, NEW p \in BackupProcess, NEW k \in CallRecord, k = proc[p], k.at # "idle",
           NEW next \in CallRecord, proc' = [proc EXCEPT ![p] = next],
           Staged(next), Listing(next)', Restoring(next)',
           next.at # "idle" => locked', locked' \in BOOLEAN,
           UNCHANGED section,
           records' \in (SUBSET BackupId) \cup {None},
           archive' \in [BackupId -> Archive \cup {None}],
           returned' \in SUBSET BackupId, removed' \in SUBSET BackupId,
           cut' \in SUBSET BackupId, lost' \in BOOLEAN,
           ListedArchived', ReturnedListed'
    PROVE  BackupInv'
<1>1. proc \in [BackupProcess -> CallRecord]
  BY DEF BackupInv, BackupTypeOK, CallRecord, Outcome
<1>2. /\ proc' \in [BackupProcess -> CallRecord] /\ proc'[p] = next
      /\ \A q \in BackupProcess : q # p => proc'[q] = proc[q]
  BY <1>1
<1>3. BackupTypeOK'
  BY <1>2 DEF BackupInv, BackupTypeOK, CallRecord, Outcome
<1>4. /\ Exclusive' /\ Stages' /\ Restores'
      /\ \A q \in BackupProcess : Listing(proc[q])'
  BY <1>2, CallStep
<1> QED
  BY <1>3, <1>4 DEF BackupInv, Lists

LEMMA ArchiveStep ==
    ASSUME BackupInv, NEW p \in BackupProcess, WriteArchive(p)
    PROVE  BackupInv'
<1>1. PICK k \in CallRecord : k = proc[p]
  BY DEF BackupInv, BackupTypeOK, CallRecord, Outcome
<1>2. k.at = "collecting" /\ Staged(k) /\ Listing(k)
  BY <1>1 DEF WriteArchive, BackupInv, Stages, Lists
<1>3. k.op = "create" /\ k.backup \in BackupId /\ k.next = Listed
  BY <1>2 DEF Staged, Listing, CallRecord
<1>4. PICK next \in CallRecord :
          next = [k EXCEPT !.at = "persisting", !.next = k.next \cup {k.backup}]
  BY <1>3 DEF CallRecord, Holding
<1>5. /\ next.op = "create" /\ next.backup = k.backup /\ next.at = "persisting"
      /\ next.next = Listed \cup {k.backup}
  BY <1>3, <1>4 DEF CallRecord
<1>6. PICK made \in Archive : made = [sections |-> k.sections, entries |-> k.got]
  BY DEF Archive, CallRecord
<1>7. /\ proc' = [proc EXCEPT ![p] = next]
      /\ archive' = [archive EXCEPT ![k.backup] = made]
      /\ UNCHANGED <<section, records, locked, returned, removed, cut, lost>>
  BY <1>1, <1>4, <1>6 DEF WriteArchive, backupHistory, BackupInv, BackupTypeOK
<1>8. /\ archive \in [BackupId -> Archive \cup {None}] /\ made # None
      /\ archive' \in [BackupId -> Archive \cup {None}] /\ archive'[k.backup] = made
      /\ \A b \in BackupId : b # k.backup => archive'[b] = archive[b]
  BY <1>3, <1>6, <1>7, BackupAssumption DEF BackupInv, BackupTypeOK
<1>9. Listing(next)' /\ Restoring(next)' /\ Staged(next)
  BY <1>3, <1>5, <1>7, <1>8 DEF Listing, Listed, Restoring, Staged
<1>10. ListedArchived'
  <2>1. \A q \in BackupProcess : ~ CutsDeletion(q)
    BY <1>1, <1>2, <1>3, OthersIdle DEF CutsDeletion
  <2>2. Listed \subseteq BackupId
    BY DEF Listed, BackupInv, BackupTypeOK
  <2> QED
    BY <1>7, <1>8, <2>1, <2>2 DEF BackupInv, Lists, ListedArchived, Listed
<1>11. ReturnedListed'
  BY <1>7 DEF BackupInv, Lists, ReturnedListed, Listed
<1>12. locked'
  BY <1>1, <1>2, <1>7 DEF BackupInv, Exclusive
<1> QED
  BY <1>1, <1>2, <1>7, <1>8, <1>9, <1>10, <1>11, <1>12, ListStep DEF BackupInv, BackupTypeOK

LEMMA RemoveStep ==
    ASSUME BackupInv, NEW p \in BackupProcess, RemoveArchive(p)
    PROVE  BackupInv'
<1>1. PICK k \in CallRecord : k = proc[p]
  BY DEF BackupInv, BackupTypeOK, CallRecord, Outcome
<1>2. k.at = "removing" /\ Staged(k) /\ Listing(k)
  BY <1>1 DEF RemoveArchive, BackupInv, Stages, Lists
<1>3. k.op = "delete" /\ k.backup \in BackupId /\ k.next = Listed
  BY <1>2 DEF Staged, Listing, CallRecord
<1>4. PICK next \in CallRecord :
          next = [k EXCEPT !.at = "persisting", !.next = k.next \ {k.backup}]
  BY <1>3 DEF CallRecord, Holding
<1>5. /\ next.op = "delete" /\ next.backup = k.backup /\ next.at = "persisting"
      /\ next.next = Listed \ {k.backup}
  BY <1>3, <1>4 DEF CallRecord
<1>6. /\ proc' = [proc EXCEPT ![p] = next]
      /\ archive' = [archive EXCEPT ![k.backup] = None]
      /\ removed' = removed \cup {k.backup}
      /\ UNCHANGED <<section, records, locked, returned, cut, lost>>
  BY <1>1, <1>4 DEF RemoveArchive, BackupInv, BackupTypeOK
<1>7. /\ archive' \in [BackupId -> Archive \cup {None}]
      /\ \A b \in BackupId : b # k.backup => archive'[b] = archive[b]
      /\ proc'[p] = next
  BY <1>6 DEF BackupInv, BackupTypeOK
<1>8. Listing(next)' /\ Restoring(next)' /\ Staged(next)
  BY <1>3, <1>5, <1>6 DEF Listing, Listed, Restoring, Staged
<1>9. ListedArchived'
  <2>1. \A q \in BackupProcess : ~ CutsDeletion(q)
    BY <1>1, <1>2, OthersIdle DEF CutsDeletion
  <2>2. Listed \subseteq BackupId /\ Listed' = Listed
    BY <1>6 DEF Listed, BackupInv, BackupTypeOK
  <2>3. CutsDeletion(p)' /\ proc'[p].backup = k.backup
    BY <1>5, <1>6, <1>7 DEF CutsDeletion
  <2> QED
    BY <1>6, <1>7, <2>1, <2>2, <2>3 DEF BackupInv, Lists, ListedArchived
<1>10. ReturnedListed'
  BY <1>6 DEF BackupInv, Lists, ReturnedListed, Listed
<1>11. locked'
  BY <1>1, <1>2, <1>6 DEF BackupInv, Exclusive
<1>12. removed' \in SUBSET BackupId
  BY <1>3, <1>6 DEF BackupInv, BackupTypeOK
<1> QED
  BY <1>1, <1>2, <1>6, <1>7, <1>8, <1>9, <1>10, <1>11, <1>12, ListStep
  DEF BackupInv, BackupTypeOK

LEMMA ThrowStep ==
    ASSUME BackupInv, NEW p \in BackupProcess, Throws(p)
    PROVE  BackupInv'
<1>1. PICK k \in CallRecord : k = proc[p]
  BY DEF BackupInv, BackupTypeOK, CallRecord, Outcome
<1>2. /\ k.at \in {"collecting", "removing", "saving", "persisting"}
      /\ Staged(k) /\ Restoring(k)
  BY <1>1 DEF Throws, BackupInv, Stages, Restores
<1>3. k.backup \in BackupId
  BY <1>2 DEF Staged
<1>4. PICK next \in CallRecord : next = [k EXCEPT !.at = "releasing", !.outcome = "thrown"]
  BY DEF CallRecord, Holding, Outcome
<1>5. /\ next.op = k.op /\ next.backup = k.backup /\ next.sections = k.sections
      /\ next.before = k.before /\ next.touched = k.touched /\ next.left = k.left
      /\ next.at = "releasing" /\ next.outcome = "thrown"
  BY <1>4 DEF CallRecord
<1>6. /\ proc' = [proc EXCEPT ![p] = next]
      /\ cut' = IF CutsDeletion(p) THEN cut \cup {k.backup} ELSE cut
      /\ UNCHANGED <<section, records, archive, locked, returned, removed, lost>>
  BY <1>1, <1>4 DEF Throws, Ends, BackupInv, BackupTypeOK
<1>7. Listing(next)' /\ Staged(next)
  BY <1>2, <1>3, <1>5 DEF Listing, Staged, CallRecord
<1>8. Restoring(next)'
  BY <1>2, <1>5, <1>6 DEF Restoring, Progress
<1>9. ListedArchived'
  <2>1. \A q \in BackupProcess : q # p => ~ CutsDeletion(q)
    BY <1>1, <1>2, OthersIdle DEF CutsDeletion
  <2> QED
    BY <1>1, <1>6, <2>1 DEF BackupInv, Lists, ListedArchived, Listed
<1>10. ReturnedListed'
  BY <1>6 DEF BackupInv, Lists, ReturnedListed, Listed
<1>11. locked' /\ cut' \in SUBSET BackupId
  BY <1>1, <1>2, <1>3, <1>6 DEF BackupInv, BackupTypeOK, Exclusive
<1> QED
  BY <1>1, <1>2, <1>6, <1>7, <1>8, <1>9, <1>10, <1>11, ListStep DEF BackupInv, BackupTypeOK

LEMMA PersistStep ==
    ASSUME BackupInv, NEW p \in BackupProcess, Persist(p)
    PROVE  BackupInv'
<1>1. PICK k \in CallRecord : k = proc[p]
  BY DEF BackupInv, BackupTypeOK, CallRecord, Outcome
<1>2. k.at = "persisting" /\ Staged(k) /\ Restoring(k) /\ Listing(k)
  BY <1>1 DEF Persist, BackupInv, Stages, Restores, Lists
<1>3. k.backup \in BackupId /\ k.next \in SUBSET BackupId /\ k.next # None
  BY <1>2, BackupAssumption DEF Staged, CallRecord
<1>4. PICK next \in CallRecord : next = [k EXCEPT !.at = "releasing", !.outcome = "done"]
  BY DEF CallRecord, Holding, Outcome
<1>5. /\ next.op = k.op /\ next.backup = k.backup /\ next.sections = k.sections
      /\ next.before = k.before /\ next.touched = k.touched /\ next.left = k.left
      /\ next.at = "releasing" /\ next.outcome = "done"
  BY <1>4 DEF CallRecord
<1>6. /\ proc' = [proc EXCEPT ![p] = next] /\ records' = k.next
      /\ UNCHANGED <<section, archive, locked, returned, removed, cut, lost>>
  BY <1>1, <1>4 DEF Persist, Ends, backupHistory, BackupInv, BackupTypeOK
<1>7. Listed' = k.next
  BY <1>3, <1>6 DEF Listed
<1>8. Listing(next)' /\ Staged(next)
  BY <1>2, <1>3, <1>5, <1>7 DEF Listing, Staged, CallRecord
<1>9. Restoring(next)'
  BY <1>2, <1>5, <1>6 DEF Restoring, Progress
<1>10. ASSUME NEW b \in k.next PROVE archive[b] # None \/ b \in cut
  <2>1. \A q \in BackupProcess : q # p => ~ CutsDeletion(q)
    BY <1>1, <1>2, OthersIdle DEF CutsDeletion
  <2>2. CASE k.op = "create" /\ b = k.backup
    BY <1>2, <2>2 DEF Listing
  <2>3. CASE b \in Listed /\ ~ (k.op = "delete" /\ b = k.backup)
    BY <1>1, <2>1, <2>3 DEF BackupInv, Lists, ListedArchived, CutsDeletion
  <2> QED
    BY <1>2, <1>10, <2>2, <2>3 DEF Listing, CallRecord
<1>11. ListedArchived'
  BY <1>6, <1>7, <1>10 DEF ListedArchived
<1>12. ReturnedListed'
  <2>1. Listed \ removed \subseteq k.next
    BY <1>2 DEF Listing, CallRecord
  <2> QED
    BY <1>6, <1>7, <2>1 DEF BackupInv, Lists, ReturnedListed
<1>13. locked' /\ records' \in SUBSET BackupId
  BY <1>1, <1>2, <1>3, <1>6 DEF BackupInv, Exclusive
<1> QED
  BY <1>1, <1>2, <1>6, <1>8, <1>9, <1>11, <1>12, <1>13, ListStep DEF BackupInv, BackupTypeOK

LEMMA ReleaseStep ==
    ASSUME BackupInv, NEW p \in BackupProcess, Release(p)
    PROVE  BackupInv'
<1>1. PICK k \in CallRecord : k = proc[p]
  BY DEF BackupInv, BackupTypeOK, CallRecord, Outcome
<1>2. k.at = "releasing" /\ Staged(k) /\ Listing(k)
  BY <1>1 DEF Release, BackupInv, Stages, Lists
<1>3. /\ proc' = [proc EXCEPT ![p] = NoCall] /\ locked' = FALSE
      /\ returned' = IF k.op = "create" /\ k.outcome = "done"
                     THEN returned \cup {k.backup} ELSE returned
      /\ UNCHANGED <<section, records, archive, removed, cut, lost>>
  BY <1>1 DEF Release
<1>4. Listing(NoCall)' /\ Restoring(NoCall)' /\ Staged(NoCall) /\ NoCall \in CallRecord
  BY NoCallFits DEF Listing, Restoring
<1>5. ListedArchived'
  <2>1. \A q \in BackupProcess : ~ CutsDeletion(q)
    BY <1>1, <1>2, OthersIdle DEF CutsDeletion
  <2> QED
    BY <1>3, <2>1 DEF BackupInv, Lists, ListedArchived, Listed
<1>6. ReturnedListed'
  BY <1>2, <1>3 DEF BackupInv, Lists, ReturnedListed, Listed, Listing
<1>7. returned' \in SUBSET BackupId
  BY <1>2, <1>3 DEF BackupInv, BackupTypeOK, Staged
<1> QED
  BY <1>1, <1>2, <1>3, <1>4, <1>5, <1>6, <1>7, NoCallFits, ListStep DEF BackupInv, BackupTypeOK

LEMMA CrashStep ==
    ASSUME BackupInv, NEW p \in BackupProcess, CrashInCall(p)
    PROVE  BackupInv'
<1>1. PICK k \in CallRecord : k = proc[p]
  BY DEF BackupInv, BackupTypeOK, CallRecord, Outcome
<1>2. k.at # "idle" /\ Staged(k)
  BY <1>1 DEF CrashInCall, BackupInv, Stages
<1>3. PICK torn \in BOOLEAN : records' = (IF torn THEN None ELSE records) /\ lost' = (lost \/ torn)
  BY DEF CrashInCall
<1>4. /\ proc' = [proc EXCEPT ![p] = NoCall]
      /\ cut' = IF CutsDeletion(p) THEN cut \cup {k.backup} ELSE cut
      /\ UNCHANGED <<section, archive, locked, returned, removed>>
  BY <1>1 DEF CrashInCall
<1>5. Listing(NoCall)' /\ Restoring(NoCall)' /\ Staged(NoCall) /\ NoCall \in CallRecord
  BY NoCallFits DEF Listing, Restoring
<1>6. Listed' = IF torn THEN {} ELSE Listed
  BY <1>3 DEF Listed
<1>7. ListedArchived'
  <2>1. \A q \in BackupProcess : q # p => ~ CutsDeletion(q)
    BY <1>1, <1>2, OthersIdle DEF CutsDeletion
  <2> QED
    BY <1>1, <1>4, <1>6, <2>1 DEF BackupInv, Lists, ListedArchived
<1>8. ReturnedListed'
  BY <1>3, <1>4, <1>6 DEF BackupInv, Lists, ReturnedListed
<1>9. cut' \in SUBSET BackupId /\ lost' \in BOOLEAN
  BY <1>2, <1>3, <1>4 DEF BackupInv, BackupTypeOK, Staged
<1>10. records' \in (SUBSET BackupId) \cup {None}
  BY <1>3 DEF BackupInv, BackupTypeOK
<1> QED
  BY <1>1, <1>2, <1>4, <1>5, <1>7, <1>8, <1>9, <1>10, NoCallFits, ListStep
  DEF BackupInv, BackupTypeOK

(* Another component writes a section: in the call that is open, if one is, *)
(* nothing is claimed of that section any more.                             *)
LEMMA ChangeStep ==
    ASSUME BackupInv, NEW p \in BackupProcess, NEW s \in Section, NEW c \in Content,
           Change(p, s, c)
    PROVE  BackupInv'
<1> DEFINE touch(k) == IF k.at = "idle" THEN k ELSE [k EXCEPT !.touched = @ \cup {s}]
<1>1. proc \in [BackupProcess -> CallRecord] /\ section \in [Section -> Content \cup {None}]
  BY DEF BackupInv, BackupTypeOK, CallRecord, Outcome
<1>2. /\ proc' = [q \in BackupProcess |-> touch(proc[q])]
      /\ section' = [section EXCEPT ![s] = c]
      /\ UNCHANGED <<records, archive, locked, returned, removed, cut, lost>>
  BY DEF Change, backupHistory
<1>3. ASSUME NEW k \in CallRecord
      PROVE  /\ touch(k) \in CallRecord
             /\ touch(k).at = k.at /\ touch(k).op = k.op /\ touch(k).backup = k.backup
             /\ touch(k).sections = k.sections /\ touch(k).left = k.left /\ touch(k).got = k.got
             /\ touch(k).next = k.next /\ touch(k).outcome = k.outcome
             /\ touch(k).before = k.before
             /\ k.at # "idle" => touch(k).touched = k.touched \cup {s}
  BY DEF CallRecord
<1> HIDE DEF touch
<1>4. proc' \in [BackupProcess -> CallRecord] /\ \A q \in BackupProcess : proc'[q] = touch(proc[q])
  BY <1>1, <1>2, <1>3
<1>5. section' \in [Section -> Content \cup {None}] /\ \A z \in Section : z # s => section'[z] = section[z]
  BY <1>1, <1>2
<1>6. BackupTypeOK'
  BY <1>2, <1>4, <1>5 DEF BackupInv, BackupTypeOK, CallRecord, Outcome
<1>7. \A q \in BackupProcess :
          /\ proc'[q].at = proc[q].at /\ proc'[q].op = proc[q].op
          /\ proc'[q].backup = proc[q].backup /\ proc'[q].next = proc[q].next
          /\ proc'[q].outcome = proc[q].outcome
  BY <1>1, <1>3, <1>4
<1>8. Exclusive' /\ Stages'
  BY <1>2, <1>7 DEF BackupInv, Exclusive, Stages, Staged
<1>9. Restores'
  <2> SUFFICES ASSUME NEW q \in BackupProcess, proc'[q].op = "restore"
               PROVE  Restoring(proc[q])'
    BY DEF Restores, Restoring
  <2>1. PICK k \in CallRecord : k = proc[q]
    BY <1>1
  <2>2. PICK next \in CallRecord : next = touch(k) /\ next = proc'[q]
    BY <1>3, <1>4, <2>1
  <2>3. k.op = "restore" /\ k.at # "idle" /\ Restoring(k)
    BY <1>7, <2>1 DEF BackupInv, Stages, Staged, Restores
  <2>4. ASSUME NEW z \in Section \ next.touched PROVE Progress(next, z)'
    <3>1. z # s /\ z \in Section \ k.touched
      BY <1>3, <2>2, <2>3
    <3>2. Progress(k, z) /\ section'[z] = section[z] /\ archive' = archive
      BY <1>2, <1>5, <2>3, <3>1 DEF Restoring
    <3>3. /\ next.at = k.at /\ next.backup = k.backup /\ next.sections = k.sections
          /\ next.left = k.left /\ next.got = k.got /\ next.outcome = k.outcome
          /\ next.before = k.before
      BY <1>3, <2>2
    <3> QED
      BY <3>2, <3>3 DEF Progress
  <2>5. Restoring(next)'
    BY <1>2, <1>3, <2>2, <2>3, <2>4 DEF Restoring
  <2> QED
    BY <2>2, <2>5
<1>10. Listed' = Listed
  BY <1>2 DEF Listed
<1>11. Lists'
  BY <1>2, <1>7, <1>10 DEF BackupInv, Lists, Listing, ListedArchived, ReturnedListed, CutsDeletion
<1> QED
  BY <1>6, <1>8, <1>9, <1>11 DEF BackupInv

-----------------------------------------------------------------------------
LEMMA BeginStep ==
    ASSUME BackupInv, NEW b \in BackupId,
           \/ \E S \in SUBSET Section : Create(b, S) \/ CreateFromJob(b, S)
           \/ Delete(b) \/ Restore(b)
    PROVE  BackupInv'
<1>1. ASSUME NEW S \in SUBSET Section, Create(b, S) \/ CreateFromJob(b, S) PROVE BackupInv'
  BY <1>1, EnterStep DEF Create, CreateFromJob, CreateBackup, BackupProcess, Holding
<1>2. CASE Delete(b)
  <2>1. {} \in SUBSET Section
    OBVIOUS
  <2>2. CASE b \in Listed
    BY <1>2, <2>1, <2>2, EnterStep DEF Delete, BackupProcess, Holding
  <2>3. CASE b \notin Listed
    BY <1>2, <2>1, <2>3, EnterStep DEF Delete, BackupProcess, Holding
  <2> QED
    BY <2>2, <2>3
<1>3. CASE Restore(b)
  <2>1. archive[b] \in Archive
    BY <1>3 DEF Restore, Restorable, BackupInv, BackupTypeOK
  <2>2. archive[b].sections \in SUBSET Section
    BY <2>1 DEF Archive
  <2> QED
    BY <1>3, <2>1, <2>2, EnterStep DEF Restore, BackupProcess, Holding
<1> QED
  BY <1>1, <1>2, <1>3

LEMMA BackupInvariant == BackupSpec => []BackupInv
<1>1. BackupInv /\ [BackupNext]_backupVars => BackupInv'
  <2> SUFFICES ASSUME BackupInv, [BackupNext]_backupVars PROVE BackupInv'
    OBVIOUS
  <2>1. ASSUME NEW p \in BackupProcess, CallNext(p) PROVE BackupInv'
    BY <2>1, CollectStep, SaveStep, ClearStep, WriteStep, UndoSectionStep, ArchiveStep, RemoveStep,
       TurnStep, ThrowStep, PersistStep, ReleaseStep, CrashStep
    DEF CallNext
  <2>2. CASE UNCHANGED backupVars
    BY <2>2 DEF backupVars, backupHistory, BackupInv, BackupTypeOK, Exclusive, Stages, Staged, Restores,
                Restoring, Progress, Lists, Listing, ListedArchived, ReturnedListed, Listed, CutsDeletion
  <2> QED
    BY <2>1, <2>2, ChangeStep, BeginStep DEF BackupNext
<1> QED
  BY <1>1, InitInv, PTL DEF BackupSpec

(* Every variable of the backup store keeps its type. *)
THEOREM TypeCorrect == BackupSpec => []BackupTypeOK
<1>1. BackupInv => BackupTypeOK
  BY DEF BackupInv
<1> QED
  BY <1>1, BackupInvariant, PTL

(* A restore leaves every section as the archive has it or, undone, as it   *)
(* was, whichever of its removals and writes fails and whatever the other   *)
(* process writes elsewhere meanwhile.                                      *)
THEOREM RestoreTheorem == BackupSpec => []RestoreIsWhole
BY BackupInvariant, InvImplies, PTL

(* A listed backup has its archive unless its deletion is open or was cut   *)
(* off, and a creation that was answered stays listed until it is deleted,  *)
(* until a state file is cut off.                                           *)
THEOREM RestorableTheorem == BackupSpec => []BackupsRestorable
BY BackupInvariant, InvImplies, PTL
-----------------------------------------------------------------------------
(* Media.  Whatever is on file or in the copy is a complete document, and   *)
(* an upload that goes on to its record or its links has what they need.    *)
Complete(doc) ==
    /\ doc \in Media!MediaDocument
    /\ \A r \in doc.media : r[1] \in content
    /\ \A l \in doc.links : \E t \in Media!Owner : <<l[1], t>> \in doc.media

UploadHas ==
    /\ upload.at # "idle" => upload.media \in MediaId /\ upload.tenant \in Media!Owner
    /\ upload.at \in {"recording", "linking"} => upload.media \in content
    /\ upload.at = "linking" => <<upload.media, upload.tenant>> \in Media!Doc.media

MediaInv ==
    /\ Media!MediaTypeOK
    /\ mediaFile # None => Complete(mediaFile)
    /\ mediaCopy["api"] # None => Complete(mediaCopy["api"])
    /\ UploadHas

LEMMA NoMediaComplete == Complete(Media!NoMedia)
BY DEF Complete, Media!NoMedia, Media!MediaDocument

LEMMA MediaComplete ==
    MediaInv => Complete(Media!Repository!OnFile) /\ Complete(Media!Doc)
BY NoMediaComplete DEF MediaInv, Media!Doc, Media!Repository!View, Media!Repository!OnFile

LEMMA MediaInvImplies == MediaInv => Media!MediaReadable
BY MediaComplete DEF Media!MediaReadable, Complete

LEMMA MediaInitInv == Media!MediaInit => MediaInv
BY DEF Media!Owner, Media!MediaInit, Media!NoUpload, MediaInv, Media!MediaTypeOK, UploadHas

(* A save of a complete document, with content that only grows. *)
LEMMA MediaSave ==
    ASSUME MediaInv, NEW doc, doc # None, Media!Repository!Save("api", doc),
           Complete(doc), UNCHANGED content
    PROVE  /\ mediaFile' \in Media!MediaDocument \cup {None}
           /\ mediaCopy' \in [{"api"} -> Media!MediaDocument \cup {None}]
           /\ mediaFile' # None => Complete(mediaFile)'
           /\ mediaCopy'["api"] # None => Complete(mediaCopy["api"])'
           /\ Media!Doc' = doc
<1>1. mediaFile' = doc /\ mediaCopy' = [mediaCopy EXCEPT !["api"] = doc]
  BY DEF Media!Repository!Save
<1>2. mediaCopy \in [{"api"} -> Media!MediaDocument \cup {None}] /\ doc \in Media!MediaDocument
  BY DEF MediaInv, Media!MediaTypeOK, Complete
<1>3. /\ mediaCopy' \in [{"api"} -> Media!MediaDocument \cup {None}]
      /\ mediaCopy'["api"] = doc
  BY <1>1, <1>2
<1>4. Complete(mediaFile)' /\ Complete(mediaCopy["api"])'
  BY <1>1, <1>3 DEF Complete
<1> QED
  BY <1>1, <1>2, <1>3, <1>4 DEF Media!Doc, Media!Repository!View

LEMMA MediaStep ==
    ASSUME None \notin Media!MediaDocument, MediaInv, [Media!MediaNext]_(Media!mediaVars)
    PROVE  MediaInv'
<1> USE DEF Media!MediaTypeOK
<1>1. ASSUME NEW m \in MediaId, NEW caller \in Media!Caller, NEW u \in Media!Upload,
             Media!StartUpload(m, caller, u)
      PROVE  MediaInv'
  <2>1. u.tenant \in Media!Owner /\ u.links \in SUBSET LinkObject
    BY DEF Media!Upload
  <2>2. upload' = [at |-> "storing", media |-> m, tenant |-> u.tenant, links |-> u.links]
    BY <1>1 DEF Media!StartUpload
  <2>3. UploadHas' /\ Media!MediaTypeOK'
    BY <1>1, <2>1, <2>2 DEF Media!StartUpload, UploadHas, MediaInv
  <2> QED
    BY <1>1, <2>3 DEF Media!StartUpload, MediaInv, Complete
<1>2. ASSUME Media!WriteObject PROVE MediaInv'
  <2>1. /\ upload.at = "storing" /\ content' = content \cup {upload.media}
        /\ upload' = [upload EXCEPT !.at = "recording"]
        /\ UNCHANGED <<mediaFile, mediaCopy>>
    BY <1>2 DEF Media!WriteObject
  <2>2. upload.media \in MediaId /\ upload.tenant \in Media!Owner
    BY <2>1 DEF MediaInv, UploadHas
  <2>3. UploadHas' /\ Media!MediaTypeOK'
    BY <2>1, <2>2 DEF UploadHas, MediaInv
  <2> QED
    BY <2>1, <2>3 DEF MediaInv, Complete
<1>3. ASSUME Media!SaveMedia PROVE MediaInv'
  <2> DEFINE record == <<upload.media, upload.tenant>>
             doc == [Media!Doc EXCEPT !.media = @ \cup {record}]
  <2>1. /\ upload.at = "recording" /\ upload' = [upload EXCEPT !.at = "linking"]
        /\ Media!Repository!Save("api", doc) /\ UNCHANGED content
    BY <1>3 DEF Media!SaveMedia
  <2>2. Complete(Media!Doc) /\ upload.media \in MediaId \cap content /\ upload.tenant \in Media!Owner
    BY <2>1, MediaComplete DEF MediaInv, UploadHas
  <2>3. doc.media = Media!Doc.media \cup {record} /\ doc.links = Media!Doc.links
    BY <2>2 DEF Complete, Media!MediaDocument
  <2>4. doc \in Media!MediaDocument
    BY <2>2 DEF Complete, Media!MediaDocument
  <2>5. Complete(doc)
    BY <2>2, <2>3, <2>4 DEF Complete
  <2> HIDE DEF doc
  <2>6. doc # None
    BY <2>4
  <2>7. /\ mediaFile' \in Media!MediaDocument \cup {None}
        /\ mediaCopy' \in [{"api"} -> Media!MediaDocument \cup {None}]
        /\ mediaFile' # None => Complete(mediaFile)'
        /\ mediaCopy'["api"] # None => Complete(mediaCopy["api"])'
        /\ Media!Doc' = doc
    BY <2>1, <2>5, <2>6, MediaSave
  <2>8. UploadHas'
    BY <2>1, <2>2, <2>3, <2>7 DEF UploadHas, MediaInv
  <2> QED
    BY <2>1, <2>2, <2>7, <2>8 DEF MediaInv
<1>4. ASSUME Media!SaveLinks PROVE MediaInv'
  <2> DEFINE doc == [Media!Doc EXCEPT !.links = @ \cup ({upload.media} \X upload.links)]
  <2>1. /\ upload.at = "linking" /\ upload' = Media!NoUpload
        /\ Media!Repository!Save("api", doc) /\ UNCHANGED content
    BY <1>4 DEF Media!SaveLinks
  <2>2. /\ Complete(Media!Doc) /\ <<upload.media, upload.tenant>> \in Media!Doc.media
        /\ upload.media \in MediaId /\ upload.tenant \in Media!Owner /\ upload.links \subseteq LinkObject
    BY <2>1, MediaComplete DEF MediaInv, UploadHas
  <2>3. /\ doc.media = Media!Doc.media
        /\ doc.links = Media!Doc.links \cup ({upload.media} \X upload.links)
    BY <2>2 DEF Complete, Media!MediaDocument
  <2>4. doc \in Media!MediaDocument
    BY <2>2 DEF Complete, Media!MediaDocument
  <2>5. Complete(doc)
    <3>1. ASSUME NEW l \in doc.links PROVE \E t \in Media!Owner : <<l[1], t>> \in doc.media
      <4>1. CASE l \in Media!Doc.links
        BY <2>2, <2>3, <4>1 DEF Complete
      <4>2. CASE l \in {upload.media} \X upload.links
        BY <2>2, <2>3, <4>2
      <4> QED
        BY <2>3, <3>1, <4>1, <4>2
    <3> QED
      BY <2>2, <2>3, <2>4, <3>1 DEF Complete
  <2> HIDE DEF doc
  <2>6. doc # None
    BY <2>4
  <2>7. /\ mediaFile' \in Media!MediaDocument \cup {None}
        /\ mediaCopy' \in [{"api"} -> Media!MediaDocument \cup {None}]
        /\ mediaFile' # None => Complete(mediaFile)'
        /\ mediaCopy'["api"] # None => Complete(mediaCopy["api"])'
    BY <2>1, <2>5, <2>6, MediaSave
  <2> QED
    BY <2>1, <2>7 DEF MediaInv, Media!Owner, UploadHas, Media!NoUpload
<1>5. ASSUME Media!ReadMedia PROVE MediaInv'
  <2>1. /\ upload.at = "idle" /\ UNCHANGED <<mediaFile, content, upload>>
        /\ mediaCopy' = [mediaCopy EXCEPT !["api"] =
              IF @ # None THEN @ ELSE Media!Repository!OnFile]
    BY <1>5 DEF Media!ReadMedia, Media!Repository!Load
  <2>2. mediaCopy \in [{"api"} -> Media!MediaDocument \cup {None}]
    BY DEF MediaInv
  <2>3. mediaCopy'["api"] \in {mediaCopy["api"], Media!Repository!OnFile}
    BY <2>1, <2>2
  <2>4. mediaCopy'["api"] # None => Complete(mediaCopy'["api"])
    BY <2>3, MediaComplete DEF MediaInv
  <2>5. mediaCopy' \in [{"api"} -> Media!MediaDocument \cup {None}]
    BY <2>1, <2>2, MediaComplete DEF Complete
  <2> QED
    BY <2>1, <2>4, <2>5 DEF MediaInv, Complete, UploadHas
<1>6. ASSUME Media!MediaCrash PROVE MediaInv'
  <2>1. /\ mediaFile' \in {None, mediaFile} /\ mediaCopy' = [i \in {"api"} |-> None]
        /\ upload' = Media!NoUpload /\ UNCHANGED content
    BY <1>6 DEF Media!MediaCrash, Media!Repository!Restart
  <2> QED
    BY <2>1 DEF MediaInv, Media!Owner, Complete, UploadHas, Media!NoUpload
<1>7. CASE UNCHANGED Media!mediaVars
  BY <1>7 DEF MediaInv, Complete, UploadHas, Media!mediaVars, Media!Doc,
     Media!Repository!View, Media!Repository!OnFile
<1> QED
  BY <1>1, <1>2, <1>3, <1>4, <1>5, <1>6, <1>7 DEF Media!MediaNext

(* What has a record has its content, and what is linked has a record, on   *)
(* Neither the file nor what is served names content or a record that is    *)
(* not there, whichever of an upload's three writes is the last.            *)
THEOREM MediaTheorem == Media!MediaSpec => []Media!MediaReadable
<1>1. MediaInv /\ [Media!MediaNext]_(Media!mediaVars) => MediaInv'
  BY MediaStep, StoresAssumption DEF StoresAssumption
<1> QED
  BY <1>1, MediaInitInv, MediaInvImplies, PTL DEF Media!MediaSpec

(* Every variable of the media keeps its type. *)
THEOREM MediaTypes == Media!MediaSpec => []Media!MediaTypeOK
<1>1. MediaInv /\ [Media!MediaNext]_(Media!mediaVars) => MediaInv'
  BY MediaStep, StoresAssumption DEF StoresAssumption
<1>2. MediaInv => Media!MediaTypeOK
  BY DEF MediaInv
<1> QED
  BY <1>1, <1>2, MediaInitInv, PTL DEF Media!MediaSpec

(* A record is never kept or served without what it stands for: a backup    *)
(* without its archive, or a media record or link without its object        *)
(* (backup and media services), whichever of their steps fails.             *)
THEOREM ContentTheorem == BackupSpec /\ Media!MediaSpec => []RecordsHaveContent
BY RestorableTheorem, MediaTheorem, PTL DEF RecordsHaveContent

-----------------------------------------------------------------------------
(* Transfer.  Of a dataset that is not clobbered, the file has what was     *)
(* saved last, and so has what an import loaded if it has not missed it.    *)
ImportRecord ==
    [at : {"idle", "loaded", "saved"}, job : ImportJob \cup {None},
     dataset : Dataset \cup {None}, records : Recorded,
     seen : [Dataset -> Recorded], missed : SUBSET Dataset]

Loaded(i) == i.at = "loaded" => i.dataset \in Dataset

SeesLatest(i) ==
    i.at = "loaded" => \A d \in Dataset \ (clobbered \cup i.missed) : i.seen[d] = latest[d]

TransferInv ==
    /\ store \in [Dataset -> Recorded] \cup {None}
    /\ importing \in [Transfer!TransferProcess -> ImportRecord]
    /\ queued \in [ImportJob -> Transfer!Import \cup {None}]
    /\ latest \in [Dataset -> Recorded]
    /\ clobbered \in SUBSET Dataset
    /\ \A p \in Transfer!TransferProcess : Loaded(importing[p]) /\ SeesLatest(importing[p])
    /\ Transfer!ImportsStay

LEMMA NoImportFits ==
    DefaultsAreRecords => /\ Default \in [Dataset -> Recorded]
                          /\ Transfer!NoImport \in ImportRecord
                          /\ Transfer!NoImport.at = "idle"
<1> SUFFICES ASSUME DefaultsAreRecords PROVE Default \in [Dataset -> Recorded]
                          /\ Transfer!NoImport \in ImportRecord
                          /\ Transfer!NoImport.at = "idle"
  OBVIOUS
<1>1. Default \in [Dataset -> Recorded]
  BY DEF DefaultsAreRecords, Recorded
<1> QED
  BY <1>1 DEF Transfer!NoImport, ImportRecord, Recorded

LEMMA TransferInitInv == DefaultsAreRecords /\ Transfer!TransferInit => TransferInv
BY NoImportFits DEF Transfer!TransferInit, TransferInv, Loaded, SeesLatest, Transfer!ImportsStay,
   Transfer!Stored

(* A load sees what is stored, or is marked as one that fell into a save.   *)
LEMMA LoadStep ==
    ASSUME DefaultsAreRecords, TransferInv, NEW p \in Transfer!TransferProcess,
           NEW j \in ImportJob \cup {None}, NEW import \in Transfer!Import,
           Transfer!Load(p, j, import), UNCHANGED <<store, queued, latest, clobbered>>
    PROVE  TransferInv'
<1>1. PICK torn \in BOOLEAN :
          importing' = [importing EXCEPT ![p] =
              [at |-> "loaded", job |-> j, dataset |-> import.dataset,
               records |-> Transfer!Validated(import.document),
               seen |-> IF torn THEN Default ELSE Transfer!Stored, missed |-> IF torn THEN Dataset ELSE {}]]
  BY DEF Transfer!Load
<1>2. /\ import.dataset \in Dataset /\ Transfer!Validated(import.document) \in Recorded
      /\ Transfer!Stored \in [Dataset -> Recorded] /\ Default \in [Dataset -> Recorded]
  BY NoImportFits DEF Transfer!Import, Recorded, Transfer!Stored, TransferInv
<1>3. PICK new \in ImportRecord :
          new = [at |-> "loaded", job |-> j, dataset |-> import.dataset,
                 records |-> Transfer!Validated(import.document),
                 seen |-> IF torn THEN Default ELSE Transfer!Stored, missed |-> IF torn THEN Dataset ELSE {}]
  BY <1>2 DEF ImportRecord
<1>4. importing' = [importing EXCEPT ![p] = new]
  BY <1>1, <1>3
<1>5. Loaded(new)' /\ SeesLatest(new)'
  BY <1>2, <1>3 DEF Loaded, SeesLatest, TransferInv, Transfer!ImportsStay
<1> QED
  BY <1>4, <1>5 DEF TransferInv, Loaded, SeesLatest, Transfer!ImportsStay, Transfer!Stored

(* A save replaces one dataset by what it saw of the others, and whoever    *)
(* has loaded meanwhile is marked.                                          *)
LEMMA SaveImportStep ==
    ASSUME DefaultsAreRecords, TransferInv, NEW p \in Transfer!TransferProcess, Transfer!Save(p)
    PROVE  TransferInv'
<1>1. PICK import \in ImportRecord : import = importing[p]
  BY DEF TransferInv
<1>2. /\ import.at = "loaded" /\ store' = [import.seen EXCEPT ![import.dataset] = import.records]
      /\ latest' = [latest EXCEPT ![import.dataset] = import.records]
      /\ clobbered' = (clobbered \cup import.missed) \ {import.dataset}
      /\ queued' = queued
  BY <1>1 DEF Transfer!Save, Transfer!WithDataset
<1>3. importing' = [q \in Transfer!TransferProcess |->
          IF q = p THEN [import EXCEPT !.at = IF p = "api" THEN "idle" ELSE "saved"]
          ELSE [importing[q] EXCEPT !.missed = IF importing[q].at = "loaded"
                                               THEN @ \cup {import.dataset} ELSE @]]
  BY <1>1 DEF Transfer!Save
<1>4. /\ import.dataset \in Dataset /\ import.records \in Recorded
      /\ import.seen \in [Dataset -> Recorded]
  BY <1>1, <1>2 DEF TransferInv, Loaded, ImportRecord
<1>5. store' \in [Dataset -> Recorded] /\ latest' \in [Dataset -> Recorded] /\ store' # None
  <2>1. store' \in [Dataset -> Recorded] /\ latest' \in [Dataset -> Recorded]
    BY <1>2, <1>4 DEF TransferInv
  <2> QED
    BY <2>1 DEF DefaultsAreRecords
<1>6. ASSUME NEW q \in Transfer!TransferProcess
      PROVE  /\ importing'[q] \in ImportRecord
             /\ Loaded(importing[q])' /\ SeesLatest(importing[q])'
  <2>1. CASE q = p
    <3>1. importing'[q] = [import EXCEPT !.at = IF p = "api" THEN "idle" ELSE "saved"]
      BY <1>3, <2>1
    <3> QED
      BY <3>1 DEF ImportRecord, Loaded, SeesLatest
  <2>2. CASE q # p
    <3>1. PICK other \in ImportRecord : other = importing[q]
      BY DEF TransferInv
    <3>2. PICK missed \in SUBSET Dataset :
            missed = IF other.at = "loaded" THEN other.missed \cup {import.dataset} ELSE other.missed
      BY <1>4 DEF ImportRecord
    <3>3. importing'[q] = [other EXCEPT !.missed = missed]
      BY <1>3, <2>2, <3>1, <3>2
    <3>4. /\ importing'[q] \in ImportRecord /\ importing'[q].at = other.at
          /\ importing'[q].dataset = other.dataset
          /\ importing'[q].seen = other.seen /\ importing'[q].missed = missed
      BY <3>3 DEF ImportRecord
    <3>5. Loaded(other) /\ SeesLatest(other)
      BY <3>1 DEF TransferInv
    <3>6. ASSUME other.at = "loaded", NEW d \in Dataset, d \notin clobbered', d \notin missed
          PROVE  other.seen[d] = latest'[d]
      <4>1. d # import.dataset /\ d \notin other.missed /\ d \notin clobbered
        BY <1>2, <3>2, <3>6
      <4> QED
        BY <1>2, <1>4, <3>5, <3>6, <4>1 DEF SeesLatest, TransferInv
    <3> QED
      BY <3>4, <3>5, <3>6 DEF Loaded, SeesLatest
  <2> QED
    BY <2>1, <2>2
<1>7. importing' \in [Transfer!TransferProcess -> ImportRecord]
  BY <1>3, <1>6
<1>8. Transfer!ImportsStay'
  <2>1. \A d \in Dataset : d = import.dataset => store'[d] = latest'[d]
    BY <1>2, <1>4 DEF TransferInv
  <2>2. \A d \in Dataset \ clobbered' : d # import.dataset => store'[d] = latest'[d]
    BY <1>1, <1>2, <1>4 DEF TransferInv, SeesLatest
  <2> QED
    BY <1>5, <2>1, <2>2 DEF Transfer!ImportsStay, Transfer!Stored
<1>9. clobbered' \in SUBSET Dataset
  BY <1>1, <1>2 DEF TransferInv, ImportRecord
<1> QED
  BY <1>2, <1>5, <1>6, <1>7, <1>8, <1>9 DEF TransferInv

LEMMA TransferStep ==
    ASSUME DefaultsAreRecords, TransferInv, [Transfer!TransferNext]_(Transfer!transferVars)
    PROVE  TransferInv'
<1>1. ASSUME NEW import \in Transfer!Import, Transfer!CommitNow(import) PROVE TransferInv'
  BY <1>1, LoadStep DEF Transfer!CommitNow, Transfer!TransferProcess
<1>2. ASSUME NEW import \in Transfer!Import, NEW j \in ImportJob, NEW wanted \in BOOLEAN,
             Transfer!CommitAsJob(j, import, wanted)
      PROVE  TransferInv'
  BY <1>2 DEF Transfer!CommitAsJob, TransferInv, Loaded, SeesLatest, Transfer!ImportsStay,
     Transfer!Stored
<1>3. ASSUME NEW j \in ImportJob, Transfer!RunJob(j) PROVE TransferInv'
  <2>1. queued[j] \in Transfer!Import
    BY <1>3 DEF Transfer!RunJob, TransferInv
  <2> QED
    BY <1>3, <2>1, LoadStep DEF Transfer!RunJob, Transfer!TransferProcess
<1>4. ASSUME NEW p \in Transfer!TransferProcess, Transfer!Save(p) PROVE TransferInv'
  BY <1>4, SaveImportStep
<1>5. ASSUME NEW p \in Transfer!TransferProcess, Transfer!SaveFails(p) PROVE TransferInv'
  BY <1>5, NoImportFits DEF Transfer!SaveFails, TransferInv, Loaded, SeesLatest,
     Transfer!ImportsStay, Transfer!Stored
<1>6. ASSUME NEW p \in Transfer!TransferProcess, Transfer!ImportCrash(p) PROVE TransferInv'
  <2>1. /\ importing' = [importing EXCEPT ![p] = Transfer!NoImport]
        /\ UNCHANGED <<queued, latest>>
        /\ \/ UNCHANGED <<store, clobbered>>
           \/ store' = None /\ clobbered' = Dataset
    BY <1>6 DEF Transfer!ImportCrash
  <2> QED
    BY <2>1, NoImportFits DEF TransferInv, Loaded, SeesLatest, Transfer!ImportsStay,
       Transfer!Stored
<1>7. ASSUME Transfer!Settle PROVE TransferInv'
  <2>1. /\ importing' = [importing EXCEPT !["worker"] = Transfer!NoImport]
        /\ queued' = [queued EXCEPT ![importing["worker"].job] = None]
        /\ UNCHANGED <<store, latest, clobbered>>
    BY <1>7 DEF Transfer!Settle
  <2>2. queued' \in [ImportJob -> Transfer!Import \cup {None}]
    BY <2>1 DEF TransferInv
  <2> QED
    BY <2>1, <2>2, NoImportFits DEF TransferInv, Loaded, SeesLatest, Transfer!ImportsStay,
       Transfer!Stored, Transfer!TransferProcess
<1>8. CASE UNCHANGED Transfer!transferVars
  BY <1>8 DEF Transfer!transferVars, TransferInv, Loaded, SeesLatest, Transfer!ImportsStay,
     Transfer!Stored
<1> QED
  BY <1>1, <1>2, <1>3, <1>4, <1>5, <1>6, <1>7, <1>8 DEF Transfer!TransferNext

(* Each dataset holds what was saved to it last, but for those that a later *)
(* import saved over, not having seen them when it loaded the file.         *)
THEOREM ImportsTheorem == Transfer!TransferSpec => []ImportsStay
<1>1. Transfer!TransferInit => TransferInv
  BY TransferInitInv, StoresAssumption DEF StoresAssumption
<1>2. TransferInv /\ [Transfer!TransferNext]_(Transfer!transferVars) => TransferInv'
  BY TransferStep, StoresAssumption DEF StoresAssumption
<1>3. TransferInv => ImportsStay
  BY DEF TransferInv, ImportsStay
<1> QED
  BY <1>1, <1>2, <1>3, PTL DEF Transfer!TransferSpec

-----------------------------------------------------------------------------
(* Pages.  The request of a view's last question is the only one of its     *)
(* view that is not superseded, and it is out until the view is fresh.      *)
PaneRecord == [asked : Key \cup {Pages!Nothing, None}, shown : Key \cup {Pages!Nothing, None},
               status : {"idle", "loading", "ready", "error"}]

RequestRecord ==
    [view : Pages!View, key : Key, at : {"sent", "headers"}, superseded : BOOLEAN]

Current(r) == request[r] # None /\ ~ request[r].superseded

PagesTyped ==
    /\ pane \in [Pages!View -> PaneRecord]
    /\ request \in [Request -> RequestRecord \cup {None}]

(* What is claimed of the requests that are out. *)
RequestsInv ==
    /\ \A r \in Request :
          Current(r) => /\ request[r].key = pane[request[r].view].asked
                        /\ request[r].view \notin fresh
    /\ \A q, r \in Request :
          Current(q) /\ Current(r) /\ request[q].view = request[r].view => q = r
    /\ \A r \in Request :
          request[r] # None /\ request[r].superseded /\ request[r].view \in Bare
          => request[r].view \in overlap

PagesInv == PagesTyped /\ RequestsInv /\ fresh \subseteq Pages!View /\ Pages!ShownIsAsked

LEMMA NewPaneFits == Pages!NewPane \in PaneRecord /\ Pages!NewPane.status = "idle"
BY DEF Pages!NewPane, PaneRecord

LEMMA HooksAreViews == Hook \subseteq Pages!View
BY DEF Pages!View

LEMMA PagesInitInv == Pages!PagesInit => PagesInv
BY NewPaneFits, HooksAreViews DEF Pages!PagesInit, PagesInv, PagesTyped, RequestsInv, Current, Pages!ShownIsAsked

(* Asking supersedes whatever is out for the view, and drops a hook's       *)
(* request that has no headers yet.                                         *)
LEMMA SupersededOut ==
    ASSUME PagesInv, NEW v \in Pages!View, NEW r \in Request
    PROVE  /\ Pages!Superseded(v)[r] \in RequestRecord \cup {None}
           /\ \/ Pages!Superseded(v)[r] = None
              \/ /\ request[r] # None
                 /\ Pages!Superseded(v)[r].view = request[r].view
                 /\ Pages!Superseded(v)[r].key = request[r].key
                 /\ request[r].view = v => Pages!Superseded(v)[r].superseded
                 /\ request[r].view # v => Pages!Superseded(v)[r] = request[r]
<1>1. CASE request[r] = None
  BY <1>1 DEF Pages!Superseded, Pages!Out
<1>2. CASE request[r] # None
  <2>1. PICK old \in RequestRecord : old = request[r]
    BY <1>2 DEF PagesInv, PagesTyped
  <2>2. Pages!Superseded(v)[r] =
          IF old.view # v THEN old
          ELSE IF v \in Hook /\ old.at = "sent" THEN None
          ELSE [old EXCEPT !.superseded = TRUE]
    BY <1>2, <2>1 DEF Pages!Superseded, Pages!Out
  <2> QED
    BY <1>2, <2>1, <2>2 DEF RequestRecord
<1> QED
  BY <1>1, <1>2

LEMMA AskStep ==
    ASSUME PagesInv, NEW v \in Pages!View, NEW k \in Key, NEW r \in Request, Pages!Ask(v, k, r)
    PROVE  PagesInv'
<1>1. PICK new \in RequestRecord : new = [view |-> v, key |-> k, at |-> "sent", superseded |-> FALSE]
  BY DEF RequestRecord
<1>2. /\ request[r] = None /\ request' = [Pages!Superseded(v) EXCEPT ![r] = new]
      /\ fresh' = fresh \ {v}
      /\ overlap' = IF Pages!Out(v) # {} THEN overlap \cup {v} ELSE overlap
  BY <1>1 DEF Pages!Ask, Pages!Asking
<1>3. PICK old \in PaneRecord : old = pane[v]
  BY DEF PagesInv, PagesTyped
<1>4. PICK next \in PaneRecord :
          next = [old EXCEPT !.asked = k, !.status = IF v \in Hook THEN "loading" ELSE @]
  BY DEF PaneRecord
<1>5. pane' = [pane EXCEPT ![v] = next]
  BY <1>3, <1>4 DEF Pages!Ask, PagesInv, PagesTyped
<1>6. /\ pane' \in [Pages!View -> PaneRecord] /\ pane'[v] = next
      /\ \A u \in Pages!View : u # v => pane'[u] = pane[u]
  BY <1>5 DEF PagesInv, PagesTyped
<1>7. Pages!Superseded(v) = [q \in Request |-> Pages!Superseded(v)[q]]
  BY DEF Pages!Superseded
<1>8. /\ request'[r] = new
      /\ \A q \in Request : q # r => request'[q] = Pages!Superseded(v)[q]
  BY <1>2, <1>7
<1>9. request' \in [Request -> RequestRecord \cup {None}]
  BY <1>2, <1>7, SupersededOut
<1>10. ASSUME NEW q \in Request, q # r, Current(q)'
       PROVE  Current(q) /\ request'[q] = request[q] /\ request[q].view # v
  BY <1>8, <1>10, SupersededOut DEF Current
<1>11. new.view = v /\ new.key = k /\ next.asked = k /\ ~ new.superseded
  BY <1>1, <1>4 DEF PaneRecord
<1>12. RequestsInv'
  <2>1. ASSUME NEW q \in Request, Current(q)'
        PROVE  /\ request'[q].key = pane'[request'[q].view].asked
               /\ request'[q].view \notin fresh'
    <3>1. CASE q = r
      BY <1>2, <1>6, <1>8, <1>11, <3>1
    <3>2. CASE q # r
      <4>1. Current(q) /\ request'[q] = request[q] /\ request[q].view # v
        BY <1>10, <2>1, <3>2
      <4>2. request[q].view \in Pages!View
        BY <4>1 DEF Current, PagesInv, PagesTyped, RequestRecord
      <4> QED
        BY <1>2, <1>6, <4>1, <4>2 DEF PagesInv, RequestsInv
    <3> QED
      BY <3>1, <3>2
  <2>2. ASSUME NEW q \in Request, NEW s \in Request, Current(q)', Current(s)',
               request'[q].view = request'[s].view
        PROVE  q = s
    BY <1>8, <1>10, <1>11, <2>2 DEF PagesInv, RequestsInv
  <2>3. ASSUME NEW q \in Request, request'[q] # None, request'[q].superseded,
               request'[q].view \in Bare
        PROVE  request'[q].view \in overlap'
    <3>1. q # r /\ request'[q] = Pages!Superseded(v)[q]
      BY <1>8, <1>11, <2>3
    <3>2. request[q] # None /\ request'[q].view = request[q].view
      BY <2>3, <3>1, SupersededOut
    <3>3. CASE request[q].view = v
      BY <1>2, <3>2, <3>3 DEF Pages!Out
    <3>4. CASE request[q].view # v
      <4>1. request'[q] = request[q]
        BY <2>3, <3>1, <3>4, SupersededOut
      <4> QED
        BY <1>2, <2>3, <4>1 DEF PagesInv, RequestsInv
    <3> QED
      BY <3>3, <3>4
  <2> QED
    BY <2>1, <2>2, <2>3 DEF RequestsInv
<1>13. Pages!ShownIsAsked'
  <2>1. next.status = "ready" => v \notin Hook
    BY <1>4 DEF PaneRecord
  <2>2. Hook \subseteq Pages!View
    BY DEF Pages!View
  <2> QED
    BY <1>2, <1>6, <2>1, <2>2 DEF PagesInv, Pages!ShownIsAsked
<1> QED
  BY <1>2, <1>6, <1>9, <1>12, <1>13 DEF PagesInv, PagesTyped

LEMMA ClearStepOfPage ==
    ASSUME PagesInv, NEW v \in Pages!View, Pages!Clear(v)
    PROVE  PagesInv'
<1>1. PICK next \in PaneRecord :
          next = [asked |-> Pages!Nothing, shown |-> Pages!Nothing, status |-> "idle"]
  BY DEF PaneRecord
<1>2. /\ request' = Pages!Superseded(v) /\ fresh' = fresh \ {v}
      /\ overlap' = IF Pages!Out(v) # {} THEN overlap \cup {v} ELSE overlap
      /\ pane' = [pane EXCEPT ![v] = next]
  BY <1>1 DEF Pages!Clear, Pages!Asking
<1>3. /\ pane' \in [Pages!View -> PaneRecord] /\ pane'[v] = next
      /\ \A u \in Pages!View : u # v => pane'[u] = pane[u]
  BY <1>2 DEF PagesInv, PagesTyped
<1>4. request' \in [Request -> RequestRecord \cup {None}]
  <2>1. Pages!Superseded(v) = [q \in Request |-> Pages!Superseded(v)[q]]
    BY DEF Pages!Superseded
  <2> QED
    BY <1>2, <2>1, SupersededOut
<1>5. ASSUME NEW q \in Request, Current(q)'
      PROVE  /\ Current(q) /\ request'[q] = request[q] /\ request[q].view # v
             /\ request[q].view \in Pages!View
  <2>1. Current(q) /\ request'[q] = request[q] /\ request[q].view # v
    BY <1>2, <1>5, SupersededOut DEF Current
  <2> QED
    BY <2>1 DEF Current, PagesInv, PagesTyped, RequestRecord
<1>6. ASSUME NEW q \in Request, request'[q] # None, request'[q].superseded,
             request'[q].view \in Bare
      PROVE  request'[q].view \in overlap'
  <2>1. request[q] # None /\ request'[q].view = request[q].view
    BY <1>2, <1>6, SupersededOut
  <2>2. CASE request[q].view = v
    BY <1>2, <2>1, <2>2 DEF Pages!Out
  <2>3. CASE request[q].view # v
    <3>1. request'[q] = request[q]
      BY <1>2, <1>6, <2>3, SupersededOut
    <3> QED
      BY <1>2, <1>6, <3>1 DEF PagesInv, RequestsInv
  <2> QED
    BY <2>2, <2>3
<1>7. RequestsInv'
  <2>1. ASSUME NEW q \in Request, Current(q)'
        PROVE  /\ request'[q].key = pane'[request'[q].view].asked
               /\ request'[q].view \notin fresh'
    BY <1>2, <1>3, <1>5, <2>1 DEF PagesInv, RequestsInv
  <2>2. ASSUME NEW q \in Request, NEW s \in Request, Current(q)', Current(s)',
               request'[q].view = request'[s].view
        PROVE  q = s
    BY <1>5, <2>2 DEF PagesInv, RequestsInv
  <2> QED
    BY <1>6, <2>1, <2>2 DEF RequestsInv
<1>8. Pages!ShownIsAsked'
  <2>1. next.status # "ready" /\ Hook \subseteq Pages!View
    BY <1>1 DEF Pages!View
  <2> QED
    BY <1>2, <1>3, <2>1 DEF PagesInv, Pages!ShownIsAsked
<1> QED
  BY <1>2, <1>3, <1>4, <1>7, <1>8 DEF PagesInv, PagesTyped

LEMMA LeaveStep ==
    ASSUME PagesInv, NEW V \in SUBSET Pages!View, Pages!Leave(V)
    PROVE  PagesInv'
<1>1. /\ pane' = [v \in Pages!View |-> IF v \in V THEN Pages!NewPane ELSE pane[v]]
      /\ request' = [r \in Request |->
            IF request[r] # None /\ request[r].view \in V THEN None ELSE request[r]]
      /\ fresh' = fresh \ V /\ overlap' = overlap \ V
  BY DEF Pages!Leave
<1>2. \A r \in Request :
         request'[r] # None => request'[r] = request[r] /\ request[r].view \in Pages!View \ V
  BY <1>1 DEF PagesInv, PagesTyped, RequestRecord
<1>3. PagesTyped'
  BY <1>1, NewPaneFits DEF PagesInv, PagesTyped
<1>4. RequestsInv'
  BY <1>1, <1>2 DEF PagesInv, RequestsInv, Current
<1>5. Pages!ShownIsAsked'
  <2>1. Hook \subseteq Pages!View
    BY DEF Pages!View
  <2> QED
    BY <1>1, <2>1, NewPaneFits DEF PagesInv, Pages!ShownIsAsked
<1> QED
  BY <1>1, <1>3, <1>4, <1>5 DEF PagesInv

(* A request comes back and is forgotten, with a new status at most. *)
LEMMA BackStep ==
    ASSUME PagesInv, NEW r \in Request, request[r] # None,
           NEW status \in {"ready", "error", "loading", "idle"},
           status # "ready" \/ pane[request[r].view].status = "ready",
           pane' = [pane EXCEPT ![request[r].view].status = status],
           request' = [request EXCEPT ![r] = None], UNCHANGED <<fresh, overlap>>
    PROVE  PagesInv'
<1>1. PICK v \in Pages!View : v = request[r].view
  BY DEF PagesInv, PagesTyped, RequestRecord
<1>2. PICK old \in PaneRecord : old = pane[v]
  BY DEF PagesInv, PagesTyped
<1>3. PICK next \in PaneRecord : next = [old EXCEPT !.status = status]
  BY DEF PaneRecord
<1>4. next.asked = old.asked /\ next.shown = old.shown /\ next.status = status
  BY <1>3 DEF PaneRecord
<1>5. /\ pane' \in [Pages!View -> PaneRecord] /\ pane'[v] = next
      /\ \A u \in Pages!View : u # v => pane'[u] = pane[u]
  BY <1>1, <1>2, <1>3 DEF PagesInv, PagesTyped
<1>6. /\ \A u \in Pages!View : pane'[u].asked = pane[u].asked /\ pane'[u].shown = pane[u].shown
      /\ \A u \in Pages!View : pane'[u].status = "ready" => pane[u].status = "ready"
  BY <1>1, <1>2, <1>4, <1>5
<1>7. /\ request' \in [Request -> RequestRecord \cup {None}]
      /\ \A q \in Request : request'[q] # None =>
            request'[q] = request[q] /\ request[q].view \in Pages!View
  BY DEF PagesInv, PagesTyped, RequestRecord
<1>8. RequestsInv'
  BY <1>6, <1>7 DEF PagesInv, RequestsInv, Current
<1>9. Pages!ShownIsAsked'
  <2>1. Hook \subseteq Pages!View
    BY DEF Pages!View
  <2> QED
    BY <1>6, <2>1 DEF PagesInv, Pages!ShownIsAsked
<1> QED
  BY <1>5, <1>7, <1>8, <1>9 DEF PagesInv, PagesTyped

(* An answer of a view's last question makes it fresh; any other is taken   *)
(* by a bare page only, and its requests have overlapped then.              *)
LEMMA AnswerStep ==
    ASSUME Hook \cap Bare = {}, PagesInv, NEW r \in Request, Pages!Answer(r)
    PROVE  PagesInv'
<1>1. PICK old \in RequestRecord : old = request[r]
  BY DEF Pages!Answer, Pages!Arrived, PagesInv, PagesTyped
<1>2. PICK v \in Pages!View, k \in Key : v = old.view /\ k = old.key
  BY DEF RequestRecord
<1>3. PICK before \in PaneRecord : before = pane[v]
  BY DEF PagesInv, PagesTyped
<1>4. PICK next \in PaneRecord :
          next = [before EXCEPT !.shown = k, !.status = IF v \in Hook THEN "ready" ELSE @]
  BY DEF PaneRecord
<1>5. next.asked = before.asked /\ next.shown = k
  BY <1>4 DEF PaneRecord
<1>6. /\ pane' \in [Pages!View -> PaneRecord] /\ pane'[v] = next
      /\ \A u \in Pages!View : u # v => pane'[u] = pane[u]
  BY <1>1, <1>2, <1>3, <1>4 DEF Pages!Answer, Pages!Apply, PagesInv, PagesTyped
<1>7. /\ old # None /\ request' = [request EXCEPT ![r] = None] /\ UNCHANGED overlap
      /\ fresh' = IF old.superseded THEN fresh ELSE fresh \cup {v}
      /\ old.superseded => v \in Bare
  BY <1>1, <1>2 DEF Pages!Answer, Pages!Apply, Pages!Arrived
<1>8. /\ request' \in [Request -> RequestRecord \cup {None}]
      /\ \A q \in Request : request'[q] # None =>
            q # r /\ request'[q] = request[q] /\ request[q].view \in Pages!View
  BY <1>7 DEF PagesInv, PagesTyped, RequestRecord
<1>9. \A u \in Pages!View : pane'[u].asked = pane[u].asked
  BY <1>3, <1>5, <1>6
<1>10. RequestsInv'
  <2>1. ASSUME NEW q \in Request, Current(q)' PROVE request[q].view \notin fresh'
    <3>1. q # r /\ Current(q)
      BY <1>8, <2>1 DEF Current
    <3>2. ~ old.superseded => request[q].view # v
      BY <1>1, <1>2, <1>7, <3>1 DEF PagesInv, RequestsInv, Current
    <3> QED
      BY <1>7, <3>1, <3>2 DEF PagesInv, RequestsInv
  <2> QED
    BY <1>7, <1>8, <1>9, <2>1 DEF PagesInv, RequestsInv, Current
<1>11. v \in fresh' => v \in Bare \cap overlap \/ next.shown = next.asked
  <2>1. CASE old.superseded
    BY <1>1, <1>2, <1>7, <2>1 DEF PagesInv, RequestsInv
  <2>2. CASE ~ old.superseded
    BY <1>1, <1>2, <1>3, <1>5, <1>7, <2>2 DEF PagesInv, RequestsInv, Current
  <2> QED
    BY <2>1, <2>2
<1>12. v \in Hook => v \in fresh'
  BY <1>7
<1>13. Pages!ShownIsAsked'
  <2>1. Hook \subseteq Pages!View /\ fresh' \ {v} \subseteq fresh /\ fresh \subseteq fresh'
    BY <1>7 DEF Pages!View
  <2>2. fresh \subseteq Pages!View
    BY DEF PagesInv
  <2> QED
    BY <1>6, <1>7, <1>11, <1>12, <2>1, <2>2 DEF PagesInv, Pages!ShownIsAsked
<1> QED
  BY <1>6, <1>7, <1>8, <1>10, <1>13 DEF PagesInv, PagesTyped

LEMMA PagesStep ==
    ASSUME Hook \cap Bare = {}, PagesInv, [Pages!PagesNext]_(Pages!pagesVars)
    PROVE  PagesInv'
<1>1. ASSUME NEW V \in SUBSET Pages!View, Pages!Leave(V) PROVE PagesInv'
  BY <1>1, LeaveStep
<1>2. ASSUME NEW r \in Request, Pages!Headers(r) PROVE PagesInv'
  <2>1. PICK old \in RequestRecord : old = request[r]
    BY <1>2 DEF Pages!Headers, PagesInv, PagesTyped
  <2>2. PICK new \in RequestRecord : new = [old EXCEPT !.at = "headers"]
    BY DEF RequestRecord
  <2>3. new.view = old.view /\ new.key = old.key /\ new.superseded = old.superseded
    BY <2>2 DEF RequestRecord
  <2>4. /\ old # None /\ request' = [request EXCEPT ![r] = new]
        /\ UNCHANGED <<pane, fresh, overlap>>
    BY <1>2, <2>1, <2>2 DEF Pages!Headers, PagesInv, PagesTyped
  <2>5. /\ request' \in [Request -> RequestRecord \cup {None}] /\ request'[r] = new
        /\ \A q \in Request : q # r => request'[q] = request[q]
    BY <2>4 DEF PagesInv, PagesTyped
  <2>6. RequestsInv'
    BY <2>1, <2>3, <2>4, <2>5 DEF PagesInv, RequestsInv, Current
  <2> QED
    BY <2>4, <2>5, <2>6 DEF PagesInv, PagesTyped, Pages!ShownIsAsked
<1>3. ASSUME NEW r \in Request, Pages!Ignore(r) PROVE PagesInv'
  <2>1. /\ request' = [request EXCEPT ![r] = None] /\ UNCHANGED <<pane, fresh, overlap>>
    BY <1>3 DEF Pages!Ignore
  <2>2. RequestsInv'
    BY <2>1 DEF PagesInv, PagesTyped, RequestsInv, Current
  <2> QED
    BY <2>1, <2>2 DEF PagesInv, PagesTyped, Pages!ShownIsAsked
<1>4. ASSUME NEW r \in Request, Pages!Stray(r) PROVE PagesInv'
  BY <1>4, BackStep DEF Pages!Stray, Pages!Arrived
<1>5. ASSUME NEW r \in Request, Pages!Fail(r) PROVE PagesInv'
  <2>1. PICK v \in Pages!View : v = request[r].view
    BY <1>5 DEF Pages!Fail, PagesInv, PagesTyped, RequestRecord
  <2>2. pane[v] \in PaneRecord
    BY DEF PagesInv, PagesTyped
  <2>3. PICK status \in {"ready", "error", "loading", "idle"} :
            status = IF v \in Hook THEN "error" ELSE pane[v].status
    BY <2>2 DEF PaneRecord
  <2>4. /\ request[r] # None /\ request' = [request EXCEPT ![r] = None]
        /\ pane' = [pane EXCEPT ![v].status = status] /\ UNCHANGED <<fresh, overlap>>
    BY <1>5, <2>1, <2>3 DEF Pages!Fail
  <2> QED
    BY <2>1, <2>3, <2>4, BackStep
<1>6. CASE UNCHANGED Pages!pagesVars
  BY <1>6 DEF Pages!pagesVars, PagesInv, PagesTyped, RequestsInv, Current, Pages!ShownIsAsked
<1> QED
  BY <1>1, <1>2, <1>3, <1>4, <1>5, <1>6, AskStep, ClearStepOfPage, AnswerStep
     DEF Pages!PagesNext

(* A view whose last question was answered shows that answer, in whatever   *)
(* order answers arrive, and a hook is ready only then.                     *)
THEOREM PagesTheorem == Pages!PagesSpec => []ShownIsAsked
<1>1. PagesInv /\ [Pages!PagesNext]_(Pages!pagesVars) => PagesInv'
  BY PagesStep, StoresAssumption DEF StoresAssumption
<1>2. PagesInv => ShownIsAsked
  BY DEF PagesInv, ShownIsAsked
<1> QED
  BY <1>1, <1>2, PagesInitInv, PTL DEF Pages!PagesSpec

(* The types that the order of answers does not depend on. *)
FlagsTyped == loading \in BOOLEAN /\ failed \in BOOLEAN /\ overlap \in SUBSET Pages!View

LEMMA FlagsStep ==
    ASSUME FlagsTyped, PagesInv, [Pages!PagesNext]_(Pages!pagesVars)
    PROVE  FlagsTyped'
<1> USE DEF FlagsTyped
<1>1. ASSUME NEW v \in Pages!View, NEW k \in Key, NEW r \in Request, Pages!Ask(v, k, r)
      PROVE  FlagsTyped'
  BY <1>1 DEF Pages!Ask, Pages!Asking
<1>2. ASSUME NEW v \in Pages!View, Pages!Clear(v) PROVE FlagsTyped'
  BY <1>2 DEF Pages!Clear, Pages!Asking
<1>3. ASSUME NEW V \in SUBSET Pages!View, Pages!Leave(V) PROVE FlagsTyped'
  BY <1>3 DEF Pages!Leave
<1>4. ASSUME NEW r \in Request,
             Pages!Headers(r) \/ Pages!Answer(r) \/ Pages!Ignore(r) \/ Pages!Stray(r) \/ Pages!Fail(r)
      PROVE  FlagsTyped'
  BY <1>4 DEF Pages!Headers, Pages!Answer, Pages!Apply, Pages!Ignore, Pages!Stray, Pages!Fail
<1>5. CASE UNCHANGED Pages!pagesVars
  BY <1>5 DEF Pages!pagesVars
<1> QED
  BY <1>1, <1>2, <1>3, <1>4, <1>5 DEF Pages!PagesNext

(* Every variable of the pages keeps its type, whatever is asked, aborted   *)
(* and answered.                                                            *)
THEOREM PagesTypes == Pages!PagesSpec => []Pages!PagesTypeOK
<1>1. PagesInv /\ [Pages!PagesNext]_(Pages!pagesVars) => PagesInv'
  BY PagesStep, StoresAssumption DEF StoresAssumption
<1>2. FlagsTyped /\ PagesInv /\ [Pages!PagesNext]_(Pages!pagesVars) => FlagsTyped'
  BY FlagsStep
<1>3. Pages!PagesInit => FlagsTyped
  BY DEF Pages!PagesInit, FlagsTyped
<1>4. FlagsTyped /\ PagesInv => Pages!PagesTypeOK
  BY DEF FlagsTyped, PagesInv, PagesTyped, PaneRecord, RequestRecord, Pages!PagesTypeOK
<1> QED
  BY <1>1, <1>2, <1>3, <1>4, PagesInitInv, PTL DEF Pages!PagesSpec

-----------------------------------------------------------------------------
(* Views.  What is selected is a row or a node on the screen.               *)
(* What the first of some of the members of a sequence is. *)
LEMMA FirstIsThere ==
    ASSUME NEW T, NEW order \in Seq(T), NEW S \in SUBSET Views!ToSet(order), S # {}
    PROVE  Views!FirstIn(order, S) \in S
<1> DEFINE Where == {i \in DOMAIN order : order[i] \in S}
<1>1. Where \in SUBSET Nat
  <2>1. DOMAIN order = 1 .. Len(order)
    OBVIOUS
  <2> QED
    BY <2>1
<1>2. Where # {}
  BY DEF Views!ToSet
<1>3. \E i \in Where : \A j \in Where : i <= j
  <2> HIDE DEF Where
  <2> QED
    BY <1>1, <1>2, LeastExists
<1>4. Views!Min(Where) \in Where
  BY <1>3, Zenon DEF Views!Min
<1> QED
  BY <1>4 DEF Views!FirstIn

(* An open group's roots are rows. *)
LEMMA RootsShown ==
    ASSUME NEW g \in Views!OpenGroups
    PROVE  Views!RootsOf(g) \subseteq Views!PrefixRows
BY DEF Views!PrefixRows, Views!OpenRoots, Views!RootsOf, Views!Roots

(* The row selected when there is nothing better is a row, and is None only *)
(* if no prefix has one.                                                    *)
FirstRowShown ==
    IF Views!FirstPrefixRow = None THEN Views!PrefixRows = {}
    ELSE Views!FirstPrefixRow \in Views!PrefixRows

LEMMA FirstRow == OrdersAreDrawn => FirstRowShown
<1> SUFFICES ASSUME OrdersAreDrawn PROVE FirstRowShown
  OBVIOUS
<1>1. CASE Views!OpenGroups = {}
  <2>1. Views!OpenRoots = {} /\ Views!Below({}) = {}
    BY <1>1 DEF Views!OpenRoots, Views!Below
  <2>2. Views!PrefixRows = {}
    BY <2>1 DEF Views!PrefixRows
  <2> QED
    BY <1>1, <2>2 DEF FirstRowShown, Views!FirstPrefixRow
<1>2. CASE Views!OpenGroups # {}
  <2>1. PICK g \in Views!OpenGroups : g = Views!FirstIn(GroupOrder, Views!OpenGroups)
    <3>1. Views!OpenGroups \in SUBSET Views!ToSet(GroupOrder)
      BY DEF Views!OpenGroups, Views!Groups, Views!Group
    <3> QED
      BY <1>2, <3>1, FirstIsThere DEF OrdersAreDrawn
  <2>2. PICK p \in Views!RootsOf(g) : p = Views!FirstIn(RowOrder, Views!RootsOf(g))
    <3>1. Views!RootsOf(g) \in SUBSET Views!ToSet(RowOrder)
      BY DEF Views!RootsOf, Views!Roots, Views!Prefix
    <3>2. Views!RootsOf(g) # {}
      BY <2>1 DEF Views!OpenGroups, Views!Groups
    <3> QED
      BY <3>1, <3>2, FirstIsThere DEF OrdersAreDrawn
  <2>3. Views!FirstPrefixRow = p
    BY <1>2, <2>1, <2>2 DEF Views!FirstPrefixRow
  <2>4. p \in Views!PrefixRows
    BY <2>1, <2>2, RootsShown
  <2>5. p # None
    BY <2>2 DEF OrdersAreDrawn, Views!RootsOf, Views!Roots
  <2> QED
    BY <2>3, <2>4, <2>5 DEF FirstRowShown
<1> QED
  BY <1>1, <1>2

(* The same of the node selected when the filter hides the one that was. *)
LEMMA FirstNodeShown ==
    ASSUME OrdersAreDrawn, NEW f
    PROVE  IF Views!FirstNode(f) = None THEN Views!ShownNodes(f) = {}
           ELSE Views!FirstNode(f) \in Views!ShownNodes(f)
<1>1. CASE Views!ShownNodes(f) = {}
  BY <1>1 DEF Views!FirstNode, Views!FirstIn
<1>2. CASE Views!ShownNodes(f) # {}
  <2>1. Views!ShownNodes(f) \in SUBSET Views!ToSet(NodeOrder)
    BY DEF Views!ShownNodes, Views!Node
  <2>2. Views!FirstNode(f) \in Views!ShownNodes(f)
    BY <1>2, <2>1, FirstIsThere DEF OrdersAreDrawn, Views!FirstNode
  <2> QED
    BY <2>2 DEF OrdersAreDrawn, Views!ShownNodes
<1> QED
  BY <1>1, <1>2

RowIsShown ==
    IF selectedRow = None THEN Views!PrefixRows = {} ELSE selectedRow \in Views!Rows

NodeIsShown ==
    IF selectedNode = None THEN Views!ShownNodes(filter) = {}
    ELSE selectedNode \in Views!ShownNodes(filter)

RowsAreReal == FirstRowShown /\ None \notin Views!Rows

LEMMA RowsReal == OrdersAreDrawn => RowsAreReal
BY FirstRow DEF OrdersAreDrawn, RowsAreReal, Views!Rows, Views!Groups, Views!PrefixRows

ViewsInv == RowIsShown /\ NodeIsShown

LEMMA ViewsStart == OrdersAreDrawn /\ Views!ViewsInit => ViewsInv
BY FirstRow, FirstNodeShown
   DEF ViewsInv, Views!ViewsInit, Views!Loaded, FirstRowShown, RowIsShown, NodeIsShown, Views!Rows

(* Selecting, opening and closing rows: what is closed may hide the         *)
(* selection, and then the first prefix row takes its place.                *)
LEMMA TreeStep ==
    ASSUME OrdersAreDrawn, RowsAreReal, RowsAreReal', ViewsInv, Views!TreeNext
    PROVE  ViewsInv'
<1>1. PICK id \in Views!Prefix \cup Views!Group : Views!SelectRow(id) \/ Views!ToggleRow(id)
  BY DEF Views!TreeNext
<1>2. UNCHANGED <<prefixes, filter, selectedNode>>
  BY <1>1 DEF Views!SelectRow, Views!ToggleRow
<1>3. NodeIsShown'
  BY <1>2 DEF ViewsInv, NodeIsShown, Views!ShownNodes
<1>4. CASE Views!SelectRow(id)
  <2>1. selectedRow' = id /\ id \in Views!Rows /\ UNCHANGED <<prefixes, expanded>>
    BY <1>4 DEF Views!SelectRow
  <2>2. Views!Rows' = Views!Rows
    BY <2>1 DEF Views!Rows, Views!PrefixRows, Views!OpenRoots, Views!Below, Views!OpenGroups, Views!Groups,
                Views!RootsOf, Views!Roots, Views!GroupOf, Views!Children
  <2> QED
    BY <1>3, <2>1, <2>2 DEF ViewsInv, RowsAreReal, RowIsShown
<1>5. CASE Views!ToggleRow(id)
  <2>1. selectedRow' = IF selectedRow \in Views!Rows' THEN selectedRow ELSE Views!FirstPrefixRow'
    BY <1>5 DEF Views!ToggleRow
  <2>2. Views!PrefixRows' \subseteq Views!Rows'
    BY DEF Views!Rows
  <2> QED
    BY <1>3, <2>1, <2>2 DEF ViewsInv, RowsAreReal, RowIsShown, FirstRowShown
<1> QED
  BY <1>1, <1>4, <1>5

(* Selecting nodes and filtering them. *)
LEMMA GraphStep ==
    ASSUME OrdersAreDrawn, ViewsInv, Views!GraphNext
    PROVE  ViewsInv'
<1>1. UNCHANGED <<prefixes, expanded, selectedRow>>
  BY DEF Views!GraphNext, Views!SelectNode, Views!ChangeFilter
<1>2. RowIsShown'
  BY <1>1 DEF ViewsInv, RowIsShown, Views!Rows, Views!PrefixRows, Views!OpenRoots, Views!Below, Views!OpenGroups,
              Views!Groups, Views!RootsOf, Views!Roots, Views!GroupOf, Views!Children
<1>3. CASE \E n \in Views!Node : Views!SelectNode(n)
  <2>1. PICK n \in Views!Node : Views!SelectNode(n)
    BY <1>3
  <2> QED
    BY <1>2, <2>1 DEF ViewsInv, Views!SelectNode, NodeIsShown, OrdersAreDrawn, Views!ShownNodes
<1>4. CASE \E field \in DOMAIN Views!Unfiltered, value \in Site \cup Role \cup Vlan \cup {None} :
              Views!ChangeFilter(field, value)
  <2>1. PICK f : f = filter'
    OBVIOUS
  <2>2. selectedNode' = IF selectedNode \in Views!ShownNodes(f) THEN selectedNode
                        ELSE Views!FirstNode(f)
    BY <1>4, <2>1 DEF Views!ChangeFilter
  <2>3. None \notin Views!ShownNodes(f)
    BY DEF OrdersAreDrawn, Views!ShownNodes
  <2>4. IF selectedNode' = None THEN Views!ShownNodes(f) = {}
        ELSE selectedNode' \in Views!ShownNodes(f)
    BY <2>2, <2>3, FirstNodeShown
  <2>5. NodeIsShown'
    BY <2>1, <2>4 DEF NodeIsShown, Views!ShownNodes
  <2> QED
    BY <1>2, <2>5 DEF ViewsInv
<1> QED
  BY <1>3, <1>4 DEF Views!GraphNext

LEMMA RetryStep ==
    ASSUME OrdersAreDrawn, RowsAreReal', Views!Retry
    PROVE  ViewsInv'
<1>1. /\ selectedRow' = Views!FirstPrefixRow' /\ filter' = Views!Unfiltered
      /\ selectedNode' = Views!FirstNode(Views!Unfiltered)
  BY DEF Views!Retry
<1>2. RowIsShown'
  BY <1>1 DEF RowIsShown, RowsAreReal, FirstRowShown, Views!Rows
<1>3. IF selectedNode' = None THEN Views!ShownNodes(Views!Unfiltered) = {}
      ELSE selectedNode' \in Views!ShownNodes(Views!Unfiltered)
  BY <1>1, FirstNodeShown
<1>4. NodeIsShown'
  BY <1>1, <1>3 DEF NodeIsShown, Views!ShownNodes, Views!Unfiltered
<1> QED
  BY <1>2, <1>4 DEF ViewsInv

(* Whatever the prefixes, the devices and their order: after any sequence   *)
(* of clicks and filters, what the tree and the graph have selected is on   *)
(* the screen (ipam-tree-state, topology-state).                            *)
THEOREM SelectionTheorem == Views!ViewsSpec => []SelectionIsShown
<1> USE StoresAssumption DEF StoresAssumption
<1>1. Views!ViewsInit => ViewsInv
  BY ViewsStart
<1>2. RowsAreReal
  BY RowsReal
<1>3. RowsAreReal /\ RowsAreReal' /\ ViewsInv /\ [Views!ViewsNext]_Views!viewsVars => ViewsInv'
  <2> SUFFICES ASSUME RowsAreReal, RowsAreReal', ViewsInv, [Views!ViewsNext]_Views!viewsVars
               PROVE  ViewsInv'
    OBVIOUS
  <2>1. CASE Views!ViewsNext
    BY <2>1, TreeStep, GraphStep, RetryStep DEF Views!ViewsNext
  <2>2. CASE UNCHANGED Views!viewsVars
    BY <2>2 DEF Views!viewsVars, ViewsInv, RowIsShown, NodeIsShown, Views!ShownNodes, Views!Rows,
                Views!PrefixRows, Views!OpenRoots, Views!Below, Views!OpenGroups, Views!Groups,
                Views!RootsOf, Views!Roots, Views!GroupOf, Views!Children
  <2> QED
    BY <2>1, <2>2
<1>4. ViewsInv => SelectionIsShown
  BY DEF SelectionIsShown, Views!SelectionIsShown, ViewsInv, RowIsShown, NodeIsShown
<1> QED
  BY <1>1, <1>2, <1>3, <1>4, PTL DEF Views!ViewsSpec

(* Every variable of the tree and the graph keeps its type. *)
THEOREM ViewsTypes == Views!ViewsSpec => []Views!ViewsTypeOK
<1> USE StoresAssumption DEF StoresAssumption
<1>1. Views!ViewsInit => Views!ViewsTypeOK
  <2> SUFFICES ASSUME Views!ViewsInit PROVE Views!ViewsTypeOK
    OBVIOUS
  <2>1. prefixes \in Views!Plan /\ Views!Loaded
    BY DEF Views!ViewsInit
  <2>2. selectedRow \in Views!Prefix \cup {None}
    BY <2>1, FirstRow DEF Views!Loaded, FirstRowShown, Views!PrefixRows
  <2>3. selectedNode \in Views!Node \cup {None}
    BY <2>1, FirstNodeShown DEF Views!Loaded, Views!ShownNodes
  <2>4. expanded \subseteq Views!Prefix \cup Views!Group
    BY <2>1 DEF Views!Loaded, Views!InitiallyExpanded, Views!Groups, Views!Roots
  <2>5. filter \in Views!Filter
    BY <2>1 DEF Views!Loaded, Views!Unfiltered, Views!Filter
  <2> QED
    BY <2>1, <2>2, <2>3, <2>4, <2>5 DEF Views!ViewsTypeOK
<1>2. RowsAreReal
  BY RowsReal
<1>3. RowsAreReal' /\ Views!ViewsTypeOK /\ [Views!ViewsNext]_Views!viewsVars => Views!ViewsTypeOK'
  <2> SUFFICES ASSUME RowsAreReal', Views!ViewsTypeOK, [Views!ViewsNext]_Views!viewsVars
               PROVE  Views!ViewsTypeOK'
    OBVIOUS
  <2>1. Views!FirstPrefixRow' \in Views!Prefix \cup {None}
    BY DEF RowsAreReal, FirstRowShown, Views!PrefixRows
  <2>2. \A f : Views!FirstNode(f) \in Views!Node \cup {None}
    BY FirstNodeShown DEF Views!ShownNodes
  <2>3. ASSUME NEW id \in Views!Prefix \cup Views!Group, Views!SelectRow(id)
        PROVE  Views!ViewsTypeOK'
    BY <2>3 DEF Views!SelectRow, Views!ViewsTypeOK
  <2>4. ASSUME NEW id \in Views!Prefix \cup Views!Group, Views!ToggleRow(id)
        PROVE  Views!ViewsTypeOK'
    <3>1. expanded' \subseteq Views!Prefix \cup Views!Group
      BY <2>4 DEF Views!ToggleRow, Views!Toggled, Views!ViewsTypeOK
    <3>2. selectedRow' \in Views!Prefix \cup Views!Group \cup {None}
      BY <2>1, <2>4 DEF Views!ToggleRow, Views!ViewsTypeOK
    <3> QED
      BY <2>4, <3>1, <3>2 DEF Views!ToggleRow, Views!ViewsTypeOK
  <2>5. ASSUME NEW n \in Views!Node, Views!SelectNode(n) PROVE Views!ViewsTypeOK'
    BY <2>5 DEF Views!SelectNode, Views!ViewsTypeOK
  <2>6. ASSUME NEW field, NEW value, Views!ChangeFilter(field, value) PROVE Views!ViewsTypeOK'
    <3>1. selectedNode' \in Views!Node \cup {None} /\ filter' \in Views!Filter
      BY <2>2, <2>6 DEF Views!ChangeFilter, Views!ViewsTypeOK
    <3> QED
      BY <2>6, <3>1 DEF Views!ChangeFilter, Views!ViewsTypeOK
  <2>7. ASSUME Views!Retry PROVE Views!ViewsTypeOK'
    <3>1. expanded' \subseteq Views!Prefix \cup Views!Group
      BY <2>7 DEF Views!Retry, Views!InitiallyExpanded, Views!Groups, Views!Roots
    <3>2. filter' \in Views!Filter
      BY <2>7 DEF Views!Retry, Views!Unfiltered, Views!Filter
    <3> QED
      BY <2>1, <2>2, <2>7, <3>1, <3>2 DEF Views!Retry, Views!ViewsTypeOK
  <2>8. CASE UNCHANGED Views!viewsVars
    BY <2>8 DEF Views!viewsVars, Views!ViewsTypeOK
  <2> QED
    BY <2>3, <2>4, <2>5, <2>6, <2>7, <2>8
       DEF Views!ViewsNext, Views!TreeNext, Views!GraphNext
<1> QED
  BY <1>1, <1>2, <1>3, PTL DEF Views!ViewsSpec

-----------------------------------------------------------------------------
(* Views.  Utilization. *)
(* What a prefix leaves to those under it: the longer it is, the less. *)
Room(p) == 128 - prefixes[p].length

PlanSound ==
    /\ CapacitiesAreKnown /\ OrdersAreDrawn
    /\ prefixes \in Views!Plan
    /\ \A p \in Views!Prefix :
          Views!ValidLength(prefixes, p) /\ Views!ValidatePrefixHierarchy(prefixes, p)

Narrower(n) == {p \in Views!Prefix : Room(p) < n}

LEMMA RowOf ==
    ASSUME PlanSound, NEW p \in Views!Prefix
    PROVE  /\ Room(p) \in 0 .. 128 /\ p # None
           /\ prefixes[p].length \in 0 .. 128 /\ prefixes[p].family \in {4, 6}
           /\ prefixes[p].direct \in Nat /\ prefixes[p].parent \in Views!Prefix \cup {None}
<1>1. prefixes[p] \in [family : {4, 6}, length : Lengths, parent : Views!Prefix \cup {None},
                       vrf : Views!Vrf \cup {None}, direct : 0 .. MaxDirect]
  BY DEF PlanSound, Views!Plan, Views!Family
<1>2. /\ prefixes[p].length \in Lengths /\ prefixes[p].family \in {4, 6}
      /\ prefixes[p].parent \in Views!Prefix \cup {None}
      /\ prefixes[p].direct \in 0 .. MaxDirect
  BY <1>1
<1>3. Lengths \subseteq 0 .. 128 /\ MaxDirect \in Nat
  BY DEF PlanSound, CapacitiesAreKnown
<1>4. p # None
  BY DEF PlanSound, OrdersAreDrawn
<1>5. prefixes[p].length \in 0 .. 128
  BY <1>2, <1>3
<1>6. prefixes[p].direct \in Nat
  BY <1>2, <1>3
<1>7. Room(p) \in 0 .. 128
  BY <1>5 DEF Room
<1> QED
  BY <1>2, <1>4, <1>5, <1>6, <1>7

(* A child is a prefix, and more specific. *)
LEMMA ChildrenNarrow ==
    ASSUME PlanSound, NEW p \in Views!Prefix, NEW c \in Views!Children(p)
    PROVE  c \in Views!Prefix /\ Room(c) < Room(p)
<1>1. c \in Views!Prefix /\ prefixes[c].parent = p
  BY DEF Views!Children
<1>2. prefixes[c].length > prefixes[p].length
  BY <1>1 DEF PlanSound, OrdersAreDrawn, Views!ValidatePrefixHierarchy
<1>3. prefixes[c].length \in 0 .. 128 /\ prefixes[p].length \in 0 .. 128
  BY <1>1, RowOf
<1>4. \A m, n \in 0 .. 128 : m > n => 128 - m < 128 - n
  OBVIOUS
<1>5. Room(c) < Room(p)
  BY <1>2, <1>3, <1>4, Zenon DEF Room
<1> QED
  BY <1>1, <1>5

LEMMA PrefixesFinite == ASSUME PlanSound PROVE IsFiniteSet(Views!Prefix)
<1>1. RowOrder \in Seq(Views!Prefix)
  BY DEF PlanSound, OrdersAreDrawn
<1>2. Len(RowOrder) \in Nat /\ DOMAIN RowOrder = 1 .. Len(RowOrder)
  BY <1>1
<1>3. RowOrder \in Surjection(1 .. Len(RowOrder), Views!Prefix)
  <2>1. \A p \in Views!Prefix : \E i \in 1 .. Len(RowOrder) : RowOrder[i] = p
    BY <1>2 DEF Views!Prefix, Views!ToSet
  <2>2. RowOrder \in [1 .. Len(RowOrder) -> Views!Prefix]
    BY <1>1
  <2> QED
    BY <2>1, <2>2 DEF Surjection
<1>4. IsFiniteSet(1 .. Len(RowOrder))
  BY <1>2, FS_Interval
<1> QED
  BY <1>3, <1>4, FS_Surjection

LEMMA ChildrenFinite ==
    ASSUME PlanSound, NEW p \in Views!Prefix
    PROVE  IsFiniteSet(Views!Children(p)) /\ Views!Children(p) \in SUBSET Views!Prefix
<1>1. Views!Children(p) \in SUBSET Views!Prefix
  BY DEF Views!Children
<1> QED
  BY <1>1, PrefixesFinite, FS_Subset

(* The children of what has less than n room have less than n - 1.          *)
LEMMA ChildrenBelow ==
    ASSUME PlanSound, NEW n \in Nat, n # 0
    PROVE  \A p \in Narrower(n) : \A c \in Views!Children(p) : c \in Narrower(n - 1)
<1> SUFFICES ASSUME NEW p \in Narrower(n), NEW c \in Views!Children(p)
             PROVE  c \in Narrower(n - 1)
  OBVIOUS
<1>1. p \in Views!Prefix /\ Room(p) < n
  BY DEF Narrower
<1>2. c \in Views!Prefix /\ Room(c) < Room(p)
  BY <1>1, ChildrenNarrow
<1>3. Room(c) \in 0 .. 128 /\ Room(p) \in 0 .. 128
  BY <1>1, <1>2, RowOf
<1> QED
  BY <1>1, <1>2, <1>3 DEF Narrower

(* What a use g of the children makes of the use of p. *)
Counted(g, p) == [c \in Views!Children(p) |-> IF g[c] = None THEN Views!Capacity(c) ELSE g[c]]

Use(g, p) ==
    IF Views!Capacity(p) = None \/ \E c \in Views!Children(p) : Counted(g, p)[c] = None THEN None
    ELSE Views!Min({Views!Capacity(p),
                    prefixes[p].direct + Views!SumOver(Counted(g, p), Views!Children(p))})

Uses(D, g) == g = [p \in D |-> Use(g, p)]

LEMMA UsesExist == ASSUME PlanSound PROVE \E g : Uses(Views!Prefix, g)
<1> DEFINE N == {n \in Nat : \E g : Uses(Narrower(n), g)}
<1>1. ASSUME NEW n \in Nat, \A m \in Nat : m < n => m \in N PROVE n \in N
  <2>1. CASE n = 0
    <3>1. Narrower(0) = {}
      BY RowOf DEF Narrower
    <3>2. Uses(Narrower(0), [p \in Narrower(0) |-> None])
      BY <3>1 DEF Uses
    <3> QED
      BY <2>1, <3>2
  <2>2. CASE n # 0
    <3>1. n - 1 \in Nat /\ n - 1 < n
      BY <2>2
    <3>2. PICK g : Uses(Narrower(n - 1), g)
      BY <1>1, <3>1
    <3> DEFINE h == [p \in Narrower(n) |-> Use(g, p)]
    <3>3. Narrower(n - 1) \subseteq Narrower(n)
      BY RowOf DEF Narrower
    <3>4. \A p \in Narrower(n - 1) : h[p] = g[p]
      BY <3>2, <3>3, Zenon DEF Uses
    <3>5. \A p \in Narrower(n) : Use(g, p) = Use(h, p)
      <4> SUFFICES ASSUME NEW p \in Narrower(n) PROVE Use(g, p) = Use(h, p)
        OBVIOUS
      <4>1. \A c \in Views!Children(p) : g[c] = h[c]
        BY <2>2, <3>4, ChildrenBelow
      <4>2. Counted(g, p) = Counted(h, p)
        <5> HIDE DEF h
        <5> QED
          BY <4>1 DEF Counted
      <4> HIDE DEF h
      <4> QED
        BY <4>2 DEF Use
    <3>6. Uses(Narrower(n), h)
      BY <3>5, Zenon DEF Uses
    <3> QED
      BY <3>6
  <2> QED
    BY <2>1, <2>2
<1>2. N = Nat
  <2> HIDE DEF N
  <2>1. N \in SUBSET Nat
    BY DEF N
  <2> QED
    BY <1>1, <2>1, EveryNumber
<1>3. PICK g : Uses(Narrower(129), g)
  BY <1>2
<1>4. Narrower(129) = Views!Prefix
  BY RowOf DEF Narrower
<1> QED
  BY <1>3, <1>4

LEMMA UseIs ==
    ASSUME PlanSound, NEW p \in Views!Prefix
    PROVE  Views!UsedAddresses[p] = Use(Views!UsedAddresses, p)
<1>1. Views!UsedAddresses = CHOOSE g : Uses(Views!Prefix, g)
  BY DEF Views!UsedAddresses, Uses, Use, Counted
<1>2. Uses(Views!Prefix, Views!UsedAddresses)
  BY <1>1, UsesExist, Zenon
<1> QED
  BY <1>2, Zenon DEF Uses

-----------------------------------------------------------------------------
Subtree(g, p) == {p} \cup UNION {g[c] : c \in Views!Children(p)}

Subtrees(D, g) == g = [p \in D |-> Subtree(g, p)]

LEMMA SubtreesExist == ASSUME PlanSound PROVE \E g : Subtrees(Views!Prefix, g)
<1> DEFINE N == {n \in Nat : \E g : Subtrees(Narrower(n), g)}
<1>1. ASSUME NEW n \in Nat, \A m \in Nat : m < n => m \in N PROVE n \in N
  <2>1. CASE n = 0
    <3>1. Narrower(0) = {}
      BY RowOf DEF Narrower
    <3>2. Subtrees(Narrower(0), [p \in Narrower(0) |-> None])
      BY <3>1 DEF Subtrees
    <3> QED
      BY <2>1, <3>2
  <2>2. CASE n # 0
    <3>1. n - 1 \in Nat /\ n - 1 < n
      BY <2>2
    <3>2. PICK g : Subtrees(Narrower(n - 1), g)
      BY <1>1, <3>1
    <3> DEFINE h == [p \in Narrower(n) |-> Subtree(g, p)]
    <3>3. Narrower(n - 1) \subseteq Narrower(n)
      BY RowOf DEF Narrower
    <3>4. \A p \in Narrower(n - 1) : h[p] = g[p]
      BY <3>2, <3>3, Zenon DEF Subtrees
    <3>5. \A p \in Narrower(n) : Subtree(g, p) = Subtree(h, p)
      <4> SUFFICES ASSUME NEW p \in Narrower(n) PROVE Subtree(g, p) = Subtree(h, p)
        OBVIOUS
      <4>1. \A c \in Views!Children(p) : g[c] = h[c]
        BY <2>2, <3>4, ChildrenBelow
      <4> HIDE DEF h
      <4> QED
        BY <4>1 DEF Subtree
    <3>6. Subtrees(Narrower(n), h)
      BY <3>5, Zenon DEF Subtrees
    <3> QED
      BY <3>6
  <2> QED
    BY <2>1, <2>2
<1>2. N = Nat
  <2> HIDE DEF N
  <2>1. N \in SUBSET Nat
    BY DEF N
  <2> QED
    BY <1>1, <2>1, EveryNumber
<1>3. PICK g : Subtrees(Narrower(129), g)
  BY <1>2
<1>4. Narrower(129) = Views!Prefix
  BY RowOf DEF Narrower
<1> QED
  BY <1>3, <1>4

LEMMA UnderIs ==
    ASSUME PlanSound, NEW p \in Views!Prefix
    PROVE  Views!Under[p] = {p} \cup UNION {Views!Under[c] : c \in Views!Children(p)}
<1>1. Views!Under = CHOOSE g : Subtrees(Views!Prefix, g)
  BY DEF Views!Under, Subtrees, Subtree
<1>2. Subtrees(Views!Prefix, Views!Under)
  BY <1>1, SubtreesExist, Zenon
<1> QED
  BY <1>2, Zenon DEF Subtrees, Subtree

(* What is under a prefix: less specific than none of it, and with each     *)
(* prefix but that one its parent.                                          *)
Closed(p) ==
    /\ \A q \in Views!Under[p] : q \in Views!Prefix /\ Room(q) <= Room(p)
    /\ \A q \in Views!Under[p] : q # p => prefixes[q].parent \in Views!Under[p]

LEMMA UnderClosed == ASSUME PlanSound, NEW p \in Views!Prefix PROVE Closed(p)
<1> DEFINE N == {n \in Nat : \A a \in Views!Prefix : Room(a) = n => Closed(a)}
<1>1. ASSUME NEW n \in Nat, \A m \in Nat : m < n => m \in N PROVE n \in N
  <2> SUFFICES ASSUME NEW a \in Views!Prefix, Room(a) = n PROVE Closed(a)
    OBVIOUS
  <2>1. Views!Under[a] = {a} \cup UNION {Views!Under[c] : c \in Views!Children(a)}
    BY UnderIs
  <2>2. ASSUME NEW c \in Views!Children(a)
        PROVE  /\ c \in Views!Prefix /\ Room(c) < n /\ Room(c) \in Nat
               /\ Closed(c) /\ prefixes[c].parent = a
    <3>1. c \in Views!Prefix /\ Room(c) < n /\ Room(c) \in Nat
      BY ChildrenNarrow, RowOf
    <3>2. prefixes[c].parent = a
      BY DEF Views!Children
    <3> QED
      BY <1>1, <3>1, <3>2
  <2>3. ASSUME NEW q \in Views!Under[a], q # a
        PROVE  q \in Views!Prefix /\ Room(q) <= Room(a) /\ prefixes[q].parent \in Views!Under[a]
    <3>1. PICK c \in Views!Children(a) : q \in Views!Under[c]
      BY <2>1, <2>3
    <3>2. q \in Views!Prefix /\ Room(q) <= Room(c)
      BY <2>2, <3>1 DEF Closed
    <3>3. Room(q) \in Nat /\ Room(c) \in Nat /\ Room(c) < n
      BY <2>2, <3>2, RowOf
    <3>4. q = c \/ prefixes[q].parent \in Views!Under[c]
      BY <2>2, <3>1 DEF Closed
    <3>5. prefixes[q].parent \in Views!Under[a]
      BY <2>1, <2>2, <3>4
    <3> QED
      BY <3>2, <3>3, <3>5
  <2> QED
    BY <2>3 DEF Closed
<1>2. N = Nat
  <2> HIDE DEF N
  <2>1. N \in SUBSET Nat
    BY DEF N
  <2> QED
    BY <1>1, <2>1, EveryNumber
<1>3. Room(p) \in N
  BY <1>2, RowOf
<1> QED
  BY <1>3

(* A prefix is under one of two siblings at most: its parent would be, too.  *)
LEMMA SiblingsApart ==
    ASSUME PlanSound, NEW p \in Views!Prefix,
           NEW c \in Views!Children(p), NEW d \in Views!Children(p), c # d
    PROVE  Views!Under[c] \cap Views!Under[d] = {}
<1> DEFINE Both == {q \in Views!Under[c] : q \in Views!Under[d]}
           Depths == {128 - Room(q) : q \in Both}
<1> SUFFICES ASSUME Both # {} PROVE FALSE
  OBVIOUS
<1>1. c \in Views!Prefix /\ d \in Views!Prefix /\ Room(c) < Room(p) /\ Room(d) < Room(p)
  BY ChildrenNarrow
<1>2. Closed(c) /\ Closed(d)
  BY <1>1, UnderClosed
<1>3. \A q \in Both : q \in Views!Prefix /\ Room(q) \in 0 .. 128 /\ 128 - Room(q) \in Nat
  BY <1>2, RowOf DEF Closed
<1>4. PICK q \in Both : \A r \in Both : Room(r) <= Room(q)
  <2>1. Depths \in SUBSET Nat /\ Depths # {}
    BY <1>3
  <2>2. PICK n \in Depths : \A m \in Depths : n <= m
    <3> HIDE DEF Depths
    <3> QED
      BY <2>1, LeastExists
  <2>3. PICK q \in Both : n = 128 - Room(q)
    OBVIOUS
  <2>4. ASSUME NEW r \in Both PROVE Room(r) <= Room(q)
    <3>1. 128 - Room(q) <= 128 - Room(r)
      BY <2>2, <2>3
    <3> QED
      BY <1>3, <3>1
  <2> QED
    BY <2>4
<1>5. /\ p \notin Views!Under[c] /\ p \notin Views!Under[d]
      /\ prefixes[c].parent = p /\ prefixes[d].parent = p
  <2>1. Room(c) \in 0 .. 128 /\ Room(d) \in 0 .. 128 /\ Room(p) \in 0 .. 128
    BY <1>1, RowOf, Zenon
  <2>2. ~(Room(p) <= Room(c)) /\ ~(Room(p) <= Room(d))
    <3> HIDE DEF Both, Depths
    <3> QED
      BY <1>1, <2>1
  <2>3. p \notin Views!Under[c] /\ p \notin Views!Under[d]
    BY <1>2, <2>2, Zenon DEF Closed
  <2>4. prefixes[c].parent = p /\ prefixes[d].parent = p
    BY DEF Views!Children
  <2> QED
    BY <2>3, <2>4
<1>6. q # c /\ q # d
  BY <1>2, <1>4, <1>5 DEF Closed
<1>7. prefixes[q].parent \in Both
  BY <1>2, <1>4, <1>6 DEF Closed
<1>8. Room(q) < Room(prefixes[q].parent)
  <2>1. q \in Views!Children(prefixes[q].parent) /\ prefixes[q].parent \in Views!Prefix
    BY <1>3, <1>4, <1>7 DEF Views!Children
  <2> QED
    BY <2>1, ChildrenNarrow
<1> QED
  BY <1>3, <1>4, <1>7, <1>8

-----------------------------------------------------------------------------
(* A prefix's use is what its part of UtilizationCounts says.               *)
Unknown(p) ==
    Views!Capacity(p) = None \/ \E c \in Views!Children(p) : Views!Capacity(c) = None

Fits(p) ==
    \A q \in Views!Under[p] :
        Views!Capacity(q) # None /\ Views!AddressesUnder(q) <= Views!Capacity(q)

Counts(p) ==
    IF Unknown(p) THEN Views!UsedAddresses[p] = None
    ELSE /\ Views!UsedAddresses[p] \in Int
         /\ Views!UsedAddresses[p] <= Views!Capacity(p)
         /\ Fits(p) => Views!UsedAddresses[p] = Views!AddressesUnder(p)

LEMMA HostBitsOf ==
    ASSUME PlanSound, NEW p \in Views!Prefix
    PROVE  Views!HostBits(p) \in Nat
<1>1. prefixes[p].length <= Views!Width(prefixes[p].family)
  BY DEF PlanSound, Views!ValidLength
<1> QED
  BY <1>1, RowOf DEF Views!HostBits, Views!Width

LEMMA CapacityIs ==
    ASSUME PlanSound, NEW p \in Views!Prefix
    PROVE  IF Views!HostBits(p) > 20 THEN Views!Capacity(p) = None
           ELSE Views!Capacity(p) \in Int /\ Views!Capacity(p) # None
<1>1. \A n \in Nat : 2 ^ n \in Int
  OBVIOUS
<1>2. Views!HostBits(p) \in Nat
  BY HostBitsOf
<1>3. None \notin Int
  BY DEF PlanSound, CapacitiesAreKnown
<1> QED
  BY <1>1, <1>2, <1>3 DEF Views!Capacity

(* Of one family, what is under a prefix that can be counted can be, too.   *)
LEMMA KinAreKnown ==
    ASSUME PlanSound, NEW p \in Views!Prefix, NEW c \in Views!Children(p),
           prefixes[c].family = prefixes[p].family, Views!Capacity(p) # None
    PROVE  Views!Capacity(c) # None
<1>1. c \in Views!Prefix /\ Room(c) < Room(p)
  BY ChildrenNarrow
<1>2. prefixes[c].length \in 0 .. 128 /\ prefixes[p].length \in 0 .. 128
  BY <1>1, RowOf
<1>3. Views!HostBits(c) < Views!HostBits(p)
  <2> DEFINE m == prefixes[c].length
             n == prefixes[p].length
  <2>1. PICK width \in {32, 128} : width = Views!Width(prefixes[p].family)
    BY DEF Views!Width
  <2>2. Views!HostBits(c) = width - m /\ Views!HostBits(p) = width - n
    BY <2>1 DEF Views!HostBits
  <2>3. 128 - m < 128 - n
    BY <1>1 DEF Room
  <2>4. m \in 0 .. 128 /\ n \in 0 .. 128
    BY <1>2
  <2>5. width - m < width - n
    <3> HIDE DEF m, n
    <3> QED
      BY <2>1, <2>3, <2>4
  <2> QED
    BY <2>2, <2>5
<1>4. ~ Views!HostBits(p) > 20
  BY CapacityIs
<1>5. ~ Views!HostBits(c) > 20
  BY <1>1, <1>3, <1>4, HostBitsOf
<1> QED
  BY <1>1, <1>5, CapacityIs

(* The smaller of two numbers. *)
LEMMA LeastOfTwo ==
    ASSUME NEW a \in Int, NEW b \in Int
    PROVE  Views!Min({a, b}) = IF a <= b THEN a ELSE b
BY DEF Views!Min

LEMMA DirectIs ==
    ASSUME PlanSound, NEW p \in Views!Prefix
    PROVE  [q \in Views!Prefix |-> prefixes[q].direct][p] \in Int
BY RowOf

LEMMA UseCounts == ASSUME PlanSound, NEW p \in Views!Prefix PROVE Counts(p)
<1> DEFINE N == {n \in Nat : \A a \in Views!Prefix : Room(a) = n => Counts(a)}
<1>1. ASSUME NEW n \in Nat, \A m \in Nat : m < n => m \in N PROVE n \in N
  <2> SUFFICES ASSUME NEW a \in Views!Prefix, Room(a) = n PROVE Counts(a)
    OBVIOUS
  <2> DEFINE used == Views!UsedAddresses
  <2>0. ASSUME NEW c \in Views!Children(a)
        PROVE  /\ c \in Views!Prefix /\ Room(c) \in Nat /\ Room(c) < n /\ Counts(c)
               /\ Counted(used, a)[c] = None <=> Views!Capacity(c) = None
    <3>1. c \in Views!Prefix /\ Room(c) \in Nat /\ Room(c) < n
      BY ChildrenNarrow, RowOf
    <3>2. Counts(c)
      BY <1>1, <3>1
    <3>3. None \notin Int
      BY DEF PlanSound, CapacitiesAreKnown
    <3>4. Counted(used, a)[c] = IF used[c] = None THEN Views!Capacity(c) ELSE used[c]
      BY DEF Counted
    <3>5. Views!Capacity(c) = None => used[c] = None
      BY <3>2 DEF Counts, Unknown
    <3> QED
      BY <3>1, <3>2, <3>4, <3>5
  <2>a. CASE Unknown(a)
    <3>1. used[a] = Use(used, a)
      BY UseIs
    <3>2. Views!Capacity(a) = None
          \/ \E c \in Views!Children(a) : Counted(used, a)[c] = None
      BY <2>0, <2>a DEF Unknown
    <3>3. used[a] = None
      <4> HIDE DEF used
      <4> QED
        BY <3>1, <3>2 DEF Use
    <3> QED
      BY <2>a, <3>3 DEF Counts
  <2> SUFFICES ASSUME ~ Unknown(a)
               PROVE  /\ Views!UsedAddresses[a] \in Int
                      /\ Views!UsedAddresses[a] <= Views!Capacity(a)
                      /\ Fits(a) => Views!UsedAddresses[a] = Views!AddressesUnder(a)
    BY <2>a DEF Counts
  <2>1. PICK C \in SUBSET Views!Prefix : C = Views!Children(a) /\ IsFiniteSet(C)
    BY ChildrenFinite
  <2>2. PICK direct : direct = [q \in Views!Prefix |-> prefixes[q].direct]
    OBVIOUS
  <2>3. \A q \in Views!Prefix : direct[q] \in Int
    BY <2>2, DirectIs
  <2>4. PICK capacity \in Int : capacity = Views!Capacity(a)
    BY CapacityIs DEF Unknown
  <2>5. ASSUME NEW c \in C
        PROVE  /\ c \in Views!Prefix /\ Room(c) \in Nat /\ Room(c) < n
               /\ Counted(used, a)[c] \in Int /\ Counted(used, a)[c] # None
               /\ Fits(c) => Counted(used, a)[c] = Views!AddressesUnder(c)
    <3>1. c \in Views!Prefix /\ Room(c) \in Nat /\ Room(c) < n /\ Counts(c)
      BY <2>0, <2>1
    <3>2. Views!Capacity(c) \in Int /\ Views!Capacity(c) # None
      BY <2>1, <3>1, CapacityIs DEF Unknown
    <3>3. Counted(used, a)[c] = IF used[c] = None THEN Views!Capacity(c) ELSE used[c]
      BY <2>1 DEF Counted
    <3>4. None \notin Int
      BY DEF PlanSound, CapacitiesAreKnown
    <3>5. Fits(c) => ~ Unknown(c)
      <4>1. \A d \in Views!Children(c) : d \in Views!Under[d] /\ d \in Views!Prefix
        BY <3>1, ChildrenNarrow, UnderIs
      <4>2. c \in Views!Under[c] /\ \A d \in Views!Children(c) : d \in Views!Under[c]
        BY <3>1, <4>1, UnderIs
      <4> QED
        BY <4>2 DEF Fits, Unknown
    <3>6. used[c] = None \/ used[c] \in Int
      BY <3>1 DEF Counts
    <3>7. Fits(c) => used[c] = Views!AddressesUnder(c) /\ used[c] \in Int
      BY <3>1, <3>5 DEF Counts
    <3> QED
      BY <3>1, <3>2, <3>3, <3>4, <3>6, <3>7
  <2>6. PICK counted : counted = Counted(used, a)
    OBVIOUS
  <2>7. \A c \in C : counted[c] \in Int /\ counted[c] # None
    BY <2>5, <2>6
  <2>8. PICK below \in Int : below = Views!SumOver(counted, C)
    BY <2>1, <2>7, SumType
  <2>9. used[a] = Views!Min({capacity, direct[a] + below})
    <3>1. used[a] = Use(used, a)
      BY UseIs
    <3>2. Views!Capacity(a) # None
      BY DEF Unknown
    <3>3. prefixes[a].direct = direct[a]
      BY <2>2
    <3> HIDE DEF used
    <3> QED
      BY <2>1, <2>4, <2>6, <2>7, <2>8, <3>1, <3>2, <3>3 DEF Use
  <2>10. used[a] = IF capacity <= direct[a] + below THEN capacity ELSE direct[a] + below
    BY <2>3, <2>9, LeastOfTwo
  <2>11. ASSUME Fits(a) PROVE used[a] = Views!AddressesUnder(a)
    <3>1. PICK part : part = Views!Under
      OBVIOUS
    <3>2. part[a] = {a} \cup UNION {part[c] : c \in C}
      BY <2>1, <3>1, UnderIs
    <3>3. \A q \in Views!Prefix : Views!AddressesUnder(q) = Views!SumOver(direct, part[q])
      BY <2>2, <3>1 DEF Views!AddressesUnder
    <3>4. \A c \in C : IsFiniteSet(part[c]) /\ part[c] \in SUBSET Views!Prefix /\ a \notin part[c]
      <4> SUFFICES ASSUME NEW c \in C
                   PROVE  IsFiniteSet(part[c]) /\ part[c] \in SUBSET Views!Prefix /\ a \notin part[c]
        OBVIOUS
      <4>1. Closed(c) /\ Room(c) \in Nat /\ Room(c) < Room(a)
        BY <2>5, UnderClosed
      <4>2. part[c] \in SUBSET Views!Prefix /\ a \notin part[c]
        BY <3>1, <4>1 DEF Closed
      <4> QED
        BY <4>2, PrefixesFinite, FS_Subset
    <3>5. \A c \in C : counted[c] = Views!SumOver(direct, part[c])
      <4> SUFFICES ASSUME NEW c \in C PROVE counted[c] = Views!SumOver(direct, part[c])
        OBVIOUS
      <4>1. Views!Under[c] \subseteq Views!Under[a]
        BY <3>1, <3>2
      <4>2. Fits(c)
        BY <2>11, <4>1 DEF Fits
      <4> QED
        BY <2>5, <2>6, <3>3, <4>2
    <3>6. \A c, d \in C : c # d => part[c] \cap part[d] = {}
      BY <2>1, <3>1, SiblingsApart
    <3>7. PICK U : U = UNION {part[c] : c \in C}
      OBVIOUS
    <3>8. \A c \in C : \A x \in part[c] : direct[x] \in Int
      BY <2>3, <3>4
    <3>9. IsFiniteSet(U) /\ Views!SumOver(direct, U) = Views!SumOver(counted, C)
      BY <2>1, <3>4, <3>5, <3>6, <3>7, <3>8, SumOfParts
    <3>10. U \subseteq Views!Prefix /\ a \notin U
      BY <3>4, <3>7
    <3>11. Views!SumOver(direct, part[a]) = direct[a] + below
      <4>1. IsFiniteSet(part[a]) /\ a \in part[a] /\ part[a] \ {a} = U
        BY <3>2, <3>7, <3>9, <3>10, FS_AddElement
      <4>2. \A x \in part[a] : direct[x] \in Int
        BY <2>3, <3>2, <3>7, <3>10
      <4> QED
        BY <2>8, <3>9, <4>1, <4>2, SumTakes
    <3>12. direct[a] + below <= capacity
      <4>1. Views!AddressesUnder(a) <= Views!Capacity(a)
        BY <2>11, <3>1, <3>2 DEF Fits
      <4> QED
        BY <2>4, <3>3, <3>11, <4>1
    <3>13. direct[a] \in Int
      BY <2>3
    <3> QED
      BY <2>10, <3>3, <3>11, <3>12, <3>13
  <2>12. direct[a] \in Int
    BY <2>3
  <2>13. used[a] \in Int /\ used[a] <= capacity
    BY <2>10, <2>12
  <2> QED
    BY <2>4, <2>11, <2>13
<1>2. N = Nat
  <2> HIDE DEF N
  <2>1. N \in SUBSET Nat
    BY DEF N
  <2> QED
    BY <1>1, <2>1, EveryNumber
<1>3. Room(p) \in N
  BY <1>2, RowOf
<1> QED
  BY <1>3

LEMMA PlanSoundCounts == PlanSound => UtilizationCounts
<1> SUFFICES ASSUME PlanSound, NEW p \in Views!Prefix
             PROVE  /\ Views!UsedAddresses[p] = None <=>
                         \/ Views!Capacity(p) = None
                         \/ \E c \in Views!Foreign(p) : Views!Capacity(c) = None
                    /\ Views!UsedAddresses[p] # None =>
                         Views!UsedAddresses[p] <= Views!Capacity(p)
                    /\ Fits(p) => Views!UsedAddresses[p] = Views!AddressesUnder(p)
  BY DEF UtilizationCounts, Views!UtilizationCounts, Fits
<1>1. Counts(p)
  BY UseCounts
<1>2. None \notin Int
  BY DEF PlanSound, CapacitiesAreKnown
<1>3. Unknown(p) <=> \/ Views!Capacity(p) = None
                     \/ \E c \in Views!Foreign(p) : Views!Capacity(c) = None
  BY KinAreKnown DEF Unknown, Views!Foreign
<1>4. Fits(p) => ~ Unknown(p)
  <2>1. \A c \in Views!Children(p) : c \in Views!Under[c] /\ c \in Views!Prefix
    BY ChildrenNarrow, UnderIs
  <2>2. p \in Views!Under[p] /\ \A c \in Views!Children(p) : c \in Views!Under[p]
    BY <2>1, UnderIs
  <2> QED
    BY <2>2 DEF Fits, Unknown
<1> QED
  BY <1>1, <1>2, <1>3, <1>4 DEF Counts

(* Whatever the prefixes, of either family, their lengths and the addresses  *)
(* in them: one that is counted is never above its capacity, one that is    *)
(* small enough is counted but for a large prefix of the other family right *)
(* under it, and where all can be counted and nothing is above its capacity *)
(* each address counts once (createPrefixUtilizationDirectory).             *)
THEOREM UtilizationTheorem == Views!ViewsSpec => []UtilizationCounts
<1>1. Views!ViewsInit => PlanSound
  BY StoresAssumption DEF StoresAssumption, Views!ViewsInit, PlanSound
<1>2. PlanSound /\ [Views!ViewsNext]_(Views!viewsVars) => PlanSound'
  <2> SUFFICES ASSUME PlanSound, [Views!ViewsNext]_(Views!viewsVars) PROVE PlanSound'
    OBVIOUS
  <2>1. prefixes' = prefixes
    BY DEF Views!ViewsNext, Views!TreeNext, Views!GraphNext, Views!Retry, Views!SelectRow,
           Views!ToggleRow, Views!SelectNode, Views!ChangeFilter, Views!viewsVars
  <2> QED
    BY <2>1 DEF PlanSound
<1> QED
  BY <1>1, <1>2, PlanSoundCounts, PTL DEF Views!ViewsSpec

-----------------------------------------------------------------------------
(* PathTrace.  What is queued has a path of the shortest length, in order   *)
(* of lengths, and everything as near as its head has been visited; what    *)
(* was visited is in the queue, or is done with: not the target, and too    *)
(* far away or with nothing behind it that was not visited.                 *)
Place == Point \cup {e.to : e \in Link}
Item == [node : Place, path : Seq(Link)]

Followed(e) == e \in links /\ e.kind \in asked.kinds

Unreached(x, n) == \A m \in 0 .. n - 1 : ~ Trace!Reachable(x, m)

Covered(n) == \A x : Trace!Reachable(x, n) => x \in visited

Shortest(item) ==
    /\ Trace!Leads(item.path, Len(item.path), item.node)
    /\ Len(item.path) <= asked.depth
    /\ Unreached(item.node, Len(item.path))

DoneWith(x) ==
    /\ x # asked.target
    /\ Unreached(x, asked.depth) \/ \A e : Followed(e) /\ e.from = x => e.to \in visited

TraceTyped ==
    /\ links \in SUBSET Link
    /\ asked.start \in Point /\ asked.depth \in Nat
    /\ queue \in Seq(Item)

QueueInv ==
    /\ \A i \in DOMAIN queue : Shortest(queue[i])
    /\ \A i, j \in DOMAIN queue : i <= j => Len(queue[i].path) <= Len(queue[j].path)
    /\ \A j \in DOMAIN queue : Len(queue[j].path) <= Len(queue[1].path) + 1

VisitedInv ==
    /\ asked.start \in visited
    /\ queue # <<>> => \A n \in 0 .. Len(queue[1].path) : Covered(n)
    /\ \A x \in visited : DoneWith(x) \/ \E i \in DOMAIN queue : queue[i].node = x

TraceInv == TraceTyped /\ QueueInv /\ VisitedInv /\ Trace!TraceIsShortest

(* A walk with an edge more, and one with an edge less. *)
LEMMA LongerWalk ==
    ASSUME NEW path \in Seq(Link), NEW e \in Link, Followed(e),
           Trace!Leads(path, Len(path), e.from)
    PROVE  Trace!Leads(Append(path, e), Len(path) + 1, e.to)
<1> DEFINE longer == Append(path, e)
<1>1. /\ Len(path) \in Nat /\ longer[Len(path) + 1] = e
      /\ \A i \in 1 .. Len(path) : longer[i] = path[i]
  OBVIOUS
<1> HIDE DEF longer
<1>2. \A n \in 0 .. Len(path) : Trace!Stop(longer, n) = Trace!Stop(path, n)
  BY <1>1 DEF Trace!Stop
<1>3. ASSUME NEW i \in 1 .. Len(path) + 1
      PROVE  /\ longer[i] \in links /\ longer[i].kind \in asked.kinds
             /\ longer[i].from = Trace!Stop(longer, i - 1)
  <2>1. CASE i \in 1 .. Len(path)
    <3>1. i - 1 \in 0 .. Len(path)
      BY <1>1, <2>1
    <3> QED
      BY <1>1, <1>2, <2>1, <3>1 DEF Trace!Leads
  <2>2. CASE i = Len(path) + 1
    <3>1. i - 1 = Len(path)
      BY <1>1, <2>2
    <3> QED
      BY <1>1, <1>2, <2>2, <3>1 DEF Trace!Leads, Followed
  <2> QED
    BY <1>1, <2>1, <2>2
<1>4. Trace!Stop(longer, Len(path) + 1) = e.to
  BY <1>1 DEF Trace!Stop
<1>5. Trace!Leads(longer, Len(path) + 1, e.to)
  BY <1>3, <1>4 DEF Trace!Leads
<1> QED
  BY <1>5 DEF longer

LEMMA ShorterWalk ==
    ASSUME NEW n \in Nat, NEW x, Trace!Reachable(x, n + 1)
    PROVE  \E e \in links : Followed(e) /\ e.to = x /\ Trace!Reachable(e.from, n)
<1>1. PICK walk \in [1 .. n + 1 -> links] : Trace!Leads(walk, n + 1, x)
  BY DEF Trace!Reachable
<1>2. PICK shorter \in [1 .. n -> links] : shorter = [i \in 1 .. n |-> walk[i]]
  <2>1. \A i \in 1 .. n : i \in 1 .. n + 1
    OBVIOUS
  <2>2. [i \in 1 .. n |-> walk[i]] \in [1 .. n -> links]
    BY <2>1
  <2> QED
    BY <2>2
<1>3. /\ walk[n + 1] \in links /\ walk[n + 1].kind \in asked.kinds
      /\ walk[n + 1].from = Trace!Stop(walk, n) /\ walk[n + 1].to = x
  <2>1. n + 1 \in 1 .. n + 1 /\ (n + 1) - 1 = n /\ n + 1 # 0
    OBVIOUS
  <2> QED
    BY <1>1, <2>1 DEF Trace!Leads, Trace!Stop
<1>4. \A i \in 0 .. n : Trace!Stop(shorter, i) = Trace!Stop(walk, i)
  BY <1>2 DEF Trace!Stop
<1>5. \A i \in 1 .. n : i - 1 \in 0 .. n /\ i \in 1 .. n + 1 /\ shorter[i] = walk[i]
  BY <1>2
<1>6. Trace!Leads(shorter, n, Trace!Stop(walk, n))
  BY <1>1, <1>4, <1>5 DEF Trace!Leads
<1>7. Trace!Reachable(walk[n + 1].from, n)
  BY <1>3, <1>6 DEF Trace!Reachable
<1> QED
  BY <1>3, <1>7 DEF Followed

(* One step farther: what is reached from what is done with was visited.    *)
LEMMA CoveredNext ==
    ASSUME NEW n \in Nat, asked.depth \in Nat, n < asked.depth, Covered(n), NEW Q,
           \A x \in visited : DoneWith(x) \/ \E item \in Q : item.node = x,
           \A item \in Q : Unreached(item.node, n + 1)
    PROVE  Covered(n + 1)
<1> SUFFICES ASSUME NEW x, Trace!Reachable(x, n + 1) PROVE x \in visited
  BY DEF Covered
<1>1. PICK e \in links : Followed(e) /\ e.to = x /\ Trace!Reachable(e.from, n)
  BY ShorterWalk
<1>2. e.from \in visited
  BY <1>1 DEF Covered
<1>3. n \in 0 .. (n + 1) - 1 /\ n \in 0 .. asked.depth - 1
  OBVIOUS
<1>4. DoneWith(e.from)
  BY <1>1, <1>2, <1>3 DEF Unreached
<1>5. ~ Unreached(e.from, asked.depth)
  BY <1>1, <1>3 DEF Unreached
<1> QED
  BY <1>1, <1>4, <1>5 DEF DoneWith

LEMMA StartCovered ==
    ASSUME asked.start \in visited
    PROVE  Covered(0)
BY DEF Covered, Trace!Reachable, Trace!Leads, Trace!Stop

LEMMA NothingQueued ==
    ASSUME TraceInv, queue = <<>>
    PROVE  \A x \in visited : DoneWith(x)
BY DEF TraceInv, VisitedInv

(* Once nothing is queued, everything within the depth was visited, and the *)
(* target was not.                                                          *)
LEMMA AllCovered ==
    ASSUME TraceInv, queue = <<>>
    PROVE  \A n \in 0 .. asked.depth : Covered(n)
<1> DEFINE Missed == {n \in 0 .. asked.depth : ~ Covered(n)}
<1>1. asked.depth \in Nat
  BY DEF TraceInv, TraceTyped
<1>2. SUFFICES ASSUME Missed # {} PROVE FALSE
  OBVIOUS
<1>3. Missed \in SUBSET Nat
  BY <1>1
<1> HIDE DEF Missed
<1>4. PICK n \in Missed : \A m \in Missed : n <= m
  BY <1>2, <1>3, LeastExists
<1>5. n \in 0 .. asked.depth /\ ~ Covered(n) /\ n \in Nat
  BY <1>1, <1>4 DEF Missed
<1>6. n # 0
  BY <1>5, StartCovered DEF TraceInv, VisitedInv
<1>7. PICK m \in Nat : n = m + 1
  <2>1. n - 1 \in Nat /\ n = (n - 1) + 1
    BY <1>5, <1>6
  <2> QED
    BY <2>1
<1>8. m < asked.depth /\ m \in 0 .. asked.depth
  BY <1>1, <1>5, <1>7
<1>9. Covered(m)
  <2>1. ~ n <= m
    BY <1>7
  <2>2. m \notin Missed
    BY <1>4, <2>1
  <2> QED
    BY <1>8, <2>2 DEF Missed
<1>10. PICK Q : /\ \A x \in visited : DoneWith(x) \/ \E item \in Q : item.node = x
                /\ \A item \in Q : Unreached(item.node, m + 1)
  <2>1. /\ \A x \in visited : DoneWith(x) \/ \E item \in {} : item.node = x
        /\ \A item \in {} : Unreached(item.node, m + 1)
    BY NothingQueued
  <2> QED
    BY <2>1
<1>11. Covered(m + 1)
  BY <1>1, <1>8, <1>9, <1>10, CoveredNext
<1> QED
  BY <1>5, <1>7, <1>11

LEMMA TraceInitInv == MaxHops \in Nat /\ Trace!TraceInit => TraceInv
<1> SUFFICES ASSUME MaxHops \in Nat, Trace!TraceInit PROVE TraceInv
  OBVIOUS
<1>1. /\ links \in SUBSET Link /\ asked.start \in Point /\ asked.depth \in Nat
      /\ visited = {asked.start} /\ answer.at = "searching"
  BY DEF Trace!TraceInit, Trace!NoAnswer
<1>2. PICK item \in Item : item = [node |-> asked.start, path |-> <<>>]
  <2>1. [node |-> asked.start, path |-> <<>>] \in Item
    BY <1>1 DEF Item, Place
  <2> QED
    BY <2>1
<1>3. item.node = asked.start /\ item.path = <<>> /\ Len(item.path) = 0
  BY <1>2
<1>4. /\ queue \in Seq(Item) /\ DOMAIN queue = {1} /\ queue[1] = item
  BY <1>2 DEF Trace!TraceInit
<1>5. Shortest(item)
  BY <1>1, <1>3 DEF Shortest, Unreached, Trace!Leads, Trace!Stop
<1>6. QueueInv
  BY <1>3, <1>4, <1>5 DEF QueueInv
<1>7. \A n \in 0 .. 0 : Covered(n)
  BY <1>1, StartCovered
<1>8. VisitedInv
  BY <1>1, <1>3, <1>4, <1>7 DEF VisitedInv
<1> QED
  BY <1>1, <1>4, <1>6, <1>8 DEF TraceInv, TraceTyped, Trace!TraceIsShortest

(* What is known of the head of the queue. *)
LEMMA HeadOf ==
    ASSUME TraceInv, queue # <<>>
    PROVE  /\ Trace!Current = queue[1] /\ 1 \in DOMAIN queue /\ queue[1] \in Item
           /\ Shortest(queue[1]) /\ Len(queue[1].path) \in Nat
<1>1. queue \in Seq(Item)
  BY DEF TraceInv, TraceTyped
<1>2. 1 \in DOMAIN queue /\ queue[1] \in Item /\ Head(queue) = queue[1]
  BY <1>1
<1> QED
  BY <1>2 DEF TraceInv, QueueInv, Trace!Current, Item

(* What a step that leaves the graph and the question alone keeps. *)
LEMMA SameQuestion ==
    ASSUME UNCHANGED <<links, asked>>
    PROVE  /\ \A e : Followed(e)' <=> Followed(e)
           /\ \A walk, n : Trace!Stop(walk, n)' = Trace!Stop(walk, n)
           /\ \A walk, n, x : Trace!Leads(walk, n, x)' <=> Trace!Leads(walk, n, x)
           /\ \A x, n : Trace!Reachable(x, n)' <=> Trace!Reachable(x, n)
           /\ \A x, n : Unreached(x, n)' <=> Unreached(x, n)
           /\ \A item : Shortest(item)' <=> Shortest(item)
BY DEF Followed, Trace!Leads, Trace!Stop, Trace!Reachable, Unreached, Shortest

LEMMA FollowStep ==
    ASSUME TraceInv, NEW e \in Link, Trace!Follow(e)
    PROVE  TraceInv'
<1> DEFINE head == queue[1]
           item == [node |-> e.to, path |-> Append(head.path, e)]
<1>1. /\ answer.at = "searching" /\ queue # <<>> /\ head.node # asked.target
      /\ Len(head.path) < asked.depth
      /\ e \in links /\ e.from = head.node /\ Followed(e) /\ e.to \notin visited
      /\ visited' = visited \cup {e.to} /\ queue' = Append(queue, item)
      /\ UNCHANGED <<links, asked, answer>>
  <2>1. Len(head.path) \in Nat /\ asked.depth \in Nat /\ Trace!Current = head
    BY HeadOf DEF Trace!Follow, TraceInv, TraceTyped
  <2> QED
    BY <2>1 DEF Trace!Follow, Trace!Exhausted, Trace!Outbound, Followed
<1>2. /\ head \in Item /\ Shortest(head) /\ 1 \in DOMAIN queue
      /\ queue \in Seq(Item) /\ head.path \in Seq(Link)
      /\ asked.depth \in Nat /\ Len(head.path) \in Nat
  BY <1>1, HeadOf DEF TraceInv, TraceTyped, Item
<1> DEFINE L == Len(head.path)
<1>3. /\ item \in Item /\ item.node = e.to /\ item.path = Append(head.path, e)
      /\ Len(item.path) = L + 1
  <2>1. Append(head.path, e) \in Seq(Link) /\ Len(Append(head.path, e)) = L + 1
    BY <1>2
  <2>2. e.to \in Place
    BY DEF Place
  <2> QED
    BY <2>1, <2>2 DEF Item
<1>4. \A n \in 0 .. L : Covered(n)
  BY <1>1 DEF TraceInv, VisitedInv
<1>5. Shortest(item)
  <2>1. Trace!Leads(item.path, L + 1, e.to)
    BY <1>1, <1>2, <1>3, LongerWalk DEF Shortest
  <2>2. Unreached(e.to, L + 1)
    <3>1. ASSUME NEW m \in 0 .. (L + 1) - 1 PROVE ~ Trace!Reachable(e.to, m)
      <4>1. m \in 0 .. L
        BY <1>2
      <4> QED
        BY <1>1, <1>4, <4>1 DEF Covered
    <3> QED
      BY <3>1 DEF Unreached
  <2> QED
    BY <1>1, <1>2, <1>3, <2>1, <2>2 DEF Shortest
<1> HIDE DEF item
<1>6. /\ queue' \in Seq(Item) /\ DOMAIN queue' = DOMAIN queue \cup {Len(queue) + 1}
      /\ \A i \in DOMAIN queue : i \in Nat /\ i <= Len(queue) /\ queue'[i] = queue[i]
      /\ queue'[Len(queue) + 1] = item /\ Len(queue) \in Nat
      /\ queue' # <<>>
  BY <1>1, <1>2, <1>3
<1>7. QueueInv'
  <2>1. \A i \in DOMAIN queue' : Shortest(queue'[i])
    BY <1>5, <1>6 DEF TraceInv, QueueInv
  <2>2. \A i \in DOMAIN queue : Len(queue[i].path) <= L + 1 /\ Len(queue[i].path) \in Nat
    <3>1. \A i \in DOMAIN queue : queue[i] \in Item
      BY <1>2
    <3> QED
      BY <3>1 DEF TraceInv, QueueInv, Item
  <2>3. \A i, j \in DOMAIN queue' : i <= j => Len(queue'[i].path) <= Len(queue'[j].path)
    BY <1>2, <1>3, <1>6, <2>2 DEF TraceInv, QueueInv
  <2>4. \A j \in DOMAIN queue' : Len(queue'[j].path) <= Len(queue'[1].path) + 1
    BY <1>2, <1>3, <1>6, <2>2
  <2>5. \A i \in DOMAIN queue' : Shortest(queue[i])'
    BY <1>1, <2>1, SameQuestion
  <2> QED
    BY <2>3, <2>4, <2>5 DEF QueueInv
<1>8. VisitedInv'
  <2>1. asked'.start \in visited'
    BY <1>1 DEF TraceInv, VisitedInv
  <2>2. ASSUME NEW n \in 0 .. Len(queue'[1].path) PROVE Covered(n)'
    <3>1. Covered(n)
      BY <1>2, <1>4, <1>6
    <3> QED
      BY <1>1, <3>1, SameQuestion DEF Covered
  <2>3. ASSUME NEW x \in visited'
        PROVE  DoneWith(x)' \/ \E i \in DOMAIN queue' : queue'[i].node = x
    <3>1. CASE x = e.to
      BY <1>3, <1>6, <3>1
    <3>2. CASE x \in visited /\ DoneWith(x)
      BY <1>1, <3>2, SameQuestion DEF DoneWith
    <3>3. CASE \E i \in DOMAIN queue : queue[i].node = x
      BY <1>6, <3>3
    <3> QED
      BY <1>1, <3>1, <3>2, <3>3 DEF TraceInv, VisitedInv
  <2> QED
    BY <2>1, <2>2, <2>3 DEF VisitedInv
<1>9. Trace!TraceIsShortest'
  BY <1>1 DEF Trace!TraceIsShortest
<1> QED
  BY <1>1, <1>6, <1>7, <1>8, <1>9 DEF TraceInv, TraceTyped

(* The head goes: it was not the target, and it is too deep or all behind   *)
(* it was visited.                                                          *)
LEMMA DropStep ==
    ASSUME TraceInv, Trace!Drop
    PROVE  TraceInv'
<1> DEFINE head == queue[1]
           L == Len(head.path)
<1>1. /\ answer.at = "searching" /\ queue # <<>> /\ queue' = Tail(queue)
      /\ head.node # asked.target
      /\ UNCHANGED <<links, asked, visited, answer>>
      /\ \/ L >= asked.depth
         \/ \A e : Followed(e) /\ e.from = head.node => e.to \in visited
  <2>1. Trace!Current = head
    BY HeadOf DEF Trace!Drop
  <2> QED
    BY <2>1 DEF Trace!Drop, Trace!Exhausted, Trace!Outbound, Followed
<1>2. /\ head \in Item /\ Shortest(head) /\ 1 \in DOMAIN queue
      /\ queue \in Seq(Item) /\ asked.depth \in Nat /\ L \in Nat
  BY <1>1, HeadOf DEF TraceInv, TraceTyped
<1>3. DoneWith(head.node)
  <2>1. CASE L >= asked.depth
    <3>1. \A m \in 0 .. asked.depth - 1 : m \in 0 .. L - 1
      BY <1>2, <2>1
    <3>2. Unreached(head.node, asked.depth)
      BY <1>2, <3>1 DEF Shortest, Unreached
    <3> QED
      BY <1>1, <3>2 DEF DoneWith
  <2>2. CASE \A e : Followed(e) /\ e.from = head.node => e.to \in visited
    BY <1>1, <2>2 DEF DoneWith
  <2> QED
    BY <1>1, <2>1, <2>2
<1>4. /\ queue' \in Seq(Item) /\ Len(queue') = Len(queue) - 1 /\ Len(queue) \in Nat
      /\ \A i \in DOMAIN queue' : /\ i + 1 \in DOMAIN queue /\ queue'[i] = queue[i + 1]
                                  /\ i \in Nat /\ queue'[i] \in Item
      /\ \A i \in DOMAIN queue : i # 1 => i - 1 \in DOMAIN queue'
  BY <1>1, <1>2
<1>5. \A x \in visited : DoneWith(x) \/ \E i \in DOMAIN queue' : queue'[i].node = x
  <2> SUFFICES ASSUME NEW x \in visited, ~ DoneWith(x)
               PROVE  \E i \in DOMAIN queue' : queue'[i].node = x
    OBVIOUS
  <2>1. PICK i \in DOMAIN queue : queue[i].node = x
    BY DEF TraceInv, VisitedInv
  <2>2. i # 1
    BY <1>3, <2>1
  <2>3. i - 1 \in DOMAIN queue' /\ (i - 1) + 1 = i
    BY <1>2, <1>4, <2>2
  <2>4. queue'[i - 1] = queue[i]
    BY <1>4, <2>3
  <2> QED
    BY <2>1, <2>3, <2>4
<1>6. \A i \in DOMAIN queue' : /\ L <= Len(queue'[i].path) /\ Len(queue'[i].path) <= L + 1
                               /\ Shortest(queue'[i]) /\ Len(queue'[i].path) \in Nat
  <2> SUFFICES ASSUME NEW i \in DOMAIN queue'
               PROVE  /\ L <= Len(queue'[i].path) /\ Len(queue'[i].path) <= L + 1
                      /\ Shortest(queue'[i]) /\ Len(queue'[i].path) \in Nat
    OBVIOUS
  <2>1. PICK j \in DOMAIN queue : j = i + 1 /\ queue'[i] = queue[j] /\ 1 <= j
    BY <1>4
  <2>2. L <= Len(queue[j].path) /\ Len(queue[j].path) <= L + 1 /\ Shortest(queue[j])
    BY <1>2, <2>1 DEF TraceInv, QueueInv
  <2>3. queue[j].path \in Seq(Link)
    BY <1>4, <2>1 DEF Item
  <2> QED
    BY <2>1, <2>2, <2>3
<1>7. queue' # <<>> => 1 \in DOMAIN queue'
  BY <1>4
<1>8. QueueInv'
  <2>1. \A i, j \in DOMAIN queue' : i <= j => Len(queue'[i].path) <= Len(queue'[j].path)
    BY <1>4 DEF TraceInv, QueueInv
  <2>2. \A j \in DOMAIN queue' : Len(queue'[j].path) <= Len(queue'[1].path) + 1
    <3>1. \A j \in DOMAIN queue' : 1 \in DOMAIN queue'
      BY <1>4
    <3> QED
      BY <1>2, <1>6, <3>1
  <2>3. \A i \in DOMAIN queue' : Shortest(queue[i])'
    BY <1>1, <1>6, SameQuestion
  <2> QED
    BY <2>1, <2>2, <2>3 DEF QueueInv
<1>9. ASSUME queue' # <<>>, NEW n \in 0 .. Len(queue'[1].path) PROVE Covered(n)
  <2>1. \A m \in 0 .. L : Covered(m)
    BY <1>1 DEF TraceInv, VisitedInv
  <2>2. CASE n \in 0 .. L
    BY <2>1, <2>2
  <2>3. CASE n = L + 1 /\ Len(queue'[1].path) = L + 1
    <3>1. \A i \in DOMAIN queue' : Len(queue'[i].path) = L + 1
      <4>1. \A i \in DOMAIN queue' : Len(queue'[1].path) <= Len(queue'[i].path)
        BY <1>4, <1>7, <1>8, <1>9 DEF QueueInv
      <4> QED
        BY <1>2, <1>6, <2>3, <4>1
    <3>2. PICK Q : Q = {queue'[i] : i \in DOMAIN queue'}
      OBVIOUS
    <3>3. \A x \in visited : DoneWith(x) \/ \E item \in Q : item.node = x
      BY <1>5, <3>2
    <3>4. \A item \in Q : Unreached(item.node, L + 1)
      BY <1>6, <3>1, <3>2 DEF Shortest
    <3>5. L < asked.depth
      BY <1>2, <1>6, <1>7, <1>9, <3>1 DEF Shortest
    <3>6. Covered(L)
      BY <1>2, <2>1
    <3> HIDE DEF L
    <3>7. Covered(L + 1)
      BY <1>2, <3>3, <3>4, <3>5, <3>6, CoveredNext
    <3> QED
      BY <2>3, <3>7
  <2>4. n \in 0 .. L \/ (n = L + 1 /\ Len(queue'[1].path) = L + 1)
    BY <1>2, <1>6, <1>7, <1>9
  <2> QED
    BY <2>2, <2>3, <2>4
<1>10. VisitedInv'
  <2>1. ASSUME NEW x PROVE DoneWith(x)' <=> DoneWith(x)
    BY <1>1, SameQuestion DEF DoneWith
  <2>2. ASSUME NEW n, Covered(n) PROVE Covered(n)'
    BY <1>1, <2>2, SameQuestion DEF Covered
  <2>3. queue' # <<>> => \A n \in 0 .. Len(queue'[1].path) : Covered(n)'
    BY <1>9, <2>2
  <2>4. \A x \in visited' : DoneWith(x)' \/ \E i \in DOMAIN queue' : queue'[i].node = x
    BY <1>1, <1>5, <2>1
  <2>5. asked'.start \in visited'
    BY <1>1 DEF TraceInv, VisitedInv
  <2> QED
    BY <2>3, <2>4, <2>5 DEF VisitedInv
<1>11. Trace!TraceIsShortest'
  BY <1>1 DEF Trace!TraceIsShortest
<1> QED
  BY <1>1, <1>4, <1>8, <1>10, <1>11 DEF TraceInv, TraceTyped

LEMMA TraceStep ==
    ASSUME TraceInv, [Trace!TraceNext]_(Trace!traceVars)
    PROVE  TraceInv'
<1>1. ASSUME Trace!Found PROVE TraceInv'
  <2>1. /\ queue # <<>> /\ Trace!Current.node = asked.target
        /\ answer' = [at |-> "found", path |-> Trace!Current.path]
        /\ UNCHANGED <<links, asked, queue, visited>>
    BY <1>1 DEF Trace!Found
  <2>2. /\ Trace!Current = queue[1] /\ Shortest(queue[1])
        /\ answer'.at = "found" /\ answer'.path = queue[1].path
    BY <2>1, HeadOf
  <2>3. Trace!TraceIsShortest'
    BY <2>1, <2>2, SameQuestion DEF Trace!TraceIsShortest, Shortest, Unreached
  <2>4. QueueInv' /\ VisitedInv'
    BY <2>1, SameQuestion DEF TraceInv, QueueInv, VisitedInv, Covered, DoneWith
  <2> QED
    BY <2>1, <2>3, <2>4 DEF TraceInv, TraceTyped
<1>2. ASSUME Trace!NotFound PROVE TraceInv'
  <2>1. /\ queue = <<>> /\ answer'.at = "not found"
        /\ UNCHANGED <<links, asked, queue, visited>>
    BY <1>2 DEF Trace!NotFound
  <2>2. asked.target \notin visited
    <3>1. \A x \in visited : DoneWith(x)
      BY <2>1, NothingQueued
    <3> QED
      BY <3>1 DEF DoneWith
  <2>3. \A n \in 0 .. asked.depth : ~ Trace!Reachable(asked.target, n)
    BY <2>1, <2>2, AllCovered DEF Covered
  <2>4. Trace!TraceIsShortest'
    BY <2>1, <2>3, SameQuestion DEF Trace!TraceIsShortest
  <2>5. QueueInv' /\ VisitedInv'
    BY <2>1, SameQuestion DEF TraceInv, QueueInv, VisitedInv, Covered, DoneWith
  <2> QED
    BY <2>1, <2>4, <2>5 DEF TraceInv, TraceTyped
<1>3. CASE UNCHANGED Trace!traceVars
  <2>1. UNCHANGED <<links, asked, queue, visited, answer>>
    BY <1>3 DEF Trace!traceVars
  <2>2. QueueInv' /\ VisitedInv'
    BY <2>1, SameQuestion DEF TraceInv, QueueInv, VisitedInv, Covered, DoneWith
  <2>3. Trace!TraceIsShortest'
    BY <2>1, SameQuestion DEF TraceInv, Trace!TraceIsShortest
  <2> QED
    BY <2>1, <2>2, <2>3 DEF TraceInv, TraceTyped
<1> QED
  BY <1>1, <1>2, <1>3, FollowStep, DropStep DEF Trace!TraceNext

(* The path that is found is one from start to target along what may be     *)
(* followed, within the depth, and none is shorter; if none is found there  *)
(* is none: for every graph, and in whatever order edges are taken.         *)
THEOREM TraceTheorem == Trace!TraceSpec => []TraceIsShortest
<1>1. Trace!TraceInit => TraceInv
  BY TraceInitInv, StoresAssumption DEF StoresAssumption, LinksAreEdges
<1>2. TraceInv /\ [Trace!TraceNext]_(Trace!traceVars) => TraceInv'
  BY TraceStep
<1>3. TraceInv => TraceIsShortest
  BY DEF TraceInv, TraceIsShortest
<1> QED
  BY <1>1, <1>2, <1>3, PTL DEF Trace!TraceSpec

(* The types of what is asked, visited and answered. *)
QuestionTyped ==
    /\ asked \in [start : Point, target : Point, kinds : SUBSET Kind, depth : 0 .. MaxHops]
    /\ visited \subseteq Point
    /\ answer \in [at : {"searching", "found", "not found"}, path : Trace!Walk]

LEMMA QueuedTyped ==
    ASSUME LinksAreEdges, TraceInv, QuestionTyped, NEW i \in DOMAIN queue
    PROVE  queue[i] \in [node : Point, path : Trace!Walk]
<1>1. queue[i] \in Item /\ Shortest(queue[i])
  BY DEF TraceInv, TraceTyped, QueueInv
<1>2. Place = Point
  BY DEF LinksAreEdges, Place
<1>3. PICK n \in Nat : n = Len(queue[i].path)
  BY <1>1 DEF Item
<1>4. n \in 0 .. MaxHops
  <2>1. asked.depth \in 0 .. MaxHops
    BY DEF QuestionTyped
  <2> QED
    BY <1>1, <1>3, <2>1 DEF Shortest, LinksAreEdges
<1>5. queue[i].path \in [1 .. n -> Link]
  BY <1>1, <1>3 DEF Item
<1>6. queue[i].path \in Trace!Walk
  BY <1>4, <1>5 DEF Trace!Walk
<1> QED
  BY <1>1, <1>2, <1>6 DEF Item

LEMMA NoPath == <<>> \in Trace!Walk
<1>1. <<>> \in [1 .. 0 -> Link] /\ 0 \in 0 .. MaxHops
  BY StoresAssumption DEF StoresAssumption, LinksAreEdges
<1> QED
  BY <1>1 DEF Trace!Walk

LEMMA QuestionStep ==
    ASSUME LinksAreEdges, TraceInv, QuestionTyped, [Trace!TraceNext]_(Trace!traceVars)
    PROVE  QuestionTyped'
<1> USE DEF QuestionTyped
<1>1. ASSUME Trace!Found PROVE QuestionTyped'
  <2>1. 1 \in DOMAIN queue /\ Trace!Current = queue[1]
    BY <1>1, HeadOf DEF Trace!Found, TraceInv, TraceTyped
  <2>2. Trace!Current.path \in Trace!Walk
    BY <2>1, QueuedTyped
  <2> QED
    BY <1>1, <2>2 DEF Trace!Found
<1>2. ASSUME NEW e \in Link, Trace!Follow(e) PROVE QuestionTyped'
  BY <1>2 DEF Trace!Follow, LinksAreEdges
<1>3. ASSUME Trace!Drop PROVE QuestionTyped'
  BY <1>3 DEF Trace!Drop
<1>4. ASSUME Trace!NotFound PROVE QuestionTyped'
  <2>1. PICK none \in Trace!Walk : none = <<>>
    BY NoPath
  <2>2. answer' = [at |-> "not found", path |-> none] /\ UNCHANGED <<asked, visited>>
    BY <1>4, <2>1 DEF Trace!NotFound
  <2> QED
    BY <2>2
<1>5. CASE UNCHANGED Trace!traceVars
  BY <1>5 DEF Trace!traceVars
<1> QED
  BY <1>1, <1>2, <1>3, <1>4, <1>5 DEF Trace!TraceNext

(* Every variable of tracePath keeps its type: no path in the queue or the  *)
(* answer is longer than the depth asked for.                               *)
THEOREM TraceTypes == Trace!TraceSpec => []Trace!TraceTypeOK
<1> USE StoresAssumption DEF StoresAssumption
<1>1. Trace!TraceInit => TraceInv
  BY TraceInitInv DEF LinksAreEdges
<1>2. TraceInv /\ [Trace!TraceNext]_(Trace!traceVars) => TraceInv'
  BY TraceStep
<1>3. Trace!TraceInit => QuestionTyped
  BY NoPath DEF Trace!TraceInit, Trace!NoAnswer, QuestionTyped
<1>4. TraceInv /\ QuestionTyped /\ [Trace!TraceNext]_(Trace!traceVars) => QuestionTyped'
  BY QuestionStep
<1>5. TraceInv /\ QuestionTyped => Trace!TraceTypeOK
  BY QueuedTyped DEF QuestionTyped, TraceInv, TraceTyped, Trace!TraceTypeOK
<1> QED
  BY <1>1, <1>2, <1>3, <1>4, <1>5, PTL DEF Trace!TraceSpec

-----------------------------------------------------------------------------
(* Reads.  An entry that is kept was granted to its identity, and it is     *)
(* current or an invalidation still has its kind to scan or has found it;   *)
(* the same holds of what a request is about to store.                      *)
Inventories == [InventoryId -> InventoryRecord \cup {None}]

Answers == {Reads!Answer(s, question) : s \in Inventories, question \in Question}
Scopes == {Reads!ScopeAsked(s, question) : s \in Inventories, question \in Question}

ReaderRecord ==
    [at : {"deciding", "loading", "storing"}, by : Identity, question : Question,
     scope : Scopes, value : Answers \cup {None}, overtaken : BOOLEAN]

Mutation ==
    [at : {"asked"}, action : {"create", "update", "delete"}, resource : Reads!Writable,
     id : InventoryId]

(* What an invalidation has left to do is an end of its list of kinds.      *)
Left == {<<"navigation", "list", "detail">>, <<"list", "detail">>, <<"detail">>}
Invalidation == [at : {"scanning", "deleting"}, left : Left, found : SUBSET Reads!Keys]

Kinds(left) == {left[n] : n \in DOMAIN left}

Coming(w) ==
    IF w.at = "scanning" THEN Kinds(w.left)
    ELSE IF w.at = "deleting" THEN Kinds(Tail(w.left)) ELSE {}

Announced(kind) == \E w \in Writer : kind \in Coming(writer[w])

ReadsTyped ==
    /\ inventory \in Inventories
    /\ DOMAIN cache = Reads!Keys
    /\ reader \in [Reader -> ReaderRecord \cup {Reads!IdleReader}]
    /\ writer \in [Writer -> Mutation \cup Invalidation \cup {Reads!IdleWriter}]

Granted(r) ==
    r.at \in {"loading", "storing"} =>
        Reads!Allowed(r.by, "read", r.question.resource, r.scope)

HasValue(r) == r.at = "storing" \/ (r.at # "idle" /\ r.question.kind = "detail")

FillCurrent(r) ==
    HasValue(r) => \/ r.overtaken
                   \/ r.value = Reads!Answer(inventory, r.question)
                   \/ Announced(r.question.kind)

ReadsInv ==
    /\ ReadsTyped
    /\ \A q \in Reader : Granted(reader[q]) /\ FillCurrent(reader[q])
    /\ Reads!AnsweredWithinGrants
    /\ Reads!ReadsAreCurrent

LEMMA KindsOfLeft ==
    /\ Kinds(Reads!Invalidated) = QuestionKind /\ Reads!Invalidated \in Left
    /\ Kinds(<<>>) = {}
    /\ \A left \in Left : /\ Kinds(left) = {Head(left)} \cup Kinds(Tail(left))
                          /\ Tail(left) \in Left \cup {<<>>}
BY DEF Kinds, Left, Reads!Invalidated, QuestionKind

LEMMA IdleFits ==
    /\ Reads!IdleReader.at = "idle" /\ Reads!IdleWriter.at = "idle"
    /\ Coming(Reads!IdleWriter) = {}
    /\ Reads!Invalidating \in Invalidation /\ Coming(Reads!Invalidating) = QuestionKind
    /\ Reads!Invalidating.at = "scanning"
BY KindsOfLeft DEF Reads!IdleReader, Reads!IdleWriter, Coming, Reads!Invalidating, Invalidation

LEMMA PendingMeans ==
    ASSUME NEW k
    PROVE  Reads!Pending(k) <=>
              \E w \in Writer :
                  \/ \E kind \in Coming(writer[w]) : k \in Reads!KeysOfKind(kind)
                  \/ writer[w].at = "deleting" /\ k \in writer[w].found
BY DEF Reads!Pending, Coming, Kinds

LEMMA KeyMeans ==
    ASSUME NEW i \in Identity, NEW question \in Question
    PROVE  /\ Reads!CacheKey(i, question) \in Reads!Keys
           /\ Reads!CacheKey(i, question) \in Reads!KeysOfKind(question.kind)
           /\ \A j \in Identity, other \in Question :
                 Reads!CacheKey(j, other) = Reads!CacheKey(i, question) =>
                     j = i /\ other.kind = question.kind /\ other.resource = question.resource
BY DEF Reads!CacheKey, Reads!Keys, Reads!KeysOfKind

LEMMA ReadsInitInv == QuestionsAreKnown /\ Reads!ReadsInit => ReadsInv
<1> SUFFICES ASSUME QuestionsAreKnown, Reads!ReadsInit PROVE ReadsInv
  OBVIOUS
<1>1. ReadsTyped
  BY DEF QuestionsAreKnown, Reads!ReadsInit, ReadsTyped, Inventories
<1>2. \A k \in Reads!Keys : cache[k] = None
  BY DEF Reads!ReadsInit
<1>3. \A q \in Reader : Granted(reader[q]) /\ FillCurrent(reader[q])
  BY IdleFits DEF Reads!ReadsInit, Granted, FillCurrent, HasValue
<1>4. Reads!AnsweredWithinGrants /\ Reads!ReadsAreCurrent
  BY <1>2, KeyMeans DEF Reads!AnsweredWithinGrants, Reads!ReadsAreCurrent, Reads!Old
<1> QED
  BY <1>1, <1>3, <1>4 DEF ReadsInv

LEMMA AnswerFits ==
    ASSUME ReadsInv, NEW question \in Question
    PROVE  /\ Reads!Answer(inventory, question) \in Answers
           /\ Reads!ScopeAsked(inventory, question) \in Scopes
BY DEF ReadsInv, ReadsTyped, Answers, Scopes

-----------------------------------------------------------------------------
(* The steps of a request. *)

LEMMA ReaderStep ==
    ASSUME ReadsInv, NEW q \in Reader, NEW new \in ReaderRecord \cup {Reads!IdleReader},
           reader' = [reader EXCEPT ![q] = new], Granted(new), FillCurrent(new),
           UNCHANGED <<inventory, cache, writer, excused>>
    PROVE  ReadsInv'
<1>1. /\ reader' \in [Reader -> ReaderRecord \cup {Reads!IdleReader}] /\ reader'[q] = new
      /\ \A p \in Reader : p # q => reader'[p] = reader[p]
  BY DEF ReadsInv, ReadsTyped
<1>2. ASSUME NEW r PROVE FillCurrent(r) => FillCurrent(r)'
  BY DEF FillCurrent, HasValue, Announced
<1>3. \A p \in Reader : Granted(reader[p])' /\ FillCurrent(reader[p])'
  BY <1>1, <1>2 DEF ReadsInv, Granted, FillCurrent, HasValue, Announced
<1>4. Reads!ReadsAreCurrent'
  BY DEF ReadsInv, Reads!ReadsAreCurrent, Reads!Old, Reads!Pending
<1>5. Reads!AnsweredWithinGrants'
  BY DEF ReadsInv, Reads!AnsweredWithinGrants
<1> QED
  BY <1>1, <1>3, <1>4, <1>5 DEF ReadsInv, ReadsTyped

LEMMA AskStepOfRead ==
    ASSUME ReadsInv, NEW q \in Reader, NEW i \in Identity, NEW question \in Question,
           Reads!Ask(q, i, question)
    PROVE  ReadsInv'
<1>1. PICK scope \in Scopes, answered \in Answers :
          /\ scope = Reads!ScopeAsked(inventory, question)
          /\ answered = Reads!Answer(inventory, question)
  BY AnswerFits
<1>a. PICK value \in Answers \cup {None} :
          value = IF question.kind = "detail" THEN answered ELSE None
  OBVIOUS
<1>2. PICK new \in ReaderRecord :
          new = [at |-> "deciding", by |-> i, question |-> question, scope |-> scope,
                 value |-> value, overtaken |-> FALSE]
  BY DEF ReaderRecord
<1>3. /\ reader' = [reader EXCEPT ![q] = new]
      /\ UNCHANGED <<inventory, cache, writer, excused>>
  BY <1>1, <1>a, <1>2 DEF Reads!Ask
<1>4. Granted(new) /\ FillCurrent(new)
  BY <1>1, <1>a, <1>2 DEF Granted, FillCurrent, HasValue
<1> QED
  BY <1>3, <1>4, ReaderStep

LEMMA DecideStep ==
    ASSUME ReadsInv, NEW q \in Reader, Reads!Decide(q)
    PROVE  ReadsInv'
<1>1. PICK r \in ReaderRecord : r = reader[q]
  BY DEF Reads!Decide, Reads!IdleReader, ReadsInv, ReadsTyped
<1>2. /\ r.at = "deciding" /\ FillCurrent(r)
      /\ UNCHANGED <<inventory, cache, writer, excused>>
  BY <1>1 DEF Reads!Decide, ReadsInv
<1>3. CASE reader' = [reader EXCEPT ![q] = Reads!IdleReader]
  BY <1>2, <1>3, IdleFits, ReaderStep DEF Granted, FillCurrent, HasValue
<1>4. CASE /\ reader' = [reader EXCEPT ![q] = [r EXCEPT !.at = "loading"]]
           /\ Reads!Allowed(r.by, "read", r.question.resource, r.scope)
  <2>1. PICK new \in ReaderRecord : new = [r EXCEPT !.at = "loading"]
    BY DEF ReaderRecord
  <2>2. /\ new.by = r.by /\ new.question = r.question /\ new.scope = r.scope
        /\ new.value = r.value /\ new.overtaken = r.overtaken /\ new.at = "loading"
    BY <2>1 DEF ReaderRecord
  <2>3. Granted(new) /\ FillCurrent(new)
    BY <1>2, <1>4, <2>2 DEF Granted, FillCurrent, HasValue
  <2> QED
    BY <1>2, <1>4, <2>1, <2>3, ReaderStep
<1>5. \/ reader' = [reader EXCEPT ![q] = Reads!IdleReader]
      \/ /\ reader' = [reader EXCEPT ![q] = [r EXCEPT !.at = "loading"]]
         /\ Reads!Allowed(r.by, "read", r.question.resource, r.scope)
  BY <1>1 DEF Reads!Decide, ReadsInv, ReadsTyped
<1> QED
  BY <1>3, <1>4, <1>5

LEMMA LoadStepOfRead ==
    ASSUME ReadsInv, NEW q \in Reader, Reads!Load(q)
    PROVE  ReadsInv'
<1>1. PICK r \in ReaderRecord : r = reader[q]
  BY DEF Reads!Load, Reads!IdleReader, ReadsInv, ReadsTyped
<1>2. PICK answered \in Answers : answered = Reads!Answer(inventory, r.question)
  BY AnswerFits DEF ReaderRecord
<1>3. PICK new \in ReaderRecord :
          new = [r EXCEPT !.at = "storing",
                          !.value = IF r.question.kind = "detail" THEN @ ELSE answered]
  BY DEF ReaderRecord
<1>4. /\ reader' = [reader EXCEPT ![q] = new]
      /\ UNCHANGED <<inventory, cache, writer, excused>>
  BY <1>1, <1>2, <1>3 DEF Reads!Load, ReadsInv, ReadsTyped
<1>5. /\ new.by = r.by /\ new.question = r.question /\ new.scope = r.scope
      /\ new.value = IF r.question.kind = "detail" THEN r.value ELSE answered
      /\ new.overtaken = r.overtaken /\ new.at = "storing"
  BY <1>3 DEF ReaderRecord
<1>6. r.at = "loading" /\ Granted(r) /\ FillCurrent(r)
  BY <1>1 DEF Reads!Load, ReadsInv
<1>7. Granted(new) /\ FillCurrent(new)
  BY <1>2, <1>5, <1>6 DEF Granted, FillCurrent, HasValue
<1> QED
  BY <1>4, <1>7, ReaderStep

-----------------------------------------------------------------------------
(* The steps that fill and empty the cache. *)

(* What is claimed of the entry of a key. *)
EntryGranted(k) ==
    \A i \in Identity, question \in Question :
        Reads!CacheKey(i, question) = k /\ cache[k] # None =>
            Reads!Allowed(i, "read", question.resource, cache[k].under)

EntryCurrent(k) == Reads!Old(k) => k \in excused \/ Reads!Pending(k)

LEMMA EntriesMean ==
    /\ Reads!AnsweredWithinGrants <=> \A k \in Reads!Keys : EntryGranted(k)
    /\ Reads!ReadsAreCurrent <=> \A k \in Reads!Keys : EntryCurrent(k)
BY KeyMeans DEF Reads!AnsweredWithinGrants, Reads!ReadsAreCurrent, EntryGranted, EntryCurrent

LEMMA StoreStep ==
    ASSUME ReadsInv, NEW q \in Reader, Reads!Store(q)
    PROVE  ReadsInv'
<1>1. PICK r \in ReaderRecord : r = reader[q]
  BY DEF Reads!Store, Reads!IdleReader, ReadsInv, ReadsTyped
<1>2. PICK k \in Reads!Keys : k = Reads!CacheKey(r.by, r.question)
  BY KeyMeans DEF ReaderRecord
<1>3. /\ r.at = "storing" /\ cache' = [cache EXCEPT ![k] = [value |-> r.value, under |-> r.scope]]
      /\ excused' = IF r.overtaken THEN excused \cup {k} ELSE excused \ {k}
      /\ reader' = [reader EXCEPT ![q] = Reads!IdleReader]
      /\ UNCHANGED <<inventory, writer>>
  BY <1>1, <1>2 DEF Reads!Store
<1>4. Granted(r) /\ FillCurrent(r) /\ r.by \in Identity /\ r.question \in Question
  BY <1>1 DEF ReadsInv, ReaderRecord
<1>5. /\ DOMAIN cache' = Reads!Keys /\ cache'[k] = [value |-> r.value, under |-> r.scope]
      /\ \A o \in Reads!Keys : o # k => cache'[o] = cache[o]
  BY <1>3 DEF ReadsInv, ReadsTyped
<1>6. /\ reader' \in [Reader -> ReaderRecord \cup {Reads!IdleReader}]
      /\ reader'[q] = Reads!IdleReader
      /\ \A p \in Reader : p # q => reader'[p] = reader[p]
  BY <1>3 DEF ReadsInv, ReadsTyped
<1>7. \A p \in Reader : Granted(reader[p])' /\ FillCurrent(reader[p])'
  BY <1>3, <1>6, IdleFits DEF ReadsInv, Granted, FillCurrent, HasValue, Announced
<1>8. ASSUME NEW o \in Reads!Keys PROVE EntryGranted(o)'
  <2>1. CASE o = k
    <3>1. ASSUME NEW i \in Identity, NEW question \in Question, Reads!CacheKey(i, question) = k
          PROVE  i = r.by /\ question.resource = r.question.resource
      BY <1>2, <1>4, <3>1, KeyMeans
    <3>2. cache'[k].under = r.scope
      BY <1>5
    <3> QED
      BY <1>3, <1>4, <2>1, <3>1, <3>2 DEF EntryGranted, Granted
  <2>2. CASE o # k
    BY <1>5, <2>2, EntriesMean DEF ReadsInv, EntryGranted
  <2> QED
    BY <2>1, <2>2
<1>9. ASSUME NEW o \in Reads!Keys PROVE EntryCurrent(o)'
  <2>1. Reads!Pending(o)' <=> Reads!Pending(o)
    BY <1>3 DEF Reads!Pending
  <2>2. CASE o = k
    <3>1. CASE r.overtaken
      BY <1>3, <2>2, <3>1 DEF EntryCurrent
    <3>2. CASE r.value = Reads!Answer(inventory, r.question)
      <4>1. cache'[k].value = Reads!Answer(inventory, r.question)'
        BY <1>3, <1>5, <3>2
      <4> QED
        BY <1>2, <1>4, <2>2, <4>1 DEF EntryCurrent, Reads!Old
    <3>3. CASE Announced(r.question.kind)
      <4>1. k \in Reads!KeysOfKind(r.question.kind)
        BY <1>2, <1>4, KeyMeans
      <4>2. Reads!Pending(k)
        BY <3>3, <4>1, PendingMeans DEF Announced
      <4> QED
        BY <2>1, <2>2, <4>2 DEF EntryCurrent
    <3> QED
      BY <1>3, <1>4, <3>1, <3>2, <3>3 DEF FillCurrent, HasValue
  <2>3. CASE o # k
    BY <1>3, <1>5, <2>1, <2>3, EntriesMean DEF ReadsInv, EntryCurrent, Reads!Old
  <2> QED
    BY <2>2, <2>3
<1>10. Reads!AnsweredWithinGrants' /\ Reads!ReadsAreCurrent'
  BY <1>8, <1>9, KeyMeans DEF EntryGranted, EntryCurrent, Reads!AnsweredWithinGrants,
     Reads!ReadsAreCurrent
<1> QED
  BY <1>3, <1>5, <1>6, <1>7, <1>10 DEF ReadsInv, ReadsTyped

(* Some entries go. *)
LEMMA EntriesGo ==
    ASSUME ReadsInv, NEW gone, DOMAIN cache' = Reads!Keys,
           \A k \in Reads!Keys : cache'[k] = IF k \in gone THEN None ELSE cache[k],
           excused' = excused \ gone, inventory' = inventory,
           \A k \in Reads!Keys \ gone : Reads!Pending(k) => Reads!Pending(k)'
    PROVE  Reads!AnsweredWithinGrants' /\ Reads!ReadsAreCurrent'
<1>1. \A k \in Reads!Keys : EntryGranted(k) /\ EntryCurrent(k)
  BY EntriesMean DEF ReadsInv
<1>2. \A k \in Reads!Keys : EntryGranted(k)'
  BY <1>1 DEF EntryGranted
<1>3. \A k \in Reads!Keys : EntryCurrent(k)'
  BY <1>1 DEF EntryCurrent, Reads!Old
<1> QED
  BY <1>2, <1>3, KeyMeans DEF EntryGranted, EntryCurrent, Reads!AnsweredWithinGrants,
     Reads!ReadsAreCurrent

LEMMA ExpireStep ==
    ASSUME ReadsInv, NEW k \in Reads!Keys, Reads!Expire(k)
    PROVE  ReadsInv'
<1>1. /\ cache' = [cache EXCEPT ![k] = None] /\ excused' = excused \ {k}
      /\ UNCHANGED <<inventory, reader, writer>>
  BY DEF Reads!Expire
<1>2. /\ DOMAIN cache' = Reads!Keys
      /\ \A o \in Reads!Keys : cache'[o] = IF o \in {k} THEN None ELSE cache[o]
  BY <1>1 DEF ReadsInv, ReadsTyped
<1>3. \A o \in Reads!Keys \ {k} : Reads!Pending(o) => Reads!Pending(o)'
  BY <1>1 DEF Reads!Pending
<1>4. Reads!AnsweredWithinGrants' /\ Reads!ReadsAreCurrent'
  BY <1>1, <1>2, <1>3, EntriesGo
<1> QED
  BY <1>1, <1>2, <1>4 DEF ReadsInv, ReadsTyped, Granted, FillCurrent, HasValue, Announced

-----------------------------------------------------------------------------
(* The steps of a mutation. *)

(* A mutation that is refused, or asked for: nothing is announced by it     *)
(* before or after.                                                         *)
LEMMA QuietStep ==
    ASSUME ReadsInv, NEW w \in Writer, writer[w].at \in {"idle", "asked"},
           NEW new \in Mutation \cup {Reads!IdleWriter}, writer' = [writer EXCEPT ![w] = new],
           UNCHANGED <<inventory, cache, reader, excused>>
    PROVE  ReadsInv'
<1>1. /\ writer' \in [Writer -> Mutation \cup Invalidation \cup {Reads!IdleWriter}]
      /\ writer'[w] = new /\ \A v \in Writer : v # w => writer'[v] = writer[v]
  BY DEF ReadsInv, ReadsTyped
<1>2. new.at \in {"idle", "asked"}
  BY DEF Mutation, Reads!IdleWriter
<1>3. Coming(new) = {} /\ Coming(writer[w]) = {}
  BY <1>2 DEF Coming
<1>4. \A v \in Writer : Coming(writer[v])' = Coming(writer[v])
  BY <1>1, <1>3 DEF Coming
<1>5. \A kind : Announced(kind)' <=> Announced(kind)
  BY <1>4 DEF Announced
<1>6. ASSUME NEW k PROVE Reads!Pending(k)' <=> Reads!Pending(k)
  BY <1>1, <1>2 DEF Reads!Pending
<1>7. \A q \in Reader : Granted(reader[q])' /\ FillCurrent(reader[q])'
  BY <1>5 DEF ReadsInv, Granted, FillCurrent, HasValue
<1>8. Reads!AnsweredWithinGrants' /\ Reads!ReadsAreCurrent'
  BY <1>6 DEF ReadsInv, Reads!AnsweredWithinGrants, Reads!ReadsAreCurrent, Reads!Old
<1> QED
  BY <1>1, <1>7, <1>8 DEF ReadsInv, ReadsTyped

(* The inventory changes, and every kind of key is announced with it.       *)
LEMMA MutationStep ==
    ASSUME QuestionsAreKnown, ReadsInv, NEW w \in Writer, writer[w].at = "asked",
           inventory' \in Inventories, writer' = [writer EXCEPT ![w] = Reads!Invalidating],
           UNCHANGED <<cache, reader, excused>>
    PROVE  ReadsInv'
<1>1. /\ writer' \in [Writer -> Mutation \cup Invalidation \cup {Reads!IdleWriter}]
      /\ writer'[w] = Reads!Invalidating
  BY IdleFits DEF ReadsInv, ReadsTyped
<1>2. Coming(writer[w])' = QuestionKind
  BY <1>1, IdleFits DEF Coming
<1>3. \A kind \in QuestionKind : Announced(kind)'
  BY <1>2 DEF Announced
<1>4. \A q \in Reader : Granted(reader[q])' /\ FillCurrent(reader[q])'
  <2>1. ASSUME NEW q \in Reader, HasValue(reader[q]) PROVE reader[q].question.kind \in QuestionKind
    BY <2>1, IdleFits DEF HasValue, ReadsInv, ReadsTyped, ReaderRecord, QuestionsAreKnown
  <2> QED
    BY <1>3, <2>1 DEF ReadsInv, Granted, FillCurrent, HasValue
<1>5. ASSUME NEW k \in Reads!Keys PROVE Reads!Pending(k)'
  <2>1. PICK i \in Identity, question \in Question : k = Reads!CacheKey(i, question)
    BY DEF Reads!Keys
  <2>2. question.kind \in Coming(writer[w])'
    BY <1>2 DEF QuestionsAreKnown
  <2>3. k \in Reads!KeysOfKind(question.kind)
    BY <2>1, KeyMeans
  <2> QED
    BY <2>2, <2>3, PendingMeans DEF Coming, Reads!Pending, Kinds
<1>6. Reads!AnsweredWithinGrants' /\ Reads!ReadsAreCurrent'
  BY <1>5 DEF ReadsInv, Reads!AnsweredWithinGrants, Reads!ReadsAreCurrent
<1> QED
  BY <1>1, <1>4, <1>6 DEF ReadsInv, ReadsTyped

LEMMA ScanStep ==
    ASSUME ReadsInv, NEW w \in Writer, Reads!Scan(w)
    PROVE  ReadsInv'
<1> DEFINE kind == Head(writer[w].left)
           Outdated(q) == Reads!HoldsOld(inventory, reader[q]) /\ reader[q].question.kind = kind
<1>1. PICK r \in Invalidation : r = writer[w] /\ r.at = "scanning"
  BY DEF Reads!Scan, Reads!IdleWriter, ReadsInv, ReadsTyped, Mutation
<1>2. PICK found \in SUBSET Reads!Keys :
          found = {k \in Reads!KeysOfKind(kind) : cache[k] # None}
  <2>1. Reads!KeysOfKind(kind) \subseteq Reads!Keys
    BY DEF Reads!KeysOfKind, Reads!Keys
  <2>2. {k \in Reads!KeysOfKind(kind) : cache[k] # None} \in SUBSET Reads!Keys
    BY <2>1
  <2> QED
    BY <2>2
<1>3. PICK new \in Invalidation : new = [r EXCEPT !.at = "deleting", !.found = found]
  BY DEF Invalidation
<1>4. new.left = r.left /\ new.found = found /\ new.at = "deleting"
  BY <1>3 DEF Invalidation
<1>5. /\ writer' = [writer EXCEPT ![w] = new]
      /\ reader' = [q \in Reader |-> IF Outdated(q) THEN [reader[q] EXCEPT !.overtaken = TRUE]
                                     ELSE reader[q]]
      /\ UNCHANGED <<inventory, cache, excused>>
  BY <1>1, <1>2, <1>3 DEF Reads!Scan, ReadsInv, ReadsTyped
<1>6. /\ writer' \in [Writer -> Mutation \cup Invalidation \cup {Reads!IdleWriter}]
      /\ writer'[w] = new /\ \A v \in Writer : v # w => writer'[v] = writer[v]
  BY <1>5 DEF ReadsInv, ReadsTyped
<1>7. Coming(writer[w]) = {kind} \cup Coming(writer[w])'
  <2>1. Kinds(r.left) = {Head(r.left)} \cup Kinds(Tail(r.left))
    BY KindsOfLeft DEF Invalidation
  <2>2. Coming(r) = Kinds(r.left) /\ Coming(new) = Kinds(Tail(r.left))
    BY <1>1, <1>4 DEF Coming
  <2>3. Coming(writer[w])' = Coming(new)
    BY <1>6 DEF Coming
  <2> QED
    BY <1>1, <2>1, <2>2, <2>3
<1>8. ASSUME NEW v \in Writer, v # w PROVE Coming(writer[v])' = Coming(writer[v])
  BY <1>6, <1>8 DEF Coming
<1>9. ASSUME NEW other, other # kind, Announced(other) PROVE Announced(other)'
  <2>1. PICK v \in Writer : other \in Coming(writer[v])
    BY <1>9 DEF Announced
  <2>2. other \in Coming(writer[v])'
    BY <1>7, <1>8, <1>9, <2>1
  <2> QED
    BY <2>2 DEF Announced
<1> HIDE DEF kind
<1>10. ASSUME NEW q \in Reader
       PROVE  /\ reader'[q] \in ReaderRecord \cup {Reads!IdleReader}
              /\ Granted(reader[q])' /\ FillCurrent(reader[q])'
  <2>1. CASE Outdated(q)
    <3>1. PICK old \in ReaderRecord : old = reader[q]
      BY <2>1 DEF Reads!HoldsOld, Reads!IdleReader, ReadsInv, ReadsTyped
    <3>2. reader'[q] = [old EXCEPT !.overtaken = TRUE]
      BY <1>5, <2>1, <3>1
    <3>3. PICK next \in ReaderRecord : next = [old EXCEPT !.overtaken = TRUE]
      BY DEF ReaderRecord
    <3>4. /\ next.at = old.at /\ next.by = old.by /\ next.question = old.question
          /\ next.scope = old.scope /\ next.overtaken
      BY <3>3 DEF ReaderRecord
    <3> QED
      BY <3>1, <3>2, <3>3, <3>4 DEF ReadsInv, Granted, FillCurrent
  <2>2. CASE ~ Outdated(q)
    <3>1. reader'[q] = reader[q]
      BY <1>5, <2>2
    <3>2. HasValue(reader[q]) =>
             \/ reader[q].value = Reads!Answer(inventory, reader[q].question)
             \/ reader[q].question.kind # kind
      BY <2>2, IdleFits DEF HasValue, Reads!HoldsOld
    <3>3. FillCurrent(reader[q])'
      BY <1>5, <1>9, <3>1, <3>2 DEF ReadsInv, FillCurrent, HasValue
    <3> QED
      BY <3>1, <3>3 DEF ReadsInv, ReadsTyped, Granted
  <2> QED
    BY <2>1, <2>2
<1>11. reader' \in [Reader -> ReaderRecord \cup {Reads!IdleReader}]
  BY <1>5, <1>10
<1>12. ASSUME NEW k \in Reads!Keys, cache[k] # None, Reads!Pending(k) PROVE Reads!Pending(k)'
  <2>1. PICK v \in Writer :
            \/ \E o \in Coming(writer[v]) : k \in Reads!KeysOfKind(o)
            \/ writer[v].at = "deleting" /\ k \in writer[v].found
    BY <1>12, PendingMeans
  <2>2. CASE v = w
    <3>1. PICK o \in Coming(writer[w]) : k \in Reads!KeysOfKind(o)
      BY <1>1, <2>1, <2>2
    <3>2. CASE o = kind
      BY <1>2, <1>4, <1>6, <1>12, <3>1, <3>2 DEF Reads!Pending
    <3>3. CASE o \in Coming(writer[w])'
      BY <1>4, <1>6, <3>1, <3>3 DEF Reads!Pending, Coming, Kinds
    <3> QED
      BY <1>7, <3>1, <3>2, <3>3
  <2>3. CASE v # w
    BY <1>6, <2>1, <2>3 DEF Reads!Pending, Coming, Kinds
  <2> QED
    BY <2>2, <2>3
<1>13. Reads!AnsweredWithinGrants' /\ Reads!ReadsAreCurrent'
  <2>1. /\ DOMAIN cache' = Reads!Keys /\ excused' = excused \ {} /\ inventory' = inventory
        /\ \A k \in Reads!Keys : cache'[k] = IF k \in {} THEN None ELSE cache[k]
    BY <1>5 DEF ReadsInv, ReadsTyped
  <2>2. \A k \in Reads!Keys : EntryGranted(k)
    BY EntriesMean DEF ReadsInv
  <2>3. \A k \in Reads!Keys : EntryCurrent(k)'
    BY <1>5, <1>12, EntriesMean DEF ReadsInv, EntryCurrent, Reads!Old
  <2> QED
    BY <1>5, <2>2, <2>3, KeyMeans DEF EntryGranted, EntryCurrent, Reads!AnsweredWithinGrants,
       Reads!ReadsAreCurrent
<1> QED
  BY <1>5, <1>6, <1>10, <1>11, <1>13 DEF ReadsInv, ReadsTyped

LEMMA DeleteStepOfRead ==
    ASSUME ReadsInv, NEW w \in Writer, Reads!Delete(w)
    PROVE  ReadsInv'
<1>1. PICK r \in Invalidation : r = writer[w] /\ r.at = "deleting"
  BY DEF Reads!Delete, Reads!IdleWriter, ReadsInv, ReadsTyped, Mutation
<1>2. PICK left \in Left \cup {<<>>} : left = Tail(r.left)
  BY KindsOfLeft DEF Invalidation
<1>3. PICK new \in Invalidation \cup {Reads!IdleWriter} :
          new = IF left = <<>> THEN Reads!IdleWriter
                ELSE [at |-> "scanning", left |-> left, found |-> {}]
  BY <1>2 DEF Invalidation
<1>4. /\ cache' = [k \in Reads!Keys |-> IF k \in r.found THEN None ELSE cache[k]]
      /\ excused' = excused \ r.found
      /\ writer' = [writer EXCEPT ![w] = new]
      /\ UNCHANGED <<inventory, reader>>
  BY <1>1, <1>2, <1>3 DEF Reads!Delete
<1>5. /\ writer' \in [Writer -> Mutation \cup Invalidation \cup {Reads!IdleWriter}]
      /\ writer'[w] = new /\ \A v \in Writer : v # w => writer'[v] = writer[v]
  BY <1>4 DEF ReadsInv, ReadsTyped
<1>6. Coming(new) = Kinds(left)
  BY <1>3, KindsOfLeft, IdleFits DEF Coming
<1>7. \A v \in Writer : Coming(writer[v])' = Coming(writer[v])
  BY <1>1, <1>2, <1>5, <1>6 DEF Coming
<1>8. \A kind : Announced(kind)' <=> Announced(kind)
  BY <1>7 DEF Announced
<1>9. ASSUME NEW k \in Reads!Keys \ r.found, Reads!Pending(k) PROVE Reads!Pending(k)'
  <2>1. PICK v \in Writer :
            \/ \E o \in Coming(writer[v]) : k \in Reads!KeysOfKind(o)
            \/ writer[v].at = "deleting" /\ k \in writer[v].found
    BY <1>9, PendingMeans
  <2>2. CASE v = w
    <3>1. PICK o \in Coming(new) : k \in Reads!KeysOfKind(o)
      BY <1>1, <1>5, <1>7, <2>1, <2>2 DEF Coming
    <3>2. writer'[w] = new /\ o \in Coming(writer'[w])
      BY <1>5, <3>1
    <3> QED
      BY <3>1, <3>2 DEF Reads!Pending, Coming, Kinds
  <2>3. CASE v # w
    BY <1>5, <2>1, <2>3 DEF Reads!Pending, Coming, Kinds
  <2> QED
    BY <2>2, <2>3
<1>10. Reads!AnsweredWithinGrants' /\ Reads!ReadsAreCurrent'
  BY <1>4, <1>9, EntriesGo
<1>11. \A q \in Reader : Granted(reader[q])' /\ FillCurrent(reader[q])'
  BY <1>4, <1>8 DEF ReadsInv, Granted, FillCurrent, HasValue
<1> QED
  BY <1>4, <1>5, <1>10, <1>11 DEF ReadsInv, ReadsTyped

-----------------------------------------------------------------------------
(* What leaves entries old with no invalidation to come. *)

LEMMA OutdatingStep ==
    ASSUME ReadsInv, Reads!Outdating, inventory' \in Inventories, DOMAIN cache' = Reads!Keys,
           \A k \in Reads!Keys : cache'[k] # None => cache'[k] = cache[k]
    PROVE  Reads!AnsweredWithinGrants' /\ Reads!ReadsAreCurrent'
<1>1. \A k \in Reads!Keys : EntryGranted(k)'
  BY EntriesMean DEF ReadsInv, EntryGranted
<1>2. \A k \in Reads!Keys : Reads!Old(k)' => k \in excused'
  BY DEF Reads!Outdating
<1> QED
  BY <1>1, <1>2, KeyMeans DEF EntryGranted, Reads!AnsweredWithinGrants, Reads!ReadsAreCurrent

(* The requests under way are told, when what they hold is old.             *)
LEMMA OvertakenStep ==
    ASSUME ReadsInv, Reads!OvertakenBy(inventory'), NEW q \in Reader
    PROVE  /\ reader'[q] \in ReaderRecord \cup {Reads!IdleReader}
           /\ Granted(reader[q])' /\ FillCurrent(reader[q])'
<1>1. reader'[q] = IF Reads!HoldsOld(inventory', reader[q])
                   THEN [reader[q] EXCEPT !.overtaken = TRUE] ELSE reader[q]
  BY DEF Reads!OvertakenBy
<1>2. CASE Reads!HoldsOld(inventory', reader[q])
  <2>1. PICK old \in ReaderRecord : old = reader[q]
    BY <1>2, IdleFits DEF Reads!HoldsOld, ReadsInv, ReadsTyped
  <2>2. PICK next \in ReaderRecord : next = [old EXCEPT !.overtaken = TRUE]
    BY DEF ReaderRecord
  <2>3. /\ next.at = old.at /\ next.by = old.by /\ next.question = old.question
        /\ next.scope = old.scope /\ next.overtaken
    BY <2>2 DEF ReaderRecord
  <2> QED
    BY <1>1, <1>2, <2>1, <2>2, <2>3 DEF ReadsInv, Granted, FillCurrent
<1>3. CASE ~ Reads!HoldsOld(inventory', reader[q])
  <2>1. reader'[q] = reader[q]
    BY <1>1, <1>3
  <2>2. HasValue(reader[q]) => reader[q].value = Reads!Answer(inventory', reader[q].question)
    BY <1>3, IdleFits DEF HasValue, Reads!HoldsOld
  <2> QED
    BY <2>1, <2>2 DEF ReadsInv, ReadsTyped, Granted, FillCurrent, HasValue
<1> QED
  BY <1>2, <1>3

LEMMA ThrowsStep ==
    ASSUME ReadsInv, NEW w \in Writer, Reads!InvalidationThrows(w)
    PROVE  ReadsInv'
<1>1. /\ writer' = [writer EXCEPT ![w] = Reads!IdleWriter]
      /\ Reads!OvertakenBy(inventory) /\ UNCHANGED <<inventory, cache>> /\ Reads!Outdating
  BY DEF Reads!InvalidationThrows
<1>2. Reads!OvertakenBy(inventory')
  BY <1>1
<1>3. Reads!AnsweredWithinGrants' /\ Reads!ReadsAreCurrent'
  BY <1>1, OutdatingStep DEF ReadsInv, ReadsTyped
<1>4. reader' \in [Reader -> ReaderRecord \cup {Reads!IdleReader}]
  BY <1>2, OvertakenStep DEF Reads!OvertakenBy
<1> QED
  BY <1>1, <1>2, <1>3, <1>4, OvertakenStep DEF ReadsInv, ReadsTyped

LEMMA RestartStep ==
    ASSUME QuestionsAreKnown, ReadsInv, Reads!Restart
    PROVE  ReadsInv'
<1>1. /\ inventory' \in {inventory, Start} /\ cache' \in {cache, [k \in Reads!Keys |-> None]}
      /\ reader' = [q \in Reader |-> Reads!IdleReader]
      /\ writer' = [w \in Writer |-> Reads!IdleWriter]
      /\ Reads!Outdating
  BY DEF Reads!Restart
<1>2. inventory' \in Inventories /\ DOMAIN cache' = Reads!Keys
  BY <1>1 DEF ReadsInv, ReadsTyped, QuestionsAreKnown, Inventories
<1>3. \A k \in Reads!Keys : cache'[k] # None => cache'[k] = cache[k]
  BY <1>1
<1>4. Reads!AnsweredWithinGrants' /\ Reads!ReadsAreCurrent'
  BY <1>1, <1>2, <1>3, OutdatingStep
<1> QED
  BY <1>1, <1>2, <1>4, IdleFits DEF ReadsInv, ReadsTyped, Granted, FillCurrent, HasValue

LEMMA RestoredStep ==
    ASSUME QuestionsAreKnown, ReadsInv, Reads!Restored
    PROVE  ReadsInv'
<1>1. /\ inventory' = Start /\ UNCHANGED <<cache, writer>> /\ Reads!Outdating
      /\ Reads!OvertakenBy(inventory')
  BY DEF Reads!Restored
<1>2. inventory' \in Inventories /\ DOMAIN cache' = Reads!Keys
  BY <1>1 DEF ReadsInv, ReadsTyped, QuestionsAreKnown, Inventories
<1>3. Reads!AnsweredWithinGrants' /\ Reads!ReadsAreCurrent'
  BY <1>1, <1>2, OutdatingStep
<1>4. reader' \in [Reader -> ReaderRecord \cup {Reads!IdleReader}]
  BY <1>1, OvertakenStep DEF Reads!OvertakenBy
<1> QED
  BY <1>1, <1>2, <1>3, <1>4, OvertakenStep DEF ReadsInv, ReadsTyped

LEMMA ReadsStep ==
    ASSUME QuestionsAreKnown, ReadsInv, [Reads!ReadsNext]_(Reads!readsVars)
    PROVE  ReadsInv'
<1>1. ASSUME NEW w \in Writer, NEW i \in Identity, NEW action \in {"create", "update", "delete"},
             NEW resource \in Reads!Writable, NEW x \in Reads!Written,
             Reads!RequestWrite(w, i, action, resource, x)
      PROVE  ReadsInv'
  <2>1. x \in InventoryId
    BY DEF Reads!Written
  <2>2. PICK new \in Mutation :
            new = [at |-> "asked", action |-> action, resource |-> resource, id |-> x]
    BY <2>1 DEF Mutation
  <2> QED
    BY <1>1, <2>2, QuietStep DEF Reads!RequestWrite
<1>2. ASSUME NEW w \in Writer, NEW new \in Reads!Written, NEW record \in Versions[new] \ {None},
             Reads!Write(w, new, record)
      PROVE  ReadsInv'
  <2>1. new \in InventoryId /\ record \in InventoryRecord
    BY DEF Reads!Written, InventoryRecord
  <2> DEFINE r == writer[w]
             next == [inventory EXCEPT ![r.id] = IF r.action = "update" THEN None ELSE @,
                                       ![new] = record]
  <2>2. next \in Inventories
    BY <2>1 DEF ReadsInv, ReadsTyped, Inventories
  <2>3. /\ writer[w].at = "asked" /\ UNCHANGED <<cache, reader, excused>>
        /\ \/ inventory' = next /\ writer' = [writer EXCEPT ![w] = Reads!Invalidating]
           \/ UNCHANGED inventory /\ writer' = [writer EXCEPT ![w] = Reads!IdleWriter]
    BY <1>2 DEF Reads!Write
  <2> HIDE DEF next
  <2> QED
    BY <2>2, <2>3, MutationStep, QuietStep
<1>3. ASSUME NEW w \in Writer, Reads!Remove(w) PROVE ReadsInv'
  <2> DEFINE next == [inventory EXCEPT ![writer[w].id] = None]
  <2>1. next \in Inventories
    BY DEF ReadsInv, ReadsTyped, Inventories
  <2>2. /\ writer[w].at = "asked" /\ UNCHANGED <<cache, reader, excused>>
        /\ \/ inventory' = next /\ writer' = [writer EXCEPT ![w] = Reads!Invalidating]
           \/ UNCHANGED inventory /\ writer' = [writer EXCEPT ![w] = Reads!IdleWriter]
    BY <1>3 DEF Reads!Remove
  <2> HIDE DEF next
  <2> QED
    BY <2>1, <2>2, MutationStep, QuietStep
<1>4. CASE UNCHANGED Reads!readsVars
  <2>1. Reads!ReadsAreCurrent' /\ Reads!AnsweredWithinGrants'
    BY <1>4 DEF Reads!readsVars, ReadsInv, Reads!ReadsAreCurrent, Reads!Old, Reads!Pending,
       Reads!AnsweredWithinGrants
  <2> QED
    BY <1>4, <2>1 DEF Reads!readsVars, ReadsInv, ReadsTyped, Granted, FillCurrent, HasValue,
       Announced
<1> QED
  BY <1>1, <1>2, <1>3, <1>4, AskStepOfRead, DecideStep, LoadStepOfRead, StoreStep, ScanStep,
     DeleteStepOfRead, ThrowsStep, ExpireStep, RestoredStep, RestartStep DEF Reads!ReadsNext

LEMMA ReadsInvariant ==
    ASSUME QuestionsAreKnown
    PROVE  Reads!ReadsSpec => []ReadsInv
<1>1. Reads!ReadsInit => ReadsInv
  BY ReadsInitInv
<1>2. ReadsInv /\ [Reads!ReadsNext]_(Reads!readsVars) => ReadsInv'
  BY ReadsStep
<1> QED
  BY <1>1, <1>2, PTL DEF Reads!ReadsSpec

(* An entry is current, or an invalidation that will delete it is under     *)
(* way, whatever requests and mutations fall between its loading, its       *)
(* storing and the scans; excused are the entries stored too late to be     *)
(* found and those that an interrupted invalidation, a restored backup or a *)
(* restart left old.                                                        *)
THEOREM ReadsTheorem == Reads!ReadsSpec => []ReadsAreCurrent
<1>1. ReadsInv => ReadsAreCurrent
  BY DEF ReadsInv, ReadsAreCurrent
<1>2. Reads!ReadsSpec => []ReadsInv
  BY ReadsInvariant, StoresAssumption DEF StoresAssumption
<1> QED
  BY <1>1, <1>2, PTL

(* Nobody is answered from an entry that no grant of theirs was for.        *)
THEOREM GrantsTheorem == Reads!ReadsSpec => []AnsweredWithinGrants
<1>1. ReadsInv => AnsweredWithinGrants
  BY DEF ReadsInv, AnsweredWithinGrants
<1>2. Reads!ReadsSpec => []ReadsInv
  BY ReadsInvariant, StoresAssumption DEF StoresAssumption
<1> QED
  BY <1>1, <1>2, PTL
=============================================================================
