------------------------------- MODULE SetSums -------------------------------
(***************************************************************************)
(* Laws of finite sums, as the other proofs need them: SumFunctionOnSet of *)
(* the community modules adds the values of a function on a finite set, in *)
(* an order that CHOOSE leaves open.  The laws are by induction on the     *)
(* set.  The induction is stated with a set Good of good subsets in the    *)
(* place of a predicate, so that a proof cites it as any other fact.       *)
(***************************************************************************)
EXTENDS Integers, FiniteSets, Functions, FiniteSetTheorems, TLAPS

-----------------------------------------------------------------------------
(* Induction on finite sets *)

(* Among some subsets of a finite set there is a smallest one. *)
LEMMA SmallestSubset ==
    ASSUME NEW S, IsFiniteSet(S), NEW Bad \in SUBSET SUBSET S, Bad # {}
    PROVE  \E T \in Bad : \A U \in Bad : U \subseteq T => U = T
  <1>1. IsWellFoundedOn(StrictSubsetOrdering(S), SUBSET S)
    BY FS_StrictSubsetOrderingWellFounded, FS_FiniteSubsetsOfFinite
  <1>2. \E T \in Bad : \A U \in Bad : ~ (<<U, T>> \in StrictSubsetOrdering(S))
    BY <1>1, WFMin
  <1>3. \A T, U \in Bad : U \subseteq T /\ U # T => <<U, T>> \in StrictSubsetOrdering(S)
    BY DEF StrictSubsetOrdering
  <1> QED
    BY <1>2, <1>3

(* A set is good if every set is that has only good smaller subsets. *)
LEMMA SubsetInduction ==
    ASSUME NEW S, IsFiniteSet(S), NEW Good,
           \A T \in SUBSET S : (\A U \in SUBSET T : U # T => U \in Good) => T \in Good
    PROVE  S \in Good
  <1> DEFINE Bad == {s \in SUBSET S : s \notin Good}
  <1>1. Bad \in SUBSET SUBSET S
    OBVIOUS
  <1>2. Bad # {} => \E T \in Bad : \A U \in Bad : U \subseteq T => U = T
    <2> HIDE DEF Bad
    <2> QED BY <1>1, SmallestSubset
  <1> QED
    BY <1>2

(* A set is good if the empty set is, and good sets stay so when they grow *)
(* by one element.                                                         *)
LEMMA OneMore ==
    ASSUME NEW S, IsFiniteSet(S), NEW Good, {} \in Good,
           \A T \in SUBSET S : \A x \in T : T \ {x} \in Good => T \in Good
    PROVE  S \in Good
  <1>1. ASSUME NEW T \in SUBSET S, \A U \in SUBSET T : U # T => U \in Good
        PROVE  T \in Good
    <2> SUFFICES ASSUME T # {} PROVE T \in Good
      OBVIOUS
    <2>1. PICK x \in T : TRUE
      OBVIOUS
    <2>2. T \ {x} \in Good
      BY <1>1
    <2> QED
      BY <2>2
  <1> QED
    BY <1>1, SubsetInduction

-----------------------------------------------------------------------------
(* A sum is well defined *)

(* The element that a sum takes first. *)
Choice(s) == CHOOSE x \in s : TRUE

(* Does it add the values of f up, on each subset of S? *)
Adds(it, f, S) ==
    it = [s \in SUBSET S |-> IF s = {} THEN 0
                             ELSE f[Choice(s)] + it[s \ {Choice(s)}]]

(* The function a sum is computed by. *)
Adder(f, S) == CHOOSE it : Adds(it, f, S)

(* The first element is one of the set. *)
LEMMA ChoiceIn == \A s : s # {} => Choice(s) \in s
  BY DEF Choice

(* Two such functions agree where both are defined. *)
LEMMA AddsAgree ==
    ASSUME NEW f, NEW S, IsFiniteSet(S), NEW R, S \subseteq R,
           NEW it, NEW jt, Adds(it, f, S), Adds(jt, f, R)
    PROVE  \A s \in SUBSET S : it[s] = jt[s]
  <1> DEFINE Bad == {s \in SUBSET S : it[s] # jt[s]}
  <1> SUFFICES ASSUME Bad # {} PROVE FALSE
    OBVIOUS
  <1>1. PICK T \in Bad : \A U \in Bad : U \subseteq T => U = T
    <2>1. Bad \in SUBSET SUBSET S
      OBVIOUS
    <2> QED
      <3> HIDE DEF Bad
      <3> QED BY <2>1, SmallestSubset
  <1>2. T \in SUBSET S /\ T \in SUBSET R
    OBVIOUS
  <1>3. CASE T = {}
    BY <1>1, <1>2, <1>3 DEF Adds
  <1>4. CASE T # {}
    <2>1. Choice(T) \in T
      BY <1>4, ChoiceIn
    <2>2. it[T \ {Choice(T)}] = jt[T \ {Choice(T)}]
      BY <1>1, <2>1
    <2>3. it[T] = f[Choice(T)] + it[T \ {Choice(T)}]
      BY <1>4, <1>2 DEF Adds
    <2>4. jt[T] = f[Choice(T)] + jt[T \ {Choice(T)}]
      BY <1>4, <1>2 DEF Adds
    <2> QED
      BY <1>1, <2>2, <2>3, <2>4
  <1> QED
    BY <1>3, <1>4

(* The operator of the community modules is this function at the whole set.*)
LEMMA SumIsAdder ==
    ASSUME NEW f, NEW S
    PROVE  SumFunctionOnSet(f, S) = Adder(f, S)[S]
  BY DEF SumFunctionOnSet, FoldFunctionOnSet, MapThenFoldSet, Adder, Adds, Choice

(* One step of the function. *)
LEMMA AddsAt ==
    ASSUME NEW f, NEW S, NEW it, Adds(it, f, S), NEW s \in SUBSET S, s # {}
    PROVE  it[s] = f[Choice(s)] + it[s \ {Choice(s)}]
  BY DEF Adds

(* The equation of a sum, where the functions of it and of the rest exist. *)
LEMMA SumOfAdders ==
    ASSUME NEW f, NEW S, IsFiniteSet(S), S # {},
           \A s \in {S, S \ {Choice(S)}} : Adds(Adder(f, s), f, s)
    PROVE  SumFunctionOnSet(f, S) = f[Choice(S)] + SumFunctionOnSet(f, S \ {Choice(S)})
  <1> DEFINE T == S \ {Choice(S)}
  <1>1. IsFiniteSet(T) /\ T \subseteq S
    BY FS_Subset
  <1>2. Adder(f, T)[T] = Adder(f, S)[T]
    <2>1. Adds(Adder(f, T), f, T) /\ Adds(Adder(f, S), f, S)
      OBVIOUS
    <2> QED
      <3> HIDE DEF T
      <3> QED BY <1>1, <2>1, AddsAgree
  <1>3. Adder(f, S)[S] = f[Choice(S)] + Adder(f, S)[T]
    BY AddsAt
  <1> QED
    BY <1>2, <1>3, SumIsAdder

(* They always exist: the function of a set takes its values from those of *)
(* the smaller sets.                                                       *)
LEMMA AddsExists ==
    ASSUME NEW f, NEW S, IsFiniteSet(S)
    PROVE  Adds(Adder(f, S), f, S)
  <1> DEFINE Bad == {s \in SUBSET S : ~ Adds(Adder(f, s), f, s)}
  <1> SUFFICES ASSUME Bad # {} PROVE FALSE
    OBVIOUS
  <1>1. PICK T \in Bad : \A U \in Bad : U \subseteq T => U = T
    <2>1. Bad \in SUBSET SUBSET S
      OBVIOUS
    <2> QED
      <3> HIDE DEF Bad
      <3> QED BY <2>1, SmallestSubset
  <1> DEFINE it == [s \in SUBSET T |-> IF s = {} THEN 0
                    ELSE f[Choice(s)] + SumFunctionOnSet(f, s \ {Choice(s)})]
  <1>2. \A U \in SUBSET T : U # T => Adds(Adder(f, U), f, U)
    BY <1>1
  <1>3. \A s \in SUBSET T : IsFiniteSet(s)
    BY FS_Subset
  <1>5. ASSUME NEW u \in SUBSET T, u # T
        PROVE  it[u] = SumFunctionOnSet(f, u)
    <2>1. CASE u = {}
      <3>1. Adds(Adder(f, {}), f, {})
        BY <1>2, <1>5, <2>1
      <3>2. Adder(f, {})[{}] = 0
        BY <3>1 DEF Adds
      <3> QED BY <2>1, <3>2, SumIsAdder
    <2>2. CASE u # {}
      <3>1. SumFunctionOnSet(f, u) = f[Choice(u)] + SumFunctionOnSet(f, u \ {Choice(u)})
        BY <1>2, <1>3, <1>5, <2>2, SumOfAdders
      <3> QED
        BY <2>2, <3>1
    <2> QED
      BY <2>1, <2>2
  <1>6. it = [s \in SUBSET T |-> IF s = {} THEN 0
                ELSE f[Choice(s)] + it[s \ {Choice(s)}]]
    <2> SUFFICES ASSUME NEW s \in SUBSET T, s # {}
                 PROVE  SumFunctionOnSet(f, s \ {Choice(s)}) = it[s \ {Choice(s)}]
      OBVIOUS
    <2> QED
      BY <1>5, ChoiceIn
  <1>7. \E jt : Adds(jt, f, T)
    <2>1. Adds(it, f, T)
      BY <1>6 DEF Adds
    <2> QED
      BY <2>1
  <1> QED
    BY <1>1, <1>7 DEF Adder

(* The sum over nothing. *)
LEMMA SumEmpty ==
    ASSUME NEW f
    PROVE  SumFunctionOnSet(f, {}) = 0
  <1>1. Adds(Adder(f, {}), f, {})
    BY AddsExists, FS_EmptySet
  <1> QED
    BY <1>1, SumIsAdder DEF Adds

(* The equation of a sum. *)
LEMMA SumChoice ==
    ASSUME NEW f, NEW S, IsFiniteSet(S), S # {}
    PROVE  SumFunctionOnSet(f, S) = f[Choice(S)] + SumFunctionOnSet(f, S \ {Choice(S)})
  BY AddsExists, SumOfAdders, FS_Subset

-----------------------------------------------------------------------------
(* Laws *)

(* Sums of integers are integers. *)
LEMMA SumInt ==
    ASSUME NEW S, IsFiniteSet(S), NEW f, \A x \in S : f[x] \in Int
    PROVE  SumFunctionOnSet(f, S) \in Int
  <1> DEFINE Good == {T \in SUBSET S : SumFunctionOnSet(f, T) \in Int}
  <1>1. ASSUME NEW T \in SUBSET S, \A U \in SUBSET T : U # T => U \in Good
        PROVE  T \in Good
    <2>1. CASE T = {}
      BY <2>1, SumEmpty
    <2>2. CASE T # {}
      <3>1. SumFunctionOnSet(f, T) = f[Choice(T)] + SumFunctionOnSet(f, T \ {Choice(T)})
        BY <2>2, SumChoice, FS_Subset
      <3>2. Choice(T) \in T /\ T \ {Choice(T)} \in Good
        BY <1>1, <2>2, ChoiceIn
      <3> QED
        BY <3>1, <3>2
    <2> QED
      BY <2>1, <2>2
  <1>2. S \in Good
    <2> HIDE DEF Good
    <2> QED BY <1>1, SubsetInduction
  <1> QED
    BY <1>2

(* Any element may be taken first. *)
LEMMA SumRemove ==
    ASSUME NEW S, IsFiniteSet(S), NEW f, \A x \in S : f[x] \in Int, NEW y \in S
    PROVE  SumFunctionOnSet(f, S) = f[y] + SumFunctionOnSet(f, S \ {y})
  <1> DEFINE Good == {T \in SUBSET S :
                        \A x \in T : SumFunctionOnSet(f, T) = f[x] + SumFunctionOnSet(f, T \ {x})}
  <1>0. \A T \in SUBSET S : IsFiniteSet(T) /\ SumFunctionOnSet(f, T) \in Int
    BY FS_Subset, SumInt
  <1>1. ASSUME NEW T \in SUBSET S, \A U \in SUBSET T : U # T => U \in Good
        PROVE  T \in Good
    <2> SUFFICES ASSUME NEW x \in T PROVE SumFunctionOnSet(f, T) = f[x] + SumFunctionOnSet(f, T \ {x})
      OBVIOUS
    <2> DEFINE c == Choice(T)
    <2>1. c \in T /\ SumFunctionOnSet(f, T) = f[c] + SumFunctionOnSet(f, T \ {c})
      BY <1>0, SumChoice, ChoiceIn
    <2>2. CASE x # c
      <3>1. SumFunctionOnSet(f, T \ {c}) = f[x] + SumFunctionOnSet(f, (T \ {c}) \ {x})
        BY <1>1, <2>1, <2>2
      <3>2. SumFunctionOnSet(f, T \ {x}) = f[c] + SumFunctionOnSet(f, (T \ {x}) \ {c})
        BY <1>1, <2>1, <2>2
      <3>3. (T \ {c}) \ {x} = (T \ {x}) \ {c}
        OBVIOUS
      <3> DEFINE rest == SumFunctionOnSet(f, (T \ {x}) \ {c})
      <3>4. rest \in Int /\ f[x] \in Int /\ f[c] \in Int
        BY <1>0, <2>1
      <3>5. SumFunctionOnSet(f, T \ {c}) = f[x] + rest /\ SumFunctionOnSet(f, T \ {x}) = f[c] + rest
        BY <3>1, <3>2, <3>3
      <3> HIDE DEF rest
      <3> QED
        BY <2>1, <3>4, <3>5
    <2> QED
      BY <2>1, <2>2
  <1>2. S \in Good
    <2> HIDE DEF Good
    <2> QED BY <1>1, SubsetInduction
  <1> QED
    BY <1>2

(* A sum is determined by the values on its set. *)
LEMMA SumSame ==
    ASSUME NEW S, IsFiniteSet(S), NEW f, NEW g,
           \A x \in S : f[x] \in Int /\ f[x] = g[x]
    PROVE  SumFunctionOnSet(f, S) = SumFunctionOnSet(g, S)
  <1> DEFINE Good == {T \in SUBSET S : SumFunctionOnSet(f, T) = SumFunctionOnSet(g, T)}
  <1>1. {} \in Good
    BY SumEmpty
  <1>2. ASSUME NEW T \in SUBSET S, NEW x \in T, T \ {x} \in Good
        PROVE  T \in Good
    <2>1. IsFiniteSet(T)
      BY FS_Subset
    <2> QED
      BY <1>2, <2>1, SumRemove
  <1>3. S \in Good
    <2> HIDE DEF Good
    <2> QED BY <1>1, <1>2, OneMore
  <1> QED
    BY <1>3

(* The sum of sums is the sum, element by element. *)
LEMMA SumAdd ==
    ASSUME NEW S, IsFiniteSet(S), NEW f, NEW g, NEW h,
           \A x \in S : f[x] \in Int /\ g[x] \in Int /\ h[x] = f[x] + g[x]
    PROVE  SumFunctionOnSet(h, S) = SumFunctionOnSet(f, S) + SumFunctionOnSet(g, S)
  <1> DEFINE Good == {T \in SUBSET S : SumFunctionOnSet(h, T) = SumFunctionOnSet(f, T) + SumFunctionOnSet(g, T)}
  <1>1. {} \in Good
    BY SumEmpty
  <1>2. ASSUME NEW T \in SUBSET S, NEW x \in T, T \ {x} \in Good
        PROVE  T \in Good
    <2>1. IsFiniteSet(T) /\ IsFiniteSet(T \ {x})
      BY FS_Subset
    <2>2. SumFunctionOnSet(f, T \ {x}) \in Int /\ SumFunctionOnSet(g, T \ {x}) \in Int
      BY <2>1, SumInt
    <2>3. /\ SumFunctionOnSet(f, T) = f[x] + SumFunctionOnSet(f, T \ {x})
          /\ SumFunctionOnSet(g, T) = g[x] + SumFunctionOnSet(g, T \ {x})
          /\ SumFunctionOnSet(h, T) = h[x] + SumFunctionOnSet(h, T \ {x})
      <3>1. \A y \in T : f[y] \in Int /\ g[y] \in Int /\ h[y] \in Int
        OBVIOUS
      <3> QED
        BY <2>1, <3>1, SumRemove
    <2> QED
      BY <1>2, <2>2, <2>3
  <1>3. S \in Good
    <2> HIDE DEF Good
    <2> QED BY <1>1, <1>2, OneMore
  <1> QED
    BY <1>3

(* Sums are monotone. *)
LEMMA SumLeq ==
    ASSUME NEW S, IsFiniteSet(S), NEW f, NEW g,
           \A x \in S : f[x] \in Int /\ g[x] \in Int /\ f[x] <= g[x]
    PROVE  SumFunctionOnSet(f, S) <= SumFunctionOnSet(g, S)
  <1> DEFINE Good == {T \in SUBSET S : SumFunctionOnSet(f, T) <= SumFunctionOnSet(g, T)}
  <1>1. {} \in Good
    BY SumEmpty
  <1>2. ASSUME NEW T \in SUBSET S, NEW x \in T, T \ {x} \in Good
        PROVE  T \in Good
    <2>1. IsFiniteSet(T) /\ IsFiniteSet(T \ {x})
      BY FS_Subset
    <2>2. SumFunctionOnSet(f, T \ {x}) \in Int /\ SumFunctionOnSet(g, T \ {x}) \in Int
      BY <2>1, SumInt
    <2>3. /\ SumFunctionOnSet(f, T) = f[x] + SumFunctionOnSet(f, T \ {x})
          /\ SumFunctionOnSet(g, T) = g[x] + SumFunctionOnSet(g, T \ {x})
      BY <2>1, SumRemove
    <2> QED
      BY <1>2, <2>2, <2>3
  <1>3. S \in Good
    <2> HIDE DEF Good
    <2> QED BY <1>1, <1>2, OneMore
  <1> QED
    BY <1>3

(* Sums of natural numbers are natural numbers. *)
LEMMA SumNat ==
    ASSUME NEW S, IsFiniteSet(S), NEW f, \A x \in S : f[x] \in Nat
    PROVE  SumFunctionOnSet(f, S) \in Nat
  <1> DEFINE Good == {T \in SUBSET S : SumFunctionOnSet(f, T) \in Nat}
  <1>1. {} \in Good
    BY SumEmpty
  <1>2. ASSUME NEW T \in SUBSET S, NEW x \in T, T \ {x} \in Good
        PROVE  T \in Good
    <2>1. IsFiniteSet(T) /\ \A y \in T : f[y] \in Int
      BY FS_Subset
    <2>2. SumFunctionOnSet(f, T) = f[x] + SumFunctionOnSet(f, T \ {x})
      BY <2>1, SumRemove
    <2> QED
      BY <1>2, <2>2
  <1>3. S \in Good
    <2> HIDE DEF Good
    <2> QED BY <1>1, <1>2, OneMore
  <1> QED
    BY <1>3

(* Sums of zeros are zero. *)
LEMMA SumZero ==
    ASSUME NEW S, IsFiniteSet(S), NEW f, \A x \in S : f[x] = 0
    PROVE  SumFunctionOnSet(f, S) = 0
  <1> DEFINE Good == {T \in SUBSET S : SumFunctionOnSet(f, T) = 0}
  <1>1. {} \in Good
    BY SumEmpty
  <1>2. ASSUME NEW T \in SUBSET S, NEW x \in T, T \ {x} \in Good
        PROVE  T \in Good
    <2>1. IsFiniteSet(T) /\ \A y \in T : f[y] \in Int
      BY FS_Subset
    <2>2. SumFunctionOnSet(f, T) = f[x] + SumFunctionOnSet(f, T \ {x})
      BY <2>1, SumRemove
    <2> QED
      BY <1>2, <2>2
  <1>3. S \in Good
    <2> HIDE DEF Good
    <2> QED BY <1>1, <1>2, OneMore
  <1> QED
    BY <1>3

(* The sum over two disjoint sets. *)
LEMMA SumUnion ==
    ASSUME NEW S, NEW R, IsFiniteSet(S), IsFiniteSet(R), S \cap R = {},
           NEW f, \A x \in S \cup R : f[x] \in Int
    PROVE  SumFunctionOnSet(f, S \cup R) = SumFunctionOnSet(f, S) + SumFunctionOnSet(f, R)
  <1> DEFINE Good == {T \in SUBSET R : SumFunctionOnSet(f, S \cup T) = SumFunctionOnSet(f, S) + SumFunctionOnSet(f, T)}
  <1>1. {} \in Good
    <2>1. S \cup {} = S
      OBVIOUS
    <2> QED
      BY <2>1, SumEmpty, SumInt
  <1>2. ASSUME NEW T \in SUBSET R, NEW x \in T, T \ {x} \in Good
        PROVE  T \in Good
    <2>1. IsFiniteSet(T) /\ IsFiniteSet(T \ {x}) /\ IsFiniteSet(S \cup T)
      BY FS_Subset, FS_Union
    <2>2. SumFunctionOnSet(f, T) = f[x] + SumFunctionOnSet(f, T \ {x})
      BY <2>1, SumRemove
    <2>3. SumFunctionOnSet(f, S \cup T) = f[x] + SumFunctionOnSet(f, S \cup (T \ {x}))
      <3>1. (S \cup T) \ {x} = S \cup (T \ {x})
        OBVIOUS
      <3> QED
        BY <2>1, <3>1, SumRemove
    <2>4. SumFunctionOnSet(f, T \ {x}) \in Int /\ SumFunctionOnSet(f, S) \in Int /\ f[x] \in Int
      BY <2>1, SumInt
    <2> QED
      BY <1>2, <2>2, <2>3, <2>4
  <1>3. R \in Good
    <2> HIDE DEF Good
    <2> QED BY <1>1, <1>2, OneMore
  <1> QED
    BY <1>3

(* The rows of a matrix and its columns have the same total. *)
LEMMA SumSwap ==
    ASSUME NEW S, IsFiniteSet(S), NEW R, IsFiniteSet(R), NEW m,
           \A x \in S, y \in R : m[x][y] \in Int
    PROVE  SumFunctionOnSet([x \in S |-> SumFunctionOnSet([y \in R |-> m[x][y]], R)], S)
         = SumFunctionOnSet([y \in R |-> SumFunctionOnSet([x \in S |-> m[x][y]], S)], R)
  <1> DEFINE row(T) == [x \in S |-> SumFunctionOnSet([y \in R |-> m[x][y]], T)]
             column == [y \in R |-> SumFunctionOnSet([x \in S |-> m[x][y]], S)]
             Good == {T \in SUBSET R : SumFunctionOnSet(row(T), S) = SumFunctionOnSet(column, T)}
  <1>1. {} \in Good
    <2>1. \A x \in S : row({})[x] = 0
      BY SumEmpty
    <2>2. SumFunctionOnSet(row({}), S) = 0
      <3> HIDE DEF row
      <3> QED BY <2>1, SumZero
    <2> QED
      BY <2>2, SumEmpty
  <1>2. ASSUME NEW T \in SUBSET R, NEW y \in T, T \ {y} \in Good
        PROVE  T \in Good
    <2> DEFINE now == [x \in S |-> m[x][y]]
    <2>1. IsFiniteSet(T) /\ IsFiniteSet(T \ {y})
      BY FS_Subset
    <2>2. \A x \in S : /\ row(T)[x] = now[x] + row(T \ {y})[x]
                       /\ now[x] \in Int /\ row(T \ {y})[x] \in Int
      <3> SUFFICES ASSUME NEW x \in S
                   PROVE  /\ SumFunctionOnSet([z \in R |-> m[x][z]], T)
                             = m[x][y] + SumFunctionOnSet([z \in R |-> m[x][z]], T \ {y})
                          /\ SumFunctionOnSet([z \in R |-> m[x][z]], T \ {y}) \in Int
        OBVIOUS
      <3> DEFINE f == [z \in R |-> m[x][z]]
      <3>1. (\A z \in T : f[z] \in Int) /\ f[y] = m[x][y]
        OBVIOUS
      <3>2. SumFunctionOnSet(f, T) = f[y] + SumFunctionOnSet(f, T \ {y}) /\ SumFunctionOnSet(f, T \ {y}) \in Int
        <4> HIDE DEF f
        <4> QED BY <2>1, <3>1, SumRemove, SumInt
      <3> QED
        BY <3>1, <3>2
    <2>3. SumFunctionOnSet(row(T), S) = SumFunctionOnSet(now, S) + SumFunctionOnSet(row(T \ {y}), S)
      <3> HIDE DEF row, now
      <3> QED BY <2>2, SumAdd
    <2>4. \A z \in R : column[z] \in Int
      <3> SUFFICES ASSUME NEW z \in R PROVE SumFunctionOnSet([x \in S |-> m[x][z]], S) \in Int
        OBVIOUS
      <3> DEFINE f == [x \in S |-> m[x][z]]
      <3>1. \A x \in S : f[x] \in Int
        OBVIOUS
      <3> QED
        <4> HIDE DEF f
        <4> QED BY <3>1, SumInt
    <2>5. SumFunctionOnSet(column, T) = column[y] + SumFunctionOnSet(column, T \ {y})
      <3> HIDE DEF column
      <3> QED BY <2>1, <2>4, SumRemove
    <2>6. column[y] = SumFunctionOnSet(now, S)
      OBVIOUS
    <2> QED
      <3> HIDE DEF row, column, now
      <3> QED BY <1>2, <2>3, <2>5, <2>6
  <1>3. R \in Good
    <2> HIDE DEF Good
    <2> QED BY <1>1, <1>2, OneMore
  <1> QED
    BY <1>3

(* The sum over one element. *)
LEMMA SumOne ==
    ASSUME NEW f, NEW x, f[x] \in Int
    PROVE  SumFunctionOnSet(f, {x}) = f[x]
  <1>1. IsFiniteSet({x}) /\ {x} \ {x} = {}
    BY FS_Singleton
  <1>2. SumFunctionOnSet(f, {x}) = f[x] + SumFunctionOnSet(f, {x} \ {x})
    BY <1>1, SumRemove
  <1> QED
    BY <1>1, <1>2, SumEmpty

(* The sum over one element more. *)
LEMMA SumInsert ==
    ASSUME NEW S, IsFiniteSet(S), NEW y, y \notin S,
           NEW f, \A x \in S \cup {y} : f[x] \in Int
    PROVE  SumFunctionOnSet(f, S \cup {y}) = f[y] + SumFunctionOnSet(f, S)
  <1>1. IsFiniteSet(S \cup {y}) /\ (S \cup {y}) \ {y} = S
    BY FS_AddElement
  <1> QED
    BY <1>1, SumRemove

(* The sums over two and over three elements. *)
LEMMA SumTwo ==
    ASSUME NEW f, NEW x, NEW y, x # y, f[x] \in Int, f[y] \in Int
    PROVE  SumFunctionOnSet(f, {x, y}) = f[x] + f[y]
  <1>1. IsFiniteSet({x}) /\ y \notin {x} /\ {x} \cup {y} = {x, y}
    BY FS_Singleton
  <1>2. SumFunctionOnSet(f, {x} \cup {y}) = f[y] + SumFunctionOnSet(f, {x})
    BY <1>1, SumInsert
  <1> QED
    BY <1>1, <1>2, SumOne

(* The sum of three, under a name: the provers then match it as a term.     *)
Added(i, j, k) == i + j + k

LEMMA SumThree ==
    ASSUME NEW f, NEW x, NEW y, NEW z, x # y, x # z, y # z,
           f[x] \in Int, f[y] \in Int, f[z] \in Int
    PROVE  SumFunctionOnSet(f, {x, y, z}) = Added(f[x], f[y], f[z])
  <1>1. IsFiniteSet({x}) /\ IsFiniteSet({x} \cup {y}) /\ {x} \cup {y} = {x, y}
    BY FS_Singleton, FS_AddElement
  <1>2. z \notin {x, y} /\ {x, y} \cup {z} = {x, y, z}
    OBVIOUS
  <1>3. SumFunctionOnSet(f, {x, y}) = f[x] + f[y]
    BY SumTwo
  <1>4. \A e \in {x, y} \cup {z} : f[e] \in Int
    OBVIOUS
  <1>5. SumFunctionOnSet(f, {x, y} \cup {z}) = f[z] + SumFunctionOnSet(f, {x, y})
    <2> DEFINE P == {x, y}
    <2>1. IsFiniteSet(P) /\ z \notin P /\ (\A e \in P \cup {z} : f[e] \in Int)
      BY <1>1, <1>2, <1>4
    <2> SUFFICES SumFunctionOnSet(f, P \cup {z}) = f[z] + SumFunctionOnSet(f, P)
      OBVIOUS
    <2> HIDE DEF P
    <2> QED BY <2>1, SumInsert
  <1>6. SumFunctionOnSet(f, {x, y} \cup {z}) = SumFunctionOnSet(f, {x, y, z})
    BY <1>2
  <1>7. f[z] + (f[x] + f[y]) = Added(f[x], f[y], f[z])
    BY DEF Added
  <1> QED
    BY <1>3, <1>5, <1>6, <1>7, Zenon

(* Elements with nothing to add may be left out; those with something are  *)
(* missed.                                                                 *)
LEMMA SumPart ==
    ASSUME NEW S, IsFiniteSet(S), NEW T \in SUBSET S,
           NEW f, \A x \in S : f[x] \in Int, \A x \in S \ T : f[x] >= 0
    PROVE  /\ SumFunctionOnSet(f, T) <= SumFunctionOnSet(f, S)
           /\ (\A x \in S \ T : f[x] = 0) => SumFunctionOnSet(f, T) = SumFunctionOnSet(f, S)
  <1>1. IsFiniteSet(T) /\ IsFiniteSet(S \ T) /\ T \cup (S \ T) = S
    BY FS_Subset
  <1>2. SumFunctionOnSet(f, S) = SumFunctionOnSet(f, T) + SumFunctionOnSet(f, S \ T)
    <2>1. T \cap (S \ T) = {}
      OBVIOUS
    <2> QED
      BY <1>1, <2>1, SumUnion
  <1>3. SumFunctionOnSet(f, T) \in Int /\ SumFunctionOnSet(f, S \ T) \in Nat
    BY <1>1, SumInt, SumNat
  <1>4. (\A x \in S \ T : f[x] = 0) => SumFunctionOnSet(f, S \ T) = 0
    BY <1>1, SumZero
  <1> QED
    BY <1>2, <1>3, <1>4

(* One value changes. *)
LEMMA SumChange ==
    ASSUME NEW S, IsFiniteSet(S), NEW y \in S, NEW f, NEW g,
           \A x \in S : f[x] \in Int /\ g[x] \in Int,
           \A x \in S \ {y} : f[x] = g[x]
    PROVE  SumFunctionOnSet(g, S) = SumFunctionOnSet(f, S) - f[y] + g[y]
  <1>1. IsFiniteSet(S \ {y})
    BY FS_Subset
  <1>2. SumFunctionOnSet(f, S \ {y}) = SumFunctionOnSet(g, S \ {y})
    BY <1>1, SumSame
  <1>3. /\ SumFunctionOnSet(f, S) = f[y] + SumFunctionOnSet(f, S \ {y})
        /\ SumFunctionOnSet(g, S) = g[y] + SumFunctionOnSet(g, S \ {y})
    BY SumRemove
  <1>4. SumFunctionOnSet(f, S \ {y}) \in Int
    BY <1>1, SumInt
  <1> QED
    BY <1>2, <1>3, <1>4
=============================================================================
