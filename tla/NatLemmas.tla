------------------------------ MODULE NatLemmas -------------------------------
(***************************************************************************)
(* Facts about sets of natural numbers, from the library's theorem that    *)
(* the order of the natural numbers is well-founded.  The first two take   *)
(* the place of induction: instead of a predicate, they speak of the set   *)
(* of the numbers that satisfy it.                                         *)
(***************************************************************************)
EXTENDS Integers, NaturalsInduction, FiniteSetTheorems, WellFoundedInduction, TLAPS

\* Every set of numbers that has any has a least one.
LEMMA Least ==
  ASSUME NEW T, T \subseteq Nat, T # {}
  PROVE  \E n \in T : \A k \in T : n <= k
<1>1. PICK n \in T : \A k \in T : ~(<<k, n>> \in OpToRel(<, Nat))
  BY WFMin, NatLessThanWellFounded, Zenon
<1>2. ASSUME NEW k \in T, ~(n <= k) PROVE FALSE
  <2>1. k < n /\ k \in Nat /\ n \in Nat
    BY <1>2
  <2>2. <<k, n>> \in {ss \in Nat \X Nat : ss[1] < ss[2]}
    BY <2>1
  <2>3. <<k, n>> \in OpToRel(<, Nat)
    BY <2>2, Zenon DEF OpToRel
  <2> QED BY <1>1, <2>3, Zenon
<1> QED BY <1>2

\* A set of numbers with 0 and with the next of each has all up to a limit.
LEMMA Climb ==
  ASSUME NEW limit \in Nat, NEW T, 0 \in T,
         \A n \in 1 .. limit : n - 1 \in T => n \in T
  PROVE  0 .. limit \subseteq T
<1> SUFFICES ASSUME (0 .. limit) \ T # {} PROVE FALSE
  OBVIOUS
<1>1. PICK n \in (0 .. limit) \ T : \A k \in (0 .. limit) \ T : n <= k
  <2>1. (0 .. limit) \ T \subseteq Nat
    OBVIOUS
  <2> QED BY <2>1, Least, Zenon
<1>2. n \in 1 .. limit /\ n - 1 \in 0 .. limit /\ ~(n <= n - 1)
  BY <1>1
<1> QED BY <1>1, <1>2

\* A finite set of numbers has a greatest one.
LEMMA Greatest ==
  ASSUME NEW S \in SUBSET Nat, IsFiniteSet(S), S # {}
  PROVE  \E x \in S : \A y \in S : y <= x
<1> DEFINE Good(T) == \E x \in T : \A y \in T : y <= x
           Bad == {T \in FiniteSubsetsOf(S) : T # {} /\ ~ Good(T)}
<1> SUFFICES ASSUME ~ Good(S) PROVE FALSE
  OBVIOUS
<1>1. S \in Bad
  BY DEF FiniteSubsetsOf
<1>2. PICK T \in Bad : \A U \in Bad : ~ (<<U, T>> \in StrictSubsetOrdering(S))
  <2>1. Bad \subseteq FiniteSubsetsOf(S) /\ Bad # {}
    BY <1>1
  <2> HIDE DEF Bad
  <2> QED BY <2>1, FS_StrictSubsetOrderingWellFounded, WFMin, Zenon
<1>3. T \subseteq S /\ IsFiniteSet(T) /\ T # {} /\ ~ Good(T)
  BY DEF FiniteSubsetsOf
<1>4. PICK x \in T : TRUE
  BY <1>3
<1> DEFINE U == T \ {x}
<1>5. U \subseteq S /\ U \subseteq T /\ x \in T /\ x \notin U /\ IsFiniteSet(U)
  BY <1>3, <1>4, FS_Subset
<1>6. U = {} \/ Good(U)
  <2>1. U \in FiniteSubsetsOf(S) /\ T \in FiniteSubsetsOf(S)
    BY <1>3, <1>5 DEF FiniteSubsetsOf
  <2>2. <<U, T>> \in StrictSubsetOrdering(S)
    BY <1>3, <1>5, <2>1 DEF StrictSubsetOrdering
  <2>3. U \notin Bad
    BY <1>2, <2>2
  <2> QED BY <2>1, <2>3
<1>7. CASE U = {}
  <2>1. \A y \in T : y = x
    BY <1>7
  <2>2. x \in Nat
    BY <1>3, <1>4
  <2> QED BY <2>1, <2>2, <1>3, <1>4
<1>8. CASE Good(U)
  <2>1. PICK g \in U : \A y \in U : y <= g
    BY <1>8
  <2>2. x \in Nat /\ g \in Nat /\ T \subseteq Nat
    BY <1>3, <1>4, <1>5
  <2>3. CASE x <= g
    BY <1>3, <1>5, <2>1, <2>2, <2>3
  <2>4. CASE ~ (x <= g)
    <3>1. \A y \in T : y <= x
      BY <2>1, <2>2, <2>4
    <3> QED BY <1>3, <1>4, <3>1
  <2> QED BY <2>3, <2>4
<1> QED BY <1>6, <1>7, <1>8

==============================================================================
