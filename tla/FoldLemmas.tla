----------------------------- MODULE FoldLemmas -----------------------------
(***************************************************************************)
(* What the specifications need of FoldLeft (SequencesExt): a fold whose   *)
(* every step stays inside a set ends inside it.  The code's loops over    *)
(* zones, records and the actions of a decision are such folds, and the    *)
(* set is whatever the loop maintains.                                     *)
(*                                                                         *)
(* FoldLeft is a recursive function on the subsets of the sequence's       *)
(* domain.  That it is well defined, and that it stays in the set, is an   *)
(* induction over the upper bound of those subsets; the step is given as   *)
(* a function, so that the lemmas can be used for any step.                *)
(***************************************************************************)
EXTENDS SequencesExt, WellFoundedInduction, TLAPS

(* A non-empty set of naturals has a least element. *)
LEMMA LeastNatural ==
  ASSUME NEW T \in SUBSET Nat, T # {}
  PROVE  \E i \in T : \A j \in T : i <= j
<1> DEFINE R == OpToRel(<, Nat)
<1>1. PICK i \in T : \A j \in T : <<j, i>> \notin R
  BY WFMin, NatLessThanWellFounded
<1>2. \A j \in T : ~(j < i)
  BY <1>1 DEF OpToRel
<1> QED BY <1>2

(* Induction over 0 .. N: a set that has 0 and, below N, with every number *)
(* the next one, has all of them.                                          *)
LEMMA UpToN ==
  ASSUME NEW N \in Nat, NEW S, 0 \in S, \A n \in 0 .. N - 1 : n \in S => n + 1 \in S
  PROVE  0 .. N \subseteq S
<1> DEFINE T == (0 .. N) \ S
<1> SUFFICES ASSUME T # {} PROVE FALSE
  OBVIOUS
<1>0. T \in SUBSET Nat
  OBVIOUS
<1>1. PICK i \in T : \A j \in T : i <= j
  <2> HIDE DEF T
  <2> QED BY <1>0, LeastNatural
<1>2. i \in 1 .. N /\ i \notin S
  <2>1. i \in 0 .. N /\ i \notin S
    BY <1>1
  <2>2. i # 0
    BY <2>1
  <2> QED BY <2>1, <2>2
<1>3. i - 1 \in 0 .. N - 1 /\ i - 1 \in 0 .. N /\ ~(i <= i - 1) /\ (i - 1) + 1 = i
  BY <1>2
<1>4. i - 1 \in S
  BY <1>1, <1>3
<1> QED BY <1>2, <1>3, <1>4

(* The greatest of some numbers up to n + 1, if n + 1 is among them. *)
LEMMA MaxIsBound ==
  ASSUME NEW n \in Nat, NEW s \in SUBSET (1 .. n + 1), n + 1 \in s
  PROVE  Max(s) = n + 1
<1>1. \A y \in s : n + 1 >= y
  OBVIOUS
<1>2. \A x \in s : (\A y \in s : x >= y) => x = n + 1
  OBVIOUS
<1> QED BY <1>1, <1>2 DEF Max

(* Some numbers up to N have a greatest. *)
LEMMA MaxIsMember ==
  ASSUME NEW N \in Nat, NEW s \in SUBSET (1 .. N), s # {}
  PROVE  Max(s) \in s
<1> DEFINE T == {k \in Nat : \E x \in s : k = N - x}
<1>1. T # {}
  <2>1. PICK x : x \in s
    OBVIOUS
  <2>2. N - x \in T
    BY <2>1
  <2> QED BY <2>2
<1>2. PICK i \in T : \A j \in T : i <= j
  BY <1>1, LeastNatural
<1>3. PICK x \in s : i = N - x
  BY <1>2
<1>4. \A y \in s : x >= y
  <2> SUFFICES ASSUME NEW y \in s PROVE x >= y
    OBVIOUS
  <2>1. N - y \in T
    OBVIOUS
  <2> QED BY <1>2, <1>3, <2>1
<1> QED BY <1>4 DEF Max

-----------------------------------------------------------------------------
(* The recursion of a fold over 1 .. N from base, with the step as a       *)
(* function of the value so far and the position.                          *)
Folds(it, N, base, step) ==
    it = [s \in SUBSET (1 .. N) |->
            IF s = {} THEN base ELSE step[<<it[s \ {Max(s)}], Max(s)>>]]

(* The recursion has a solution, and all its values are in W. *)
LEMMA FoldExists ==
  ASSUME NEW W, NEW N \in Nat, NEW base \in W, NEW step \in [W \X (1 .. N) -> W]
  PROVE  \E it \in [SUBSET (1 .. N) -> W] : Folds(it, N, base, step)
<1> DEFINE Solvable == {n \in 0 .. N : \E it \in [SUBSET (1 .. n) -> W] :
                                           Folds(it, n, base, step)}
<1>1. 0 \in Solvable
  <2> DEFINE it == [s \in SUBSET (1 .. 0) |-> base]
  <2>1. it \in [SUBSET (1 .. 0) -> W]
    OBVIOUS
  <2>2. SUBSET (1 .. 0) = {{}}
    OBVIOUS
  <2>3. Folds(it, 0, base, step)
    BY <2>2 DEF Folds
  <2> QED BY <2>1, <2>3
<1>2. ASSUME NEW n \in 0 .. N - 1, n \in Solvable
      PROVE  n + 1 \in Solvable
  <2>1. PICK old \in [SUBSET (1 .. n) -> W] : Folds(old, n, base, step)
    BY <1>2
  <2> DEFINE it == [s \in SUBSET (1 .. n + 1) |->
                      IF n + 1 \in s THEN step[<<old[s \ {n + 1}], n + 1>>] ELSE old[s]]
  <2>2. n \in Nat /\ n + 1 \in 1 .. N /\ n + 1 \in 0 .. N
    OBVIOUS
  <2>3. \A s \in SUBSET (1 .. n + 1) :
          /\ s \ {n + 1} \in SUBSET (1 .. n)
          /\ n + 1 \notin s => s \in SUBSET (1 .. n)
    BY <2>2
  <2>4. it \in [SUBSET (1 .. n + 1) -> W]
    BY <2>2, <2>3
  <2>5. ASSUME NEW s \in SUBSET (1 .. n + 1)
        PROVE  it[s] = IF s = {} THEN base ELSE step[<<it[s \ {Max(s)}], Max(s)>>]
    <3>1. CASE n + 1 \in s
      <4>1. Max(s) = n + 1
        BY <2>2, <3>1, MaxIsBound
      <4>2. it[s \ {n + 1}] = old[s \ {n + 1}]
        BY <2>3
      <4> QED BY <3>1, <4>1, <4>2
    <3>2. CASE n + 1 \notin s
      <4>1. it[s] = old[s] /\ s \in SUBSET (1 .. n)
        BY <2>3, <3>2
      <4>2. old[s] = IF s = {} THEN base ELSE step[<<old[s \ {Max(s)}], Max(s)>>]
        BY <2>1, <4>1 DEF Folds
      <4>3. it[s \ {Max(s)}] = old[s \ {Max(s)}]
        BY <3>2
      <4> QED BY <4>1, <4>2, <4>3
    <3> QED BY <3>1, <3>2
  <2>6. Folds(it, n + 1, base, step)
    <3> HIDE DEF it
    <3> QED BY <2>4, <2>5 DEF Folds
  <2> QED BY <2>2, <2>4, <2>6
<1>3. 0 .. N \subseteq Solvable
  <2> HIDE DEF Solvable
  <2> QED BY <1>1, <1>2, UpToN
<1>4. N \in Solvable
  <2> HIDE DEF Solvable
  <2>1. N \in 0 .. N
    OBVIOUS
  <2> QED BY <1>3, <2>1
<1> QED BY <1>4

(* One position more. *)
LEMMA OneMore ==
  ASSUME NEW N \in Nat, NEW n \in 0 .. N - 1
  PROVE  /\ n \in Nat /\ n + 1 \in 1 .. N /\ n + 1 \in 0 .. N
         /\ 1 .. n + 1 \in SUBSET (1 .. N) /\ 1 .. n + 1 # {}
         /\ n + 1 \in 1 .. n + 1 /\ (1 .. n + 1) \ {n + 1} = 1 .. n
OBVIOUS

(* The recursion is the step's as long as it stays in W. *)
Unfolds(it, W, N, base, step) ==
    /\ it[{}] = base
    /\ \A s \in SUBSET (1 .. N) :
         s # {} /\ it[s \ {Max(s)}] \in W => it[s] = step[<<it[s \ {Max(s)}], Max(s)>>]

(* Each step leads from one of the sets Ws[0], ..., Ws[N] to the next. *)
Passes(Ws, N, step) ==
    \A n \in 0 .. N - 1 : \A w \in Ws[n] : step[<<w, n + 1>>] \in Ws[n + 1]

(* Whatever solves such a recursion goes along with the steps. *)
LEMMA FoldPasses ==
  ASSUME NEW W, NEW N \in Nat, NEW Ws \in [0 .. N -> SUBSET W], NEW base \in Ws[0],
         NEW step \in [W \X (1 .. N) -> W],
         Passes(Ws, N, step),
         NEW it, Unfolds(it, W, N, base, step)
  PROVE  it[1 .. N] \in Ws[N]
<1> DEFINE Inside == {n \in 0 .. N : it[1 .. n] \in Ws[n]}
<1>1. 0 \in Inside
  <2>1. 1 .. 0 = {}
    OBVIOUS
  <2> QED BY <2>1 DEF Unfolds
<1>2. ASSUME NEW n \in 0 .. N - 1, n \in Inside
      PROVE  n + 1 \in Inside
  <2> DEFINE s == 1 .. n + 1
  <2>1. /\ n \in Nat /\ n + 1 \in 1 .. N /\ n + 1 \in 0 .. N
        /\ s \in SUBSET (1 .. N) /\ s # {} /\ n + 1 \in s /\ s \ {n + 1} = 1 .. n
    BY OneMore
  <2>2. Max(s) = n + 1
    BY <2>1, MaxIsBound
  <2>3. n \in 0 .. N /\ it[1 .. n] \in Ws[n] /\ it[1 .. n] \in W
    BY <1>2
  <2> HIDE DEF s
  <2>4. it[s] = step[<<it[1 .. n], n + 1>>]
    BY <2>1, <2>2, <2>3 DEF Unfolds
  <2>5. it[s] \in Ws[n + 1]
    BY <2>1, <2>3, <2>4 DEF Passes
  <2> QED BY <2>1, <2>5 DEF s
<1>3. N \in Inside
  <2> HIDE DEF Inside
  <2>1. N \in 0 .. N
    OBVIOUS
  <2> QED BY <1>1, <1>2, <2>1, UpToN
<1> QED BY <1>3

(* If every step stays in W, so does the fold. *)
LEMMA FoldStays ==
  ASSUME NEW W, NEW N \in Nat, NEW base \in W, NEW step \in [W \X (1 .. N) -> W],
         NEW it, it[{}] = base,
         \A s \in SUBSET (1 .. N) :
            s # {} /\ it[s \ {Max(s)}] \in W => it[s] = step[<<it[s \ {Max(s)}], Max(s)>>]
  PROVE  it[1 .. N] \in W
<1> DEFINE Ws == [n \in 0 .. N |-> W]
<1>1. /\ Ws \in [0 .. N -> SUBSET W] /\ Ws[0] = W /\ Ws[N] = W
      /\ \A n \in 0 .. N - 1 : Ws[n] = W /\ Ws[n + 1] = W
  OBVIOUS
<1>2. Passes(Ws, N, step)
  BY <1>1 DEF Passes
<1>3. Ws \in [0 .. N -> SUBSET W] /\ base \in Ws[0]
  BY <1>1
<1> HIDE DEF Ws
<1>4. Unfolds(it, W, N, base, step)
  BY DEF Unfolds
<1>5. it[1 .. N] \in Ws[N]
  BY <1>2, <1>3, <1>4, FoldPasses
<1> QED BY <1>1, <1>5
=============================================================================
