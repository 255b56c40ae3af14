--------------------------- MODULE ChainTreeProofs ----------------------------
(***************************************************************************)
(* Facts about the chain that the other proofs cite: what paths contain,   *)
(* and how two branches that meet agree; at the end, of finite sets of     *)
(* heights.                                                                *)
(***************************************************************************)
EXTENDS TLAPS, ChainTree, FiniteSetTheorems

LEMMA BaseType == Base \in Blocks /\ None \notin Blocks
BY PathAssumption

LEMMA HeightType == \A b \in Blocks : Height(b) \in Nat /\ Height(b) >= 1
BY PathAssumption DEF Height

LEMMA AtType ==
    ASSUME NEW b \in Blocks, NEW h \in 1..Height(b)
    PROVE  /\ Path[b][h] \in Blocks
           /\ Height(Path[b][h]) = h
           /\ \A k \in 1..h : Path[Path[b][h]][k] = Path[b][k]
<1>1. Path[b] \in Seq(Blocks) /\ h \in 1..Len(Path[b])
  BY PathAssumption DEF Height
<1>2. Path[b][h] \in Blocks
  BY <1>1
<1>3. Len(Path[Path[b][h]]) = h /\ \A k \in 1..h : Path[Path[b][h]][k] = Path[b][k]
  BY <1>1, PathAssumption
<1> QED
  BY <1>2, <1>3 DEF Height

(* Two paths that meet at a height are the same below it. *)
LEMMA AgreeBelow ==
    ASSUME NEW b \in Blocks, NEW c \in Blocks, NEW h \in Nat,
           h <= Height(b), h <= Height(c), Path[b][h] = Path[c][h],
           NEW k \in 1..h
    PROVE  Path[b][k] = Path[c][k]
<1>1. h \in 1..Height(b) /\ h \in 1..Height(c)
  BY HeightType
<1> QED
  BY <1>1, AtType

LEMMA OnTip == \A b \in Blocks : Path[b][Height(b)] = b
BY PathAssumption DEF Height

(* An ancestor shares the whole path. *)
LEMMA OnAgree ==
    ASSUME NEW a \in Blocks, NEW b \in Blocks, On(a, b), NEW k \in 1..Height(a)
    PROVE  Path[a][k] = Path[b][k]
BY AgreeBelow, OnTip, HeightType DEF On

LEMMA OnComparable ==
    ASSUME NEW a \in Blocks, NEW b \in Blocks, NEW c \in Blocks, On(a, c), On(b, c)
    PROVE  Comparable(a, b)
<1>1. CASE Height(a) <= Height(b)
  <2>1. Height(a) \in 1..Height(b)
    BY <1>1, HeightType
  <2> QED
    BY <2>1, <1>1, OnAgree DEF On, Comparable
<1>2. CASE Height(b) <= Height(a)
  <2>1. Height(b) \in 1..Height(a)
    BY <1>2, HeightType
  <2> QED
    BY <2>1, <1>2, OnAgree DEF On, Comparable
<1> QED
  BY <1>1, <1>2, HeightType

LEMMA OnTrans ==
    ASSUME NEW a \in Blocks, NEW b \in Blocks, NEW c \in Blocks, On(a, b), On(b, c)
    PROVE  On(a, c)
<1>1. Height(a) \in 1..Height(b)
  BY HeightType DEF On
<1>2. Path[b][Height(a)] = Path[c][Height(a)]
  BY <1>1, OnAgree
<1> QED
  BY <1>2, HeightType DEF On

LEMMA BaseHeight == Height(Base) = 1
<1>1. 1 \in 1..Height(Base) /\ Path[Base][1] = Base
  BY PathAssumption, HeightType, BaseType
<1> QED
  BY <1>1, AtType, BaseType

LEMMA OnSelf == \A b \in Blocks : On(b, b)
BY OnTip, HeightType DEF On

(* Of two blocks on one path the lower one is on the path of the other. *)
LEMMA OnLower ==
    ASSUME NEW a \in Blocks, NEW b \in Blocks, NEW c \in Blocks,
           On(a, c), On(b, c), Height(a) <= Height(b)
    PROVE  On(a, b)
<1>1. Height(a) \in 1..Height(b)
  BY HeightType
<1> QED
  BY <1>1, OnAgree DEF On

LEMMA OnSameHeight ==
    ASSUME NEW a \in Blocks, NEW b \in Blocks, On(a, b), Height(b) <= Height(a)
    PROVE  a = b
BY OnTip, HeightType DEF On

(* A finite set of numbers has a highest one: by the descent of what lies  *)
(* above.                                                                  *)
LEMMA HighestExists ==
    ASSUME NEW S \in SUBSET Nat, S # {}, IsFiniteSet(S)
    PROVE  \E m \in S : \A k \in S : k <= m
<1> DEFINE T == {S \ 0..k : k \in S}
<1>1. T \subseteq FiniteSubsetsOf(Nat) /\ T # {}
  <2>1. \A k \in S : S \ 0..k \in SUBSET Nat /\ IsFiniteSet(S \ 0..k)
    BY FS_Subset
  <2> QED
    BY <2>1 DEF FiniteSubsetsOf
<1>2. PICK x \in T : \A y \in T : <<y, x>> \notin StrictSubsetOrdering(Nat)
  BY <1>1, FS_StrictSubsetOrderingWellFounded, WFMin
<1>3. PICK m \in S : x = S \ 0..m
  BY <1>2
<1>4. ASSUME NEW k \in S, m < k PROVE FALSE
  <2>1. S \ 0..k \subseteq S \ 0..m /\ k \in S \ 0..m /\ k \notin S \ 0..k
    BY <1>4
  <2>2. S \ 0..k \in SUBSET Nat /\ S \ 0..m \in SUBSET Nat /\ S \ 0..k # S \ 0..m
    BY <2>1
  <2>3. <<S \ 0..k, S \ 0..m>> \in StrictSubsetOrdering(Nat)
    BY <2>1, <2>2 DEF StrictSubsetOrdering
  <2> QED
    BY <2>3, <1>2, <1>3, <1>4
<1> QED
  BY <1>4
=============================================================================
