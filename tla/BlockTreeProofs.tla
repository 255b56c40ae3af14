--------------------------- MODULE BlockTreeProofs ----------------------------
(***************************************************************************)
(* Facts about the output MMRs of the blocks that the other proofs cite.   *)
(***************************************************************************)
EXTENDS BlockTree, ChainTreeProofs

LEMMA OutsType ==
    \A b \in Blocks : /\ Outs[b] \in Seq(Output)
                      /\ Len(Outs[b]) \in Nat
                      /\ Unspent[b] \subseteq 1..Len(Outs[b])
                      /\ 1..Len(Outs[b]) \subseteq Leaves
                      /\ \A i \in 1..Len(Outs[b]) : Outs[b][i] \in Output
<1> TAKE b \in Blocks
<1>1. Outs[b] \in Seq(Output) /\ Unspent[b] \subseteq 1..Len(Outs[b])
  BY MwebAssumption
<1>2. 1..Len(Outs[b]) \subseteq Leaves
  BY DEF Leaves
<1> QED
  BY <1>1, <1>2

(* On one branch a leaf is the same output in every block that has it. *)
LEMMA OutsSame ==
    ASSUME NEW a \in Blocks, NEW b \in Blocks, Comparable(a, b),
           NEW i \in 1..Len(Outs[a]), i \in 1..Len(Outs[b])
    PROVE  Outs[a][i] = Outs[b][i]
BY MwebAssumption DEF Comparable

(* An output mined once is one leaf of a branch. *)
LEMMA OutsAgree ==
    ASSUME NEW a \in Blocks, NEW b \in Blocks, Comparable(a, b),
           NEW i \in 1..Len(Outs[a]), NEW j \in 1..Len(Outs[b]),
           Outs[a][i] \in MinedOnce, Outs[a][i] = Outs[b][j]
    PROVE  i = j
<1>1. CASE On(a, b)
  <2>1. /\ Len(Outs[a]) <= Len(Outs[b])
        /\ Outs[b][i] = Outs[a][i]
    BY <1>1, MwebAssumption
  <2>2. i \in 1..Len(Outs[b])
    BY <2>1, OutsType
  <2> QED
    BY <2>1, <2>2 DEF MinedOnce
<1>2. CASE On(b, a)
  <2>1. /\ Len(Outs[b]) <= Len(Outs[a])
        /\ Outs[a][j] = Outs[b][j]
    BY <1>2, MwebAssumption
  <2>2. j \in 1..Len(Outs[a])
    BY <2>1, OutsType
  <2> QED
    BY <2>1, <2>2 DEF MinedOnce
<1> QED
  BY <1>1, <1>2 DEF Comparable

(* Blocks of one branch share the path below them. *)
LEMMA PathAgree ==
    ASSUME NEW a \in Blocks, NEW b \in Blocks, Comparable(a, b),
           NEW h \in 1..Height(a), h <= Height(b)
    PROVE  Path[a][h] = Path[b][h]
BY OnAgree, HeightType DEF Comparable

(* Along a path the MMR only grows. *)
LEMMA LeavesGrow ==
    ASSUME NEW b \in Blocks, NEW h \in 1..Height(b), NEW k \in 1..h
    PROVE  Len(Outs[Path[b][k]]) \in Nat /\ Len(Outs[Path[b][h]]) \in Nat
           /\ Len(Outs[Path[b][k]]) <= Len(Outs[Path[b][h]])
<1>1. k \in 1..Height(b)
  BY HeightType
<1>2. /\ Path[b][k] \in Blocks /\ Height(Path[b][k]) = k
      /\ Path[b][h] \in Blocks /\ Height(Path[b][h]) = h
      /\ Path[Path[b][h]][k] = Path[b][k]
  BY <1>1, AtType
<1>3. On(Path[b][k], Path[b][h])
  BY <1>2 DEF On
<1> QED
  BY <1>2, <1>3, MwebAssumption, OutsType

(* Height h created leaf i of b's MMR. *)
MinedIn(b, i, h) ==
    /\ h \in 1..Height(b)
    /\ Len(Outs[Path[b][h]]) >= i
    /\ h > 1 => Len(Outs[Path[b][h - 1]]) < i

LEMMA MinedUnique ==
    ASSUME NEW b \in Blocks, NEW i \in Nat, NEW h, NEW k, MinedIn(b, i, h), MinedIn(b, i, k)
    PROVE  h = k
<1>1. ASSUME NEW x \in 1..Height(b), NEW y \in 1..Height(b), MinedIn(b, i, x), MinedIn(b, i, y), x < y
      PROVE FALSE
  <2>1. y > 1 /\ y - 1 \in 1..Height(b) /\ x \in 1..(y - 1)
    BY <1>1, HeightType
  <2> HIDE DEF MinedIn
  <2>2. /\ Len(Outs[Path[b][x]]) \in Nat /\ Len(Outs[Path[b][y - 1]]) \in Nat
        /\ Len(Outs[Path[b][x]]) <= Len(Outs[Path[b][y - 1]])
    BY <2>1, LeavesGrow
  <2>3. Len(Outs[Path[b][x]]) >= i /\ Len(Outs[Path[b][y - 1]]) < i
    BY <1>1, <2>1 DEF MinedIn
  <2> QED
    BY <2>2, <2>3
<1> QED
  BY <1>1, HeightType DEF MinedIn

(* The block that mined a leaf exists: the lowest that has the leaf. *)
LEMMA MinedExists ==
    ASSUME NEW b \in Blocks, NEW i \in 1..Len(Outs[b])
    PROVE  MinedIn(b, i, MinedAt(b, i))
<1> DEFINE S == {Height(b) - h : h \in {k \in 1..Height(b) : Len(Outs[Path[b][k]]) >= i}}
<1>1. Height(b) \in Nat /\ Height(b) >= 1 /\ i \in Nat
  BY HeightType, OutsType
<1>2. S \in SUBSET Nat /\ S \subseteq 0..Height(b)
  BY <1>1
<1>3. IsFiniteSet(S)
  <2>1. IsFiniteSet(0..Height(b))
    BY <1>1, FS_Interval
  <2> QED
    BY <1>2, <2>1, FS_Subset
<1>4. Height(b) - Height(b) \in S
  <2>1. Len(Outs[Path[b][Height(b)]]) >= i /\ Height(b) \in 1..Height(b)
    BY <1>1, OnTip, OutsType
  <2> QED
    BY <2>1
<1>5. PICK m \in S : \A k \in S : k <= m
  BY <1>2, <1>3, <1>4, HighestExists
<1>6. PICK h \in 1..Height(b) : m = Height(b) - h /\ Len(Outs[Path[b][h]]) >= i
  BY <1>5
<1>7. ASSUME h > 1, ~(Len(Outs[Path[b][h - 1]]) < i) PROVE FALSE
  <2>1. h - 1 \in 1..Height(b)
    BY <1>1, <1>7
  <2>2. Len(Outs[Path[b][h - 1]]) >= i
    BY <1>1, <1>7, <2>1, AtType, OutsType
  <2>3. Height(b) - (h - 1) \in S
    BY <2>1, <2>2
  <2>4. Height(b) - (h - 1) <= m
    BY <1>5, <2>3
  <2> QED
    BY <1>1, <1>6, <2>1, <2>4
<1> QED
  BY <1>6, <1>7 DEF MinedIn, MinedAt

(* It is the first height that has the leaf. *)
LEMMA MinedFirst ==
    ASSUME NEW b \in Blocks, NEW i \in 1..Len(Outs[b])
    PROVE  /\ MinedAt(b, i) \in 1..Height(b)
           /\ Len(Outs[Path[b][MinedAt(b, i)]]) >= i
           /\ \A k \in 1..Height(b) : Len(Outs[Path[b][k]]) >= i => MinedAt(b, i) <= k
<1> DEFINE m == MinedAt(b, i)
<1>0. Height(b) \in Nat /\ i \in Nat
  BY HeightType, OutsType
<1>1. /\ m \in 1..Height(b) /\ Len(Outs[Path[b][m]]) >= i
      /\ m > 1 => Len(Outs[Path[b][m - 1]]) < i
  BY MinedExists DEF MinedIn
<1> HIDE DEF m
<1>2. ASSUME NEW k \in 1..Height(b), Len(Outs[Path[b][k]]) >= i, k < m
      PROVE  FALSE
  <2>1. m - 1 \in 1..Height(b) /\ k \in 1..(m - 1) /\ m > 1
    BY <1>0, <1>1, <1>2
  <2>2. /\ Len(Outs[Path[b][k]]) \in Nat /\ Len(Outs[Path[b][m - 1]]) \in Nat
        /\ Len(Outs[Path[b][k]]) <= Len(Outs[Path[b][m - 1]])
    BY <2>1, LeavesGrow
  <2> QED
    BY <1>0, <1>1, <1>2, <2>1, <2>2
<1>3. \A k \in 1..Height(b) : Len(Outs[Path[b][k]]) >= i => m <= k
  BY <1>0, <1>1, <1>2
<1> QED
  BY <1>1, <1>3 DEF m

(* Blocks of one branch agree on the height that created a leaf. *)
LEMMA MinedAgree ==
    ASSUME NEW a \in Blocks, NEW b \in Blocks, Comparable(a, b),
           NEW i \in 1..Len(Outs[a]), i \in 1..Len(Outs[b])
    PROVE  MinedAt(a, i) = MinedAt(b, i)
<1>1. ASSUME NEW x \in Blocks, NEW y \in Blocks, On(x, y), i \in 1..Len(Outs[x]), i \in 1..Len(Outs[y])
      PROVE  MinedAt(x, i) = MinedAt(y, i)
  <2> DEFINE h == MinedAt(x, i)
  <2>1. MinedIn(x, i, h) /\ MinedIn(y, i, MinedAt(y, i))
    BY <1>1, MinedExists
  <2>2. \A k \in 1..Height(x) : Path[x][k] = Path[y][k]
    BY <1>1, OnAgree
  <2>3. h \in 1..Height(y) /\ (h > 1 => h - 1 \in 1..Height(x))
    BY <1>1, <2>1, HeightType DEF MinedIn, On
  <2>4. MinedIn(y, i, h)
    BY <2>1, <2>2, <2>3 DEF MinedIn
  <2> QED
    BY <2>1, <2>4, MinedUnique
<1> QED
  BY <1>1 DEF Comparable
=============================================================================
