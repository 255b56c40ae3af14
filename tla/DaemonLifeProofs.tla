--------------------------- MODULE DaemonLifeProofs ---------------------------
(***************************************************************************)
(* Theorems about DaemonLife and the header stores under it, for any tree, *)
(* any checkpoints, any number of kills and of calls of serve.             *)
(*                                                                         *)
(* One half of the invariant holds whatever hits the stores: Sane and      *)
(* SaneUp say that no step reads what is not in a file, Served and Guarded *)
(* who serves and who closes.  The other half, Unhit, says what each step  *)
(* of a start (Started, Seeded) and of the handlers (Running) finds as     *)
(* long as no kill came at one of the moments of Hazards: a disk that is   *)
(* blank or sound, where a sound file is the chain to its tip, or to a     *)
(* block above it which the next opening cuts back.  LeftExact says what   *)
(* is left after an orderly stop.                                          *)
(*                                                                         *)
(* Unhit is kept only if rollbacks and the filter handler exclude each     *)
(* other (NoRace): with the race, FilterTipIndexed is not even true.       *)
(***************************************************************************)
EXTENDS TLAPS, DaemonLife, ChainTreeProofs, SequenceTheorems

(* The height of the first header on the block file. *)
Bottom == BaseOf("block")

(* f is the part of the chain to x that begins at height b. *)
IsChain(f, b, x) ==
    /\ Len(f) = Height(x) - b + 1
    /\ \A i \in 1..Len(f) : f[i] = Path[x][b + i - 1]

Preparing == {"decide", "rmBlock", "rmFilter", "rmDb", "mkDb", "seedBlock", "ixBlock",
              "seedFilter", "ixFilter"}
Rolling == op \in {"roll", "cutFilter", "rollBlock", "cutBlock"}

(* Whatever has hit the stores, no step reads past the end of a file, or    *)
(* takes a header of a store that has none.                                 *)
Sane ==
    /\ \A b \in Blocks : height[b] \in {0, Height(b)}
    /\ pc \in Preparing => asked \in Blocks \ {Base}
    /\ pc \in {"mkDb", "seedBlock", "ixBlock"} => tip["block"] = None
    /\ pc = "rmFilter" => file["block"] = <<>>
    /\ pc = "ixBlock" => file["block"] = <<asked>>
    /\ pc = "genBlock" => file["block"] = <<Base>>
    /\ tip["block"] # None =>
          \A i \in 1..Len(file["block"]) : Height(file["block"][i]) < Bottom + i
    /\ pc = "genBlock" => base["block"] >= 1
    /\ pc \in {"openFilter", "genFilter", "manage"} =>
          base["block"] = Bottom \/ height[tip["block"]] < base["block"]

SaneUp ==
    /\ op # "idle" \/ cf # "idle" => Up
    /\ Up => /\ tip["block"] # None /\ tip["filter"] # None /\ base["block"] = Bottom
             /\ op # "cutBlock" => Height(tip["block"]) - Bottom < Len(file["block"])
    /\ op = "index" => Height(batch) - Bottom < Len(file["block"])
    /\ Rolling => floor >= 1
    /\ op = "cutFilter" => floor < Height(tip["block"])
    /\ op = "cutBlock" => /\ Bottom < height[tip["block"]]
                          /\ Height(tip["block"]) - Bottom <= Len(file["block"])

(* The disk before anything was written, and a database with one header. *)
Blank     == exists = {} /\ \A k \in Kinds : file[k] = <<>>
Unindexed == height = NoIndex /\ mweb = {} /\ \A k \in Kinds : tip[k] = None /\ first[k] = 0
OneIndexed(x) ==
    /\ x \in Blocks /\ height = [NoIndex EXCEPT ![x] = Height(x)] /\ mweb = {}
    /\ tip["block"] = x /\ tip["filter"] = None
    /\ first["block"] = Height(x) /\ first["filter"] = 0

(* A file that ends at its tip, or has grown beyond. *)
Exact(k) == IsChain(file[k], Bottom, tip[k])
Grown(k) == \E x \in Blocks : On(tip[k], x) /\ IsChain(file[k], Bottom, x)

IndexSound ==
    /\ exists = Kinds /\ db
    /\ tip["block"] \in Blocks /\ tip["filter"] \in Blocks
    /\ first["block"] >= 1 /\ BaseOf("filter") = Bottom
    /\ Bottom <= Height(tip["filter"]) /\ On(tip["filter"], tip["block"])
    /\ \A b \in Blocks : height[b] = IF On(b, tip["block"]) /\ Height(b) >= Bottom
                                       THEN Height(b) ELSE 0
Backed     == first["block"] > Height(Base) => mweb = {"leaves", "leafset"}
Sound      == IndexSound /\ \A k \in Kinds : Grown(k)
Reaches    == asked # None => \A k \in Kinds : tip[k] # None /\ Height(tip[k]) >= Height(asked)
Opened(k)  == base[k] = Bottom /\ Exact(k)

(* What each step of a start finds, while nothing has hit the stores. *)
AtRest == (Sound /\ Backed) \/ (Blank /\ Unindexed /\ ~db)
Started ==
    /\ pc # "failed"
    /\ pc \in {"down", "decide", "rmBlock", "db"} => AtRest
    /\ pc = "db" => Reaches
    /\ pc = "openBlock" => Reaches /\ db /\ ((Sound /\ Backed) \/ (Blank /\ Unindexed))
    /\ pc = "manage" => IndexSound /\ Backed /\ Reaches /\ \A k \in Kinds : Opened(k)
    /\ pc = "openFilter" =>
         \/ Sound /\ Backed /\ Reaches /\ Opened("block")
         \/ /\ exists = {"block"} /\ file["block"] = <<Base>> /\ file["filter"] = <<>>
            /\ OneIndexed(Base) /\ db /\ base["block"] = Height(Base) /\ asked = None
    /\ pc = "genBlock" =>
         /\ exists = {"block"} /\ file["block"] = <<Base>> /\ file["filter"] = <<>>
         /\ Unindexed /\ db /\ base["block"] = Height(Base) /\ asked = None
    /\ pc = "genFilter" =>
         /\ exists = Kinds /\ (\A k \in Kinds : file[k] = <<Base>> /\ base[k] = Height(Base))
         /\ OneIndexed(Base) /\ db /\ asked = None
Seeded ==
    /\ pc = "rmFilter" => exists \subseteq {"filter"} /\ file["block"] = <<>>
    /\ pc = "rmDb" => Blank
    /\ pc \in {"mkDb", "seedBlock"} => Blank /\ Unindexed
    /\ pc = "mkDb" => ~db
    /\ pc \in {"seedBlock", "ixBlock", "seedFilter", "ixFilter"} => db
    /\ pc \in {"ixBlock", "seedFilter"} =>
         exists = {"block"} /\ file["block"] = <<asked>> /\ file["filter"] = <<>>
    /\ pc = "ixBlock" => Unindexed
    /\ pc \in {"seedFilter", "ixFilter"} => OneIndexed(asked)
    /\ pc = "ixFilter" => exists = Kinds /\ \A k \in Kinds : file[k] = <<asked>>
    /\ pc \in {"leaves", "leafset"} =>
         Sound /\ Reaches /\ mweb = IF pc = "leaves" THEN {} ELSE {"leaves"}

(* What each step of the handlers finds. *)
BlockSide ==
    /\ op \in {"idle", "roll", "cutFilter", "rollBlock"} => Exact("block")
    /\ op = "index" => On(tip["block"], batch) /\ IsChain(file["block"], Bottom, batch)
    /\ Rolling => cf = "idle" /\ regHeight = Height(tip["filter"]) /\ floor >= Bottom
    /\ op \in {"cutFilter", "rollBlock", "cutBlock"} => floor < Height(tip["block"])
    /\ op = "cutFilter" => /\ tip["filter"] = tip["block"]
                           /\ IsChain(file["filter"], Bottom, Parent(tip["block"]))
    /\ op \in {"rollBlock", "cutBlock"} => On(tip["filter"], Parent(tip["block"]))
    /\ op = "cutBlock" => IsChain(file["block"], Bottom, Parent(tip["block"]))
FilterSide ==
    /\ cf # "index" /\ op # "cutFilter" => Exact("filter")
    /\ cf # "idle" => On(tip["filter"], stop) /\ On(stop, tip["block"])
                      /\ from = Height(tip["filter"])
    /\ cf = "index" => IsChain(file["filter"], Bottom, stop)
Running ==
    Up => /\ IndexSound /\ Backed /\ \A k \in Kinds : base[k] = Bottom
          /\ BlockSide /\ FilterSide

Unhit == ~hit => Started /\ Seeded /\ Running

(* The daemon: what a call of serve that got as far as serving says of the  *)
(* gRPC server, of the handlers and of the stores.                          *)
Alive(i) == serve[i] \in {"serving"} \cup Closing
Busy(i)  == serve[i] # "none"
Served ==
    /\ \A i, k \in Servers : Alive(i) /\ Alive(k) => i = k
    /\ \A i \in Servers : Alive(i) => pc = IF serve[i] = "closed" THEN "down" ELSE "up"
    /\ \A i \in Servers : serve[i] = "closing" => handlers = {}
    /\ "block" \notin handlers => op = "idle"
    /\ "filter" \notin handlers => cf = "idle"
Guarded ==
    /\ grpc = "new" => /\ pc = "up"
                       /\ \A i, k \in Servers : Busy(i) /\ Busy(k) => i = k
                       /\ \A i \in Servers : Busy(i) => /\ serve[i] \in {"listening", "serving"}
                                                        /\ port \/ blocking = i
    /\ grpc = "stopped" => /\ pc \in {"up", "down"}
                           /\ \A i \in Servers : serve[i] # "serving"
    /\ grpc = "none" => blocking = 0 /\ ~port /\ \A i \in Servers : serve[i] = "none"
LeftExact ==
    (\E i \in Servers : serve[i] = "closed") /\ ~hit =>
        IndexSound /\ \A k \in Kinds : Exact(k)

SafeInv == LifeTypeOK /\ Sane /\ SaneUp /\ Served /\ Guarded
IInv    == SafeInv /\ Unhit /\ LeftExact

NoRace == "race" \notin Hazards
-------------------------------------------------------------------------------
(* Ancestors *)

LEMMA ParentType ==
    ASSUME NEW b \in Blocks, Height(b) >= 2
    PROVE  /\ Parent(b) \in Blocks
           /\ Height(Parent(b)) = Height(b) - 1
           /\ On(Parent(b), b)
<1>1. Height(b) - 1 \in 1..Height(b)
  BY HeightType
<1>2. /\ Path[b][Height(b) - 1] \in Blocks
      /\ Height(Path[b][Height(b) - 1]) = Height(b) - 1
  BY <1>1, AtType
<1> QED
  BY <1>1, <1>2 DEF Parent, On

LEMMA OnParent ==
    ASSUME NEW a \in Blocks, NEW b \in Blocks, On(a, b), Height(a) < Height(b)
    PROVE  On(a, Parent(b))
<1>1. Height(b) >= 2
  BY HeightType
<1> QED
  BY <1>1, ParentType, OnLower, HeightType

(* Parts of a chain *)

LEMMA ChainType ==
    ASSUME NEW f \in Seq(Blocks), NEW b \in Nat, b >= 1, NEW x \in Blocks, b <= Height(x),
           IsChain(f, b, x)
    PROVE  /\ Len(f) = Height(x) - b + 1 /\ Len(f) \in Nat /\ Len(f) >= 1 /\ f # <<>>
           /\ \A i \in 1..Len(f) : f[i] = Path[x][b + i - 1]
           /\ f[Len(f)] = x
<1>1. Len(f) = Height(x) - b + 1 /\ Len(f) \in Nat /\ Len(f) >= 1
  BY HeightType DEF IsChain
<1>2. \A i \in 1..Len(f) : f[i] = Path[x][b + i - 1]
  BY DEF IsChain
<1>3. f[Len(f)] = Path[x][b + Len(f) - 1]
  BY <1>1, <1>2
<1>4. b + Len(f) - 1 = Height(x)
  BY <1>1, HeightType
<1> QED
  BY <1>1, <1>2, <1>3, <1>4, OnTip

LEMMA ChainOne == ASSUME NEW x \in Blocks PROVE IsChain(<<x>>, Height(x), x)
<1>1. Len(<<x>>) = 1 /\ <<x>>[1] = x
  OBVIOUS
<1> QED
  BY <1>1, HeightType, OnTip DEF IsChain

LEMMA BetweenType ==
    ASSUME NEW x \in Blocks, NEW h \in Nat, h <= Height(x)
    PROVE  /\ Between(x, h) \in Seq(Blocks)
           /\ Len(Between(x, h)) = Height(x) - h
           /\ \A i \in 1..(Height(x) - h) : Between(x, h)[i] = Path[x][h + i]
<1>1. \A i \in (h + 1)..Height(x) : Path[x][i] \in Blocks
  BY AtType, HeightType
<1>2. /\ SubSeq(Path[x], h + 1, Height(x)) \in Seq(Blocks)
      /\ Len(SubSeq(Path[x], h + 1, Height(x))) =
            IF h + 1 <= Height(x) THEN Height(x) - (h + 1) + 1 ELSE 0
      /\ \A i \in 1..(Height(x) - (h + 1) + 1) :
            SubSeq(Path[x], h + 1, Height(x))[i] = Path[x][h + 1 + i - 1]
  BY <1>1, HeightType, SubSeqProperties
<1> QED
  BY <1>2, HeightType DEF Between

(* Headers above an ancestor, whatever the file. *)
LEMMA BetweenAny ==
    ASSUME NEW x \in Blocks, NEW h \in Nat
    PROVE  Between(x, h) \in Seq(Blocks)
<1>1. \A i \in (h + 1)..Height(x) : Path[x][i] \in Blocks
  BY AtType, HeightType
<1> QED
  BY <1>1, HeightType, SubSeqProperties DEF Between

LEMMA ChainExtend ==
    ASSUME NEW f \in Seq(Blocks), NEW b \in Nat, b >= 1,
           NEW a \in Blocks, NEW x \in Blocks, b <= Height(a), On(a, x), IsChain(f, b, a)
    PROVE  IsChain(f \o Between(x, Height(a)), b, x)
<1> DEFINE g == Between(x, Height(a))
<1>1. Height(a) \in Nat /\ Height(a) <= Height(x) /\ Height(x) \in Nat
  BY HeightType DEF On
<1>2. /\ g \in Seq(Blocks) /\ Len(g) = Height(x) - Height(a)
      /\ \A i \in 1..(Height(x) - Height(a)) : g[i] = Path[x][Height(a) + i]
  BY <1>1, BetweenType
<1>3. Len(f) = Height(a) - b + 1 /\ Len(f) \in Nat
  BY <1>1, ChainType
<1> HIDE DEF g
<1>4. /\ Len(f \o g) = Len(f) + Len(g)
      /\ \A i \in 1..(Len(f) + Len(g)) : (f \o g)[i] = IF i <= Len(f) THEN f[i] ELSE g[i - Len(f)]
  BY <1>2, ConcatProperties
<1>5. Len(f \o g) = Height(x) - b + 1
  BY <1>1, <1>2, <1>3, <1>4
<1>6. ASSUME NEW i \in 1..Len(f \o g) PROVE (f \o g)[i] = Path[x][b + i - 1]
  <2>1. i \in 1..(Len(f) + Len(g)) /\ i \in Nat
    BY <1>4, <1>2, <1>3
  <2>2. CASE i <= Len(f)
    <3>1. (f \o g)[i] = f[i] /\ i \in 1..Len(f)
      BY <1>4, <2>1, <2>2, <1>3
    <3>2. f[i] = Path[a][b + i - 1]
      BY <3>1 DEF IsChain
    <3>3. b + i - 1 \in 1..Height(a)
      BY <3>1, <1>3, <1>1
    <3> QED
      BY <3>1, <3>2, <3>3, OnAgree
  <2>3. CASE i > Len(f)
    <3>1. (f \o g)[i] = g[i - Len(f)] /\ i - Len(f) \in 1..(Height(x) - Height(a))
      BY <1>4, <2>1, <2>3, <1>3, <1>2
    <3>2. g[i - Len(f)] = Path[x][Height(a) + (i - Len(f))]
      BY <3>1, <1>2
    <3>3. Height(a) + (i - Len(f)) = b + i - 1
      BY <1>3, <1>1, <2>1
    <3> QED
      BY <3>1, <3>2, <3>3
  <2> QED
    BY <2>1, <2>2, <2>3, <1>3
<1>7. IsChain(f \o g, b, x)
  BY <1>5, <1>6 DEF IsChain
<1> QED
  BY <1>7 DEF g

(* A chain cut at an ancestor of its end. *)
LEMMA ChainTrim ==
    ASSUME NEW f \in Seq(Blocks), NEW b \in Nat, b >= 1,
           NEW a \in Blocks, NEW x \in Blocks, b <= Height(a) + 1, On(a, x), IsChain(f, b, x)
    PROVE  IsChain(SubSeq(f, 1, Height(a) - b + 1), b, a)
<1> DEFINE n == Height(a) - b + 1
<1>1. Height(a) \in Nat /\ Height(a) <= Height(x) /\ Height(x) \in Nat /\ n \in Nat
  BY HeightType DEF On
<1>2. Len(f) = Height(x) - b + 1
  BY DEF IsChain
<1>3. n <= Len(f) /\ n \in Int
  BY <1>1, <1>2
<1>4. \A i \in 1..n : f[i] \in Blocks
  BY <1>1, <1>3
<1>5. /\ Len(SubSeq(f, 1, n)) = IF 1 <= n THEN n - 1 + 1 ELSE 0
      /\ \A i \in 1..(n - 1 + 1) : SubSeq(f, 1, n)[i] = f[1 + i - 1]
  BY <1>3, <1>4, SubSeqProperties
<1>6. Len(SubSeq(f, 1, n)) = n
  BY <1>5, <1>1
<1>7. ASSUME NEW i \in 1..n PROVE SubSeq(f, 1, n)[i] = Path[a][b + i - 1]
  <2>1. SubSeq(f, 1, n)[i] = f[i] /\ i \in 1..Len(f)
    BY <1>5, <1>3, <1>1, <1>2
  <2>2. f[i] = Path[x][b + i - 1]
    BY <2>1 DEF IsChain
  <2>3. b + i - 1 \in 1..Height(a)
    BY <1>1
  <2> QED
    BY <2>1, <2>2, <2>3, OnAgree
<1> HIDE DEF n
<1>8. Len(SubSeq(f, 1, n)) = Height(a) - b + 1
  BY <1>6 DEF n
<1> QED
  BY <1>6, <1>7, <1>8 DEF IsChain, n

LEMMA ChainCut ==
    ASSUME NEW f \in Seq(Blocks), NEW b \in Nat, b >= 1, NEW x \in Blocks, b < Height(x),
           IsChain(f, b, x)
    PROVE  IsChain(SubSeq(f, 1, Len(f) - 1), b, Parent(x))
<1>1. /\ Height(x) >= 2 /\ Height(x) \in Nat
      /\ Parent(x) \in Blocks /\ Height(Parent(x)) = Height(x) - 1 /\ On(Parent(x), x)
  BY ParentType, HeightType
<1>2. Len(f) - 1 = Height(Parent(x)) - b + 1
  BY <1>1 DEF IsChain
<1>3. IsChain(SubSeq(f, 1, Height(Parent(x)) - b + 1), b, Parent(x))
  BY <1>1, ChainTrim
<1> QED
  BY <1>2, <1>3

LEMMA ChainIsPath ==
    ASSUME NEW f \in Seq(Blocks), NEW b \in Nat, b >= 1, NEW x \in Blocks, b <= Height(x),
           IsChain(f, b, x)
    PROVE  f = SubSeq(Path[x], b, Height(x))
<1>1. \A i \in b..Height(x) : Path[x][i] \in Blocks
  BY AtType, HeightType
<1>2. /\ SubSeq(Path[x], b, Height(x)) \in Seq(Blocks)
      /\ Len(SubSeq(Path[x], b, Height(x))) = IF b <= Height(x) THEN Height(x) - b + 1 ELSE 0
      /\ \A i \in 1..(Height(x) - b + 1) : SubSeq(Path[x], b, Height(x))[i] = Path[x][b + i - 1]
  BY <1>1, HeightType, SubSeqProperties
<1>3. Len(f) = Len(SubSeq(Path[x], b, Height(x)))
  BY <1>2 DEF IsChain
<1>4. \A i \in 1..Len(f) : f[i] = SubSeq(Path[x], b, Height(x))[i]
  BY <1>2 DEF IsChain
<1> QED
  BY <1>2, <1>3, <1>4, SeqEqual
-------------------------------------------------------------------------------
(* Types.  What the steps write to a file are blocks. *)

LEMMA BottomType ==
    ASSUME TypeOK
    PROVE  /\ Bottom \in Nat /\ Bottom >= 1
           /\ \A k \in Kinds : BaseOf(k) \in Nat /\ BaseOf(k) >= 1
<1>1. ASSUME NEW k \in Kinds PROVE BaseOf(k) \in Nat /\ BaseOf(k) >= 1
  <2>1. first[k] \in Nat /\ Height(Base) \in Nat /\ Height(Base) >= 1
    BY HeightType, BaseType DEF TypeOK
  <2> QED
    BY <2>1 DEF BaseOf
<1> QED
  BY <1>1 DEF Bottom, Kinds

LEMMA FileType ==
    ASSUME TypeOK, NEW k \in Kinds
    PROVE  /\ file[k] \in Seq(Blocks) /\ Len(file[k]) \in Nat
           /\ \A i \in 1..Len(file[k]) : file[k][i] \in Blocks
BY DEF TypeOK

LEMMA PartType ==
    ASSUME NEW f \in Seq(Blocks), NEW n \in Int, n <= Len(f)
    PROVE  /\ SubSeq(f, 1, n) \in Seq(Blocks)
           /\ Len(SubSeq(f, 1, n)) = IF n >= 1 THEN n ELSE 0
           /\ n >= 0 => Len(SubSeq(f, 1, n)) = n
           /\ \A i \in 1..Len(SubSeq(f, 1, n)) : SubSeq(f, 1, n)[i] = f[i]
<1>1. \A i \in 1..n : f[i] \in Blocks
  OBVIOUS
<1>2. /\ SubSeq(f, 1, n) \in Seq(Blocks)
      /\ Len(SubSeq(f, 1, n)) = IF 1 <= n THEN n - 1 + 1 ELSE 0
      /\ \A i \in 1..(n - 1 + 1) : SubSeq(f, 1, n)[i] = f[1 + i - 1]
  BY <1>1, SubSeqProperties
<1> QED
  BY <1>2

LEMMA ReconciledType ==
    ASSUME TypeOK, NEW k \in Kinds, Indexed(k)
    PROVE  /\ Reconciled(k) \in Seq(Blocks)
           /\ Len(Reconciled(k)) <= Len(file[k])
           /\ \A i \in 1..Len(Reconciled(k)) : Reconciled(k)[i] = file[k][i]
<1> DEFINE n == height[tip[k]] - BaseOf(k) + 1
<1>1. /\ n \in Int /\ file[k] \in Seq(Blocks) /\ Len(file[k]) \in Nat
  BY BottomType DEF TypeOK, Indexed
<1>2. CASE n <= Len(file[k])
  <2>1. /\ SubSeq(file[k], 1, n) \in Seq(Blocks)
        /\ Len(SubSeq(file[k], 1, n)) = IF n >= 1 THEN n ELSE 0
        /\ \A i \in 1..Len(SubSeq(file[k], 1, n)) : SubSeq(file[k], 1, n)[i] = file[k][i]
    BY <1>1, <1>2, PartType
  <2>2. Reconciled(k) = file[k] \/ Reconciled(k) = SubSeq(file[k], 1, n)
    BY DEF Reconciled
  <2> HIDE DEF n
  <2> QED
    BY <2>1, <2>2, <1>1, <1>2
<1>3. CASE ~(n <= Len(file[k]))
  BY <1>3, <1>1 DEF Reconciled
<1> QED
  BY <1>2, <1>3

LEMMA CutType ==
    ASSUME TypeOK, NEW k \in Kinds
    PROVE  /\ Cut(k) \in [Kinds -> Seq(Blocks)]
           /\ \A j \in Kinds : j # k => Cut(k)[j] = file[j]
           /\ Cut(k)[k] = SubSeq(file[k], 1, Len(file[k]) - 1)
           /\ Len(file[k]) >= 1 => Len(Cut(k)[k]) = Len(file[k]) - 1
           /\ \A i \in 1..Len(Cut(k)[k]) : Cut(k)[k][i] = file[k][i]
<1> DEFINE n == Len(file[k]) - 1
           g == SubSeq(file[k], 1, n)
<1>1. /\ g \in Seq(Blocks)
      /\ n >= 0 => Len(g) = n
      /\ \A i \in 1..Len(g) : g[i] = file[k][i]
  BY FileType, PartType
<1>2. file \in [Kinds -> Seq(Blocks)] /\ Len(file[k]) \in Nat
  BY DEF TypeOK
<1>3. /\ Cut(k)[k] = g
      /\ Cut(k) \in [Kinds -> Seq(Blocks)]
      /\ \A j \in Kinds : j # k => Cut(k)[j] = file[j]
  BY <1>1, <1>2 DEF Cut
<1>4. Len(file[k]) >= 1 => n >= 0
  BY <1>2
<1> HIDE DEF g
<1>5. /\ Len(file[k]) >= 1 => Len(Cut(k)[k]) = n
      /\ \A i \in 1..Len(Cut(k)[k]) : Cut(k)[k][i] = file[k][i]
  BY <1>1, <1>3, <1>4
<1> QED
  BY <1>3, <1>5 DEF g

LEMMA TipType ==
    ASSUME TypeOK, SaneUp, Up
    PROVE  /\ tip["block"] \in Blocks /\ tip["filter"] \in Blocks
           /\ Height(tip["block"]) \in Nat /\ Height(tip["filter"]) \in Nat
           /\ height[tip["block"]] \in Nat /\ height[tip["filter"]] \in Nat
BY HeightType DEF TypeOK, SaneUp, Kinds

LEMMA ConcatType ==
    ASSUME NEW f \in Seq(Blocks), NEW g \in Seq(Blocks)
    PROVE  f \o g \in Seq(Blocks)
BY ConcatProperties

(* A step of the stores, and the end of an orderly stop. *)
CloseStores == Up /\ op = "idle" /\ cf = "idle" /\ Down
StoreStep ==
    \/ \E c \in Checkpoints \cup {None} : Start(c)
    \/ DecideByFiles \/ DecideByState \/ Seed \/ Open
    \/ BlockHandler \/ CfHandler \/ Kill \/ Retry \/ CloseStores

LEMMA SeedTypes == ASSUME TypeOK, Sane, Seed PROVE TypeOK'
<1>1. ASSUME NEW k \in Kinds, NEW here, NEW next, RemoveFile(k, here, next),
             next \in {"rmFilter", "rmDb"}
      PROVE  TypeOK'
  BY <1>1 DEF TypeOK, RemoveFile, bhVars, cfVars, count
<1>2. ASSUME RemoveDb PROVE TypeOK'
  BY <1>2 DEF TypeOK, RemoveDb, bhVars, cfVars, count, NoIndex
<1>3. ASSUME CreateDb("mkDb", "seedBlock") PROVE TypeOK'
  BY <1>3 DEF TypeOK, CreateDb, bhVars, cfVars, count
<1>4. ASSUME NEW k \in Kinds, NEW here, NEW next, SeedFile(k, here, next),
             here \in Preparing, next \in {"ixBlock", "ixFilter"}
      PROVE  TypeOK'
  <2>1. asked \in Blocks
    BY <1>4 DEF Sane, SeedFile
  <2>2. <<asked>> \in Seq(Blocks)
    BY <2>1
  <2> QED
    BY <1>4, <2>2 DEF TypeOK, SeedFile, bhVars, cfVars, count
<1>5. ASSUME NEW k \in Kinds, NEW here, NEW next, SeedIndex(k, here, next),
             here \in Preparing, next \in {"seedFilter", "leaves"}
      PROVE  TypeOK'
  <2>1. asked \in Blocks
    BY <1>5 DEF Sane, SeedIndex
  <2> QED
    BY <1>5, <2>1, HeightType DEF TypeOK, SeedIndex, bhVars, cfVars, count
<1>6. ASSUME NEW what \in {"leaves", "leafset"}, NEW here, NEW next, SeedMweb(what, here, next),
             next \in {"leafset", "db"}
      PROVE  TypeOK'
  BY <1>6 DEF TypeOK, SeedMweb, bhVars, cfVars, count
<1>7. /\ "block" \in Kinds /\ "filter" \in Kinds
      /\ {"ixBlock", "ixFilter", "seedBlock", "seedFilter"} \subseteq Preparing
  BY DEF Kinds, Preparing
<1> QED
  BY <1>1, <1>2, <1>3, <1>4, <1>5, <1>6, <1>7 DEF Seed

LEMMA OpenTypes == ASSUME TypeOK, Open PROVE TypeOK'
<1> USE DEF bhVars, cfVars, count, disk
<1>1. ASSUME CreateDb("db", "openBlock") PROVE TypeOK'
  BY <1>1 DEF TypeOK, CreateDb
<1>2. ASSUME NEW k \in Kinds, NEW here, NEW next, ReopenStore(k, here, next),
             next \in {"openFilter", "manage"}
      PROVE  TypeOK'
  <2>1. Indexed(k) => Reconciled(k) \in Seq(Blocks)
    BY ReconciledType
  <2> QED
    BY <1>2, <2>1, BottomType DEF TypeOK, ReopenStore
<1>3. ASSUME NEW k \in Kinds, NEW here, NEW next, CreateStore(k, here, next),
             next \in {"genBlock", "genFilter"}
      PROVE  TypeOK'
  <2>1. <<Base>> \in Seq(Blocks)
    BY BaseType
  <2> QED
    BY <1>3, <2>1, BottomType DEF TypeOK, CreateStore
<1>4. ASSUME NEW k \in Kinds, NEW here, NEW next, IndexGenesis(k, here, next),
             next \in {"openFilter", "manage"}
      PROVE  TypeOK'
  BY <1>4, BaseType, HeightType DEF TypeOK, IndexGenesis
<1>5. ASSUME Manage PROVE TypeOK'
  BY <1>5 DEF TypeOK, Manage
<1>6. "block" \in Kinds /\ "filter" \in Kinds
  BY DEF Kinds
<1> QED
  BY <1>1, <1>2, <1>3, <1>4, <1>5, <1>6 DEF Open

LEMMA DecideTypes ==
    ASSUME TypeOK, DecideByFiles \/ DecideByState \/ (\E c \in Checkpoints \cup {None} : Start(c))
    PROVE  TypeOK'
<1> USE DEF bhVars, cfVars, count, disk
<1>1. ASSUME DecideByFiles PROVE TypeOK'
  BY <1>1 DEF TypeOK, DecideByFiles
<1>2. ASSUME DecideByState PROVE TypeOK'
  <2>1. CASE \A k \in Kinds : Indexed(k)
    <3>1. [k \in Kinds |-> Reconciled(k)] \in [Kinds -> Seq(Blocks)]
      BY <2>1, ReconciledType
    <3> QED
      BY <1>2, <3>1 DEF TypeOK, DecideByState
  <2>2. CASE ~\A k \in Kinds : Indexed(k)
    BY <1>2, <2>2 DEF TypeOK, DecideByState
  <2> QED
    BY <2>1, <2>2
<1>3. ASSUME NEW c \in Checkpoints \cup {None}, Start(c) PROVE TypeOK'
  BY <1>3, HeaderStoreAssumption DEF TypeOK, Start
<1> QED
  BY <1>1, <1>2, <1>3

LEMMA HandlerTypes ==
    ASSUME TypeOK, Sane, SaneUp, BlockHandler \/ CfHandler PROVE TypeOK'
<1> USE DEF bhVars, cfVars, count, disk
<1>k. "block" \in Kinds /\ "filter" \in Kinds
  BY DEF Kinds
<1>u. op # "idle" \/ cf # "idle" => Up
  BY DEF SaneUp
<1>1. ASSUME NEW b \in Blocks, AppendBlocks(b) PROVE TypeOK'
  <2>1. Between(b, Height(tip["block"])) \in Seq(Blocks)
    BY <1>1, TipType, BetweenAny DEF AppendBlocks
  <2>2. file["block"] \o Between(b, Height(tip["block"])) \in Seq(Blocks)
    BY <2>1, <1>k, FileType, ConcatType
  <2> QED
    BY <1>1, <2>2 DEF TypeOK, AppendBlocks
<1>2. ASSUME IndexBlocks PROVE TypeOK'
  BY <1>2, HeightType DEF TypeOK, IndexBlocks
<1>3. ASSUME NEW h \in Heights, StartRollback(h) PROVE TypeOK'
  <2>1. h \in Nat
    BY HeightType DEF Heights
  <2>2. height[tip["filter"]] \in Int
    BY <1>3, TipType DEF StartRollback
  <2> QED
    BY <1>3, <2>1, <2>2 DEF TypeOK, StartRollback
<1>4. ASSUME RollFilter PROVE TypeOK'
  BY <1>4, <1>k, CutType DEF TypeOK, RollFilter
<1>5. ASSUME FilterTipBack PROVE TypeOK'
  <2>1. tip["block"] \in Blocks /\ floor < Height(tip["block"]) /\ floor >= 1 /\ floor \in Nat
        /\ height[tip["filter"]] \in Nat
    BY <1>5, <1>u, TipType DEF FilterTipBack, SaneUp, TypeOK, Rolling
  <2>2. Parent(tip["block"]) \in Blocks
    BY <2>1, ParentType, HeightType
  <2> QED
    <3>1. regHeight' \in Int
      BY <1>5, <2>1 DEF FilterTipBack
    <3>2. tip' \in [Kinds -> Blocks \cup {None}]
      BY <1>5, <2>2 DEF FilterTipBack, TypeOK
    <3>3. op' \in {"idle", "index", "roll", "cutFilter", "rollBlock", "cutBlock"}
      BY <1>5 DEF FilterTipBack
    <3> QED
      BY <1>5, <3>1, <3>2, <3>3 DEF TypeOK, FilterTipBack
<1>6. ASSUME RollBlock PROVE TypeOK'
  BY <1>6, <1>k, CutType DEF TypeOK, RollBlock
<1>7. ASSUME BlockTipBack PROVE TypeOK'
  <2>1. /\ tip["block"] \in Blocks /\ height[tip["block"]] \in {0, Height(tip["block"])}
        /\ base["block"] = Bottom
        /\ Bottom < height[tip["block"]]
        /\ Height(tip["block"]) - Bottom <= Len(file["block"])
    BY <1>7, <1>u, TipType DEF BlockTipBack, SaneUp, Sane
  <2>2. height[tip["block"]] - base["block"] \in 1..Len(file["block"])
    BY <2>1, <1>k, BottomType, HeightType, FileType
  <2>3. file["block"][height[tip["block"]] - base["block"]] \in Blocks
    BY <2>2, <1>k, FileType
  <2> QED
    BY <1>7, <2>1, <2>3 DEF TypeOK, BlockTipBack
<1>8. ASSUME RollDone PROVE TypeOK'
  BY <1>8 DEF TypeOK, RollDone
<1>9. ASSUME NEW s \in Blocks, ReadAncestors(s) PROVE TypeOK'
  BY <1>9, TipType DEF TypeOK, ReadAncestors
<1>10. ASSUME AppendFilters PROVE TypeOK'
  <2>1. file["filter"] \o Between(stop, from) \in Seq(Blocks)
    BY <1>k, FileType, ConcatType, BetweenAny DEF TypeOK
  <2> QED
    BY <1>10, <2>1 DEF TypeOK, AppendFilters
<1>11. ASSUME FilterTipOn PROVE TypeOK'
  BY <1>11 DEF TypeOK, FilterTipOn
<1> QED
  BY <1>1, <1>2, <1>3, <1>4, <1>5, <1>6, <1>7, <1>8, <1>9, <1>10, <1>11 DEF BlockHandler, CfHandler

LEMMA DownTypes == ASSUME TypeOK, Kill \/ Retry \/ CloseStores PROVE TypeOK'
<1>1. ASSUME Idle, pc' = "down", asked' = None, UNCHANGED disk, hit' \in BOOLEAN, crashes' \in Nat
      PROVE  TypeOK'
  BY <1>1, BaseType DEF TypeOK, Idle, disk
<1>2. CASE Kill
  BY <1>1, <1>2 DEF Kill, TypeOK
<1>3. CASE Retry \/ CloseStores
  BY <1>1, <1>3 DEF Retry, CloseStores, Down, count, TypeOK
<1> QED
  BY <1>2, <1>3

LEMMA TypeStep == ASSUME TypeOK, Sane, SaneUp, StoreStep PROVE TypeOK'
BY SeedTypes, OpenTypes, DecideTypes, HandlerTypes, DownTypes DEF StoreStep
-------------------------------------------------------------------------------
(* What holds whatever has hit the stores *)

LEMMA QuietUp ==
    ASSUME SaneUp, pc # "up", pc' # "up", UNCHANGED <<bhVars, cfVars>>
    PROVE  SaneUp'
BY DEF SaneUp, Up, Rolling, bhVars, cfVars

LEMMA IdleUp == ASSUME Idle, pc' # "up" PROVE SaneUp'
BY DEF SaneUp, Up, Rolling, Idle

LEMMA SeedSane == ASSUME TypeOK, Sane, SaneUp, Seed PROVE Sane' /\ SaneUp'
<1>k. "block" \in Kinds /\ "filter" \in Kinds
  BY DEF Kinds
<1>0. SaneUp'
  <2>1. pc # "up" /\ pc' # "up" /\ UNCHANGED <<bhVars, cfVars>>
    BY DEF Seed, RemoveFile, RemoveDb, CreateDb, SeedFile, SeedIndex, SeedMweb
  <2> QED
    BY <2>1, QuietUp
<1> USE DEF Preparing
<1>1. ASSUME RemoveFile("block", "rmBlock", "rmFilter") PROVE Sane'
  BY <1>1, <1>k DEF Sane, RemoveFile, TypeOK, Bottom, BaseOf
<1>2. ASSUME RemoveFile("filter", "rmFilter", "rmDb") PROVE Sane'
  BY <1>2, <1>k DEF Sane, RemoveFile, TypeOK, Bottom, BaseOf
<1>3. ASSUME RemoveDb PROVE Sane'
  BY <1>3, <1>k DEF Sane, RemoveDb, NoIndex
<1>4. ASSUME CreateDb("mkDb", "seedBlock") PROVE Sane'
  BY <1>4 DEF Sane, CreateDb, Bottom, BaseOf
<1>5. ASSUME SeedFile("block", "seedBlock", "ixBlock") PROVE Sane'
  BY <1>5, <1>k DEF Sane, SeedFile, TypeOK, Bottom, BaseOf
<1>6. ASSUME SeedIndex("block", "ixBlock", "seedFilter") PROVE Sane'
  <2>1. /\ asked \in Blocks /\ Height(asked) \in Nat /\ Height(asked) >= 1
        /\ file' = file /\ file["block"] = <<asked>>
        /\ first'["block"] = Height(asked) /\ asked' = asked
        /\ pc' = "seedFilter"
    BY <1>6, <1>k, HeightType DEF Sane, SeedIndex, TypeOK
  <2>2. Len(<<asked>>) = 1 /\ <<asked>>[1] = asked
    OBVIOUS
  <2>3. \A i \in 1..Len(file'["block"]) : Height(file'["block"][i]) < Bottom' + i
    BY <2>1, <2>2 DEF Bottom, BaseOf
  <2>4. \A b \in Blocks : height'[b] \in {0, Height(b)}
    BY <1>6 DEF Sane, SeedIndex, TypeOK
  <2> QED
    BY <2>1, <2>3, <2>4, <1>6 DEF Sane, SeedIndex
<1>7. ASSUME SeedFile("filter", "seedFilter", "ixFilter") PROVE Sane'
  BY <1>7, <1>k DEF Sane, SeedFile, TypeOK, Bottom, BaseOf
<1>8. ASSUME SeedIndex("filter", "ixFilter", "leaves") PROVE Sane'
  <2>1. \A b \in Blocks : height'[b] \in {0, Height(b)}
    BY <1>8 DEF Sane, SeedIndex, TypeOK
  <2>2. /\ tip'["block"] = tip["block"] /\ file' = file /\ Bottom' = Bottom
        /\ pc' = "leaves"
    BY <1>8, <1>k DEF SeedIndex, TypeOK, Bottom, BaseOf
  <2> QED
    BY <2>1, <2>2 DEF Sane
<1>9. ASSUME NEW what, NEW here, NEW next \in {"leafset", "db"}, SeedMweb(what, here, next)
      PROVE  Sane'
  BY <1>9 DEF Sane, SeedMweb, Bottom, BaseOf
<1> QED
  BY <1>0, <1>1, <1>2, <1>3, <1>4, <1>5, <1>6, <1>7, <1>8, <1>9 DEF Seed

LEMMA OpenSane == ASSUME TypeOK, Sane, SaneUp, Open PROVE Sane' /\ SaneUp'
<1>k. "block" \in Kinds /\ "filter" \in Kinds
  BY DEF Kinds
<1> USE DEF Preparing
<1>0. ASSUME ~Manage PROVE SaneUp'
  <2>1. pc # "up" /\ pc' # "up" /\ UNCHANGED <<bhVars, cfVars>>
    BY <1>0 DEF Open, CreateDb, ReopenStore, CreateStore, IndexGenesis
  <2> QED
    BY <2>1, QuietUp
<1>1. ASSUME CreateDb("db", "openBlock") PROVE Sane'
  BY <1>1 DEF Sane, CreateDb, Bottom, BaseOf
<1>2. ASSUME ReopenStore("block", "openBlock", "openFilter") PROVE Sane'
  <2>1. /\ Bottom' = Bottom /\ UNCHANGED <<height, tip, asked>> /\ pc' \in {"openFilter", "failed"}
        /\ pc' = "openFilter" => base'["block"] = Bottom
    BY <1>2, <1>k DEF ReopenStore, Bottom, BaseOf, TypeOK
  <2>2. CASE ~Indexed("block")
    BY <2>1, <2>2, <1>2 DEF Sane, ReopenStore
  <2>3. CASE Indexed("block")
    <3>1. /\ Len(Reconciled("block")) \in Nat /\ Len(Reconciled("block")) <= Len(file["block"])
          /\ \A i \in 1..Len(Reconciled("block")) : Reconciled("block")[i] = file["block"][i]
          /\ Len(file["block"]) \in Nat
      BY <2>3, <1>k, ReconciledType, FileType
    <3>2. file'["block"] = Reconciled("block")
      BY <1>2, <2>3, <1>k DEF ReopenStore, TypeOK
    <3>3. tip["block"] # None =>
             \A i \in 1..Len(file'["block"]) : Height(file'["block"][i]) < Bottom + i
      BY <3>1, <3>2 DEF Sane
    <3> QED
      BY <2>1, <3>3 DEF Sane
  <2> QED
    BY <2>2, <2>3
<1>3. ASSUME CreateStore("block", "openBlock", "genBlock") PROVE Sane'
  <2>1. /\ Bottom' = Bottom /\ UNCHANGED <<height, tip, asked>> /\ pc' = "genBlock"
        /\ file'["block"] = <<Base>> /\ base'["block"] = Bottom
    BY <1>3, <1>k DEF CreateStore, Bottom, BaseOf, TypeOK
  <2>2. Len(<<Base>>) = 1 /\ <<Base>>[1] = Base
    OBVIOUS
  <2>3. Height(Base) = 1
    BY BaseHeight
  <2>4. \A i \in 1..Len(file'["block"]) : Height(file'["block"][i]) < Bottom + i
    BY <2>1, <2>2, <2>3, BottomType
  <2> QED
    BY <2>1, <2>4, BottomType DEF Sane
<1>4. ASSUME IndexGenesis("block", "genBlock", "openFilter") PROVE Sane'
  <2>1. /\ UNCHANGED <<file, asked, base>> /\ pc' = "openFilter"
        /\ file["block"] = <<Base>> /\ base["block"] >= 1 /\ base["block"] \in Nat
        /\ tip'["block"] = Base
        /\ height' = [height EXCEPT ![Base] = Height(Base)]
        /\ first'["block"] = Height(Base)
    BY <1>4, <1>k DEF IndexGenesis, Sane, TypeOK
  <2>2. Len(<<Base>>) = 1 /\ <<Base>>[1] = Base
    OBVIOUS
  <2>3. Height(Base) = 1
    BY BaseHeight
  <2>4. Bottom' = 1
    BY <2>1, <2>3 DEF Bottom, BaseOf
  <2>5. height'[Base] = 1 /\ \A b \in Blocks : height'[b] \in {0, Height(b)}
    BY <2>1, <2>3, BaseType DEF Sane, TypeOK
  <2> QED
    BY <2>1, <2>2, <2>3, <2>4, <2>5 DEF Sane
<1>5. ASSUME ReopenStore("filter", "openFilter", "manage") PROVE Sane'
  <2>1. /\ Bottom' = Bottom /\ UNCHANGED <<height, tip, asked>> /\ pc' \in {"manage", "failed"}
        /\ base'["block"] = base["block"] /\ file'["block"] = file["block"]
        /\ pc = "openFilter"
    BY <1>5, <1>k DEF ReopenStore, Bottom, BaseOf, TypeOK
  <2> QED
    BY <2>1 DEF Sane
<1>6. ASSUME CreateStore("filter", "openFilter", "genFilter") PROVE Sane'
  <2>1. /\ Bottom' = Bottom /\ UNCHANGED <<height, tip, asked>> /\ pc' = "genFilter"
        /\ base'["block"] = base["block"] /\ file'["block"] = file["block"]
        /\ pc = "openFilter"
    BY <1>6, <1>k DEF CreateStore, Bottom, BaseOf, TypeOK
  <2> QED
    BY <2>1 DEF Sane
<1>7. ASSUME IndexGenesis("filter", "genFilter", "manage") PROVE Sane'
  <2>1. /\ Bottom' = Bottom /\ UNCHANGED <<height, asked, base, file>> /\ pc' = "manage"
        /\ tip'["block"] = tip["block"] /\ pc = "genFilter"
    BY <1>7, <1>k DEF IndexGenesis, Bottom, BaseOf, TypeOK
  <2> QED
    BY <2>1 DEF Sane
<1>8. ASSUME Manage PROVE Sane' /\ SaneUp'
  <2>1. /\ UNCHANGED <<disk, asked, base, bhVars, cfVars>> /\ pc' \in {"up", "failed"} /\ pc = "manage"
        /\ pc' = "up" => HasTip("block") /\ HasTip("filter")
    BY <1>8, <1>k DEF Manage
  <2>2. Sane'
    BY <2>1 DEF Sane, disk, Bottom, BaseOf
  <2>3. op = "idle" /\ cf = "idle"
    BY <2>1 DEF SaneUp, Up
  <2>4. ASSUME pc' = "up"
        PROVE  /\ tip["block"] # None /\ tip["filter"] # None /\ base["block"] = Bottom
               /\ Height(tip["block"]) - Bottom < Len(file["block"])
    <3>0. HasTip("block") /\ HasTip("filter")
      BY <2>1, <2>4
    <3>1. /\ tip["block"] \in Blocks /\ tip["filter"] # None
          /\ height[tip["block"]] = Height(tip["block"]) /\ height[tip["block"]] \in Nat
      BY <3>0, <1>k DEF HasTip, Indexed, TypeOK, Sane
    <3>2. /\ base["block"] <= height[tip["block"]] /\ base["block"] \in Nat
          /\ height[tip["block"]] - base["block"] < Len(file["block"])
      BY <3>0, <1>k DEF HasTip, CanRead, TypeOK
    <3>3. base["block"] = Bottom
      BY <3>1, <3>2, <2>1 DEF Sane
    <3> QED
      BY <3>1, <3>2, <3>3, BaseType
  <2>5. SaneUp'
    BY <2>1, <2>3, <2>4 DEF SaneUp, Up, Rolling, disk, bhVars, cfVars, Bottom, BaseOf
  <2> QED
    BY <2>2, <2>5
<1> QED
  BY <1>0, <1>1, <1>2, <1>3, <1>4, <1>5, <1>6, <1>7, <1>8 DEF Open

LEMMA DecideSane ==
    ASSUME TypeOK, Sane, SaneUp,
           DecideByFiles \/ DecideByState \/ (\E c \in Checkpoints \cup {None} : Start(c))
    PROVE  Sane' /\ SaneUp'
<1>k. "block" \in Kinds /\ "filter" \in Kinds
  BY DEF Kinds
<1> USE DEF Preparing
<1>0. SaneUp'
  <2>1. pc # "up" /\ pc' # "up" /\ UNCHANGED <<bhVars, cfVars>>
    BY DEF DecideByFiles, DecideByState, Start
  <2> QED
    BY <2>1, QuietUp
<1>1. ASSUME DecideByFiles PROVE Sane'
  BY <1>1 DEF Sane, DecideByFiles, disk, Bottom, BaseOf
<1>2. ASSUME DecideByState PROVE Sane'
  <2>1. /\ Bottom' = Bottom /\ UNCHANGED <<height, tip, asked, base>>
        /\ pc = "decide" /\ pc' \in {"rmBlock", "db", "failed"}
    BY <1>2 DEF DecideByState, Bottom, BaseOf
  <2>2. CASE file' = file
    BY <2>1, <2>2 DEF Sane
  <2>3. CASE file' = [k \in Kinds |-> Reconciled(k)] /\ Indexed("block")
    <3>1. /\ Len(Reconciled("block")) \in Nat /\ Len(Reconciled("block")) <= Len(file["block"])
          /\ \A i \in 1..Len(Reconciled("block")) : Reconciled("block")[i] = file["block"][i]
          /\ Len(file["block"]) \in Nat
      BY <2>3, <1>k, ReconciledType, FileType
    <3>2. file'["block"] = Reconciled("block")
      BY <2>3, <1>k
    <3>3. tip["block"] # None =>
             \A i \in 1..Len(file'["block"]) : Height(file'["block"][i]) < Bottom + i
      BY <3>1, <3>2 DEF Sane
    <3> QED
      BY <2>1, <3>3 DEF Sane
  <2> QED
    BY <1>2, <1>k, <2>2, <2>3 DEF DecideByState
<1>3. ASSUME NEW c \in Checkpoints \cup {None}, Start(c) PROVE Sane'
  <2>1. c # None => c \in Blocks \ {Base}
    BY HeaderStoreAssumption
  <2> QED
    BY <1>3, <2>1 DEF Sane, Start, disk, Bottom, BaseOf
<1> QED
  BY <1>0, <1>1, <1>2, <1>3

LEMMA DownSane ==
    ASSUME TypeOK, Sane, Kill \/ Retry \/ CloseStores PROVE Sane' /\ SaneUp'
<1>1. Idle /\ pc' = "down" /\ UNCHANGED disk
  BY DEF Kill, Retry, CloseStores, Down
<1> QED
  BY <1>1, IdleUp DEF Sane, Preparing, disk, Bottom, BaseOf

LEMMA HandlerSane ==
    ASSUME TypeOK, Sane, SaneUp, BlockHandler \/ CfHandler
    PROVE  Sane' /\ SaneUp'
<1>k. "block" \in Kinds /\ "filter" \in Kinds
  BY DEF Kinds
<1>u. /\ op # "idle" \/ cf # "idle" => Up
      /\ Up /\ pc' = pc /\ asked' = asked /\ base' = base /\ first' = first
  BY DEF SaneUp, BlockHandler, CfHandler, AppendBlocks, IndexBlocks, StartRollback, RollFilter,
         FilterTipBack, RollBlock, BlockTipBack, RollDone, ReadAncestors, AppendFilters, FilterTipOn, disk
<1>t. /\ tip["block"] \in Blocks /\ tip["filter"] \in Blocks /\ base["block"] = Bottom
      /\ Height(tip["block"]) \in Nat /\ Height(tip["block"]) >= 1
      /\ height[tip["block"]] \in {0, Height(tip["block"])}
      /\ Bottom' = Bottom /\ Bottom \in Nat /\ Bottom >= 1
      /\ Len(file["block"]) \in Nat
      /\ \A i \in 1..Len(file["block"]) : Height(file["block"][i]) < Bottom + i
  BY <1>u, <1>k, TipType, HeightType, BottomType, FileType, BaseType DEF SaneUp, Sane, Bottom, BaseOf
(* What is left to show of Sane. *)
<1>s. ASSUME \A b \in Blocks : height'[b] \in {0, Height(b)},
             \A i \in 1..Len(file'["block"]) : Height(file'["block"][i]) < Bottom + i
      PROVE  Sane'
  BY <1>s, <1>u, <1>t DEF Sane, Up, Preparing
<1>h. ASSUME height' = height, file'["block"] = file["block"] PROVE Sane'
  BY <1>h, <1>s, <1>t DEF Sane
<1>1. ASSUME NEW b \in Blocks, AppendBlocks(b) PROVE Sane' /\ SaneUp'
  <2> DEFINE g == Between(b, Height(tip["block"]))
             f == file["block"]
  <2>1. /\ Height(tip["block"]) <= Height(b) /\ Height(b) \in Nat
        /\ Height(tip["block"]) - Bottom < Len(f)
    BY <1>1, <1>u, HeightType DEF AppendBlocks, On, SaneUp
  <2>2. /\ g \in Seq(Blocks) /\ Len(g) = Height(b) - Height(tip["block"])
        /\ \A i \in 1..(Height(b) - Height(tip["block"])) : g[i] = Path[b][Height(tip["block"]) + i]
    BY <2>1, <1>t, BetweenType
  <2>3. f \in Seq(Blocks)
    BY <1>k, FileType
  <2>4. file'["block"] = f \o g
    BY <1>1, <1>k DEF AppendBlocks, TypeOK
  <2> HIDE DEF f, g
  <2>5. /\ Len(f \o g) = Len(f) + Len(g)
        /\ \A i \in 1..(Len(f) + Len(g)) : (f \o g)[i] = IF i <= Len(f) THEN f[i] ELSE g[i - Len(f)]
    BY <2>2, <2>3, ConcatProperties
  <2>6. Len(f) \in Nat /\ Len(g) \in Nat
    BY <2>2, <2>1, <1>t DEF f
  <2>7. ASSUME NEW i \in 1..Len(f \o g) PROVE Height((f \o g)[i]) < Bottom + i
    <3>1. CASE i <= Len(f)
      BY <3>1, <2>5, <2>6, <1>t DEF f
    <3>2. CASE i > Len(f)
      <4>1. i - Len(f) \in 1..(Height(b) - Height(tip["block"])) /\ (f \o g)[i] = g[i - Len(f)]
        BY <3>2, <2>5, <2>6, <2>2
      <4>2. (f \o g)[i] = Path[b][Height(tip["block"]) + (i - Len(f))]
        BY <4>1, <2>2
      <4>3. Height(tip["block"]) + (i - Len(f)) \in 1..Height(b)
        BY <4>1, <2>1, <1>t, <2>6
      <4>4. Height((f \o g)[i]) = Height(tip["block"]) + (i - Len(f))
        BY <4>2, <4>3, AtType
      <4> QED
        BY <4>4, <2>1, <1>t, <2>6
    <3> QED
      BY <3>1, <3>2, <2>5, <2>6
  <2>8. Sane'
    BY <1>1, <1>s, <2>4, <2>7 DEF AppendBlocks, Sane
  <2>9. Height(b) - Bottom < Len(file'["block"]) /\ Height(tip["block"]) - Bottom < Len(file'["block"])
    BY <2>4, <2>5, <2>2, <2>1, <1>t, <2>6
  <2> QED
    BY <1>1, <2>8, <2>9, <1>u, <1>t DEF AppendBlocks, SaneUp, Up, Rolling
<1>2. ASSUME IndexBlocks PROVE Sane' /\ SaneUp'
  <2>1. /\ tip'["block"] = batch /\ tip'["filter"] = tip["filter"] /\ batch \in Blocks
        /\ op' = "idle" /\ UNCHANGED <<file, cf>> /\ op = "index"
    BY <1>2, <1>k DEF IndexBlocks, TypeOK, cfVars
  <2>2. \A b \in Blocks : height'[b] \in {0, Height(b)}
    BY <1>2 DEF IndexBlocks, Sane
  <2>3. Sane'
    BY <1>s, <2>1, <2>2, <1>t
  <2> QED
    BY <2>1, <2>3, <1>u, <1>t, BaseType DEF SaneUp, Up, Rolling
<1>3. ASSUME NEW h \in Heights, StartRollback(h) PROVE Sane' /\ SaneUp'
  <2>1. h \in Nat /\ h >= 1
    BY <1>3, HeightType, <1>t DEF Heights
  <2> QED
    BY <1>3, <1>h, <2>1, <1>u, <1>t DEF StartRollback, SaneUp, Up, Rolling, disk, cfVars
<1>4. ASSUME RollFilter PROVE Sane' /\ SaneUp'
  <2>1. file'["block"] = file["block"] /\ height' = height
    BY <1>4, <1>k, CutType DEF RollFilter
  <2> QED
    BY <1>4, <1>h, <2>1, <1>u, <1>t DEF RollFilter, SaneUp, Up, Rolling, cfVars, TypeOK
<1>5. ASSUME FilterTipBack PROVE Sane' /\ SaneUp'
  <2>1. /\ tip["block"] \in Blocks /\ floor < Height(tip["block"]) /\ floor >= 1 /\ floor \in Nat
    BY <1>5, <1>u, TipType DEF FilterTipBack, SaneUp, TypeOK, Rolling
  <2>2. Parent(tip["block"]) # None
    BY <2>1, ParentType, HeightType, BaseType
  <2>3. tip'["block"] = tip["block"] /\ tip'["filter"] # None
    BY <1>5, <1>k, <2>2 DEF FilterTipBack, TypeOK
  <2> QED
    BY <1>5, <1>h, <2>3, <1>u, <1>t DEF FilterTipBack, SaneUp, Up, Rolling, cfVars
<1>6. ASSUME RollBlock PROVE Sane' /\ SaneUp'
  <2>1. /\ UNCHANGED <<height, tip, cf, floor, batch>> /\ op' \in {"cutBlock", "idle"}
        /\ Height(tip["block"]) - Bottom < Len(file["block"])
        /\ floor >= 1
    BY <1>6, <1>u DEF RollBlock, cfVars, SaneUp, Rolling
  <2>2. CASE op' = "idle"
    <3>1. file' = file
      BY <1>6, <2>2 DEF RollBlock
    <3> QED
      BY <3>1, <2>1, <2>2, <1>h, <1>u, <1>t DEF SaneUp, Up, Rolling
  <2>3. CASE op' = "cutBlock"
    <3>1. file' = Cut("block") /\ height[tip["block"]] > Bottom
      BY <1>6, <2>3, <1>t DEF RollBlock
    <3>2. height[tip["block"]] = Height(tip["block"])
      BY <3>1, <1>t
    <3>3. /\ Len(file'["block"]) = Len(file["block"]) - 1
          /\ \A i \in 1..Len(file'["block"]) : file'["block"][i] = file["block"][i]
      <4>1. Len(file["block"]) >= 1
        BY <3>1, <3>2, <1>t, <2>1
      <4> QED
        BY <4>1, <3>1, <1>k, CutType
    <3>4. Sane'
      BY <1>s, <2>1, <3>3, <1>t DEF Sane
    <3>5. Height(tip["block"]) - Bottom <= Len(file'["block"])
      BY <3>3, <2>1, <1>t
    <3> QED
      BY <2>1, <2>3, <3>1, <3>4, <3>5, <1>u, <1>t, BaseType DEF SaneUp, Up, Rolling
  <2> QED
    BY <2>1, <2>2, <2>3
<1>7. ASSUME BlockTipBack PROVE Sane' /\ SaneUp'
  <2> DEFINE i == Height(tip["block"]) - Bottom
  <2>1. /\ height[tip["block"]] = Height(tip["block"]) /\ Bottom < Height(tip["block"])
        /\ i <= Len(file["block"])
    BY <1>7, <1>u, <1>t DEF BlockTipBack, SaneUp
  <2>2. i \in 1..Len(file["block"]) /\ i \in Nat
    BY <2>1, <1>t
  <2>3. file["block"][i] \in Blocks /\ Height(file["block"][i]) < Bottom + i
    BY <2>2, <1>k, <1>t, FileType
  <2>4. /\ tip'["block"] = file["block"][i] /\ tip'["filter"] = tip["filter"]
        /\ op' = "roll" /\ file' = file /\ UNCHANGED <<cf, floor>> /\ op = "cutBlock"
    BY <1>7, <1>k, <1>t, <2>1 DEF BlockTipBack, TypeOK, cfVars
  <2>5. \A b \in Blocks : height'[b] \in {0, Height(b)}
    BY <1>7 DEF BlockTipBack, Sane, TypeOK
  <2>6. Sane'
    BY <1>s, <2>4, <2>5, <1>t
  <2>7. Height(file["block"][i]) - Bottom < Len(file["block"])
    BY <2>2, <2>3, HeightType, <1>t
  <2> HIDE DEF i
  <2> QED
    BY <2>3, <2>4, <2>6, <2>7, <1>u, <1>t, BaseType DEF SaneUp, Up, Rolling
<1>8. ASSUME RollDone PROVE Sane' /\ SaneUp'
  BY <1>8, <1>h, <1>u, <1>t DEF RollDone, SaneUp, Up, Rolling, disk, cfVars
<1>9. ASSUME NEW s \in Blocks, ReadAncestors(s) PROVE Sane' /\ SaneUp'
  BY <1>9, <1>h, <1>u, <1>t DEF ReadAncestors, SaneUp, Up, Rolling, disk, bhVars
<1>10. ASSUME AppendFilters PROVE Sane' /\ SaneUp'
  <2>1. file'["block"] = file["block"] /\ height' = height
    BY <1>10, <1>k DEF AppendFilters, TypeOK
  <2> QED
    BY <1>10, <1>h, <2>1, <1>u, <1>t DEF AppendFilters, SaneUp, Up, Rolling, bhVars
<1>11. ASSUME FilterTipOn PROVE Sane' /\ SaneUp'
  <2>1. tip'["block"] = tip["block"] /\ tip'["filter"] # None
    BY <1>11, <1>k, BaseType DEF FilterTipOn, TypeOK
  <2> QED
    BY <1>11, <1>h, <2>1, <1>u, <1>t DEF FilterTipOn, SaneUp, Up, Rolling, bhVars
<1> QED
  BY <1>1, <1>2, <1>3, <1>4, <1>5, <1>6, <1>7, <1>8, <1>9, <1>10, <1>11 DEF BlockHandler, CfHandler

LEMMA SaneStep == ASSUME TypeOK, Sane, SaneUp, StoreStep PROVE Sane' /\ SaneUp'
BY SeedSane, OpenSane, DecideSane, DownSane, HandlerSane DEF StoreStep

LEMMA StoreInit == Init => TypeOK /\ Sane /\ SaneUp
<1> SUFFICES ASSUME Init PROVE TypeOK /\ Sane /\ SaneUp
  OBVIOUS
<1>1. TypeOK
  <2>1. /\ <<>> \in Seq(Blocks) /\ Base \in Blocks /\ 0 \in Nat
    BY BaseType
  <2>2. /\ file \in [Kinds -> Seq(Blocks)] /\ height \in [Blocks -> Nat]
        /\ tip \in [Kinds -> Blocks \cup {None}]
        /\ first \in [Kinds -> Nat] /\ base \in [Kinds -> Nat]
    BY <2>1 DEF Init, NoIndex
  <2>3. /\ exists \subseteq Kinds /\ mweb \subseteq {"leaves", "leafset"}
        /\ asked \in Blocks \cup {None} /\ batch \in Blocks /\ stop \in Blocks
        /\ db \in BOOLEAN /\ hit \in BOOLEAN /\ crashes \in Nat
    BY <2>1 DEF Init
  <2>4. pc = "down" /\ op = "idle" /\ cf = "idle" /\ floor = 0 /\ regHeight = 0 /\ from = 0
    BY DEF Init
  <2> QED
    BY <2>2, <2>3, <2>4 DEF TypeOK
<1>2. Sane
  BY DEF Init, Sane, NoIndex, Preparing, Kinds
<1>3. SaneUp
  BY DEF Init, SaneUp, Up, Rolling
<1> QED
  BY <1>1, <1>2, <1>3
-------------------------------------------------------------------------------
(* What a start finds on the disk while nothing has hit the stores *)

LEMMA KindsAre == "block" \in Kinds /\ "filter" \in Kinds /\ \A k \in Kinds : k = "block" \/ k = "filter"
BY DEF Kinds

LEMMA DiskKept ==
    ASSUME UNCHANGED disk
    PROVE  /\ (IndexSound' <=> IndexSound) /\ (Backed' <=> Backed) /\ (Sound' <=> Sound)
           /\ (Blank' <=> Blank) /\ (Unindexed' <=> Unindexed) /\ (AtRest' <=> AtRest)
           /\ \A k : (Exact(k)' <=> Exact(k)) /\ (Grown(k)' <=> Grown(k))
           /\ Bottom' = Bottom
<1>1. Bottom' = Bottom /\ BaseOf("filter")' = BaseOf("filter")
  BY DEF Bottom, BaseOf, disk
<1>2. \A k : (Exact(k)' <=> Exact(k)) /\ (Grown(k)' <=> Grown(k))
  BY <1>1 DEF Exact, Grown, disk
<1>3. (IndexSound' <=> IndexSound) /\ (Backed' <=> Backed)
  BY <1>1 DEF IndexSound, Backed, disk
<1>4. (Sound' <=> Sound)
  BY <1>2, <1>3 DEF Sound
<1>5. (Blank' <=> Blank) /\ (Unindexed' <=> Unindexed)
  BY DEF Blank, Unindexed, disk
<1> QED
  BY <1>1, <1>2, <1>3, <1>4, <1>5 DEF AtRest, disk

LEMMA SoundTips ==
    ASSUME TypeOK, IndexSound, NEW k \in Kinds
    PROVE  /\ tip[k] \in Blocks /\ tip[k] # None /\ Height(tip[k]) \in Nat
           /\ Bottom <= Height(tip[k]) /\ height[tip[k]] = Height(tip[k])
           /\ BaseOf(k) = Bottom /\ Indexed(k)
           /\ On(tip[k], tip["block"])
<1>1. tip[k] \in Blocks /\ BaseOf(k) = Bottom /\ On(tip[k], tip["block"])
  BY KindsAre, OnSelf DEF IndexSound, Bottom
<1>2. Bottom <= Height(tip[k])
  BY KindsAre, HeightType, BottomType DEF IndexSound, On
<1>3. height[tip[k]] = Height(tip[k])
  BY <1>1, <1>2 DEF IndexSound
<1> QED
  BY <1>1, <1>2, <1>3, HeightType, BaseType, BottomType DEF Indexed

LEMMA ExactGrown == TypeOK /\ IndexSound => \A x \in Kinds : Exact(x) => Grown(x)
BY SoundTips, OnSelf DEF Exact, Grown

LEMMA ExactSound ==
    ASSUME TypeOK, IndexSound, \A k \in Kinds : Exact(k)
    PROVE  Sound
BY ExactGrown DEF Sound

(* Opening a sound store leaves the chain to its tip. *)
LEMMA ReconcileExact ==
    ASSUME TypeOK, Sound, NEW k \in Kinds
    PROVE  /\ file[k] # <<>>
           /\ Reconciled(k) \in Seq(Blocks)
           /\ IsChain(Reconciled(k), Bottom, tip[k])
           /\ CanRead(Reconciled(k), BaseOf(k), height[tip[k]])
<1> DEFINE n == Height(tip[k]) - Bottom + 1
<1>1. /\ tip[k] \in Blocks /\ Height(tip[k]) \in Nat /\ Bottom <= Height(tip[k])
      /\ height[tip[k]] = Height(tip[k]) /\ BaseOf(k) = Bottom /\ Indexed(k)
      /\ Bottom \in Nat /\ Bottom >= 1
  BY SoundTips, BottomType DEF Sound
<1>2. PICK x \in Blocks : On(tip[k], x) /\ IsChain(file[k], Bottom, x)
  BY DEF Sound, Grown
<1>3. file[k] \in Seq(Blocks) /\ Len(file[k]) \in Nat
  BY FileType
<1>4. Height(tip[k]) <= Height(x) /\ Height(x) \in Nat /\ Bottom <= Height(x)
  BY <1>1, <1>2, HeightType DEF On
<1>5. /\ Len(file[k]) = Height(x) - Bottom + 1 /\ file[k] # <<>>
      /\ file[k][Len(file[k])] = x
  BY <1>1, <1>2, <1>3, <1>4, ChainType
<1>6. Reconciled(k) \in Seq(Blocks)
  BY <1>1, ReconciledType
<1>7. IsChain(Reconciled(k), Bottom, tip[k])
  <2>1. CASE x = tip[k]
    <3>1. Len(file[k]) <= n
      BY <2>1, <1>5
    <3>2. Reconciled(k) = file[k]
      BY <3>1, <1>1 DEF Reconciled
    <3> QED
      BY <3>2, <2>1, <1>2
  <2>2. CASE x # tip[k]
    <3>1. ~(Height(x) <= Height(tip[k]))
      BY <2>2, <1>1, <1>2, OnSameHeight
    <3>2. ~(Len(file[k]) <= n)
      BY <3>1, <1>1, <1>4, <1>5
    <3>3. Reconciled(k) = SubSeq(file[k], 1, n)
      BY <3>2, <2>2, <1>1, <1>5 DEF Reconciled
    <3>4. IsChain(SubSeq(file[k], 1, n), Bottom, tip[k])
      BY <1>1, <1>2, <1>3, ChainTrim
    <3> QED
      BY <3>3, <3>4
  <2> QED
    BY <2>1, <2>2
<1>8. Len(Reconciled(k)) = Height(tip[k]) - Bottom + 1
  BY <1>1, <1>6, <1>7, ChainType
<1> QED
  BY <1>1, <1>5, <1>6, <1>7, <1>8 DEF CanRead

LEMMA BlankFiles == ASSUME Blank PROVE file["block"] = <<>> /\ file["filter"] = <<>> /\ exists = {}
BY KindsAre DEF Blank

LEMMA NotUp == ASSUME pc' # "up" PROVE Running'
BY DEF Running, Up

LEMMA StartUnhit ==
    ASSUME NEW c \in Checkpoints \cup {None}, Start(c), Started
    PROVE  Started' /\ Seeded'
<1>1. /\ UNCHANGED disk /\ pc = "down" /\ pc' \in {"db", "decide"} /\ asked' = c
      /\ pc' = "db" => c = None
  BY DEF Start
<1>2. AtRest'
  BY <1>1, DiskKept DEF Started
<1>3. pc' = "db" => Reaches'
  BY <1>1 DEF Reaches
<1>4. Started'
  BY <1>1, <1>2, <1>3 DEF Started
<1> QED
  BY <1>1, <1>4 DEF Seeded

LEMMA DecideUnhit ==
    ASSUME TypeOK, TypeOK', Started, DecideByFiles \/ DecideByState, asked \in Blocks
    PROVE  Started' /\ Seeded'
<1>1. CASE DecideByFiles
  <2>1. /\ UNCHANGED disk /\ pc = "decide" /\ pc' \in {"db", "rmBlock"} /\ (exists = {} \/ ~db)
        /\ pc' = "db" => db
    BY <1>1 DEF DecideByFiles
  <2>2. AtRest /\ AtRest'
    BY <2>1, DiskKept DEF Started
  <2>3. ~db
    BY <2>1, <2>2 DEF AtRest, Sound, IndexSound, Kinds
  <2>4. Started'
    BY <2>1, <2>2, <2>3 DEF Started
  <2> QED
    BY <2>1, <2>3, <2>4 DEF Seeded
<1>2. CASE DecideByState
  <2>1. pc = "decide" /\ exists # {} /\ db
        /\ UNCHANGED <<exists, db, height, tip, first, mweb, asked>>
    BY <1>2 DEF DecideByState
  <2>2. Sound /\ Backed
    BY <2>1, BlankFiles DEF Started, AtRest
  <2>3. \A k \in Kinds : file[k] # <<>> /\ Indexed(k)
                         /\ CanRead(Reconciled(k), BaseOf(k), height[tip[k]])
    BY <2>2, ReconcileExact, SoundTips DEF Sound
  <2>4. file' = [k \in Kinds |-> Reconciled(k)] /\ pc' = IF Behind THEN "rmBlock" ELSE "db"
    BY <1>2, <2>3 DEF DecideByState
  <2>5. IndexSound' /\ Backed' /\ Bottom' = Bottom
    BY <2>1, <2>2 DEF Sound, IndexSound, Backed, Bottom, BaseOf
  <2>6. \A k \in Kinds : Exact(k)'
    BY <2>1, <2>2, <2>4, <2>5, ReconcileExact DEF Exact
  <2>7. Sound'
    <3>1. (TypeOK /\ IndexSound /\ (\A k \in Kinds : Exact(k)) => Sound)'
      BY ExactSound, PTL
    <3> QED
      BY <3>1, <2>5, <2>6
  <2>8. pc' = "db" => Reaches'
    <3>1. ASSUME ~Behind, NEW k \in Kinds PROVE tip[k] # None /\ Height(tip[k]) >= Height(asked)
      <4>1. /\ tip[k] # None /\ height[tip[k]] = Height(tip[k]) /\ Height(tip[k]) \in Nat
        BY <2>2, SoundTips DEF Sound
      <4>2. ~(height[tip[k]] < Height(asked))
        BY <3>1, KindsAre DEF Behind
      <4> QED
        BY <4>1, <4>2, HeightType
    <3> QED
      BY <3>1, <2>1, <2>4 DEF Reaches
  <2>9. Started'
    BY <2>4, <2>5, <2>7, <2>8 DEF Started, AtRest
  <2> QED
    BY <2>4, <2>9 DEF Seeded
<1> QED
  BY <1>1, <1>2

(* One header, indexed in both stores, is a chain. *)
OneStored(x) ==
    /\ height = [NoIndex EXCEPT ![x] = Height(x)]
    /\ tip["block"] = x /\ tip["filter"] = x
    /\ first["block"] = Height(x) /\ BaseOf("filter") = Height(x)
    /\ exists = Kinds /\ db /\ \A k \in Kinds : file[k] = <<x>>

LEMMA OneSound ==
    \A x \in Blocks : OneStored(x) => IndexSound /\ \A k \in Kinds : Exact(k) /\ Grown(k)
<1> SUFFICES ASSUME NEW x \in Blocks, OneStored(x)
             PROVE  IndexSound /\ \A k \in Kinds : Exact(k) /\ Grown(k)
  OBVIOUS
<1> USE DEF OneStored
<1>1. Height(x) \in Nat /\ Height(x) >= 1 /\ Bottom = Height(x)
  BY HeightType DEF Bottom, BaseOf
<1>2. ASSUME NEW b \in Blocks
      PROVE  height[b] = IF On(b, x) /\ Height(b) >= Bottom THEN Height(b) ELSE 0
  <2>1. CASE b = x
    BY <2>1, <1>1, OnSelf DEF NoIndex
  <2>2. CASE b # x
    <3>1. height[b] = 0
      BY <2>2 DEF NoIndex
    <3>2. ~(On(b, x) /\ Height(b) >= Bottom)
      BY <2>2, <1>1, OnSameHeight
    <3> QED
      BY <3>1, <3>2
  <2> QED
    BY <2>1, <2>2
<1>3. IndexSound
  BY <1>1, <1>2, OnSelf DEF IndexSound
<1>4. ASSUME NEW k \in Kinds PROVE Exact(k) /\ Grown(k)
  <2>1. tip[k] = x
    BY KindsAre
  <2>2. IsChain(file[k], Bottom, x)
    BY <1>1, ChainOne
  <2> QED
    BY <2>1, <2>2, OnSelf DEF Exact, Grown
<1> QED
  BY <1>3, <1>4

LEMMA SeedUnhit ==
    ASSUME TypeOK, Sane, Started, Seeded, Seed
    PROVE  Started' /\ Seeded'
<1>1. ASSUME RemoveFile("block", "rmBlock", "rmFilter") PROVE Started' /\ Seeded'
  <2>1. pc' = "rmFilter" /\ file'["block"] = <<>> /\ exists' \subseteq {"filter"}
    BY <1>1, KindsAre DEF RemoveFile, TypeOK
  <2> QED
    BY <2>1 DEF Started, Seeded
<1>2. ASSUME RemoveFile("filter", "rmFilter", "rmDb") PROVE Started' /\ Seeded'
  <2>1. /\ pc' = "rmDb" /\ file'["filter"] = <<>> /\ file'["block"] = <<>>
        /\ exists' = {}
    BY <1>2, KindsAre DEF RemoveFile, TypeOK, Seeded
  <2>2. Blank'
    BY <2>1, KindsAre DEF Blank
  <2> QED
    BY <2>1, <2>2 DEF Started, Seeded
<1>3. ASSUME RemoveDb PROVE Started' /\ Seeded'
  <2>1. pc' = "mkDb" /\ Blank' /\ ~db' /\ Unindexed'
    BY <1>3 DEF RemoveDb, Seeded, Blank, Unindexed
  <2> QED
    BY <2>1 DEF Started, Seeded
<1>4. ASSUME CreateDb("mkDb", "seedBlock") PROVE Started' /\ Seeded'
  <2>1. pc' = "seedBlock" /\ Blank' /\ db' /\ Unindexed'
    BY <1>4 DEF CreateDb, Seeded, Blank, Unindexed
  <2> QED
    BY <2>1 DEF Started, Seeded
<1>5. ASSUME SeedFile("block", "seedBlock", "ixBlock") PROVE Started' /\ Seeded'
  <2>1. /\ pc' = "ixBlock" /\ db' /\ Unindexed' /\ exists' = {"block"}
        /\ file'["block"] = <<asked'>> /\ file'["filter"] = <<>>
    BY <1>5, KindsAre DEF SeedFile, Seeded, Blank, Unindexed, TypeOK
  <2> QED
    BY <2>1 DEF Started, Seeded
<1>6. ASSUME SeedIndex("block", "ixBlock", "seedFilter") PROVE Started' /\ Seeded'
  <2>1. /\ pc' = "seedFilter" /\ db' /\ exists' = {"block"} /\ asked' = asked /\ asked \in Blocks
        /\ file'["block"] = <<asked'>> /\ file'["filter"] = <<>> /\ Unindexed
    BY <1>6 DEF SeedIndex, Seeded, Sane, Preparing
  <2>2. OneIndexed(asked)'
    BY <1>6, <2>1, KindsAre DEF SeedIndex, Unindexed, OneIndexed, TypeOK
  <2> QED
    BY <2>1, <2>2 DEF Started, Seeded
<1>7. ASSUME SeedFile("filter", "seedFilter", "ixFilter") PROVE Started' /\ Seeded'
  <2>1. /\ pc' = "ixFilter" /\ db' /\ exists' = Kinds /\ OneIndexed(asked)'
        /\ file'["block"] = <<asked'>> /\ file'["filter"] = <<asked'>>
    BY <1>7, KindsAre DEF SeedFile, Seeded, OneIndexed, TypeOK, Kinds
  <2> QED
    BY <2>1, KindsAre DEF Started, Seeded
<1>8. ASSUME SeedIndex("filter", "ixFilter", "leaves") PROVE Started' /\ Seeded'
  <2>1. /\ pc' = "leaves" /\ db' /\ exists' = Kinds /\ asked' = asked /\ asked \in Blocks
        /\ \A k \in Kinds : file'[k] = <<asked>>
        /\ OneIndexed(asked)
    BY <1>8 DEF SeedIndex, Seeded, Sane, Preparing
  <2>2. /\ height' = [NoIndex EXCEPT ![asked] = Height(asked)]
        /\ tip'["block"] = asked /\ tip'["filter"] = asked
        /\ first'["block"] = Height(asked) /\ first'["filter"] = Height(asked)
        /\ mweb' = {}
    BY <1>8, <2>1, KindsAre DEF SeedIndex, OneIndexed, TypeOK, NoIndex
  <2>3. BaseOf("filter")' = Height(asked)
    BY <2>1, <2>2, HeightType DEF BaseOf
  <2>4. Sound'
    <3>1. (\A x \in Blocks : OneStored(x) => IndexSound /\ \A k \in Kinds : Exact(k) /\ Grown(k))'
      BY OneSound, PTL
    <3>2. OneStored(asked)'
      BY <2>1, <2>2, <2>3 DEF OneStored
    <3> QED
      BY <3>1, <3>2, <2>1 DEF Sound
  <2>5. Reaches'
    BY <2>1, <2>2, KindsAre, HeightType, BaseType DEF Reaches
  <2> QED
    BY <2>1, <2>2, <2>4, <2>5 DEF Started, Seeded
<1>9. ASSUME SeedMweb("leaves", "leaves", "leafset") PROVE Started' /\ Seeded'
  <2>1. /\ pc' = "leafset" /\ mweb' = {"leaves"} /\ Sound /\ Reaches
        /\ UNCHANGED <<exists, file, db, height, tip, first, asked>>
    BY <1>9 DEF SeedMweb, Seeded
  <2>2. Sound' /\ Reaches'
    BY <2>1 DEF Sound, Reaches, IndexSound, Grown, Bottom, BaseOf
  <2> QED
    BY <2>1, <2>2 DEF Started, Seeded
<1>10. ASSUME SeedMweb("leafset", "leafset", "db") PROVE Started' /\ Seeded'
  <2>1. /\ pc' = "db" /\ mweb' = {"leaves", "leafset"} /\ Sound /\ Reaches
        /\ UNCHANGED <<exists, file, db, height, tip, first, asked>>
    BY <1>10 DEF SeedMweb, Seeded
  <2>2. Sound' /\ Reaches' /\ Backed'
    BY <2>1 DEF Sound, Reaches, IndexSound, Grown, Bottom, BaseOf, Backed
  <2> QED
    BY <2>1, <2>2 DEF Started, Seeded, AtRest
<1> QED
  BY <1>1, <1>2, <1>3, <1>4, <1>5, <1>6, <1>7, <1>8, <1>9, <1>10 DEF Seed

LEMMA OpenUnhit ==
    ASSUME TypeOK, TypeOK', SaneUp, Started, Open
    PROVE  Started' /\ Seeded' /\ Running'
<1>0. pc' = "up" => Manage
  BY DEF Open, CreateDb, ReopenStore, CreateStore, IndexGenesis
<1>q. ASSUME Sound, IndexSound', Bottom' = Bottom, tip' = tip, NEW k \in Kinds,
             file' = [file EXCEPT ![k] = Reconciled(k)]
      PROVE  Exact(k)' /\ Sound' /\ \A j \in Kinds : Exact(j) => Exact(j)'
  <2>1. file'[k] = Reconciled(k) /\ \A j \in Kinds \ {k} : file'[j] = file[j]
    BY <1>q DEF TypeOK
  <2>2. Exact(k)'
    BY <1>q, <2>1, ReconcileExact DEF Exact
  <2>3. Grown(k)'
    <3>1. (TypeOK /\ IndexSound => \A x \in Kinds : Exact(x) => Grown(x))'
      BY ExactGrown, PTL
    <3> QED
      BY <3>1, <2>2, <1>q
  <2>4. \A j \in Kinds \ {k} : Grown(j)' /\ (Exact(j) => Exact(j)')
    BY <1>q, <2>1 DEF Sound, Grown, Exact
  <2> QED
    BY <1>q, <2>2, <2>3, <2>4 DEF Sound
<1>1. ASSUME CreateDb("db", "openBlock") PROVE Started' /\ Seeded'
  <2>1. /\ pc = "db" /\ pc' = "openBlock" /\ db'
        /\ UNCHANGED <<exists, file, height, tip, first, mweb, asked>>
    BY <1>1 DEF CreateDb
  <2>2. Reaches'
    BY <2>1 DEF Started, Reaches
  <2>3. Bottom' = Bottom /\ BaseOf("filter")' = BaseOf("filter")
    BY <2>1 DEF Bottom, BaseOf
  <2>4. CASE Sound /\ Backed
    <3>1. Sound' /\ Backed'
      BY <2>1, <2>3, <2>4 DEF Sound, IndexSound, Grown, Backed
    <3> QED
      BY <2>1, <2>2, <3>1 DEF Started, Seeded
  <2>5. CASE Blank /\ Unindexed
    <3>1. Blank' /\ Unindexed'
      BY <2>1, <2>5 DEF Blank, Unindexed
    <3> QED
      BY <2>1, <2>2, <3>1 DEF Started, Seeded
  <2> QED
    BY <2>1, <2>4, <2>5 DEF Started, AtRest
<1>2. ASSUME ReopenStore("block", "openBlock", "openFilter") PROVE Started' /\ Seeded'
  <2>1. /\ pc = "openBlock" /\ file["block"] # <<>>
        /\ UNCHANGED <<exists, db, height, tip, first, mweb, asked>>
    BY <1>2 DEF ReopenStore
  <2>2. Sound /\ Backed /\ Reaches
    BY <2>1, BlankFiles DEF Started
  <2>3. /\ file' = [file EXCEPT !["block"] = Reconciled("block")]
        /\ base' = [base EXCEPT !["block"] = BaseOf("block")] /\ pc' = "openFilter"
    BY <1>2, <2>2, SoundTips, KindsAre DEF ReopenStore, Sound
  <2>4. Bottom' = Bottom /\ BaseOf("filter")' = BaseOf("filter") /\ base'["block"] = Bottom
    BY <2>1, <2>3, KindsAre DEF Bottom, BaseOf, TypeOK
  <2>5. IndexSound' /\ Backed' /\ Reaches'
    BY <2>1, <2>2, <2>4 DEF Sound, IndexSound, Backed, Reaches
  <2>6. Exact("block")' /\ Sound'
    BY <1>q, <2>1, <2>2, <2>3, <2>4, <2>5, KindsAre
  <2>7. Opened("block")'
    BY <2>4, <2>6 DEF Opened
  <2> QED
    BY <2>3, <2>5, <2>6, <2>7 DEF Started, Seeded
<1>3. ASSUME CreateStore("block", "openBlock", "genBlock") PROVE Started' /\ Seeded'
  <2>1. /\ pc = "openBlock" /\ file["block"] = <<>>
        /\ UNCHANGED <<db, height, tip, first, mweb, asked>>
        /\ pc' = "genBlock" /\ exists' = exists \cup {"block"}
        /\ file' = [file EXCEPT !["block"] = <<Base>>]
        /\ base' = [base EXCEPT !["block"] = BaseOf("block")]
    BY <1>3 DEF CreateStore
  <2>2. Blank /\ Unindexed /\ Reaches /\ db
    BY <2>1, ReconcileExact, KindsAre DEF Started
  <2>3. base'["block"] = Height(Base) /\ asked = None
    BY <2>1, <2>2, KindsAre DEF Unindexed, BaseOf, Reaches, TypeOK
  <2>4. file'["block"] = <<Base>> /\ file'["filter"] = <<>> /\ exists' = {"block"}
    BY <2>1, <2>2, BlankFiles, KindsAre DEF TypeOK
  <2>5. Unindexed'
    BY <2>1, <2>2 DEF Unindexed
  <2> QED
    BY <2>1, <2>2, <2>3, <2>4, <2>5 DEF Started, Seeded
<1>4. ASSUME IndexGenesis("block", "genBlock", "openFilter") PROVE Started' /\ Seeded'
  <2>1. /\ pc = "genBlock" /\ pc' = "openFilter" /\ UNCHANGED <<exists, file, db, mweb, asked, base>>
        /\ tip' = [tip EXCEPT !["block"] = Base]
        /\ height' = [height EXCEPT ![Base] = Height(Base)]
        /\ first' = [first EXCEPT !["block"] = Height(Base)]
    BY <1>4 DEF IndexGenesis
  <2>2. Unindexed
    BY <2>1 DEF Started
  <2>3. OneIndexed(Base)'
    BY <2>1, <2>2, BaseType, KindsAre DEF Unindexed, OneIndexed, TypeOK
  <2> QED
    BY <2>1, <2>3 DEF Started, Seeded
<1>5. ASSUME ReopenStore("filter", "openFilter", "manage") PROVE Started' /\ Seeded'
  <2>1. /\ pc = "openFilter" /\ file["filter"] # <<>>
        /\ UNCHANGED <<exists, db, height, tip, first, mweb, asked>>
    BY <1>5 DEF ReopenStore
  <2>2. Sound /\ Backed /\ Reaches /\ Opened("block")
    BY <2>1 DEF Started
  <2>3. /\ file' = [file EXCEPT !["filter"] = Reconciled("filter")]
        /\ base' = [base EXCEPT !["filter"] = BaseOf("filter")] /\ pc' = "manage"
    BY <1>5, <2>2, SoundTips, KindsAre DEF ReopenStore, Sound
  <2>4. /\ Bottom' = Bottom /\ BaseOf("filter")' = BaseOf("filter")
        /\ base'["filter"] = Bottom /\ base'["block"] = base["block"]
    BY <2>1, <2>2, <2>3, KindsAre, SoundTips DEF Bottom, BaseOf, TypeOK, Sound
  <2>5. IndexSound' /\ Backed' /\ Reaches'
    BY <2>1, <2>2, <2>4 DEF Sound, IndexSound, Backed, Reaches
  <2>6. Exact("filter")' /\ Exact("block")'
    BY <1>q, <2>1, <2>2, <2>3, <2>4, <2>5, KindsAre DEF Opened
  <2>7. Opened("block")' /\ Opened("filter")'
    BY <2>2, <2>4, <2>6 DEF Opened
  <2> QED
    BY <2>3, <2>5, <2>7, KindsAre DEF Started, Seeded
<1>6. ASSUME CreateStore("filter", "openFilter", "genFilter") PROVE Started' /\ Seeded'
  <2>1. /\ pc = "openFilter" /\ file["filter"] = <<>>
        /\ UNCHANGED <<db, height, tip, first, mweb, asked>>
        /\ pc' = "genFilter" /\ exists' = exists \cup {"filter"}
        /\ file' = [file EXCEPT !["filter"] = <<Base>>]
        /\ base' = [base EXCEPT !["filter"] = BaseOf("filter")]
    BY <1>6 DEF CreateStore
  <2>2. /\ exists = {"block"} /\ file["block"] = <<Base>>
        /\ OneIndexed(Base) /\ db /\ base["block"] = Height(Base) /\ asked = None
    BY <2>1, ReconcileExact, KindsAre DEF Started
  <2>3. base'["filter"] = Height(Base) /\ base'["block"] = Height(Base)
    BY <2>1, <2>2, KindsAre DEF OneIndexed, BaseOf, TypeOK
  <2>4. file'["block"] = <<Base>> /\ file'["filter"] = <<Base>> /\ exists' = Kinds
    BY <2>1, <2>2, KindsAre DEF TypeOK, Kinds
  <2>5. OneIndexed(Base)'
    BY <2>1, <2>2 DEF OneIndexed
  <2> QED
    BY <2>1, <2>2, <2>3, <2>4, <2>5, KindsAre DEF Started, Seeded
<1>7. ASSUME IndexGenesis("filter", "genFilter", "manage") PROVE Started' /\ Seeded'
  <2>1. /\ pc = "genFilter" /\ pc' = "manage"
        /\ UNCHANGED <<exists, file, db, mweb, asked, base, height, first>>
        /\ tip' = [tip EXCEPT !["filter"] = Base]
    BY <1>7 DEF IndexGenesis
  <2>2. /\ exists = Kinds /\ (\A k \in Kinds : file[k] = <<Base>> /\ base[k] = Height(Base))
        /\ OneIndexed(Base) /\ db /\ asked = None
    BY <2>1 DEF Started
  <2>3. /\ tip'["block"] = Base /\ tip'["filter"] = Base
        /\ height' = [NoIndex EXCEPT ![Base] = Height(Base)]
        /\ first'["block"] = Height(Base) /\ BaseOf("filter")' = Height(Base)
    BY <2>1, <2>2, KindsAre DEF OneIndexed, TypeOK, BaseOf
  <2>4. IndexSound' /\ \A k \in Kinds : Exact(k)'
    <3>1. (\A x \in Blocks : OneStored(x) => IndexSound /\ \A k \in Kinds : Exact(k) /\ Grown(k))'
      BY OneSound, PTL
    <3>2. OneStored(Base)'
      BY <2>1, <2>2, <2>3 DEF OneStored
    <3> QED
      BY <3>1, <3>2, BaseType
  <2>5. Bottom' = Height(Base)
    BY <2>3, HeightType, BaseType DEF Bottom, BaseOf
  <2>6. \A k \in Kinds : Opened(k)'
    BY <2>1, <2>2, <2>4, <2>5 DEF Opened
  <2>7. Backed' /\ Reaches'
    BY <2>1, <2>2, <2>3, HeightType, BaseType DEF Backed, Reaches
  <2> QED
    BY <2>1, <2>4, <2>6, <2>7 DEF Started, Seeded
<1>8. ASSUME Manage PROVE Started' /\ Seeded' /\ Running'
  <2>1. UNCHANGED <<disk, asked, base, bhVars, cfVars>> /\ pc = "manage"
    BY <1>8 DEF Manage
  <2>2. IndexSound /\ Backed /\ \A k \in Kinds : Opened(k)
    BY <2>1 DEF Started
  <2>3. \A k \in Kinds : HasTip(k) /\ base[k] = Bottom
    <3> TAKE k \in Kinds
    <3>1. /\ tip[k] \in Blocks /\ Height(tip[k]) \in Nat /\ Bottom <= Height(tip[k])
          /\ height[tip[k]] = Height(tip[k]) /\ Indexed(k) /\ base[k] = Bottom /\ Exact(k)
          /\ Bottom \in Nat /\ Bottom >= 1 /\ file[k] \in Seq(Blocks)
      BY <2>2, SoundTips, BottomType, FileType DEF Opened
    <3>2. Len(file[k]) = Height(tip[k]) - Bottom + 1
      BY <3>1, ChainType DEF Exact
    <3> QED
      BY <3>1, <3>2 DEF HasTip, CanRead
  <2>4. CanRead(file["block"], base["block"], height[tip["filter"]])
    <3>1. /\ tip["block"] \in Blocks /\ Height(tip["block"]) \in Nat
          /\ Bottom <= Height(tip["block"])
          /\ tip["filter"] \in Blocks /\ Height(tip["filter"]) \in Nat
          /\ Bottom <= Height(tip["filter"]) /\ height[tip["filter"]] = Height(tip["filter"])
          /\ Height(tip["filter"]) <= Height(tip["block"])
      BY <2>2, SoundTips, KindsAre DEF On
    <3>2. Exact("block") /\ Bottom \in Nat /\ Bottom >= 1 /\ file["block"] \in Seq(Blocks)
      BY <2>2, BottomType, FileType, KindsAre DEF Opened
    <3>3. Len(file["block"]) = Height(tip["block"]) - Bottom + 1
      BY <3>1, <3>2, ChainType DEF Exact
    <3> QED
      BY <3>1, <3>2, <3>3, <2>3, KindsAre DEF CanRead
  <2>5. pc' = "up"
    BY <1>8, <2>3, <2>4 DEF Manage
  <2>6. op' = "idle" /\ cf' = "idle"
    BY <2>1 DEF SaneUp, Up, bhVars, cfVars
  <2>7. IndexSound' /\ Backed' /\ (\A k \in Kinds : Exact(k)' /\ base'[k] = Bottom')
    BY <2>1, <2>2, <2>3, DiskKept DEF Opened
  <2>8. Running'
    BY <2>5, <2>6, <2>7, KindsAre DEF Running, BlockSide, FilterSide, Rolling
  <2> QED
    BY <2>5, <2>8 DEF Started, Seeded
<1> QED
  BY <1>0, <1>1, <1>2, <1>3, <1>4, <1>5, <1>6, <1>7, <1>8, NotUp DEF Open
-------------------------------------------------------------------------------
(* The handlers *)

(* What every step of a handler starts from. *)
LEMMA RunFacts ==
    ASSUME TypeOK, Up, Running
    PROVE  /\ IndexSound /\ Backed /\ BlockSide /\ FilterSide
           /\ Bottom \in Nat /\ Bottom >= 1
           /\ base["block"] = Bottom /\ base["filter"] = Bottom
           /\ \A k \in Kinds :
                /\ tip[k] \in Blocks /\ tip[k] # None /\ Height(tip[k]) \in Nat
                /\ Bottom <= Height(tip[k]) /\ height[tip[k]] = Height(tip[k])
                /\ file[k] \in Seq(Blocks) /\ Len(file[k]) \in Nat
                /\ Indexed(k)
           /\ On(tip["filter"], tip["block"])
           /\ Height(tip["filter"]) <= Height(tip["block"])
<1>1. IndexSound /\ Backed /\ BlockSide /\ FilterSide
      /\ base["block"] = Bottom /\ base["filter"] = Bottom
  BY KindsAre DEF Running
<1> QED
  BY <1>1, SoundTips, BottomType, FileType, KindsAre DEF On

(* A step that leaves the index and the tips alone. *)
LEMMA IndexKept ==
    ASSUME IndexSound, Backed, UNCHANGED <<exists, db, height, tip, first, mweb>>
    PROVE  IndexSound' /\ Backed' /\ Bottom' = Bottom
BY DEF IndexSound, Backed, Bottom, BaseOf

LEMMA AppendUnhit ==
    ASSUME TypeOK, Up, Running, NEW b \in Blocks, AppendBlocks(b)
    PROVE  Running'
<1>1. /\ UNCHANGED <<exists, db, height, tip, first, mweb, pc, base, floor, regHeight, cfVars>>
      /\ op = "idle" /\ op' = "index" /\ batch' = b /\ On(tip["block"], b)
      /\ file' = [file EXCEPT !["block"] = @ \o Between(b, Height(tip["block"]))]
  BY DEF AppendBlocks
<1>2. /\ IndexSound /\ Backed /\ BlockSide /\ FilterSide
      /\ Bottom \in Nat /\ Bottom >= 1 /\ tip["block"] \in Blocks
      /\ Bottom <= Height(tip["block"]) /\ file["block"] \in Seq(Blocks)
  BY RunFacts, KindsAre
<1>3. /\ file'["block"] = file["block"] \o Between(b, Height(tip["block"]))
      /\ file'["filter"] = file["filter"]
  BY <1>1, KindsAre DEF TypeOK
<1>4. Exact("block")
  BY <1>1, <1>2 DEF BlockSide
<1>5. IsChain(file'["block"], Bottom, b)
  BY <1>1, <1>2, <1>3, <1>4, ChainExtend DEF Exact
<1>6. IndexSound' /\ Backed' /\ Bottom' = Bottom
  BY <1>1, <1>2, IndexKept
<1>7. BlockSide'
  BY <1>1, <1>5, <1>6 DEF BlockSide, Rolling
<1>8. FilterSide'
  BY <1>1, <1>2, <1>3, <1>6 DEF FilterSide, Exact, cfVars
<1> QED
  BY <1>1, <1>6, <1>7, <1>8 DEF Running, Up

LEMMA IndexUnhit ==
    ASSUME TypeOK, Up, Running, IndexBlocks
    PROVE  Running'
<1>1. /\ UNCHANGED <<exists, file, db, first, mweb, pc, base, floor, regHeight, batch, cfVars>>
      /\ op = "index" /\ op' = "idle"
      /\ tip' = [tip EXCEPT !["block"] = batch]
      /\ height' = [b \in Blocks |-> IF On(b, batch) /\ ~On(b, tip["block"]) THEN Height(b)
                                                                            ELSE height[b]]
  BY DEF IndexBlocks
<1>2. /\ IndexSound /\ Backed /\ BlockSide /\ FilterSide
      /\ Bottom \in Nat /\ Bottom >= 1 /\ tip["block"] \in Blocks /\ tip["filter"] \in Blocks
      /\ Bottom <= Height(tip["block"]) /\ On(tip["filter"], tip["block"]) /\ batch \in Blocks
      /\ Bottom <= Height(tip["filter"])
  BY RunFacts, KindsAre DEF TypeOK
<1>3. On(tip["block"], batch) /\ IsChain(file["block"], Bottom, batch)
  BY <1>1, <1>2 DEF BlockSide
<1>4. tip'["block"] = batch /\ tip'["filter"] = tip["filter"]
  BY <1>1, KindsAre DEF TypeOK
<1>5. Bottom' = Bottom /\ BaseOf("filter")' = BaseOf("filter")
  BY <1>1 DEF Bottom, BaseOf
<1>6. ASSUME NEW b \in Blocks
      PROVE  height'[b] = IF On(b, batch) /\ Height(b) >= Bottom THEN Height(b) ELSE 0
  <2>1. height[b] = IF On(b, tip["block"]) /\ Height(b) >= Bottom THEN Height(b) ELSE 0
    BY <1>2 DEF IndexSound
  <2>2. On(b, tip["block"]) => On(b, batch)
    BY <1>2, <1>3, OnTrans
  <2>3. ASSUME On(b, batch), ~On(b, tip["block"]) PROVE Height(b) >= Bottom
    <3>1. ~(Height(b) <= Height(tip["block"]))
      BY <2>3, <1>2, <1>3, OnLower
    <3> QED
      BY <3>1, <1>2, HeightType
  <2> QED
    BY <1>1, <2>1, <2>2, <2>3
<1>7. IndexSound' /\ Backed'
  <2>1. On(tip["filter"], batch)
    BY <1>2, <1>3, OnTrans
  <2> QED
    BY <1>1, <1>2, <1>4, <1>5, <1>6, <2>1 DEF IndexSound, Backed
<1>8. BlockSide'
  BY <1>1, <1>3, <1>4, <1>5 DEF BlockSide, Rolling, Exact
<1>9. FilterSide'
  <2>1. ASSUME cf # "idle" PROVE On(stop, batch)
    BY <2>1, <1>2, <1>3, OnTrans DEF FilterSide, TypeOK
  <2> QED
    BY <1>1, <1>2, <1>4, <1>5, <2>1 DEF FilterSide, Exact, cfVars
<1> QED
  BY <1>1, <1>5, <1>7, <1>8, <1>9 DEF Running, Up

LEMMA RollStartUnhit ==
    ASSUME TypeOK, Up, Running, NoRace, (\E h \in Heights : StartRollback(h)) \/ RollDone
    PROVE  Running'
<1>1. /\ UNCHANGED <<disk, pc, base, batch, cfVars>>
      /\ op \in {"idle", "roll"} /\ op' \in {"idle", "roll"}
      /\ op' = "roll" => /\ cf = "idle" /\ regHeight' = height[tip["filter"]]
                         /\ floor' >= base["block"]
  BY DEF StartRollback, RollDone, NoRace
<1>2. /\ IndexSound /\ Backed /\ BlockSide /\ FilterSide
      /\ height[tip["filter"]] = Height(tip["filter"]) /\ base["block"] = Bottom
  BY RunFacts, KindsAre
<1>3. /\ IndexSound' /\ Backed' /\ Bottom' = Bottom
      /\ (Exact("block") <=> Exact("block")') /\ (Exact("filter") <=> Exact("filter")')
  BY <1>1, <1>2, DiskKept
<1>4. BlockSide'
  BY <1>1, <1>2, <1>3 DEF BlockSide, Rolling, disk, cfVars
<1>5. FilterSide'
  BY <1>1, <1>2, <1>3 DEF FilterSide, disk, cfVars
<1> QED
  BY <1>1, <1>3, <1>4, <1>5 DEF Running, Up

LEMMA RollFilterUnhit ==
    ASSUME TypeOK, Up, Running, RollFilter
    PROVE  Running'
<1>1. /\ UNCHANGED <<exists, db, height, tip, first, mweb, pc, base, floor, regHeight, batch, cfVars>>
      /\ op = "roll" /\ floor < height[tip["block"]] /\ height[tip["block"]] <= regHeight
  BY DEF RollFilter
<1>2. /\ IndexSound /\ Backed /\ BlockSide /\ FilterSide
      /\ Bottom \in Nat /\ Bottom >= 1 /\ tip["block"] \in Blocks /\ tip["filter"] \in Blocks
      /\ height[tip["block"]] = Height(tip["block"]) /\ height[tip["filter"]] = Height(tip["filter"])
      /\ Height(tip["block"]) \in Nat /\ Height(tip["filter"]) \in Nat
      /\ On(tip["filter"], tip["block"]) /\ file["filter"] \in Seq(Blocks)
      /\ base["filter"] = Bottom /\ Indexed("filter")
  BY RunFacts, KindsAre
<1>3. cf = "idle" /\ regHeight = Height(tip["filter"]) /\ floor >= Bottom /\ floor \in Nat
  BY <1>1, <1>2 DEF BlockSide, Rolling, TypeOK
<1>4. tip["filter"] = tip["block"]
  BY <1>1, <1>2, <1>3, OnSameHeight
<1>5. Bottom < Height(tip["block"])
  BY <1>1, <1>2, <1>3
<1>6. file' = Cut("filter") /\ op' = "cutFilter"
  BY <1>2, <1>4, <1>5 DEF RollFilter
<1>7. Exact("filter") /\ Exact("block")
  BY <1>1, <1>2, <1>3 DEF FilterSide, BlockSide
<1>8. /\ IsChain(file'["filter"], Bottom, Parent(tip["block"]))
      /\ file'["block"] = file["block"]
  <2>1. /\ file'["filter"] = SubSeq(file["filter"], 1, Len(file["filter"]) - 1)
        /\ file'["block"] = file["block"]
    BY <1>6, CutType, KindsAre
  <2>2. IsChain(file["filter"], Bottom, tip["block"])
    BY <1>4, <1>7 DEF Exact
  <2> QED
    BY <2>1, <2>2, <1>2, <1>5, ChainCut
<1>9. IndexSound' /\ Backed' /\ Bottom' = Bottom
  BY <1>1, <1>2, IndexKept
<1>10. BlockSide'
  BY <1>1, <1>2, <1>3, <1>4, <1>6, <1>7, <1>8, <1>9 DEF BlockSide, Rolling, Exact, cfVars
<1>11. FilterSide'
  BY <1>1, <1>3, <1>6 DEF FilterSide, cfVars
<1> QED
  BY <1>1, <1>9, <1>10, <1>11, <1>2, RunFacts DEF Running, Up

LEMMA FilterBackUnhit ==
    ASSUME TypeOK, Up, Running, FilterTipBack
    PROVE  Running'
<1> DEFINE p == Parent(tip["block"])
<1>1. /\ UNCHANGED <<exists, file, db, height, first, mweb, pc, base, floor, batch, cfVars>>
      /\ op = "cutFilter" /\ op' = "rollBlock"
      /\ regHeight' = height[tip["filter"]] - 1
      /\ tip' = [tip EXCEPT !["filter"] = p]
  BY DEF FilterTipBack
<1>2. /\ IndexSound /\ Backed /\ BlockSide /\ FilterSide
      /\ Bottom \in Nat /\ Bottom >= 1 /\ tip["block"] \in Blocks
      /\ height[tip["filter"]] = Height(tip["filter"]) /\ Height(tip["block"]) \in Nat
  BY RunFacts, KindsAre
<1>3. /\ cf = "idle" /\ floor >= Bottom /\ floor \in Nat /\ floor < Height(tip["block"])
      /\ tip["filter"] = tip["block"] /\ Exact("block") /\ IsChain(file["filter"], Bottom, p)
  BY <1>1, <1>2 DEF BlockSide, Rolling, TypeOK
<1>4. p \in Blocks /\ Height(p) = Height(tip["block"]) - 1 /\ On(p, tip["block"])
  BY <1>2, <1>3, ParentType
<1> HIDE DEF p
<1>5. tip'["block"] = tip["block"] /\ tip'["filter"] = p
  BY <1>1, KindsAre DEF TypeOK
<1>6. Bottom' = Bottom /\ BaseOf("filter")' = BaseOf("filter")
  BY <1>1 DEF Bottom, BaseOf
<1>7. IndexSound' /\ Backed'
  <2>1. Bottom <= Height(p)
    BY <1>2, <1>3, <1>4
  <2> QED
    BY <1>1, <1>2, <1>4, <1>5, <1>6, <2>1 DEF IndexSound, Backed
<1>8. Exact("block")' /\ Exact("filter")'
  BY <1>1, <1>3, <1>5, <1>6 DEF Exact
<1>9. BlockSide'
  <2>1. Parent(tip["block"])' = p /\ On(p, p)
    BY <1>4, <1>5, OnSelf DEF p, Parent
  <2>2. regHeight' = Height(p)
    BY <1>1, <1>2, <1>3, <1>4
  <2> QED
    BY <1>1, <1>3, <1>5, <1>6, <1>8, <2>1, <2>2 DEF BlockSide, Rolling, cfVars
<1>10. FilterSide'
  BY <1>1, <1>3, <1>8 DEF FilterSide, cfVars
<1> QED
  BY <1>1, <1>6, <1>7, <1>9, <1>10, <1>2, RunFacts DEF Running, Up

LEMMA RollBlockUnhit ==
    ASSUME TypeOK, Up, Running, RollBlock
    PROVE  Running'
<1>1. /\ UNCHANGED <<exists, db, height, tip, first, mweb, pc, base, floor, regHeight, batch, cfVars>>
      /\ \/ op = "rollBlock"
         \/ op = "roll" /\ floor < height[tip["block"]] /\ regHeight < height[tip["block"]]
  BY DEF RollBlock
<1>2. /\ IndexSound /\ Backed /\ BlockSide /\ FilterSide
      /\ Bottom \in Nat /\ Bottom >= 1 /\ tip["block"] \in Blocks /\ tip["filter"] \in Blocks
      /\ height[tip["block"]] = Height(tip["block"])
      /\ Height(tip["block"]) \in Nat /\ Height(tip["filter"]) \in Nat
      /\ On(tip["filter"], tip["block"]) /\ file["block"] \in Seq(Blocks)
      /\ base["block"] = Bottom
  BY RunFacts, KindsAre
<1>3. /\ cf = "idle" /\ regHeight = Height(tip["filter"]) /\ floor >= Bottom /\ floor \in Nat
      /\ Exact("block") /\ Exact("filter")
  BY <1>1, <1>2 DEF BlockSide, FilterSide, Rolling, TypeOK
<1>4. floor < Height(tip["block"]) /\ On(tip["filter"], Parent(tip["block"]))
  <2>1. CASE op = "rollBlock"
    BY <2>1, <1>2 DEF BlockSide
  <2>2. CASE op = "roll"
    BY <2>2, <1>1, <1>2, <1>3, OnParent
  <2> QED
    BY <1>1, <2>1, <2>2
<1>5. Bottom < Height(tip["block"])
  BY <1>2, <1>3, <1>4
<1>6. file' = Cut("block") /\ op' = "cutBlock"
  BY <1>2, <1>5 DEF RollBlock
<1>7. /\ IsChain(file'["block"], Bottom, Parent(tip["block"]))
      /\ file'["filter"] = file["filter"]
  <2>1. /\ file'["block"] = SubSeq(file["block"], 1, Len(file["block"]) - 1)
        /\ file'["filter"] = file["filter"]
    BY <1>6, CutType, KindsAre
  <2>2. IsChain(file["block"], Bottom, tip["block"])
    BY <1>3 DEF Exact
  <2> QED
    BY <2>1, <2>2, <1>2, <1>5, ChainCut
<1>8. IndexSound' /\ Backed' /\ Bottom' = Bottom
  BY <1>1, <1>2, IndexKept
<1>9. BlockSide'
  <2>1. Parent(tip["block"])' = Parent(tip["block"])
    BY <1>1 DEF Parent
  <2> QED
    BY <1>1, <1>3, <1>4, <1>6, <1>7, <1>8, <2>1 DEF BlockSide, Rolling, cfVars
<1>10. FilterSide'
  BY <1>1, <1>3, <1>6, <1>7, <1>8 DEF FilterSide, Exact, cfVars
<1> QED
  BY <1>1, <1>8, <1>9, <1>10, <1>2, RunFacts DEF Running, Up

LEMMA BlockBackUnhit ==
    ASSUME TypeOK, Up, Running, BlockTipBack
    PROVE  Running'
<1> DEFINE t == tip["block"]
           p == Parent(t)
<1>1. /\ UNCHANGED <<exists, file, db, first, mweb, pc, base, floor, regHeight, batch, cfVars>>
      /\ op = "cutBlock" /\ op' = "roll"
      /\ height' = [height EXCEPT ![t] = 0]
      /\ tip' = [tip EXCEPT !["block"] = file["block"][height[t] - base["block"]]]
  BY DEF BlockTipBack
<1>2. /\ IndexSound /\ Backed /\ BlockSide /\ FilterSide
      /\ Bottom \in Nat /\ Bottom >= 1 /\ t \in Blocks /\ tip["filter"] \in Blocks
      /\ height[t] = Height(t) /\ Height(t) \in Nat
      /\ Bottom <= Height(tip["filter"]) /\ file["block"] \in Seq(Blocks)
      /\ base["block"] = Bottom
  BY RunFacts, KindsAre
<1>3. /\ cf = "idle" /\ regHeight = Height(tip["filter"]) /\ floor >= Bottom /\ floor \in Nat
      /\ floor < Height(t) /\ On(tip["filter"], p) /\ IsChain(file["block"], Bottom, p)
      /\ Exact("filter")
  BY <1>1, <1>2 DEF BlockSide, FilterSide, Rolling, TypeOK
<1>4. p \in Blocks /\ Height(p) = Height(t) - 1 /\ On(p, t)
  BY <1>2, <1>3, ParentType
<1>5. file["block"][height[t] - base["block"]] = p
  <2>1. Bottom <= Height(p)
    BY <1>2, <1>3, <1>4
  <2>2. Len(file["block"]) = Height(p) - Bottom + 1 /\ file["block"][Len(file["block"])] = p
    BY <2>1, <1>2, <1>3, <1>4, ChainType
  <2>3. height[t] - base["block"] = Height(p) - Bottom + 1
    BY <1>2, <1>4
  <2> QED
    BY <2>2, <2>3
<1>6. tip'["block"] = p /\ tip'["filter"] = tip["filter"]
  BY <1>1, <1>5, KindsAre DEF TypeOK
<1> HIDE DEF p, t
<1>7. Bottom' = Bottom /\ BaseOf("filter")' = BaseOf("filter")
  BY <1>1 DEF Bottom, BaseOf
<1>8. ASSUME NEW b \in Blocks
      PROVE  height'[b] = IF On(b, p) /\ Height(b) >= Bottom THEN Height(b) ELSE 0
  <2>1. height[b] = IF On(b, t) /\ Height(b) >= Bottom THEN Height(b) ELSE 0
    BY <1>2 DEF IndexSound, t
  <2>2. CASE b = t
    <3>1. height'[b] = 0
      BY <1>1, <2>2, <1>2 DEF TypeOK
    <3>2. ~On(b, p)
      BY <2>2, <1>2, <1>4 DEF On
    <3> QED
      BY <3>1, <3>2
  <2>3. CASE b # t
    <3>1. height'[b] = height[b]
      BY <1>1, <2>3 DEF TypeOK
    <3>2. On(b, p) => On(b, t)
      BY <1>2, <1>4, OnTrans
    <3>3. ASSUME On(b, t) PROVE On(b, p)
      <4>1. ~(Height(t) <= Height(b))
        BY <3>3, <2>3, <1>2, OnSameHeight
      <4> QED
        BY <4>1, <3>3, <1>2, HeightType, OnParent DEF p
    <3> QED
      BY <2>1, <3>1, <3>2, <3>3
  <2> QED
    BY <2>2, <2>3
<1>9. IndexSound' /\ Backed'
  BY <1>1, <1>2, <1>3, <1>4, <1>6, <1>7, <1>8 DEF IndexSound, Backed
<1>10. Exact("block")' /\ Exact("filter")'
  BY <1>1, <1>3, <1>6, <1>7 DEF Exact
<1>11. BlockSide'
  BY <1>1, <1>3, <1>6, <1>7, <1>10 DEF BlockSide, Rolling, cfVars
<1>12. FilterSide'
  BY <1>1, <1>3, <1>10 DEF FilterSide, cfVars
<1> QED
  BY <1>1, <1>7, <1>9, <1>11, <1>12, <1>2, RunFacts DEF Running, Up

LEMMA ReadUnhit ==
    ASSUME TypeOK, Up, Running, NoRace, NEW s \in Blocks, ReadAncestors(s)
    PROVE  Running'
<1> DEFINE h == height[tip["filter"]]
<1>1. /\ UNCHANGED <<disk, pc, base, bhVars>>
      /\ cf = "idle" /\ op = "idle" /\ cf' = "append" /\ stop' = s /\ from' = h
      /\ h < Height(s) /\ Path[s][h] = file["filter"][h - base["filter"] + 1]
      /\ height[s] > 0
  BY DEF ReadAncestors, NoRace
<1>2. /\ IndexSound /\ Backed /\ BlockSide /\ FilterSide
      /\ Bottom \in Nat /\ Bottom >= 1 /\ tip["filter"] \in Blocks
      /\ h = Height(tip["filter"]) /\ Height(tip["filter"]) \in Nat
      /\ Bottom <= Height(tip["filter"]) /\ file["filter"] \in Seq(Blocks)
      /\ base["filter"] = Bottom
  BY RunFacts, KindsAre
<1>3. Exact("filter") /\ Exact("block")
  BY <1>1, <1>2 DEF FilterSide, BlockSide
<1>4. Path[s][h] = tip["filter"]
  <2>1. Len(file["filter"]) = h - Bottom + 1 /\ file["filter"][Len(file["filter"])] = tip["filter"]
    BY <1>2, <1>3, ChainType DEF Exact
  <2> QED
    BY <1>1, <1>2, <2>1
<1>5. On(tip["filter"], s)
  BY <1>1, <1>2, <1>4, HeightType DEF On
<1>6. On(s, tip["block"])
  BY <1>1, <1>2 DEF IndexSound
<1>7. /\ IndexSound' /\ Backed' /\ Bottom' = Bottom
      /\ (Exact("block") <=> Exact("block")') /\ (Exact("filter") <=> Exact("filter")')
  BY <1>1, <1>2, DiskKept
<1>8. BlockSide'
  BY <1>1, <1>3, <1>7 DEF BlockSide, Rolling, bhVars
<1>9. FilterSide'
  BY <1>1, <1>2, <1>3, <1>5, <1>6, <1>7 DEF FilterSide, disk
<1> QED
  BY <1>1, <1>7, <1>8, <1>9, <1>2, RunFacts DEF Running, Up

LEMMA FiltersUnhit ==
    ASSUME TypeOK, Up, Running, AppendFilters
    PROVE  Running'
<1>1. /\ UNCHANGED <<exists, db, height, tip, first, mweb, pc, base, bhVars, from, stop>>
      /\ cf = "append" /\ cf' = "index" /\ op # "cutFilter"
      /\ file' = [file EXCEPT !["filter"] = @ \o Between(stop, from)]
  BY DEF AppendFilters
<1>2. /\ IndexSound /\ Backed /\ BlockSide /\ FilterSide
      /\ Bottom \in Nat /\ Bottom >= 1 /\ tip["filter"] \in Blocks /\ stop \in Blocks
      /\ Bottom <= Height(tip["filter"]) /\ file["filter"] \in Seq(Blocks)
  BY RunFacts, KindsAre DEF TypeOK
<1>3. /\ Exact("filter") /\ from = Height(tip["filter"])
      /\ On(tip["filter"], stop) /\ On(stop, tip["block"])
  BY <1>1, <1>2 DEF FilterSide
<1>4. /\ file'["filter"] = file["filter"] \o Between(stop, from)
      /\ file'["block"] = file["block"]
  BY <1>1, KindsAre DEF TypeOK
<1>5. IsChain(file'["filter"], Bottom, stop)
  BY <1>2, <1>3, <1>4, ChainExtend DEF Exact
<1>6. IndexSound' /\ Backed' /\ Bottom' = Bottom
  BY <1>1, <1>2, IndexKept
<1>7. BlockSide'
  BY <1>1, <1>2, <1>4, <1>6 DEF BlockSide, Rolling, Exact, bhVars
<1>8. FilterSide'
  BY <1>1, <1>3, <1>5, <1>6 DEF FilterSide, bhVars
<1> QED
  BY <1>1, <1>6, <1>7, <1>8, <1>2, RunFacts DEF Running, Up

LEMMA FilterOnUnhit ==
    ASSUME TypeOK, Up, Running, FilterTipOn
    PROVE  Running'
<1>1. /\ UNCHANGED <<exists, file, db, height, first, mweb, pc, base, bhVars, from, stop>>
      /\ cf = "index" /\ cf' = "idle"
      /\ tip' = [tip EXCEPT !["filter"] = stop]
  BY DEF FilterTipOn
<1>2. /\ IndexSound /\ Backed /\ BlockSide /\ FilterSide
      /\ Bottom \in Nat /\ Bottom >= 1 /\ tip["filter"] \in Blocks /\ stop \in Blocks
      /\ Bottom <= Height(tip["filter"]) /\ tip["block"] \in Blocks
  BY RunFacts, KindsAre DEF TypeOK
<1>3. /\ IsChain(file["filter"], Bottom, stop)
      /\ On(tip["filter"], stop) /\ On(stop, tip["block"])
  BY <1>1, <1>2 DEF FilterSide
<1>4. tip'["block"] = tip["block"] /\ tip'["filter"] = stop
  BY <1>1, KindsAre DEF TypeOK
<1>5. Bottom' = Bottom /\ BaseOf("filter")' = BaseOf("filter")
  BY <1>1 DEF Bottom, BaseOf
<1>6. IndexSound' /\ Backed'
  <2>1. Bottom <= Height(stop)
    BY <1>2, <1>3, HeightType DEF On
  <2> QED
    BY <1>1, <1>2, <1>3, <1>4, <1>5, <2>1 DEF IndexSound, Backed
<1>7. ~Rolling
  BY <1>1, <1>2 DEF BlockSide
<1>8. BlockSide'
  BY <1>1, <1>2, <1>4, <1>5, <1>7 DEF BlockSide, Rolling, Exact, bhVars
<1>9. FilterSide'
  BY <1>1, <1>3, <1>4, <1>5 DEF FilterSide, Exact, bhVars
<1> QED
  BY <1>1, <1>5, <1>6, <1>8, <1>9, <1>2, RunFacts DEF Running, Up

LEMMA HandlerUnhit ==
    ASSUME TypeOK, Sane, SaneUp, NoRace, Running, BlockHandler \/ CfHandler
    PROVE  Started' /\ Seeded' /\ Running'
<1>1. Up /\ pc' = pc
  BY DEF SaneUp, BlockHandler, CfHandler, AppendBlocks, IndexBlocks, StartRollback, RollFilter,
         FilterTipBack, RollBlock, BlockTipBack, RollDone, ReadAncestors, AppendFilters, FilterTipOn
<1>2. Started' /\ Seeded'
  BY <1>1 DEF Up, Started, Seeded
<1> QED
  BY <1>1, <1>2, AppendUnhit, IndexUnhit, RollStartUnhit, RollFilterUnhit, FilterBackUnhit,
     RollBlockUnhit, BlockBackUnhit, ReadUnhit, FiltersUnhit, FilterOnUnhit
     DEF BlockHandler, CfHandler

(* A kill at no moment of Hazards leaves the disk as a start wants it, and  *)
(* so does the end of an orderly stop.                                      *)
LEMMA RunAtRest ==
    ASSUME TypeOK, Up, Running, ~Truncating
    PROVE  AtRest
<1>1. /\ IndexSound /\ Backed /\ BlockSide /\ FilterSide
  BY RunFacts
<1>2. Grown("block")
  <2>1. CASE op = "index"
    BY <2>1, <1>1 DEF BlockSide, Grown, TypeOK
  <2>2. CASE op # "index"
    <3>1. Exact("block")
      BY <2>2, <1>1 DEF BlockSide, Truncating, TypeOK
    <3> QED
      BY <3>1, <1>1, ExactGrown, KindsAre
  <2> QED
    BY <2>1, <2>2
<1>3. Grown("filter")
  <2>1. CASE cf = "index"
    BY <2>1, <1>1 DEF FilterSide, Grown, TypeOK
  <2>2. CASE cf # "index"
    <3>1. Exact("filter")
      BY <2>2, <1>1 DEF FilterSide, Truncating
    <3> QED
      BY <3>1, <1>1, ExactGrown, KindsAre
  <2> QED
    BY <2>1, <2>2
<1> QED
  BY <1>1, <1>2, <1>3, KindsAre DEF AtRest, Sound

LEMMA KilledAtRest ==
    ASSUME TypeOK, Started, Seeded, Running, pc \notin {"down", "failed"},
           ~Truncating, ~Seeding
    PROVE  AtRest
<1>1. CASE Up
  BY <1>1, RunAtRest
<1>2. CASE pc \in {"decide", "rmBlock", "db"}
  BY <1>2 DEF Started
<1>3. CASE pc = "mkDb"
  BY <1>3 DEF Seeded, AtRest
<1>4. CASE pc = "openBlock"
  <2>1. exists = Kinds
    BY <1>4 DEF Seeding
  <2> QED
    BY <1>4, <2>1, BlankFiles, KindsAre DEF Started, AtRest
<1>5. CASE pc = "openFilter"
  <2>1. exists = Kinds /\ exists # {"block"}
    BY <1>5 DEF Seeding, Kinds
  <2> QED
    BY <1>5, <2>1 DEF Started, AtRest
<1>6. CASE pc = "manage"
  BY <1>6, ExactSound DEF Started, AtRest, Opened
<1> QED
  BY <1>1, <1>2, <1>3, <1>4, <1>5, <1>6 DEF TypeOK, Seeding, Up

LEMMA DownUnhit ==
    ASSUME TypeOK, Started, Seeded, Running, Kill \/ Retry \/ CloseStores, ~hit'
    PROVE  Started' /\ Seeded' /\ Running'
<1>1. UNCHANGED disk /\ pc' = "down"
  BY DEF Kill, Retry, CloseStores, Down
<1>2. AtRest
  <2>1. CASE Kill
    BY <2>1, KilledAtRest DEF Kill
  <2>2. CASE Retry
    BY <2>2 DEF Retry, Started
  <2>3. CASE CloseStores
    BY <2>3, RunAtRest DEF CloseStores, Truncating
  <2> QED
    BY <2>1, <2>2, <2>3
<1>3. AtRest'
  BY <1>1, <1>2, DiskKept
<1> QED
  BY <1>1, <1>3, NotUp DEF Started, Seeded

LEMMA UnhitStep ==
    ASSUME TypeOK, TypeOK', Sane, SaneUp, NoRace, Unhit, StoreStep
    PROVE  Unhit'
<1> SUFFICES ASSUME ~hit' PROVE Started' /\ Seeded' /\ Running'
  BY DEF Unhit
<1>1. ~hit
  BY DEF StoreStep, Start, DecideByFiles, DecideByState, Seed, RemoveFile, RemoveDb, CreateDb, SeedFile,
         SeedIndex, SeedMweb, Open, ReopenStore, CreateStore, IndexGenesis, Manage, BlockHandler, CfHandler,
         AppendBlocks, IndexBlocks, StartRollback, RollFilter, FilterTipBack, RollBlock, BlockTipBack,
         RollDone, ReadAncestors, AppendFilters, FilterTipOn, Kill, Retry, CloseStores, Down, count
<1>2. Started /\ Seeded /\ Running
  BY <1>1 DEF Unhit
<1>3. ASSUME NEW c \in Checkpoints \cup {None}, Start(c) PROVE Started' /\ Seeded' /\ Running'
  BY <1>2, <1>3, StartUnhit, NotUp DEF Start
<1>4. CASE DecideByFiles \/ DecideByState
  <2>1. asked \in Blocks /\ pc' # "up"
    BY <1>4 DEF Sane, Preparing, DecideByFiles, DecideByState
  <2> QED
    BY <1>2, <1>4, <2>1, DecideUnhit, NotUp
<1>5. CASE Seed
  <2>1. pc' # "up"
    BY <1>5 DEF Seed, RemoveFile, RemoveDb, CreateDb, SeedFile, SeedIndex, SeedMweb
  <2> QED
    BY <1>2, <1>5, <2>1, SeedUnhit, NotUp
<1>6. CASE Open
  BY <1>2, <1>6, OpenUnhit
<1>7. CASE BlockHandler \/ CfHandler
  BY <1>2, <1>7, HandlerUnhit
<1>8. CASE Kill \/ Retry \/ CloseStores
  BY <1>2, <1>8, DownUnhit
<1> QED
  BY <1>3, <1>4, <1>5, <1>6, <1>7, <1>8 DEF StoreStep

LEMMA UnhitInit == ASSUME Init PROVE Unhit
<1>1. Blank /\ Unindexed /\ ~db /\ pc = "down"
  BY DEF Init, Blank, Unindexed
<1> QED
  BY <1>1 DEF Unhit, Started, Seeded, Running, Up, AtRest

LEMMA UnhitKept == ASSUME Unhit, UNCHANGED vars PROVE Unhit'
<1>1. UNCHANGED disk /\ UNCHANGED <<hit, pc, asked, base, bhVars, cfVars>>
  BY DEF vars, count
<1>2. /\ (IndexSound <=> IndexSound') /\ (Backed <=> Backed') /\ (Sound <=> Sound')
      /\ (AtRest <=> AtRest') /\ (Blank <=> Blank') /\ (Unindexed <=> Unindexed')
      /\ Bottom' = Bottom /\ \A k : (Exact(k) <=> Exact(k)')
  BY <1>1, DiskKept
<1>3. Reaches <=> Reaches'
  BY <1>1 DEF Reaches, disk
<1>4. \A k : Opened(k) <=> Opened(k)'
  BY <1>1, <1>2 DEF Opened
<1>5. \A x : OneIndexed(x) <=> OneIndexed(x)'
  BY <1>1 DEF OneIndexed, disk
<1>6. Started => Started'
  BY <1>1, <1>2, <1>3, <1>4, <1>5 DEF Started, disk
<1>7. Seeded => Seeded'
  BY <1>1, <1>2, <1>3, <1>5 DEF Seeded, disk
<1>8. Running => Running'
  <2>1. BlockSide => BlockSide'
    BY <1>1, <1>2 DEF BlockSide, Rolling, Parent, disk, bhVars, cfVars
  <2>2. FilterSide => FilterSide'
    BY <1>1, <1>2 DEF FilterSide, disk, bhVars, cfVars
  <2> QED
    BY <1>1, <1>2, <2>1, <2>2 DEF Running, Up
<1> QED
  BY <1>1, <1>6, <1>7, <1>8 DEF Unhit
-------------------------------------------------------------------------------
(* The daemon *)

(* The calls that leave the stores alone. *)
Calls ==
    \/ Stop \/ BlockHandlerQuits \/ CfHandlerQuits
    \/ \E i \in Servers :
          \/ StartInApp(i) \/ StartOnPort(i) \/ ServeOn(i) \/ Refused(i)
          \/ StopService(i) \/ ServiceStopped(i)

LEMMA LifeSteps ==
    ASSUME LifeNext
    PROVE  \/ \E c \in Checkpoints \cup {None} : NewDaemon(c)
           \/ Opening \/ TryAgain \/ Killed \/ Working \/ Calls
           \/ \E i \in Servers : CloseDb(i)
BY DEF LifeNext, Calls

LEMMA CallsQuiet ==
    ASSUME Calls
    PROVE  UNCHANGED vars /\ held' = held
BY DEF Calls, Stop, BlockHandlerQuits, CfHandlerQuits, Leaves, StartInApp, StartOnPort, ServeOn, Refused,
       StopService, ServiceStopped

(* Who ends serving finds both handlers gone, and so both stores at rest. *)
LEMMA CloseIdle ==
    ASSUME Served, NEW i \in Servers, CloseDb(i)
    PROVE  CloseStores /\ serve[i] = "closing"
<1>1. serve[i] = "closing" /\ Down
  BY DEF CloseDb, ServeEnds
<1>2. pc = "up" /\ handlers = {}
  BY <1>1 DEF Served, Alive, Closing
<1>3. op = "idle" /\ cf = "idle"
  BY <1>2 DEF Served
<1> QED
  BY <1>1, <1>2, <1>3 DEF CloseStores, Up

LEMMA LifeStore ==
    ASSUME Served, LifeNext
    PROVE  StoreStep \/ UNCHANGED vars
<1>1. ASSUME NEW c \in Checkpoints \cup {None}, NewDaemon(c) PROVE StoreStep
  BY <1>1 DEF NewDaemon, StoreStep
<1>2. CASE Opening \/ TryAgain \/ Killed \/ Working
  BY <1>2 DEF Opening, TryAgain, Killed, Working, StoreStep
<1>3. CASE Calls
  BY <1>3, CallsQuiet
<1>4. ASSUME NEW i \in Servers, CloseDb(i) PROVE StoreStep
  BY <1>4, CloseIdle DEF StoreStep
<1> QED
  BY <1>1, <1>2, <1>3, <1>4, LifeSteps

(* What a step of a start does to the process. *)
LEMMA OpeningPc ==
    ASSUME TypeOK, Opening
    PROVE  /\ pc \notin {"up", "down"} /\ pc' # "down"
           /\ UNCHANGED <<op, cf, port, blocking, serve, handlers>>
           /\ grpc' = IF pc' = "up" THEN "new" ELSE "none"
BY DEF Opening, DecideByFiles, DecideByState, Seed, RemoveFile, RemoveDb, CreateDb, SeedFile, SeedIndex,
       SeedMweb, Open, ReopenStore, CreateStore, IndexGenesis, Manage, bhVars, cfVars

LEMMA WorkingPc ==
    ASSUME SaneUp, Working
    PROVE  /\ pc = "up" /\ pc' = "up" /\ UNCHANGED lifeVars
           /\ "block" \notin handlers => op' = op
           /\ "filter" \notin handlers => cf' = cf
<1>1. ASSUME BlockHandler PROVE Up /\ pc' = pc /\ cf' = cf
  BY <1>1 DEF SaneUp, BlockHandler, AppendBlocks, IndexBlocks, StartRollback, RollFilter,
         FilterTipBack, RollBlock, BlockTipBack, RollDone, cfVars
<1>2. ASSUME CfHandler PROVE Up /\ pc' = pc /\ op' = op
  BY <1>2 DEF SaneUp, CfHandler, ReadAncestors, AppendFilters, FilterTipOn, bhVars
<1> QED
  BY <1>1, <1>2 DEF Working, Up

LEMMA FreshDaemon == ASSUME NoDaemon PROVE Served' /\ Guarded' /\ LeftExact'
BY DEF NoDaemon, Served, Guarded, LeftExact, Alive, Busy, Closing, Kinds

LEMMA CallsTypes == ASSUME LifeTypeOK, Calls PROVE LifeTypeOK'
<1>0. TypeOK'
  <2>1. TypeOK /\ UNCHANGED vars
    BY CallsQuiet DEF LifeTypeOK
  <2> QED
    BY <2>1 DEF TypeOK, vars, disk, bhVars, cfVars, count
<1> USE DEF LifeTypeOK
<1>1. ASSUME Stop PROVE LifeTypeOK'
  <2>1. serve' \in [Servers -> {"none", "listening", "serving"} \cup Closing]
    BY <1>1 DEF Stop, Closing
  <2> QED
    BY <1>0, <1>1, <2>1 DEF Stop
<1>2. ASSUME BlockHandlerQuits \/ CfHandlerQuits PROVE LifeTypeOK'
  BY <1>0, <1>2 DEF BlockHandlerQuits, CfHandlerQuits, Leaves
<1>3. ASSUME NEW i \in Servers, StartInApp(i) \/ StartOnPort(i) PROVE LifeTypeOK'
  BY <1>0, <1>3 DEF StartInApp, StartOnPort, Listen
<1>4. ASSUME NEW i \in Servers, ServeOn(i) \/ Refused(i) PROVE LifeTypeOK'
  BY <1>0, <1>4 DEF ServeOn, Refused
<1>5. ASSUME NEW i \in Servers, StopService(i) \/ ServiceStopped(i) PROVE LifeTypeOK'
  BY <1>0, <1>5 DEF StopService, ServiceStopped, Closing
<1> QED
  BY <1>1, <1>2, <1>3, <1>4, <1>5 DEF Calls

LEMMA LifeTypes ==
    ASSUME LifeTypeOK, TypeOK', LifeNext
    PROVE  LifeTypeOK'
<1>1. ASSUME NoDaemon, held' \in BOOLEAN PROVE LifeTypeOK'
  BY <1>1 DEF LifeTypeOK, NoDaemon
<1>2. ASSUME NEW c \in Checkpoints \cup {None}, NewDaemon(c) PROVE LifeTypeOK'
  BY <1>1, <1>2 DEF NewDaemon
<1>3. ASSUME TryAgain \/ Killed PROVE LifeTypeOK'
  BY <1>1, <1>3 DEF TryAgain, Killed
<1>4. ASSUME Opening PROVE LifeTypeOK'
  BY <1>4 DEF LifeTypeOK, Opening
<1>5. ASSUME Working PROVE LifeTypeOK'
  BY <1>5 DEF LifeTypeOK, Working, lifeVars
<1>6. ASSUME NEW i \in Servers, CloseDb(i) PROVE LifeTypeOK'
  BY <1>6 DEF LifeTypeOK, CloseDb, ServeEnds, Closing
<1> QED
  BY <1>2, <1>3, <1>4, <1>5, <1>6, CallsTypes, LifeSteps

(* At most one call of serve is past Serve, whatever is called. *)
LEMMA CallsServed ==
    ASSUME LifeTypeOK, Served, Guarded, Calls
    PROVE  Served' /\ Guarded'
<1>0. pc' = pc /\ op' = op /\ cf' = cf
  BY CallsQuiet DEF vars, bhVars, cfVars
<1>t. 0 \notin Servers /\ serve \in [Servers -> {"none", "listening", "serving"} \cup Closing]
      /\ grpc \in {"none", "new", "stopped"}
  BY DEF Servers, LifeTypeOK
<1>1. ASSUME Stop PROVE Served' /\ Guarded'
  <2>1. /\ \A k \in Servers : serve'[k] = IF serve[k] = "serving" THEN "returned" ELSE serve[k]
        /\ grpc' = "stopped" /\ handlers' = handlers /\ grpc # "none"
    BY <1>1 DEF Stop
  <2>2. \A k \in Servers : /\ Alive(k)' <=> Alive(k)
                           /\ serve'[k] = "closed" <=> serve[k] = "closed"
                           /\ serve'[k] = "closing" <=> serve[k] = "closing"
                           /\ serve'[k] # "serving"
    BY <2>1 DEF Alive, Closing
  <2>3. pc \in {"up", "down"}
    BY <2>1, <1>t DEF Guarded
  <2> QED
    BY <1>0, <2>1, <2>2, <2>3 DEF Served, Guarded
<1>2. ASSUME BlockHandlerQuits \/ CfHandlerQuits PROVE Served' /\ Guarded'
  <2>1. /\ UNCHANGED <<held, grpc, port, blocking, serve>>
        /\ handlers' \subseteq handlers
        /\ "block" \notin handlers' => "block" \notin handlers \/ op = "idle"
        /\ "filter" \notin handlers' => "filter" \notin handlers \/ cf = "idle"
    BY <1>2 DEF BlockHandlerQuits, CfHandlerQuits, Leaves
  <2>2. Served'
    BY <1>0, <2>1 DEF Served, Alive
  <2>3. Guarded'
    BY <1>0, <2>1 DEF Guarded, Busy
  <2> QED
    BY <2>2, <2>3
<1>3. ASSUME NEW i \in Servers, StartInApp(i) \/ StartOnPort(i) PROVE Served' /\ Guarded'
  <2>1. /\ UNCHANGED <<held, grpc, handlers>> /\ grpc # "none" /\ blocking = 0 /\ ~port
        /\ serve[i] = "none" /\ serve' = [serve EXCEPT ![i] = "listening"]
        /\ port' \/ blocking' = i
    BY <1>3 DEF StartInApp, StartOnPort, Listen, Unlocked, Free
  <2>2. \A k \in Servers : (Alive(k)' <=> Alive(k)) /\ (k # i => serve'[k] = serve[k])
    BY <2>1, <1>t DEF Alive, Closing
  <2>3. serve'[i] = "listening"
    BY <2>1, <1>t
  <2>4. grpc = "new" => \A k \in Servers : ~Busy(k)
    BY <2>1, <1>t DEF Guarded
  <2>5. Served'
    BY <1>0, <2>1, <2>2, <2>3 DEF Served
  <2>6. Guarded'
    BY <1>0, <1>t, <2>1, <2>2, <2>3, <2>4 DEF Guarded, Busy
  <2> QED
    BY <2>5, <2>6
<1>4. ASSUME NEW i \in Servers, ServeOn(i) PROVE Served' /\ Guarded'
  <2>1. /\ UNCHANGED <<held, grpc, port, blocking, handlers>> /\ grpc = "new"
        /\ serve[i] = "listening" /\ serve' = [serve EXCEPT ![i] = "serving"]
    BY <1>4 DEF ServeOn
  <2>2. \A k \in Servers : k # i => serve[k] = "none" /\ serve'[k] = "none"
    BY <2>1, <1>t DEF Guarded, Busy
  <2>3. serve'[i] = "serving" /\ pc = "up" /\ (port \/ blocking = i)
    BY <2>1, <1>t DEF Guarded, Busy
  <2>4. Served'
    BY <1>0, <2>1, <2>2, <2>3 DEF Served, Alive, Closing
  <2>5. Guarded'
    BY <1>0, <2>1, <2>2, <2>3 DEF Guarded, Busy
  <2> QED
    BY <2>4, <2>5
<1>5. ASSUME NEW i \in Servers, Refused(i) PROVE Served' /\ Guarded'
  <2>1. /\ UNCHANGED <<held, grpc, port, handlers>> /\ grpc = "stopped"
        /\ serve[i] = "listening" /\ serve' = [serve EXCEPT ![i] = "none"]
    BY <1>5 DEF Refused
  <2>2. \A k \in Servers : (Alive(k)' <=> Alive(k)) /\ (k # i => serve'[k] = serve[k])
    BY <2>1, <1>t DEF Alive, Closing
  <2>3. serve'[i] = "none"
    BY <2>1, <1>t
  <2>4. Served'
    BY <1>0, <2>1, <2>2, <2>3 DEF Served
  <2>5. Guarded'
    BY <1>0, <2>1, <2>2, <2>3 DEF Guarded
  <2> QED
    BY <2>4, <2>5
<1>6. ASSUME NEW i \in Servers, StopService(i) \/ ServiceStopped(i) PROVE Served' /\ Guarded'
  <2>1. /\ UNCHANGED <<held, grpc, port, blocking, handlers>>
        /\ serve[i] \in {"returned", "quitting"}
        /\ \E next \in {"closing", "quitting", "wedged"} :
              /\ serve' = [serve EXCEPT ![i] = next]
              /\ next = "closing" =>
                    handlers = {} \/ \E k \in Servers : k # i /\ serve[k] \in Closing
    BY <1>6 DEF StopService, ServiceStopped
  <2>2. \A k \in Servers : Alive(k) => k = i
    BY <2>1 DEF Served, Alive, Closing
  <2>3. PICK next \in {"closing", "quitting", "wedged"} :
              /\ serve' = [serve EXCEPT ![i] = next]
              /\ next = "closing" => handlers = {}
    BY <2>1, <2>2 DEF Alive
  <2>4. serve'[i] = next /\ \A k \in Servers : k # i => serve'[k] = serve[k]
    BY <2>3, <1>t
  <2>5. pc = "up" /\ grpc = "stopped"
    BY <2>1, <1>t DEF Served, Guarded, Alive, Closing, Busy
  <2>6. Served'
    BY <1>0, <2>1, <2>2, <2>3, <2>4, <2>5 DEF Served, Alive, Closing
  <2>7. Guarded'
    BY <1>0, <2>1, <2>3, <2>4, <2>5 DEF Guarded
  <2> QED
    BY <2>6, <2>7
<1> QED
  BY <1>1, <1>2, <1>3, <1>4, <1>5, <1>6 DEF Calls

LEMMA LifeServed ==
    ASSUME LifeTypeOK, SaneUp, Served, Guarded, LifeNext
    PROVE  Served' /\ Guarded'
<1>t. 0 \notin Servers /\ serve \in [Servers -> {"none", "listening", "serving"} \cup Closing]
      /\ grpc \in {"none", "new", "stopped"}
  BY DEF Servers, LifeTypeOK
<1>1. ASSUME NEW c \in Checkpoints \cup {None}, NewDaemon(c) PROVE Served' /\ Guarded'
  BY <1>1, FreshDaemon DEF NewDaemon
<1>2. ASSUME TryAgain \/ Killed PROVE Served' /\ Guarded'
  BY <1>2, FreshDaemon DEF TryAgain, Killed
<1>3. ASSUME Opening PROVE Served' /\ Guarded'
  <2>1. /\ pc \notin {"up", "down"} /\ pc' # "down"
        /\ UNCHANGED <<op, cf, port, blocking, serve, handlers>>
        /\ grpc' = IF pc' = "up" THEN "new" ELSE "none"
    BY <1>3, OpeningPc DEF LifeTypeOK
  <2>2. grpc = "none" /\ blocking = 0 /\ ~port /\ \A k \in Servers : serve[k] = "none"
    BY <2>1, <1>t DEF Guarded
  <2>3. Served'
    BY <2>1, <2>2 DEF Served, Alive, Closing
  <2>4. Guarded'
    BY <2>1, <2>2 DEF Guarded, Busy
  <2> QED
    BY <2>3, <2>4
<1>4. ASSUME Working PROVE Served' /\ Guarded'
  <2>1. /\ pc = "up" /\ pc' = "up" /\ UNCHANGED lifeVars
        /\ "block" \notin handlers => op' = op
        /\ "filter" \notin handlers => cf' = cf
    BY <1>4, WorkingPc
  <2>2. Served'
    BY <2>1 DEF Served, Alive, lifeVars
  <2>3. Guarded'
    BY <2>1 DEF Guarded, Busy, lifeVars
  <2> QED
    BY <2>2, <2>3
<1>5. ASSUME NEW i \in Servers, CloseDb(i) PROVE Served' /\ Guarded'
  <2>1. /\ serve[i] = "closing" /\ serve' = [serve EXCEPT ![i] = "closed"]
        /\ UNCHANGED <<grpc, port, handlers>> /\ pc' = "down" /\ op' = "idle" /\ cf' = "idle"
    BY <1>5 DEF CloseDb, ServeEnds, Down, Idle
  <2>2. \A k \in Servers : Alive(k) => k = i
    BY <2>1 DEF Served, Alive, Closing
  <2>3. serve'[i] = "closed" /\ \A k \in Servers : k # i => serve'[k] = serve[k]
    BY <2>1, <1>t
  <2>4. grpc = "stopped"
    BY <2>1, <1>t DEF Guarded, Busy
  <2>5. Served'
    BY <2>1, <2>2, <2>3 DEF Served, Alive, Closing
  <2>6. Guarded'
    BY <2>1, <2>2, <2>3, <2>4 DEF Guarded, Alive
  <2> QED
    BY <2>5, <2>6
<1> QED
  BY <1>1, <1>2, <1>3, <1>4, <1>5, CallsServed, LifeSteps

(* What an orderly stop leaves stays until the next start. *)
LEMMA LeftStep ==
    ASSUME LifeTypeOK, SaneUp, Unhit, Served, Guarded, LeftExact, LifeNext
    PROVE  LeftExact'
<1>1. ASSUME NEW c \in Checkpoints \cup {None}, NewDaemon(c) PROVE LeftExact'
  BY <1>1, FreshDaemon DEF NewDaemon
<1>2. ASSUME TryAgain \/ Killed PROVE LeftExact'
  BY <1>2, FreshDaemon DEF TryAgain, Killed
<1>3. ASSUME Opening \/ Working PROVE LeftExact'
  <2>1. pc # "down" /\ serve' = serve
    BY <1>3, OpeningPc, WorkingPc DEF LifeTypeOK, lifeVars
  <2>2. \A i \in Servers : serve[i] # "closed"
    BY <2>1 DEF Served, Alive, Closing
  <2> QED
    BY <2>1, <2>2 DEF LeftExact
<1>4. ASSUME Calls PROVE LeftExact'
  <2>1. UNCHANGED disk /\ hit' = hit
    BY <1>4, CallsQuiet DEF vars, count
  <2>2. \A k \in Servers : serve'[k] = "closed" => serve[k] = "closed"
    BY <1>4 DEF LifeTypeOK, Calls, Stop, BlockHandlerQuits, CfHandlerQuits, Leaves, StartInApp, StartOnPort,
                Listen, ServeOn, Refused, StopService, ServiceStopped
  <2> QED
    BY <2>1, <2>2, DiskKept DEF LeftExact
<1>5. ASSUME NEW i \in Servers, CloseDb(i) PROVE LeftExact'
  <2>1. CloseStores /\ UNCHANGED disk /\ hit' = hit
    BY <1>5, CloseIdle DEF CloseStores, Down, count
  <2>2. ASSUME ~hit PROVE IndexSound /\ \A k \in Kinds : Exact(k)
    BY <2>1, <2>2, KindsAre DEF Unhit, Running, BlockSide, FilterSide, CloseStores
  <2> QED
    BY <2>1, <2>2, DiskKept DEF LeftExact
<1> QED
  BY <1>1, <1>2, <1>3, <1>4, <1>5, LifeSteps

LEMMA SafeInit == LifeInit => SafeInv
<1> SUFFICES ASSUME LifeInit PROVE SafeInv
  OBVIOUS
<1>1. TypeOK /\ Sane /\ SaneUp
  BY StoreInit DEF LifeInit
<1>2. LifeTypeOK
  BY <1>1 DEF LifeInit, LifeTypeOK
<1>3. Served /\ Guarded
  BY DEF LifeInit, Served, Guarded, Alive, Busy, Closing, Kinds
<1> QED
  BY <1>1, <1>2, <1>3 DEF SafeInv

LEMMA StillKept ==
    ASSUME UNCHANGED all
    PROVE  /\ SafeInv => SafeInv'
           /\ LeftExact => LeftExact'
<1>1. UNCHANGED vars /\ UNCHANGED lifeVars /\ UNCHANGED disk
  BY DEF all, vars
<1>2. (LifeTypeOK => LifeTypeOK') /\ (SaneUp => SaneUp')
  BY <1>1 DEF LifeTypeOK, TypeOK, SaneUp, Up, Rolling, vars, lifeVars, disk, bhVars, cfVars, count,
         Bottom, BaseOf
<1>3. Sane => Sane'
  BY <1>1 DEF Sane, vars, disk, bhVars, cfVars, count, Bottom, BaseOf
<1>4. (Served => Served') /\ (Guarded => Guarded')
  BY <1>1 DEF Served, Guarded, Alive, Busy, vars, lifeVars, bhVars, cfVars
<1>5. LeftExact => LeftExact'
  BY <1>1, DiskKept DEF LeftExact, vars, lifeVars, count
<1> QED
  BY <1>2, <1>3, <1>4, <1>5 DEF SafeInv

LEMMA SafeStep == SafeInv /\ [LifeNext]_all => SafeInv'
<1> SUFFICES ASSUME SafeInv, [LifeNext]_all PROVE SafeInv'
  OBVIOUS
<1>1. CASE LifeNext
  <2>1. StoreStep \/ UNCHANGED vars
    BY <1>1, LifeStore DEF SafeInv
  <2>2. TypeOK' /\ Sane' /\ SaneUp'
    <3>1. CASE StoreStep
      BY <3>1, TypeStep, SaneStep DEF SafeInv, LifeTypeOK
    <3>2. CASE UNCHANGED vars
      <4>1. TypeOK'
        BY <3>2 DEF SafeInv, LifeTypeOK, TypeOK, vars, disk, bhVars, cfVars, count
      <4>2. Sane' /\ SaneUp'
        BY <3>2 DEF SafeInv, Sane, SaneUp, Up, Rolling, vars, disk, bhVars, cfVars, count, Bottom, BaseOf
      <4> QED
        BY <4>1, <4>2
    <3> QED
      BY <2>1, <3>1, <3>2
  <2>3. LifeTypeOK'
    BY <1>1, <2>2, LifeTypes DEF SafeInv
  <2>4. Served' /\ Guarded'
    BY <1>1, LifeServed DEF SafeInv
  <2> QED
    BY <2>2, <2>3, <2>4 DEF SafeInv
<1>2. CASE UNCHANGED all
  BY <1>2, StillKept
<1> QED
  BY <1>1, <1>2

LEMMA AlwaysSafe == LifeSpec => []SafeInv
BY SafeInit, SafeStep, PTL DEF LifeSpec

LEMMA UnhitNext ==
    ASSUME NoRace
    PROVE  SafeInv /\ SafeInv' /\ Unhit /\ LeftExact /\ [LifeNext]_all => Unhit' /\ LeftExact'
<1> SUFFICES ASSUME SafeInv, SafeInv', Unhit, LeftExact, [LifeNext]_all PROVE Unhit' /\ LeftExact'
  OBVIOUS
<1>1. CASE LifeNext
  <2>1. StoreStep \/ UNCHANGED vars
    BY <1>1, LifeStore DEF SafeInv
  <2>2. Unhit'
    BY <2>1, UnhitStep, UnhitKept DEF SafeInv, LifeTypeOK
  <2>3. LeftExact'
    BY <1>1, LeftStep DEF SafeInv
  <2> QED
    BY <2>2, <2>3
<1>2. CASE UNCHANGED all
  BY <1>2, StillKept, UnhitKept DEF all
<1> QED
  BY <1>1, <1>2

LEMMA UnhitFirst == LifeInit => Unhit /\ LeftExact
<1> SUFFICES ASSUME LifeInit PROVE Unhit /\ LeftExact
  OBVIOUS
<1>1. Unhit
  BY UnhitInit DEF LifeInit
<1>2. LeftExact
  BY DEF LifeInit, LeftExact
<1> QED
  BY <1>1, <1>2

LEMMA AlwaysIInv == ASSUME NoRace PROVE LifeSpec => []IInv
<1>1. SafeInv /\ SafeInv' /\ Unhit /\ LeftExact /\ [LifeNext]_all => Unhit' /\ LeftExact'
  BY UnhitNext
<1>2. SafeInv /\ Unhit /\ LeftExact => IInv
  BY DEF IInv
<1> QED
  BY <1>1, <1>2, AlwaysSafe, UnhitFirst, PTL DEF LifeSpec
-------------------------------------------------------------------------------
(* Theorems *)

(* Every variable of the stores and of the daemon keeps to its type; above *)
(* all, no kill, wherever it comes, makes a later step read a header of an *)
(* empty store or cut a file below its beginning.                          *)
THEOREM LifeTypeCorrect == LifeSpec => []LifeTypeOK
<1>1. SafeInv => LifeTypeOK
  BY DEF SafeInv
<1> QED
  BY <1>1, AlwaysSafe, PTL

LEMMA OneAlive == SafeInv => ClosedOnce
<1> SUFFICES ASSUME SafeInv PROVE ClosedOnce
  OBVIOUS
<1> DEFINE Past == {i \in Servers : serve[i] \in Closing}
<1>1. \A i \in Past, k \in Past : i = k
  BY DEF SafeInv, Served, Alive
<1>2. CASE Past = {}
  BY <1>2, FS_EmptySet DEF ClosedOnce
<1>3. ASSUME NEW i \in Past PROVE ClosedOnce
  <2>1. Past = {i}
    BY <1>1, <1>3
  <2>2. Cardinality(Past) = 1
    BY <2>1, FS_Singleton
  <2> QED
    BY <2>2 DEF ClosedOnce
<1> QED
  BY <1>2, <1>3

(* However often and from wherever Start and Stop are called, one call of  *)
(* serve at most stops the chain service and closes the database: a second *)
(* one would close it under the handlers.                                  *)
THEOREM ClosedOnlyOnce == LifeSpec => []ClosedOnce
BY OneAlive, AlwaysSafe, PTL

LEMMA InvFails == IInv => FailsOnlyIfHit
BY DEF IInv, Unhit, Started, FailsOnlyIfHit

(* Killed anywhere but in the moments of Hazards, any number of times, and *)
(* with any restore checkpoints: the next NewDaemonWithRestoreCheckpoint   *)
(* opens the stores.                                                       *)
THEOREM StartsAgain == ASSUME NoRace PROVE LifeSpec => []FailsOnlyIfHit
BY InvFails, AlwaysIInv, PTL

LEMMA InvHolds ==
    ASSUME IInv, Up, ~hit, NEW k \in Kinds, Exact(k)
    PROVE  Holds(k)
<1>1. TypeOK /\ Running
  BY DEF IInv, SafeInv, LifeTypeOK, Unhit
<1>2. /\ Bottom \in Nat /\ Bottom >= 1 /\ base[k] = Bottom
      /\ tip[k] \in Blocks /\ Bottom <= Height(tip[k]) /\ height[tip[k]] = Height(tip[k])
      /\ file[k] \in Seq(Blocks)
  BY <1>1, RunFacts, KindsAre
<1>3. file[k] = SubSeq(Path[tip[k]], Bottom, Height(tip[k]))
  BY <1>2, ChainIsPath DEF Exact
<1> QED
  BY <1>2, <1>3 DEF Holds

LEMMA InvAgree == IInv => StoresAgree
<1> SUFFICES ASSUME IInv, Up, ~hit
             PROVE  /\ op \in {"idle", "roll", "rollBlock"} =>
                         /\ Holds("block")
                         /\ \A b \in Blocks : height[b] =
                                IF On(b, tip["block"]) /\ Height(b) >= base["block"]
                                  THEN Height(b) ELSE 0
                    /\ op = "idle" /\ cf # "index" =>
                         Holds("filter") /\ On(tip["filter"], tip["block"])
  BY DEF StoresAgree
<1>1. /\ IndexSound /\ BlockSide /\ FilterSide /\ base["block"] = Bottom
      /\ On(tip["filter"], tip["block"])
  BY RunFacts DEF IInv, SafeInv, LifeTypeOK, Unhit
<1>2. \A b \in Blocks : height[b] = IF On(b, tip["block"]) /\ Height(b) >= base["block"]
                                      THEN Height(b) ELSE 0
  BY <1>1 DEF IndexSound
<1>3. ASSUME op \in {"idle", "roll", "rollBlock"} PROVE Holds("block")
  <2>1. Exact("block")
    BY <1>1, <1>3 DEF BlockSide
  <2> QED
    BY <2>1, InvHolds, KindsAre
<1>4. ASSUME op = "idle", cf # "index" PROVE Holds("filter")
  <2>1. Exact("filter")
    BY <1>1, <1>4 DEF FilterSide
  <2> QED
    BY <2>1, InvHolds, KindsAre
<1> QED
  BY <1>1, <1>2, <1>3, <1>4

(* While the stores are up and none of the moments of Hazards has hit      *)
(* them, between the steps of an update FetchHeader by hash and by height  *)
(* tell one chain, and the filter headers follow it up to their tip.       *)
THEOREM StoresTellOneChain == ASSUME NoRace PROVE LifeSpec => []StoresAgree
BY InvAgree, AlwaysIInv, PTL

LEMMA InvSeed == IInv => SeedApplied
<1> SUFFICES ASSUME IInv, pc = "manage", ~hit
             PROVE  /\ asked # None => \A k \in Kinds : height[tip[k]] >= Height(asked)
                    /\ first["block"] > Height(Base) => mweb = {"leaves", "leafset"}
  BY DEF SeedApplied
<1>1. TypeOK /\ IndexSound /\ Backed /\ Reaches
  BY DEF IInv, SafeInv, LifeTypeOK, Unhit, Started
<1>2. \A k \in Kinds : height[tip[k]] = Height(tip[k])
  BY <1>1, SoundTips
<1> QED
  BY <1>1, <1>2 DEF Backed, Reaches

(* A daemon that opened its stores after being given a restore checkpoint  *)
(* has chains that reach it; and a chain that begins at a checkpoint has   *)
(* the checkpoint's leafset and leaf count in the coin store.              *)
THEOREM CheckpointReached == ASSUME NoRace PROVE LifeSpec => []SeedApplied
BY InvSeed, AlwaysIInv, PTL

LEMMA InvOrderly == IInv => OrderlyStop
<1> SUFFICES ASSUME IInv, \E i \in Servers : serve[i] = "closed", ~hit
             PROVE  /\ \A k \in Kinds : /\ file[k][Len(file[k])] = tip[k]
                                        /\ height[tip[k]] = Height(tip[k])
                    /\ On(tip["filter"], tip["block"])
  BY DEF OrderlyStop
<1>1. TypeOK /\ IndexSound /\ \A k \in Kinds : Exact(k)
  BY DEF IInv, SafeInv, LifeTypeOK, LeftExact
<1>2. ASSUME NEW k \in Kinds
      PROVE  file[k][Len(file[k])] = tip[k] /\ height[tip[k]] = Height(tip[k])
  <2>1. /\ Bottom \in Nat /\ Bottom >= 1 /\ file[k] \in Seq(Blocks)
        /\ tip[k] \in Blocks /\ Bottom <= Height(tip[k]) /\ height[tip[k]] = Height(tip[k])
    BY <1>1, SoundTips, BottomType, FileType
  <2> QED
    BY <1>1, <2>1, ChainType DEF Exact
<1>3. On(tip["filter"], tip["block"])
  BY <1>1 DEF IndexSound
<1> QED
  BY <1>2, <1>3

(* Whoever opens the data directory after an orderly stop finds each file  *)
(* ending at the tip its index records, and the filter headers on the path *)
(* of the blocks.                                                          *)
THEOREM StopLeavesOrder == ASSUME NoRace PROVE LifeSpec => []OrderlyStop
BY InvOrderly, AlwaysIInv, PTL
===============================================================================
