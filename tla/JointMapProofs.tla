--------------------------- MODULE JointMapProofs ---------------------------
(***************************************************************************)
(* Why a layer has one joint, and why the joints hold the items            *)
(* (JointMap), for every set of items, layers and nodes.                   *)
(*                                                                         *)
(* Each operation on a bucket walks over a sequence, so each is a          *)
(* recursive function that is known by its first value and its step        *)
(* (Walk).  All of them begin with Touched, of which TouchedStands says    *)
(* everything: one joint of the result overlaps the layers and spans them, *)
(* and nothing is lost on the way.                                         *)
(***************************************************************************)
EXTENDS JointMap, TLAPS, FiniteSetTheorems, SequenceTheorems, WellFoundedInduction

LEMMA LeastOf ==
    ASSUME NEW S \in SUBSET Nat, S # {}
    PROVE  Min(S) \in S /\ \A y \in S : Min(S) <= y
<1> DEFINE R == OpToRel(<, Nat)
<1>1. PICK x \in S : \A y \in S : ~(<<y, x>> \in R)
  BY NatLessThanWellFounded, WFMin
<1>2. ASSUME NEW y \in S PROVE x <= y
  <2>1. y < x => <<y, x>> \in R  BY DEF OpToRel
  <2>2. <<y, x>> \notin R  BY <1>1
  <2> HIDE DEF R
  <2> QED  BY <2>1, <2>2
<1> QED  BY <1>2 DEF Min

(* What holds of 0 and is handed on holds up to n.                         *)
LEMMA UpTo ==
    ASSUME NEW n \in Nat, NEW S, 0 \in S, \A k \in 1 .. n : k - 1 \in S => k \in S
    PROVE  \A k \in 0 .. n : k \in S
<1> DEFINE Out == (0 .. n) \ S
<1>1. SUFFICES ASSUME Out # {} PROVE FALSE  OBVIOUS
<1>2. Out \in SUBSET Nat  OBVIOUS
<1>3. Min(Out) \in Out /\ \A y \in Out : Min(Out) <= y  BY <1>1, <1>2, LeastOf
<1> DEFINE m == Min(Out)
<1> HIDE DEF m
<1>4. m \in 0 .. n /\ m \notin S /\ \A y \in Out : m <= y  BY <1>3 DEF m
<1>5. m # 0  BY <1>4
<1>6. m \in 1 .. n /\ m - 1 \in 0 .. n /\ ~(m <= m - 1)  BY <1>4, <1>5
<1>7. m - 1 \in S  BY <1>4, <1>6
<1> QED  BY <1>4, <1>6, <1>7

(* A walk of n steps through S from base: step k is Step[k].               *)
IsWalk(f, S, base, n, Step) ==
    f \in [0 .. n -> S] /\ f[0] = base /\ \A k \in 1 .. n : f[k] = Step[k][f[k - 1]]
Steps(S, n) == [1 .. n -> [S -> S]]

LEMMA Walk ==
    ASSUME NEW S, NEW base \in S, NEW n \in Nat, NEW Step \in Steps(S, n)
    PROVE  \E f : IsWalk(f, S, base, n, Step)
<1>. USE DEF Steps
<1> DEFINE Is(f, m) == f[0] = base /\ \A k \in 1 .. m : f[k] = Step[k][f[k - 1]]
           Ms == {m \in 0 .. n : \E f \in [0 .. m -> S] : Is(f, m)}
<1>1. 0 \in Ms
  <2>1. PICK f : f = [k \in 0 .. 0 |-> base]  OBVIOUS
  <2>2. f \in [0 .. 0 -> S] /\ f[0] = base  BY <2>1
  <2>3. Is(f, 0)  BY <2>2
  <2> HIDE DEF Is
  <2> QED  BY <2>2, <2>3
<1>2. ASSUME NEW k \in 1 .. n, k - 1 \in Ms PROVE k \in Ms
  <2>1. PICK f \in [0 .. k - 1 -> S] : Is(f, k - 1)  BY <1>2
  <2>0. PICK g : g = [i \in 0 .. k |-> IF i = k THEN Step[k][f[k - 1]] ELSE f[i]]
    OBVIOUS
  <2>a. Step[k] \in [S -> S] /\ k - 1 \in 0 .. k - 1  OBVIOUS
  <2>b. Step[k][f[k - 1]] \in S  BY <2>a
  <2>2. g \in [0 .. k -> S]  BY <2>0, <2>b
  <2>3. g[0] = base  BY <2>0, <2>1
  <2>4. ASSUME NEW i \in 1 .. k PROVE g[i] = Step[i][g[i - 1]]
    <3>1. CASE i = k
      <4>1. k \in 0 .. k /\ k - 1 \in 0 .. k /\ k - 1 # k  OBVIOUS
      <4>2. g[k - 1] = f[k - 1] /\ g[k] = Step[k][f[k - 1]]  BY <4>1, <2>0
      <4> QED  BY <3>1, <4>2
    <3>2. CASE i # k
      <4>1. i \in 1 .. k - 1 /\ i - 1 # k /\ i \in 0 .. k /\ i - 1 \in 0 .. k  BY <3>2
      <4>2. g[i] = f[i] /\ g[i - 1] = f[i - 1]  BY <2>0, <3>2, <4>1
      <4> QED  BY <2>1, <4>1, <4>2
    <3> QED  BY <3>1, <3>2
  <2>5. Is(g, k)  BY <2>3, <2>4
  <2> HIDE DEF Is
  <2> QED  BY <2>2, <2>5
<1> HIDE DEF Ms
<1>3. \A k \in 1 .. n : k - 1 \in Ms => k \in Ms  BY <1>2
<1>4. \A k \in 0 .. n : k \in Ms  BY <1>1, <1>3, UpTo
<1>5. n \in Ms  BY <1>4
<1> QED  BY <1>5 DEF Ms, IsWalk
----------------------------------------------------------------------------
(* A joint before it is known that its layers are a range.                 *)
Loose == [layers : SUBSET (0 .. MaxLayer), links : Seq(Item), locked : BOOLEAN]

LEMMA RangesMeet ==
    /\ {} \in Ranges
    /\ \A r \in Ranges : r \subseteq 0 .. MaxLayer
    /\ \A r, s \in Ranges : r \cap s # {} => r \cup s \in Ranges
<1>1. MaxLayer \in Nat  BY AssumeItems
<1>2. {} \in Ranges
  <2>1. 0 .. (-1) = {} /\ 0 \in 0 .. MaxLayer /\ -1 \in -1 .. MaxLayer  BY <1>1
  <2> QED  BY <2>1 DEF Ranges
<1>3. \A r \in Ranges : r \subseteq 0 .. MaxLayer  BY <1>1 DEF Ranges
<1>4. ASSUME NEW r \in Ranges, NEW s \in Ranges, r \cap s # {}
      PROVE  r \cup s \in Ranges
  <2>1. PICK a \in 0 .. MaxLayer, b \in -1 .. MaxLayer : r = a .. b  BY DEF Ranges
  <2>2. PICK c \in 0 .. MaxLayer, d \in -1 .. MaxLayer : s = c .. d  BY DEF Ranges
  <2>3. PICK x \in Int : a <= x /\ x <= b /\ c <= x /\ x <= d  BY <1>1, <1>4, <2>1, <2>2
  <2>4. PICK l \in 0 .. MaxLayer : (l = a \/ l = c) /\ l <= a /\ l <= c  BY <1>1
  <2>5. PICK h \in -1 .. MaxLayer : (h = b \/ h = d) /\ b <= h /\ d <= h  BY <1>1
  <2>6. r \cup s = l .. h  BY <1>1, <2>1, <2>2, <2>3, <2>4, <2>5
  <2> QED  BY <2>6 DEF Ranges
<1> QED  BY <1>2, <1>3, <1>4

LEMMA JointIsLoose == Joint \subseteq Loose
BY RangesMeet DEF Joint, Loose

LEMMA LayersType ==
    ASSUME NEW item \in Item
    PROVE  Layers[item] \in Ranges /\ Layers[item] # {}
BY AssumeItems

LEMMA MergedType ==
    ASSUME NEW j \in Loose, NEW other \in Loose
    PROVE  /\ Merged(j, other) \in Loose
           /\ Merged(j, other).layers = j.layers \cup other.layers
           /\ Merged(j, other).links = j.links \o other.links
BY DEF Merged, Loose

LEMMA ExceptType ==
    ASSUME NEW S, NEW s \in Seq(S), NEW i, NEW x, i \in DOMAIN s => x \in S
    PROVE  /\ [s EXCEPT ![i] = x] \in Seq(S)
           /\ Len([s EXCEPT ![i] = x]) = Len(s)
           /\ \A k \in DOMAIN s : [s EXCEPT ![i] = x][k] = IF k = i THEN x ELSE s[k]
<1>1. PICK t : t = [s EXCEPT ![i] = x]  OBVIOUS
<1>2. s \in [1 .. Len(s) -> S] /\ Len(s) \in Nat  OBVIOUS
<1>3. t \in [1 .. Len(s) -> S]  BY <1>1, <1>2
<1>4. t \in Seq(S) /\ Len(t) = Len(s)  BY <1>2, <1>3
<1>5. \A k \in DOMAIN s : t[k] = IF k = i THEN x ELSE s[k]  BY <1>1, <1>2
<1> QED  BY <1>1, <1>4, <1>5
----------------------------------------------------------------------------
LEMMA TakenType ==
    ASSUME NEW b \in Seq(Joint), NEW layers \in Ranges, NEW k \in 1 .. Len(b),
           NEW t \in Seq(Loose)
    PROVE  Taken(b, layers, k, t) \in Seq(Loose)
<1> DEFINE first == Min(Overlapping(b, layers))
<1>1. b[k] \in Loose /\ layers \subseteq 0 .. MaxLayer  BY JointIsLoose, RangesMeet
<1>2. [b[k] EXCEPT !.layers = @ \cup layers] \in Loose  BY <1>1 DEF Loose
<1>3. ASSUME first \in DOMAIN t PROVE Merged(t[first], b[k]) \in Loose
  <2>1. t[first] \in Loose  BY <1>3
  <2> QED  BY <1>1, <2>1, MergedType
<1>4. [t EXCEPT ![first] = Merged(t[first], b[k])] \in Seq(Loose)  BY <1>3, ExceptType
<1> QED  BY <1>1, <1>2, <1>4 DEF Taken

LEMMA TouchedWalk ==
    ASSUME NEW b \in Seq(Joint), NEW layers \in Ranges, Overlapping(b, layers) # {}
    PROVE  \E f \in [0 .. Len(b) -> Seq(Loose)] :
             /\ f[0] = <<>> /\ \A k \in 1 .. Len(b) : f[k] = Taken(b, layers, k, f[k - 1])
             /\ Touched(b, layers) = f[Len(b)]
<1> DEFINE Is(g) == g = [k \in 0 .. Len(b) |->
                            IF k = 0 THEN <<>> ELSE Taken(b, layers, k, g[k - 1])]
<1>1. PICK Step : Step = [k \in 1 .. Len(b) |-> [t \in Seq(Loose) |-> Taken(b, layers, k, t)]]
  OBVIOUS
<1>2. Step \in [1 .. Len(b) -> [Seq(Loose) -> Seq(Loose)]]  BY <1>1, TakenType
<1>3. <<>> \in Seq(Loose) /\ Len(b) \in Nat  OBVIOUS
<1>4. PICK f \in [0 .. Len(b) -> Seq(Loose)] :
        f[0] = <<>> /\ \A k \in 1 .. Len(b) : f[k] = Step[k][f[k - 1]]
  <2>1. Step \in Steps(Seq(Loose), Len(b))  BY <1>2 DEF Steps
  <2>2. \E f : IsWalk(f, Seq(Loose), <<>>, Len(b), Step)
    BY <1>3, <2>1, Walk
  <2> QED  BY <2>2 DEF IsWalk
<1>5. ASSUME NEW k \in 1 .. Len(b) PROVE f[k] = Taken(b, layers, k, f[k - 1])
  <2>1. k - 1 \in 0 .. Len(b)  OBVIOUS
  <2> QED  BY <1>1, <1>4, <2>1
<1>6. f = [k \in 0 .. Len(b) |-> IF k = 0 THEN <<>> ELSE Taken(b, layers, k, f[k - 1])]
  BY <1>4, <1>5
<1>7. Is(CHOOSE g : Is(g))  BY <1>6
<1>8. PICK h : Is(h) /\ h = CHOOSE g : Is(g)  BY <1>7
<1>9. Touched(b, layers) = h[Len(b)]  BY <1>8 DEF Touched
<1>10. \A k \in 0 .. Len(b) : h[k] = f[k]
  <2> DEFINE S == {k \in 0 .. Len(b) : h[k] = f[k]}
  <2>1. 0 \in S  BY <1>3, <1>4, <1>8
  <2>2. ASSUME NEW k \in 1 .. Len(b), k - 1 \in S PROVE k \in S
    BY <1>5, <1>8, <2>2
  <2> HIDE DEF S
  <2>3. \A k \in 0 .. Len(b) : k \in S  BY <1>3, <2>1, <2>2, UpTo
  <2> QED  BY <2>3 DEF S
<1>11. Touched(b, layers) = f[Len(b)]  BY <1>3, <1>9, <1>10
<1> QED  BY <1>4, <1>5, <1>11
----------------------------------------------------------------------------
LEMMA OverlappingType ==
    ASSUME NEW b \in Seq(Joint), NEW layers
    PROVE  /\ \A i \in 1 .. Len(b) : i \in Overlapping(b, layers) <=> b[i].layers \cap layers # {}
           /\ Overlapping(b, layers) \subseteq 1 .. Len(b)
           /\ Overlapping(b, layers) # {} =>
                /\ Min(Overlapping(b, layers)) \in Overlapping(b, layers)
                /\ \A i \in Overlapping(b, layers) : Min(Overlapping(b, layers)) <= i
<1>1. DOMAIN b = 1 .. Len(b)  OBVIOUS
<1>2. Overlapping(b, layers) \in SUBSET Nat  BY <1>1 DEF Overlapping
<1> QED  BY <1>1, <1>2, LeastOf DEF Overlapping

(* The joint at place at spans the layers, and no other overlaps them.     *)
Spans(b, layers, at) ==
    /\ at \in DOMAIN b /\ layers \subseteq b[at].layers
    /\ \A i \in DOMAIN b : i # at => b[i].layers \cap layers = {}

(* Touched on the way: t is what has become of the first k joints.         *)
Merging(b, layers, first, k, t) ==
    /\ t \in Seq(Joint) /\ Separate(t)
    /\ k < first => Len(t) = k
    /\ first <= k => first \in DOMAIN t /\ layers \subseteq t[first].layers
    /\ \A i \in DOMAIN t : i # first => t[i].layers \cap layers = {}
    /\ \A i \in DOMAIN t, j \in 1 .. Len(b) : k < j =>
         t[i].layers \cap b[j].layers \subseteq IF i = first THEN layers ELSE {}

(* The joint that takes the place of the k-th one if that is not absorbed. *)
Enters(b, layers, first, k, x) ==
    /\ x \in Joint /\ x.links = b[k].links /\ b[k].layers \subseteq x.layers
    /\ \/ k # first /\ x.layers = b[k].layers /\ b[k].layers \cap layers = {}
       \/ k = first /\ x.layers = b[k].layers \cup layers

LEMMA MergingStarts ==
    ASSUME NEW b \in Seq(Joint), NEW layers, NEW first \in 1 .. Len(b)
    PROVE  Merging(b, layers, first, 0, <<>>)
<1>1. <<>> \in Seq(Joint) /\ DOMAIN <<>> = {} /\ Len(<<>>) = 0  OBVIOUS
<1> QED  BY <1>1 DEF Merging, Separate

(* t with a joint at its end.                                              *)
LEMMA MergingAppends ==
    ASSUME NEW b \in Seq(Joint), Separate(b), NEW layers, NEW first \in 1 .. Len(b),
           NEW k \in 1 .. Len(b), NEW t, Merging(b, layers, first, k - 1, t),
           NEW x, Enters(b, layers, first, k, x)
    PROVE  Merging(b, layers, first, k, Append(t, x))
<1>. USE DEF Enters
<1>1. t \in Seq(Joint)  BY DEF Merging
<1>2. PICK u : u = Append(t, x)  OBVIOUS
<1>3. /\ u \in Seq(Joint) /\ Len(u) = Len(t) + 1 /\ Len(t) \in Nat
      /\ DOMAIN t = 1 .. Len(t) /\ DOMAIN u = 1 .. (Len(t) + 1)
      /\ \A i \in 1 .. Len(t) : u[i] = t[i]
      /\ u[Len(t) + 1] = x
  BY <1>1, <1>2
<1> DEFINE new == Len(t) + 1
<1>4. /\ k < first => Len(t) = k - 1 /\ new # first
      /\ k = first => Len(t) = k - 1 /\ new = first
      /\ first < k => first \in DOMAIN t /\ new # first
  BY <1>3 DEF Merging
<1>5. \A i \in 1 .. Len(t) : t[i].layers \cap x.layers = {}
  <2> TAKE i \in 1 .. Len(t)
  <2>1. t[i].layers \cap b[k].layers \subseteq IF i = first THEN layers ELSE {}
    BY <1>3 DEF Merging
  <2>2. i # first => t[i].layers \cap layers = {}  BY <1>3 DEF Merging
  <2>3. k = first => i # first  BY <1>4
  <2> QED  BY <2>1, <2>2, <2>3
<1>6. Separate(u)
  <2>1. \A i, j \in 1 .. Len(t) : i # j => t[i].layers \cap t[j].layers = {}
    BY <1>3 DEF Merging, Separate
  <2>2. \A i \in DOMAIN u : i \in 1 .. Len(t) \/ i = new  BY <1>3
  <2> QED  BY <1>3, <1>5, <2>1, <2>2 DEF Separate
<1>7. first <= k => first \in DOMAIN u /\ layers \subseteq u[first].layers
  <2>1. CASE k = first  BY <1>3, <1>4, <2>1
  <2>2. CASE first < k
    <3>1. first <= k - 1  BY <2>2
    <3> QED  BY <1>3, <1>4, <2>2, <3>1 DEF Merging
  <2> QED  BY <2>1, <2>2
<1>8. \A i \in DOMAIN u : i # first => u[i].layers \cap layers = {}
  <2> TAKE i \in DOMAIN u
  <2>1. CASE i \in 1 .. Len(t)  BY <1>3, <2>1 DEF Merging
  <2>2. CASE i = new  BY <1>3, <1>4, <2>2
  <2> QED  BY <1>3, <2>1, <2>2
<1>9. \A i \in DOMAIN u, j \in 1 .. Len(b) : k < j =>
         u[i].layers \cap b[j].layers \subseteq IF i = first THEN layers ELSE {}
  <2> TAKE i \in DOMAIN u, j \in 1 .. Len(b)
  <2> HAVE k < j
  <2>1. CASE i \in 1 .. Len(t)
    <3>1. k - 1 < j  OBVIOUS
    <3> QED  BY <1>3, <2>1, <3>1 DEF Merging
  <2>2. CASE i = new
    <3>1. b[k].layers \cap b[j].layers = {}  BY DEF Separate
    <3> QED  BY <1>3, <1>4, <2>2, <3>1
  <2> QED  BY <1>3, <2>1, <2>2
<1>10. k < first => Len(u) = k  BY <1>3, <1>4
<1> QED  BY <1>2, <1>3, <1>6, <1>7, <1>8, <1>9, <1>10 DEF Merging

(* A joint that is absorbed.                                               *)
LEMMA MergingAbsorbs ==
    ASSUME NEW b \in Seq(Joint), Separate(b), NEW layers, NEW first \in 1 .. Len(b),
           NEW k \in 1 .. Len(b), first < k, NEW t, Merging(b, layers, first, k - 1, t),
           b[k].layers \cap layers # {}
    PROVE  Merging(b, layers, first, k, [t EXCEPT ![first] = Merged(t[first], b[k])])
<1>1. /\ t \in Seq(Joint) /\ first <= k - 1 /\ first \in DOMAIN t
      /\ layers \subseteq t[first].layers
  BY DEF Merging
<1> DEFINE x == Merged(t[first], b[k])
<1>2. x \in Joint /\ x.layers = t[first].layers \cup b[k].layers
  <2>1. t[first] \in Joint /\ b[k] \in Joint  BY <1>1
  <2>2. t[first].layers \cap b[k].layers # {}  BY <1>1
  <2>3. t[first].layers \cup b[k].layers \in Ranges  BY <2>1, <2>2, RangesMeet DEF Joint
  <2> QED  BY <2>1, <2>3 DEF Merged, Joint
<1> HIDE DEF x
<1>3. PICK u : u = [t EXCEPT ![first] = x]  OBVIOUS
<1>4. /\ u \in Seq(Joint) /\ Len(u) = Len(t) /\ DOMAIN u = DOMAIN t
      /\ u[first] = x /\ \A i \in DOMAIN t : i # first => u[i] = t[i]
  <2>1. u \in Seq(Joint) /\ Len(u) = Len(t)
        /\ \A i \in DOMAIN t : u[i] = IF i = first THEN x ELSE t[i]
    BY <1>1, <1>2, <1>3, ExceptType
  <2> QED  BY <1>1, <2>1
<1>5. \A i \in DOMAIN t : i # first => t[i].layers \cap x.layers = {}
  <2> TAKE i \in DOMAIN t
  <2> HAVE i # first
  <2>1. t[i].layers \cap b[k].layers = {}
    <3>1. k - 1 < k  OBVIOUS
    <3> QED  BY <3>1 DEF Merging
  <2>2. t[i].layers \cap t[first].layers = {}  BY <1>1 DEF Merging, Separate
  <2> QED  BY <1>2, <2>1, <2>2
<1>6. Separate(u)
  <2>1. \A i, j \in DOMAIN t : i # j => t[i].layers \cap t[j].layers = {}
    BY DEF Merging, Separate
  <2> QED  BY <1>4, <1>5, <2>1 DEF Separate
<1>7. \A i \in DOMAIN u : i # first => u[i].layers \cap layers = {}
  BY <1>4 DEF Merging
<1>8. \A i \in DOMAIN u, j \in 1 .. Len(b) : k < j =>
         u[i].layers \cap b[j].layers \subseteq IF i = first THEN layers ELSE {}
  <2> TAKE i \in DOMAIN u, j \in 1 .. Len(b)
  <2> HAVE k < j
  <2>1. k - 1 < j  OBVIOUS
  <2>2. t[i].layers \cap b[j].layers \subseteq IF i = first THEN layers ELSE {}
    BY <1>4, <2>1 DEF Merging
  <2>3. b[k].layers \cap b[j].layers = {}  BY DEF Separate
  <2> QED  BY <1>2, <1>4, <2>2, <2>3
<1>9. layers \subseteq u[first].layers  BY <1>1, <1>2, <1>4
<1>10. ~(k < first)  OBVIOUS
<1>11. Merging(b, layers, first, k, u)
  BY <1>1, <1>4, <1>6, <1>7, <1>8, <1>9, <1>10 DEF Merging
<1> QED  BY <1>3, <1>11 DEF x
----------------------------------------------------------------------------
LEMMA ConcatLinks ==
    ASSUME NEW r \in Seq(Item), NEW s \in Seq(Item)
    PROVE  /\ r \o s \in Seq(Item)
           /\ ToSet(r \o s) = ToSet(r) \cup ToSet(s)
           /\ IsInjective(r) /\ IsInjective(s) /\ ToSet(r) \cap ToSet(s) = {}
              => IsInjective(r \o s)
<1>1. PICK u : u = r \o s  OBVIOUS
<1>2. /\ u \in Seq(Item) /\ Len(u) = Len(r) + Len(s)
      /\ DOMAIN u = 1 .. Len(r) + Len(s)
      /\ DOMAIN r = 1 .. Len(r) /\ DOMAIN s = 1 .. Len(s)
      /\ Len(r) \in Nat /\ Len(s) \in Nat
      /\ \A i \in 1 .. Len(r) : u[i] = r[i]
      /\ \A i \in 1 .. Len(s) : u[Len(r) + i] = s[i]
  BY <1>1
<1>3. \A i \in DOMAIN u :
        \/ i \in 1 .. Len(r) /\ u[i] = r[i]
        \/ i - Len(r) \in 1 .. Len(s) /\ u[i] = s[i - Len(r)]
  <2> TAKE i \in DOMAIN u
  <2>0. i \in 1 .. Len(r) + Len(s)  BY <1>2
  <2>a. i \in Int /\ 1 <= i /\ Len(r) \in Int  BY <1>2, <2>0
  <2>1. CASE i <= Len(r)
    <3>1. i \in 1 .. Len(r)  BY <2>a, <2>1
    <3>2. u[i] = r[i]  BY <1>2, <3>1
    <3> QED  BY <3>1, <3>2
  <2>2. CASE ~(i <= Len(r))
    <3>1. PICK j \in 1 .. Len(s) : i = Len(r) + j
      <4>1. i \in Int /\ Len(r) < i /\ i <= Len(r) + Len(s)  BY <1>2, <2>2
      <4>2. i - Len(r) \in 1 .. Len(s) /\ i = Len(r) + (i - Len(r))  BY <1>2, <4>1
      <4> QED  BY <4>2
    <3>2. u[i] = s[j] /\ i - Len(r) = j  BY <1>2, <3>1
    <3> QED  BY <3>2
  <2> QED  BY <2>1, <2>2
<1>4. ToSet(u) \subseteq ToSet(r) \cup ToSet(s)  BY <1>2, <1>3 DEF ToSet
<1>5. ToSet(r) \subseteq ToSet(u)
  <2>1. \A i \in 1 .. Len(r) : i \in DOMAIN u  BY <1>2
  <2> QED  BY <1>2, <2>1 DEF ToSet
<1>6. ToSet(s) \subseteq ToSet(u)
  <2>1. \A i \in 1 .. Len(s) : Len(r) + i \in DOMAIN u  BY <1>2
  <2> QED  BY <1>2, <2>1 DEF ToSet
<1>7. ASSUME IsInjective(r), IsInjective(s), ToSet(r) \cap ToSet(s) = {},
             NEW p \in DOMAIN u, NEW q \in DOMAIN u, u[p] = u[q]
      PROVE  p = q
  <2>1. CASE p \in 1 .. Len(r) /\ u[p] = r[p] /\ q \in 1 .. Len(r) /\ u[q] = r[q]
    BY <1>2, <1>7, <2>1 DEF IsInjective
  <2>2. CASE /\ p - Len(r) \in 1 .. Len(s) /\ u[p] = s[p - Len(r)]
             /\ q - Len(r) \in 1 .. Len(s) /\ u[q] = s[q - Len(r)]
    <3>1. p - Len(r) = q - Len(r)  BY <1>2, <1>7, <2>2 DEF IsInjective
    <3> QED  BY <1>2, <3>1
  <2>3. CASE p \in 1 .. Len(r) /\ u[p] = r[p] /\ q - Len(r) \in 1 .. Len(s) /\ u[q] = s[q - Len(r)]
    <3>1. u[p] \in ToSet(r) /\ u[q] \in ToSet(s)  BY <1>2, <2>3 DEF ToSet
    <3> QED  BY <1>7, <3>1
  <2>4. CASE q \in 1 .. Len(r) /\ u[q] = r[q] /\ p - Len(r) \in 1 .. Len(s) /\ u[p] = s[p - Len(r)]
    <3>1. u[q] \in ToSet(r) /\ u[p] \in ToSet(s)  BY <1>2, <2>4 DEF ToSet
    <3> QED  BY <1>7, <3>1
  <2> QED  BY <1>3, <2>1, <2>2, <2>3, <2>4
<1>8. IsInjective(r) /\ IsInjective(s) /\ ToSet(r) \cap ToSet(s) = {} => IsInjective(u)
  BY <1>7 DEF IsInjective
<1> QED  BY <1>1, <1>2, <1>4, <1>5, <1>6, <1>8

(* The links of each joint are there once, and their layers are its own.   *)
Linking(b) ==
    \A i \in DOMAIN b : /\ IsInjective(b[i].links)
                        /\ \A x \in ToSet(b[i].links) : Layers[x] \subseteq b[i].layers

(* t has the links of the first k joints.                                  *)
Carries(b, k, t) ==
    /\ Linking(t)
    /\ \A i \in DOMAIN t : \A x \in ToSet(t[i].links) : \E m \in 1 .. k : x \in ToSet(b[m].links)
    /\ \A m \in 1 .. k : \A x \in ToSet(b[m].links) : \E i \in DOMAIN t : x \in ToSet(t[i].links)

LEMMA CarriesStarts ==
    ASSUME NEW b \in Seq(Joint)
    PROVE  Carries(b, 0, <<>>)
<1>1. DOMAIN <<>> = {} /\ 1 .. 0 = {}  OBVIOUS
<1> QED  BY <1>1 DEF Carries, Linking

LEMMA CarriesAppends ==
    ASSUME NEW b \in Seq(Joint), Linking(b), NEW k \in 1 .. Len(b),
           NEW t \in Seq(Joint), Carries(b, k - 1, t),
           NEW x \in Joint, x.links = b[k].links, b[k].layers \subseteq x.layers
    PROVE  Carries(b, k, Append(t, x))
<1>1. PICK u : u = Append(t, x)  OBVIOUS
<1>2. /\ u \in Seq(Joint) /\ Len(t) \in Nat
      /\ DOMAIN t = 1 .. Len(t) /\ DOMAIN u = 1 .. (Len(t) + 1)
      /\ \A i \in 1 .. Len(t) : u[i] = t[i]
      /\ u[Len(t) + 1] = x
  BY <1>1
<1>3. \A i \in DOMAIN u : i \in DOMAIN t \/ i = Len(t) + 1  BY <1>2
<1>4. DOMAIN t \subseteq DOMAIN u /\ Len(t) + 1 \in DOMAIN u  BY <1>2
<1>5. IsInjective(x.links) /\ \A y \in ToSet(x.links) : Layers[y] \subseteq x.layers
  BY DEF Linking
<1>6. Linking(u)  BY <1>2, <1>3, <1>5 DEF Carries, Linking
<1>7. k - 1 \in Nat /\ \A m \in 1 .. k : m \in 1 .. k - 1 \/ m = k  OBVIOUS
<1>8. 1 .. k - 1 \subseteq 1 .. k /\ k \in 1 .. k  OBVIOUS
<1>9. \A i \in DOMAIN u : \A y \in ToSet(u[i].links) : \E m \in 1 .. k : y \in ToSet(b[m].links)
  BY <1>2, <1>3, <1>8 DEF Carries
<1>10. \A m \in 1 .. k : \A y \in ToSet(b[m].links) : \E i \in DOMAIN u : y \in ToSet(u[i].links)
  <2> TAKE m \in 1 .. k
  <2> TAKE y \in ToSet(b[m].links)
  <2>1. CASE m = k  BY <1>2, <1>4, <2>1
  <2>2. CASE m \in 1 .. k - 1
    <3>1. PICK i \in DOMAIN t : y \in ToSet(t[i].links)  BY <2>2 DEF Carries
    <3> QED  BY <1>2, <1>4, <3>1
  <2> QED  BY <1>7, <2>1, <2>2
<1> QED  BY <1>1, <1>6, <1>9, <1>10 DEF Carries

LEMMA CarriesAbsorbs ==
    ASSUME NEW b \in Seq(Joint), Separate(b), Linking(b), NEW k \in 1 .. Len(b),
           NEW t \in Seq(Joint), Carries(b, k - 1, t), NEW first \in DOMAIN t
    PROVE  Carries(b, k, [t EXCEPT ![first] = Merged(t[first], b[k])])
<1>1. t[first] \in Joint /\ b[k] \in Joint  OBVIOUS
<1> DEFINE x == Merged(t[first], b[k])
<1>2. x \in Loose /\ x.layers = t[first].layers \cup b[k].layers
      /\ x.links = t[first].links \o b[k].links
  BY <1>1, JointIsLoose, MergedType
<1> HIDE DEF x
<1>3. PICK u : u = [t EXCEPT ![first] = x]  OBVIOUS
<1>4. /\ DOMAIN u = DOMAIN t
      /\ u[first] = x /\ \A i \in DOMAIN t : i # first => u[i] = t[i]
  BY <1>3
<1>5. t[first].links \in Seq(Item) /\ b[k].links \in Seq(Item)  BY <1>1 DEF Joint
<1>6. ToSet(x.links) = ToSet(t[first].links) \cup ToSet(b[k].links)
  BY <1>2, <1>5, ConcatLinks
<1>7. ToSet(t[first].links) \cap ToSet(b[k].links) = {}
  <2> SUFFICES ASSUME NEW y \in ToSet(t[first].links), y \in ToSet(b[k].links) PROVE FALSE
    OBVIOUS
  <2>1. PICK m \in 1 .. k - 1 : y \in ToSet(b[m].links)  BY DEF Carries
  <2>2. m \in DOMAIN b /\ k \in DOMAIN b /\ m # k  OBVIOUS
  <2>3. Layers[y] \subseteq b[m].layers /\ Layers[y] \subseteq b[k].layers
    BY <2>1, <2>2 DEF Linking
  <2>4. b[m].layers \cap b[k].layers = {}  BY <2>2 DEF Separate
  <2>5. y \in Item  BY <1>5 DEF ToSet
  <2> QED  BY <2>3, <2>4, <2>5, LayersType
<1>8. IsInjective(x.links)
  <2>1. IsInjective(t[first].links)  BY DEF Carries, Linking
  <2>2. IsInjective(b[k].links)  BY DEF Linking
  <2> QED  BY <1>2, <1>5, <1>7, <2>1, <2>2, ConcatLinks
<1>9. \A y \in ToSet(x.links) : Layers[y] \subseteq x.layers
  <2>1. \A y \in ToSet(t[first].links) : Layers[y] \subseteq t[first].layers
    BY DEF Carries, Linking
  <2>2. \A y \in ToSet(b[k].links) : Layers[y] \subseteq b[k].layers  BY DEF Linking
  <2> QED  BY <1>2, <1>6, <2>1, <2>2
<1>10. Linking(u)  BY <1>4, <1>8, <1>9 DEF Carries, Linking
<1>11. k - 1 \in Nat /\ \A m \in 1 .. k : m \in 1 .. k - 1 \/ m = k  OBVIOUS
<1>12. 1 .. k - 1 \subseteq 1 .. k /\ k \in 1 .. k  OBVIOUS
<1>13. ASSUME NEW i \in DOMAIN u, NEW y \in ToSet(u[i].links)
       PROVE  \E m \in 1 .. k : y \in ToSet(b[m].links)
  <2>1. y \in ToSet(t[i].links) \/ y \in ToSet(b[k].links)  BY <1>4, <1>6, <1>13
  <2>2. CASE y \in ToSet(t[i].links)  BY <1>4, <1>12, <2>2 DEF Carries
  <2> QED  BY <1>12, <2>1, <2>2
<1>14. ASSUME NEW m \in 1 .. k, NEW y \in ToSet(b[m].links)
       PROVE  \E i \in DOMAIN u : y \in ToSet(u[i].links)
  <2>1. CASE m = k  BY <1>4, <1>6, <1>14, <2>1
  <2>2. CASE m \in 1 .. k - 1
    <3>1. PICK i \in DOMAIN t : y \in ToSet(t[i].links)  BY <1>14, <2>2 DEF Carries
    <3> QED  BY <1>4, <1>6, <3>1
  <2> QED  BY <1>11, <2>1, <2>2
<1>15. Carries(b, k, u)  BY <1>10, <1>13, <1>14 DEF Carries
<1> QED  BY <1>3, <1>15 DEF x
----------------------------------------------------------------------------
(* JointMap::touch_joint: the layers get one joint, which spans them, and  *)
(* the bucket links what it did.                                           *)
LEMMA NewJointStands ==
    ASSUME NEW b \in Seq(Joint), Separate(b), NEW layers \in Ranges, layers # {},
           Overlapping(b, layers) = {}
    PROVE  /\ Touched(b, layers) \in Seq(Joint) /\ Separate(Touched(b, layers))
           /\ \E at : Spans(Touched(b, layers), layers, at)
           /\ \A items : Holds(b, items) => Holds(Touched(b, layers), items)
<1>1. PICK x : x = [layers |-> layers, links |-> <<>>, locked |-> FALSE]  OBVIOUS
<1>2. x \in Joint /\ x.layers = layers /\ x.links = <<>>  BY <1>1 DEF Joint
<1>3. PICK u : u = Append(b, x)  OBVIOUS
<1>4. Touched(b, layers) = u  BY <1>1, <1>3 DEF Touched
<1>5. /\ u \in Seq(Joint) /\ Len(b) \in Nat
      /\ DOMAIN b = 1 .. Len(b) /\ DOMAIN u = 1 .. (Len(b) + 1)
      /\ \A i \in 1 .. Len(b) : u[i] = b[i]
      /\ u[Len(b) + 1] = x
  BY <1>2, <1>3
<1> DEFINE new == Len(b) + 1
<1>6. (\A i \in DOMAIN u : i \in DOMAIN b \/ i = new) /\ new \notin DOMAIN b /\ new \in DOMAIN u
      /\ DOMAIN b \subseteq DOMAIN u /\ u[new] = x /\ \A i \in DOMAIN b : u[i] = b[i]
  BY <1>5
<1> HIDE DEF new
<1>7. \A i \in DOMAIN b : b[i].layers \cap layers = {}  BY <1>5, OverlappingType
<1>8. Separate(u)  BY <1>2, <1>6, <1>7 DEF Separate
<1>9. Spans(u, layers, new)  BY <1>2, <1>6, <1>7 DEF Spans
<1>10. ASSUME NEW items, Holds(b, items) PROVE Holds(u, items)
  <2>1. IsInjective(x.links) /\ ToSet(x.links) = {}  BY <1>2 DEF IsInjective, ToSet
  <2> QED  BY <1>6, <1>10, <2>1 DEF Holds
<1> QED  BY <1>4, <1>5, <1>8, <1>9, <1>10

LEMMA MergedStands ==
    ASSUME NEW b \in Seq(Joint), Separate(b), NEW layers \in Ranges, layers # {},
           Overlapping(b, layers) # {}
    PROVE  /\ Touched(b, layers) \in Seq(Joint) /\ Separate(Touched(b, layers))
           /\ \E at : Spans(Touched(b, layers), layers, at)
           /\ \A items : Holds(b, items) => Holds(Touched(b, layers), items)
<1>1. PICK f \in [0 .. Len(b) -> Seq(Loose)] :
        /\ f[0] = <<>> /\ \A k \in 1 .. Len(b) : f[k] = Taken(b, layers, k, f[k - 1])
        /\ Touched(b, layers) = f[Len(b)]
  BY TouchedWalk
<1> DEFINE first == Min(Overlapping(b, layers))
           n == Len(b)
<1>2. /\ n \in Nat /\ DOMAIN b = 1 .. n /\ Overlapping(b, layers) \subseteq 1 .. n
      /\ first \in 1 .. n /\ first \in Overlapping(b, layers)
      /\ \A i \in 1 .. n : i \in Overlapping(b, layers) => first <= i
      /\ \A i \in 1 .. n : i \in Overlapping(b, layers) <=> b[i].layers \cap layers # {}
  BY OverlappingType
<1> HIDE DEF first, n
(* Each step either absorbs a joint or appends it.                         *)
<1>3. ASSUME NEW k \in 1 .. n
      PROVE  \/ /\ first < k /\ b[k].layers \cap layers # {}
                /\ f[k] = [f[k - 1] EXCEPT ![first] = Merged(f[k - 1][first], b[k])]
             \/ \E x : Enters(b, layers, first, k, x) /\ f[k] = Append(f[k - 1], x)
  <2>1. f[k] = Taken(b, layers, k, f[k - 1])  BY <1>1 DEF n
  <2>2. b[k] \in Joint  BY <1>2
  <2>3. CASE k \in Overlapping(b, layers) \ {first}
    <3>1. f[k] = [f[k - 1] EXCEPT ![first] = Merged(f[k - 1][first], b[k])]
      BY <2>1, <2>3 DEF Taken, first
    <3>2. first <= k /\ k # first  BY <1>2, <2>3
    <3>3. first < k  BY <1>2, <3>2
    <3> QED  BY <1>2, <2>3, <3>1, <3>3
  <2>4. CASE k = first
    <3>1. PICK x : x = [b[k] EXCEPT !.layers = b[k].layers \cup layers]  OBVIOUS
    <3>2. b[k].layers \cap layers # {}  BY <1>2, <2>4
    <3>3. b[k].layers \cup layers \in Ranges  BY <2>2, <3>2, RangesMeet DEF Joint
    <3>4. x \in Joint /\ x.links = b[k].links /\ x.layers = b[k].layers \cup layers
      BY <2>2, <3>1, <3>3 DEF Joint
    <3>5. f[k] = Append(f[k - 1], x)  BY <2>1, <2>4, <3>1 DEF Taken, first
    <3>6. Enters(b, layers, first, k, x)  BY <2>4, <3>4 DEF Enters
    <3> QED  BY <3>5, <3>6
  <2>5. CASE k \notin Overlapping(b, layers) /\ k # first
    <3>1. f[k] = Append(f[k - 1], b[k])  BY <2>1, <2>5 DEF Taken, first
    <3>2. Enters(b, layers, first, k, b[k])  BY <1>2, <2>2, <2>5 DEF Enters
    <3> QED  BY <3>1, <3>2
  <2> QED  BY <2>3, <2>4, <2>5
<1>4. \A k \in 0 .. n : Merging(b, layers, first, k, f[k])
  <2> DEFINE S == {k \in 0 .. n : Merging(b, layers, first, k, f[k])}
  <2>1. 0 \in S  BY <1>1, <1>2, MergingStarts DEF n
  <2>2. ASSUME NEW k \in 1 .. n, k - 1 \in S PROVE k \in S
    <3>1. Merging(b, layers, first, k - 1, f[k - 1])  BY <2>2
    <3>2. CASE /\ first < k /\ b[k].layers \cap layers # {}
               /\ f[k] = [f[k - 1] EXCEPT ![first] = Merged(f[k - 1][first], b[k])]
      BY <1>2, <3>1, <3>2, MergingAbsorbs DEF n
    <3>3. ASSUME NEW x, Enters(b, layers, first, k, x), f[k] = Append(f[k - 1], x)
          PROVE  Merging(b, layers, first, k, f[k])
      <4>1. k \in 1 .. Len(b) /\ first \in 1 .. Len(b)  BY <1>2 DEF n
      <4>2. Merging(b, layers, first, k, Append(f[k - 1], x))
        BY <3>1, <3>3, <4>1, MergingAppends
      <4> QED  BY <3>3, <4>2
    <3>4. Merging(b, layers, first, k, f[k])  BY <1>3, <3>2, <3>3
    <3> QED  BY <3>4
  <2> HIDE DEF S
  <2>3. \A k \in 1 .. n : k - 1 \in S => k \in S  BY <2>2
  <2>4. \A k \in 0 .. n : k \in S  BY <1>2, <2>1, <2>3, UpTo
  <2> QED  BY <2>4 DEF S
<1>5. ASSUME Linking(b) PROVE \A k \in 0 .. n : Carries(b, k, f[k])
  <2> DEFINE S == {k \in 0 .. n : Carries(b, k, f[k])}
  <2>1. 0 \in S  BY <1>1, <1>2, CarriesStarts
  <2>2. ASSUME NEW k \in 1 .. n, k - 1 \in S PROVE k \in S
    <3>1. Carries(b, k - 1, f[k - 1])  BY <2>2
    <3>2. f[k - 1] \in Seq(Joint) /\ (first < k => first \in DOMAIN f[k - 1])
      <4>1. Merging(b, layers, first, k - 1, f[k - 1])  BY <1>4, <2>2
      <4>2. first < k => first <= k - 1  BY <1>2
      <4> QED  BY <4>1, <4>2 DEF Merging
    <3>3. CASE /\ first < k
               /\ f[k] = [f[k - 1] EXCEPT ![first] = Merged(f[k - 1][first], b[k])]
      BY <1>5, <3>1, <3>2, <3>3, CarriesAbsorbs DEF n
    <3>4. ASSUME NEW x, Enters(b, layers, first, k, x), f[k] = Append(f[k - 1], x)
          PROVE  Carries(b, k, f[k])
      BY <1>5, <3>1, <3>2, <3>4, CarriesAppends DEF n, Enters
    <3>5. Carries(b, k, f[k])  BY <1>3, <3>3, <3>4
    <3> QED  BY <3>5
  <2> HIDE DEF S
  <2>3. \A k \in 1 .. n : k - 1 \in S => k \in S  BY <2>2
  <2>4. \A k \in 0 .. n : k \in S  BY <1>2, <2>1, <2>3, UpTo
  <2> QED  BY <2>4 DEF S
<1>6. Merging(b, layers, first, n, f[n]) /\ first <= n  BY <1>2, <1>4
<1>7. Touched(b, layers) = f[n]  BY <1>1 DEF n
<1>8. Spans(f[n], layers, first)  BY <1>6 DEF Merging, Spans
<1>9. ASSUME NEW items, Holds(b, items) PROVE Holds(f[n], items)
  <2>1. Carries(b, n, f[n])  BY <1>2, <1>5, <1>9 DEF Holds, Linking
  <2>2. \A m \in 1 .. n : \A y \in ToSet(b[m].links) : y \in items
    BY <1>2, <1>9 DEF Holds
  <2>3. \A y \in items : \E m \in 1 .. n : y \in ToSet(b[m].links)
    BY <1>2, <1>9 DEF Holds
  <2> QED  BY <2>1, <2>2, <2>3 DEF Carries, Linking, Holds
<1> QED  BY <1>6, <1>7, <1>8, <1>9 DEF Merging

LEMMA TouchedStands ==
    ASSUME NEW b \in Seq(Joint), Separate(b), NEW layers \in Ranges, layers # {}
    PROVE  /\ Touched(b, layers) \in Seq(Joint) /\ Separate(Touched(b, layers))
           /\ \E at : Spans(Touched(b, layers), layers, at)
           /\ \A items : Holds(b, items) => Holds(Touched(b, layers), items)
BY NewJointStands, MergedStands

LEMMA TouchedSpans ==
    ASSUME NEW b \in Seq(Joint), Separate(b), NEW layers \in Ranges, layers # {}
    PROVE  Spans(Touched(b, layers), layers, Min(Overlapping(Touched(b, layers), layers)))
<1> DEFINE t == Touched(b, layers)
<1>1. PICK at : Spans(t, layers, at)  BY TouchedStands
<1>2. t \in Seq(Joint)  BY TouchedStands
<1> HIDE DEF t
<1>3. DOMAIN t = 1 .. Len(t)  BY <1>2
<1>4. at \in Overlapping(t, layers)  BY <1>1 DEF Spans, Overlapping
<1>5. \A i \in Overlapping(t, layers) : i = at  BY <1>1 DEF Spans, Overlapping
<1>6. Min(Overlapping(t, layers)) \in Overlapping(t, layers)  BY <1>2, <1>4, OverlappingType
<1> QED  BY <1>1, <1>5, <1>6 DEF t

(* One joint of the bucket changes and takes no new layer.                 *)
LEMMA ChangeStands ==
    ASSUME NEW t \in Seq(Joint), Separate(t), NEW at \in DOMAIN t,
           NEW x \in Joint, x.layers \subseteq t[at].layers,
           NEW u, u = [t EXCEPT ![at] = x]
    PROVE  /\ u \in Seq(Joint) /\ Separate(u)
           /\ DOMAIN u = DOMAIN t /\ u[at] = x
           /\ \A i \in DOMAIN t : i # at => u[i] = t[i]
<1>1. u \in Seq(Joint)  BY ExceptType
<1>2. DOMAIN u = DOMAIN t /\ u[at] = x /\ \A i \in DOMAIN t : i # at => u[i] = t[i]
  OBVIOUS
<1>3. Separate(u)  BY <1>2 DEF Separate
<1> QED  BY <1>1, <1>2, <1>3

LEMMA ChangeHolds ==
    ASSUME NEW t \in Seq(Joint), Separate(t), NEW at \in DOMAIN t,
           NEW x \in Joint, x.layers \subseteq t[at].layers,
           NEW u, u = [t EXCEPT ![at] = x],
           NEW before, Holds(t, before), NEW after,
           IsInjective(x.links),
           \A y \in ToSet(x.links) : y \in after /\ Layers[y] \subseteq x.layers,
           \A i \in DOMAIN t : i # at => ToSet(t[i].links) \subseteq after,
           \A y \in after : y \in ToSet(x.links)
                            \/ \E i \in DOMAIN t : i # at /\ y \in ToSet(t[i].links)
    PROVE  Holds(u, after)
<1>1. DOMAIN u = DOMAIN t /\ u[at] = x /\ \A i \in DOMAIN t : i # at => u[i] = t[i]
  BY ChangeStands
<1> QED  BY <1>1 DEF Holds
----------------------------------------------------------------------------
LEMMA AppendLink ==
    ASSUME NEW s \in Seq(Item), NEW item \in Item, item \notin ToSet(s), IsInjective(s)
    PROVE  /\ Append(s, item) \in Seq(Item) /\ IsInjective(Append(s, item))
           /\ ToSet(Append(s, item)) = ToSet(s) \cup {item}
<1>1. PICK r : r = <<item>>  OBVIOUS
<1>2. r \in Seq(Item) /\ ToSet(r) = {item} /\ IsInjective(r)  BY <1>1 DEF ToSet, IsInjective
<1>3. Append(s, item) = s \o r  BY <1>1
<1> QED  BY <1>2, <1>3, ConcatLinks

LEMMA RemoveFirstType ==
    ASSUME NEW s \in Seq(Item), NEW item \in ToSet(s)
    PROVE  RemoveFirst(s, item) \in Seq(Item)
<1> DEFINE I == {i \in 1 .. Len(s) : s[i] = item}
<1>1. I # {} /\ I \in SUBSET Nat  BY DEF ToSet
<1>2. Min(I) \in 1 .. Len(s)  BY <1>1, LeastOf
<1>3. \E i \in 1 .. Len(s) : s[i] = item  BY <1>1
<1>4. RemoveFirst(s, item) = RemoveAt(s, Min(I))
  BY <1>1, <1>3 DEF RemoveFirst, SelectInSeq
<1>5. PICK m : m = Min(I)  OBVIOUS
<1> HIDE DEF I
<1>6. SubSeq(s, 1, m - 1) \in Seq(Item) /\ SubSeq(s, m + 1, Len(s)) \in Seq(Item)
  BY <1>2, <1>5
<1> QED  BY <1>4, <1>5, <1>6 DEF RemoveAt

LEMMA RemoveLink ==
    ASSUME NEW s \in Seq(Item), NEW item \in ToSet(s), IsInjective(s)
    PROVE  /\ RemoveFirst(s, item) \in Seq(Item) /\ IsInjective(RemoveFirst(s, item))
           /\ ToSet(RemoveFirst(s, item)) = ToSet(s) \ {item}
<1> DEFINE I == {i \in 1 .. Len(s) : s[i] = item}
<1>1. DOMAIN s = 1 .. Len(s) /\ Len(s) \in Nat  OBVIOUS
<1>2. I # {} /\ I \in SUBSET Nat  BY <1>1 DEF ToSet
<1>3. Min(I) \in I  BY <1>2, LeastOf
<1>4. \E i \in 1 .. Len(s) : s[i] = item  BY <1>2
<1>5. RemoveFirst(s, item) = RemoveAt(s, Min(I))
  BY <1>2, <1>4 DEF RemoveFirst, SelectInSeq
<1>6. PICK m : m = Min(I)  OBVIOUS
<1> HIDE DEF I
<1>7. m \in 1 .. Len(s) /\ s[m] = item  BY <1>3, <1>6 DEF I
<1>8. PICK p : p = SubSeq(s, 1, m - 1)  OBVIOUS
<1>9. PICK q : q = SubSeq(s, m + 1, Len(s))  OBVIOUS
<1>10. RemoveFirst(s, item) = p \o q  BY <1>5, <1>6, <1>8, <1>9 DEF RemoveAt
<1>11. /\ p \in Seq(Item) /\ DOMAIN p = 1 .. m - 1
       /\ \A i \in 1 .. m - 1 : p[i] = s[i] /\ i \in 1 .. Len(s)
  BY <1>1, <1>7, <1>8
<1>12. /\ q \in Seq(Item) /\ DOMAIN q = 1 .. Len(s) - m
       /\ \A i \in 1 .. Len(s) - m : q[i] = s[m + i] /\ m + i \in 1 .. Len(s)
  BY <1>1, <1>7, <1>9
<1>13. \A i, j \in 1 .. Len(s) : s[i] = s[j] => i = j  BY <1>1 DEF IsInjective
<1>14. IsInjective(p)  BY <1>11, <1>13 DEF IsInjective
<1>15. IsInjective(q)
  <2> SUFFICES ASSUME NEW i \in 1 .. Len(s) - m, NEW j \in 1 .. Len(s) - m, q[i] = q[j]
               PROVE  i = j
    BY <1>12 DEF IsInjective
  <2>1. m + i = m + j  BY <1>12, <1>13
  <2> QED  BY <1>7, <2>1
<1>16. ToSet(p) \cap ToSet(q) = {}
  <2> SUFFICES ASSUME NEW i \in 1 .. m - 1, NEW j \in 1 .. Len(s) - m, p[i] = q[j]
               PROVE  FALSE
    BY <1>11, <1>12 DEF ToSet
  <2>1. i = m + j  BY <1>11, <1>12, <1>13
  <2> QED  BY <1>7, <2>1
<1>17. ToSet(p) \cup ToSet(q) = ToSet(s) \ {item}
  <2>1. \A i \in 1 .. m - 1 : p[i] \in ToSet(s) /\ p[i] # item
    <3> TAKE i \in 1 .. m - 1
    <3>1. i # m  BY <1>7
    <3> QED  BY <1>1, <1>7, <1>11, <1>13, <3>1 DEF ToSet
  <2>2. \A i \in 1 .. Len(s) - m : q[i] \in ToSet(s) /\ q[i] # item
    <3> TAKE i \in 1 .. Len(s) - m
    <3>1. m + i # m  BY <1>7
    <3> QED  BY <1>1, <1>7, <1>12, <1>13, <3>1 DEF ToSet
  <2>3. \A i \in 1 .. Len(s) : s[i] # item => s[i] \in ToSet(p) \cup ToSet(q)
    <3> TAKE i \in 1 .. Len(s)
    <3> HAVE s[i] # item
    <3>1. CASE i < m
      <4>1. i \in 1 .. m - 1  BY <1>7, <3>1
      <4> QED  BY <1>11, <4>1 DEF ToSet
    <3>2. CASE m < i
      <4>1. i - m \in 1 .. Len(s) - m /\ m + (i - m) = i  BY <1>1, <1>7, <3>2
      <4>2. q[i - m] = s[i]  BY <1>12, <4>1
      <4> QED  BY <1>12, <4>1, <4>2 DEF ToSet
    <3> QED  BY <1>7, <3>1, <3>2
  <2>4. \A y \in ToSet(p) \cup ToSet(q) : y \in ToSet(s) \ {item}
    BY <1>11, <1>12, <2>1, <2>2 DEF ToSet
  <2>5. \A y \in ToSet(s) \ {item} : y \in ToSet(p) \cup ToSet(q)
    BY <1>1, <2>3 DEF ToSet
  <2> QED  BY <2>4, <2>5
<1> QED  BY <1>10, <1>11, <1>12, <1>14, <1>15, <1>16, <1>17, ConcatLinks
----------------------------------------------------------------------------
(* JointMap::link_joint.                                                   *)
LEMMA LinkedStands ==
    ASSUME NEW b \in Seq(Joint), Separate(b), NEW item \in Item
    PROVE  /\ Linked(b, item) \in Seq(Joint) /\ Separate(Linked(b, item))
           /\ \A items : Holds(b, items) => Holds(Linked(b, item), items \cup {item})
<1> DEFINE layers == Layers[item]
           t == Touched(b, layers)
           at == Min(Overlapping(t, layers))
           x == IF item \in ToSet(t[at].links) THEN t[at]
                ELSE [t[at] EXCEPT !.links = Append(t[at].links, item)]
<1>1. layers \in Ranges /\ layers # {}  BY LayersType
<1>2. t \in Seq(Joint) /\ Separate(t) /\ Spans(t, layers, at)
      /\ \A items : Holds(b, items) => Holds(t, items)
  BY <1>1, TouchedStands, TouchedSpans
<1>3. Linked(b, item) = [t EXCEPT ![at] = x]  BY DEF Linked, Changed
<1> HIDE DEF layers, t, at
<1>4. at \in DOMAIN t /\ t[at] \in Joint  BY <1>2 DEF Spans
<1>5. x \in Joint /\ x.layers = t[at].layers
      /\ x.links = IF item \in ToSet(t[at].links) THEN t[at].links
                   ELSE Append(t[at].links, item)
  <2>1. CASE item \in ToSet(t[at].links)  BY <1>4, <2>1
  <2>2. CASE item \notin ToSet(t[at].links)
    <3>1. PICK links : links = Append(t[at].links, item)  OBVIOUS
    <3>2. links \in Seq(Item)  BY <1>4, <3>1 DEF Joint
    <3>3. x = [t[at] EXCEPT !.links = links]  BY <2>2, <3>1
    <3>4. x \in Joint /\ x.layers = t[at].layers /\ x.links = links
      BY <1>4, <3>2, <3>3 DEF Joint
    <3> QED  BY <2>2, <3>1, <3>4
  <2> QED  BY <2>1, <2>2
<1> HIDE DEF x
<1>6. Linked(b, item) \in Seq(Joint) /\ Separate(Linked(b, item))
  <2>1. x.layers \subseteq t[at].layers  BY <1>5
  <2>2. PICK u : u = Linked(b, item)  OBVIOUS
  <2>3. u = [t EXCEPT ![at] = x]  BY <1>3, <2>2
  <2>4. u \in Seq(Joint) /\ Separate(u)
    BY ONLY <1>2, <1>4, <1>5, <2>1, <2>3, ChangeStands
  <2> QED  BY <2>2, <2>4
<1>7. ASSUME NEW items, Holds(b, items)
      PROVE  Holds(Linked(b, item), items \cup {item})
  <2>1. Holds(t, items)  BY <1>2, <1>7
  <2>2. IsInjective(t[at].links) /\ t[at].links \in Seq(Item)
        /\ \A y \in ToSet(t[at].links) : y \in items /\ Layers[y] \subseteq t[at].layers
    BY <1>4, <2>1 DEF Holds, Joint
  <2>3. IsInjective(x.links) /\ ToSet(x.links) = ToSet(t[at].links) \cup {item}
    <3>1. CASE item \in ToSet(t[at].links)  BY <1>5, <2>2, <3>1
    <3>2. CASE item \notin ToSet(t[at].links)  BY <1>5, <2>2, <3>2, AppendLink
    <3> QED  BY <3>1, <3>2
  <2>4. \A y \in ToSet(x.links) : y \in items \cup {item} /\ Layers[y] \subseteq x.layers
    <3>1. Layers[item] \subseteq t[at].layers  BY <1>2 DEF Spans, layers
    <3> QED  BY <1>5, <2>2, <2>3, <3>1
  <2>5. \A i \in DOMAIN t : i # at => ToSet(t[i].links) \subseteq items \cup {item}
    BY <2>1 DEF Holds
  <2>6. \A y \in items \cup {item} : y \in ToSet(x.links)
                   \/ \E i \in DOMAIN t : i # at /\ y \in ToSet(t[i].links)
    BY <2>1, <2>3 DEF Holds
  <2>7. x.layers \subseteq t[at].layers  BY <1>5
  <2> QED  BY <1>2, <1>3, <1>4, <1>5, <2>1, <2>3, <2>4, <2>5, <2>6, <2>7, ChangeHolds
<1> QED  BY <1>6, <1>7

(* JointMap::unlink_joint.                                                 *)
LEMMA UnlinkedStands ==
    ASSUME NEW b \in Seq(Joint), Separate(b), NEW item \in Item
    PROVE  /\ Unlinked(b, item) \in Seq(Joint) /\ Separate(Unlinked(b, item))
           /\ \A items : Holds(b, items) => Holds(Unlinked(b, item), items \ {item})
<1> DEFINE layers == Layers[item]
           t == Touched(b, layers)
           at == Min(Overlapping(t, layers))
           links == IF item \in ToSet(t[at].links) THEN RemoveFirst(t[at].links, item)
                    ELSE t[at].links
           x == [t[at] EXCEPT !.links = links,
                              !.layers = IF links = <<>> THEN {} ELSE t[at].layers]
<1>1. layers \in Ranges /\ layers # {}  BY LayersType
<1>2. t \in Seq(Joint) /\ Separate(t) /\ Spans(t, layers, at)
      /\ \A items : Holds(b, items) => Holds(t, items)
  BY <1>1, TouchedStands, TouchedSpans
<1>3. Unlinked(b, item) = [t EXCEPT ![at] = x]  BY DEF Unlinked, Changed
<1> HIDE DEF layers, t, at
<1>4. at \in DOMAIN t /\ t[at] \in Joint  BY <1>2 DEF Spans
<1>5. t[at].links \in Seq(Item)  BY <1>4 DEF Joint
<1>6. links \in Seq(Item)
  <2>1. CASE item \notin ToSet(t[at].links)  BY <1>5, <2>1
  <2>2. CASE item \in ToSet(t[at].links)  BY <1>5, <2>2, RemoveFirstType
  <2> QED  BY <2>1, <2>2
<1> HIDE DEF links
<1>7. x \in Joint /\ x.links = links /\ x.layers = IF links = <<>> THEN {} ELSE t[at].layers
  BY <1>4, <1>6, RangesMeet DEF Joint
<1> HIDE DEF x
<1>8. x.layers \subseteq t[at].layers  BY <1>7
<1>9. Unlinked(b, item) \in Seq(Joint) /\ Separate(Unlinked(b, item))
  <2>2. PICK u : u = Unlinked(b, item)  OBVIOUS
  <2>3. u = [t EXCEPT ![at] = x]  BY <1>3, <2>2
  <2>4. u \in Seq(Joint) /\ Separate(u)
    BY ONLY <1>2, <1>4, <1>7, <1>8, <2>3, ChangeStands
  <2> QED  BY <2>2, <2>4
<1>10. ASSUME NEW items, Holds(b, items)
       PROVE  Holds(Unlinked(b, item), items \ {item})
  <2>1. Holds(t, items)  BY <1>2, <1>10
  <2>2. IsInjective(t[at].links)
        /\ \A y \in ToSet(t[at].links) : y \in items /\ Layers[y] \subseteq t[at].layers
    BY <1>4, <2>1 DEF Holds
  <2>3. IsInjective(links) /\ ToSet(links) = ToSet(t[at].links) \ {item}
    <3>1. CASE item \notin ToSet(t[at].links)  BY <2>2, <3>1 DEF links
    <3>2. CASE item \in ToSet(t[at].links)  BY <1>5, <2>2, <3>2, RemoveLink DEF links
    <3> QED  BY <3>1, <3>2
  <2>4. \A y \in ToSet(x.links) : y \in items \ {item} /\ Layers[y] \subseteq x.layers
    <3>1. \A y \in ToSet(x.links) : links # <<>>  BY <1>7 DEF ToSet
    <3> QED  BY <1>7, <2>2, <2>3, <3>1
  <2>5. ASSUME NEW i \in DOMAIN t, i # at PROVE ToSet(t[i].links) \subseteq items \ {item}
    <3>1. t[i].layers \cap layers = {}  BY <1>2, <2>5 DEF Spans
    <3>2. item \in ToSet(t[i].links) => layers \subseteq t[i].layers
      BY <2>1 DEF Holds, layers
    <3>3. item \notin ToSet(t[i].links)  BY <1>1, <3>1, <3>2
    <3> QED  BY <2>1, <3>3 DEF Holds
  <2>6. \A y \in items \ {item} : y \in ToSet(x.links)
                   \/ \E i \in DOMAIN t : i # at /\ y \in ToSet(t[i].links)
    BY <1>7, <2>1, <2>3 DEF Holds
  <2>7. IsInjective(x.links)  BY <1>7, <2>3
  <2> QED  BY <1>2, <1>3, <1>4, <1>7, <1>8, <2>1, <2>4, <2>5, <2>6, <2>7, ChangeHolds
<1> QED  BY <1>9, <1>10

(* JointMap::lock_joint.                                                   *)
LEMMA LockedStands ==
    ASSUME NEW b \in Seq(Joint), Separate(b), NEW item \in Item
    PROVE  /\ Locked(b, item) \in Seq(Joint) /\ Separate(Locked(b, item))
           /\ \A items : Holds(b, items) => Holds(Locked(b, item), items)
<1> DEFINE layers == Layers[item]
           t == Touched(b, layers)
           at == Min(Overlapping(t, layers))
           x == [t[at] EXCEPT !.locked = TRUE]
<1>1. layers \in Ranges /\ layers # {}  BY LayersType
<1>2. t \in Seq(Joint) /\ Separate(t) /\ Spans(t, layers, at)
      /\ \A items : Holds(b, items) => Holds(t, items)
  BY <1>1, TouchedStands, TouchedSpans
<1>3. Locked(b, item) = [t EXCEPT ![at] = x]  BY DEF Locked, Changed
<1> HIDE DEF layers, t, at
<1>4. at \in DOMAIN t /\ t[at] \in Joint  BY <1>2 DEF Spans
<1>5. x \in Joint /\ x.layers = t[at].layers /\ x.links = t[at].links
  BY <1>4 DEF Joint
<1> HIDE DEF x
<1>6. Locked(b, item) \in Seq(Joint) /\ Separate(Locked(b, item))
  <2>1. x.layers \subseteq t[at].layers  BY <1>5
  <2>2. PICK u : u = Locked(b, item)  OBVIOUS
  <2>3. u = [t EXCEPT ![at] = x]  BY <1>3, <2>2
  <2>4. u \in Seq(Joint) /\ Separate(u)
    BY ONLY <1>2, <1>4, <1>5, <2>1, <2>3, ChangeStands
  <2> QED  BY <2>2, <2>4
<1>7. ASSUME NEW items, Holds(b, items) PROVE Holds(Locked(b, item), items)
  <2>1. Holds(t, items)  BY <1>2, <1>7
  <2>2. x.layers \subseteq t[at].layers  BY <1>5
  <2>3. IsInjective(x.links) /\ \A y \in ToSet(x.links) : y \in items /\ Layers[y] \subseteq x.layers
    BY <1>4, <1>5, <2>1 DEF Holds
  <2>4. \A i \in DOMAIN t : i # at => ToSet(t[i].links) \subseteq items
    BY <2>1 DEF Holds
  <2>5. \A y \in items : y \in ToSet(x.links)
                   \/ \E i \in DOMAIN t : i # at /\ y \in ToSet(t[i].links)
    BY <1>5, <2>1 DEF Holds
  <2>6. PICK u : u = Locked(b, item)  OBVIOUS
  <2>7. u = [t EXCEPT ![at] = x]  BY <1>3, <2>6
  <2>8. Holds(u, items)
    BY ONLY <1>2, <1>4, <1>5, <2>1, <2>2, <2>3, <2>4, <2>5, <2>7, ChangeHolds
  <2> QED  BY <2>6, <2>8
<1> QED  BY <1>6, <1>7
----------------------------------------------------------------------------
(* The rebuild of a joint (JointMap::rebuild_joint): what is kept, and     *)
(* what is linked again.                                                   *)
LEMMA KeptWalk ==
    ASSUME NEW b \in Seq(Joint), NEW layers
    PROVE  \E f \in [0 .. Len(b) -> Seq(Joint)] :
             /\ f[0] = <<>> /\ \A k \in 1 .. Len(b) : f[k] = Kept(b, layers, k, f[k - 1])
             /\ Apart(b, layers) = f[Len(b)]
<1> DEFINE Is(g) == g = [k \in 0 .. Len(b) |->
                            IF k = 0 THEN <<>> ELSE Kept(b, layers, k, g[k - 1])]
<1>1. PICK Step : Step = [k \in 1 .. Len(b) |-> [t \in Seq(Joint) |-> Kept(b, layers, k, t)]]
  OBVIOUS
<1>2. Step \in Steps(Seq(Joint), Len(b))
  <2>1. \A k \in 1 .. Len(b), t \in Seq(Joint) : Kept(b, layers, k, t) \in Seq(Joint)
    BY DEF Kept
  <2> QED  BY <1>1, <2>1 DEF Steps
<1>3. <<>> \in Seq(Joint) /\ Len(b) \in Nat  OBVIOUS
<1>4. PICK f : IsWalk(f, Seq(Joint), <<>>, Len(b), Step)
  BY <1>2, <1>3, Walk
<1>5. ASSUME NEW k \in 1 .. Len(b) PROVE f[k] = Kept(b, layers, k, f[k - 1])
  <2>1. k - 1 \in 0 .. Len(b)  OBVIOUS
  <2> QED  BY <1>1, <1>4, <2>1 DEF IsWalk
<1>6. f = [k \in 0 .. Len(b) |-> IF k = 0 THEN <<>> ELSE Kept(b, layers, k, f[k - 1])]
  BY <1>4, <1>5 DEF IsWalk
<1>7. Is(CHOOSE g : Is(g))  BY <1>6
<1>8. PICK h : Is(h) /\ h = CHOOSE g : Is(g)  BY <1>7
<1>9. Apart(b, layers) = h[Len(b)]  BY <1>8 DEF Apart
<1>10. \A k \in 0 .. Len(b) : h[k] = f[k]
  <2> DEFINE S == {k \in 0 .. Len(b) : h[k] = f[k]}
  <2>1. 0 \in S  BY <1>3, <1>4, <1>8 DEF IsWalk
  <2>2. ASSUME NEW k \in 1 .. Len(b), k - 1 \in S PROVE k \in S
    BY <1>5, <1>8, <2>2
  <2> HIDE DEF S
  <2>3. \A k \in 0 .. Len(b) : k \in S  BY <1>3, <2>1, <2>2, UpTo
  <2> QED  BY <2>3 DEF S
<1>11. Apart(b, layers) = f[Len(b)]  BY <1>3, <1>9, <1>10
<1> QED  BY <1>4, <1>5, <1>11 DEF IsWalk

(* What is kept is some of the joints, none of which the layers overlap.   *)
LEMMA ApartStands ==
    ASSUME NEW b \in Seq(Joint), Separate(b), NEW layers
    PROVE  /\ Apart(b, layers) \in Seq(Joint) /\ Separate(Apart(b, layers))
           /\ \A i \in DOMAIN Apart(b, layers) :
                \E m \in DOMAIN b : Apart(b, layers)[i] = b[m] /\ b[m].layers \cap layers = {}
<1>1. PICK f \in [0 .. Len(b) -> Seq(Joint)] :
        /\ f[0] = <<>> /\ \A k \in 1 .. Len(b) : f[k] = Kept(b, layers, k, f[k - 1])
        /\ Apart(b, layers) = f[Len(b)]
  BY KeptWalk
<1> DEFINE From(k, t) ==
      /\ Separate(t)
      /\ \A i \in DOMAIN t : \E m \in 1 .. k : t[i] = b[m] /\ b[m].layers \cap layers = {}
<1>2. DOMAIN b = 1 .. Len(b) /\ Len(b) \in Nat  OBVIOUS
<1> DEFINE S == {k \in 0 .. Len(b) : From(k, f[k])}
<1>3. 0 \in S
  <2>1. DOMAIN f[0] = {}  BY <1>1
  <2> QED  BY <1>2, <2>1 DEF Separate
<1>4. ASSUME NEW k \in 1 .. Len(b), k - 1 \in S PROVE k \in S
  <2>1. From(k - 1, f[k - 1]) /\ f[k - 1] \in Seq(Joint)  BY <1>1, <1>4
  <2>2. 1 .. k - 1 \subseteq 1 .. k /\ k \in 1 .. k /\ k \notin 1 .. k - 1  OBVIOUS
  <2>3. f[k] = Kept(b, layers, k, f[k - 1])  BY <1>1
  <2>4. CASE k \in Overlapping(b, layers)
    <3>1. f[k] = f[k - 1]  BY <2>3, <2>4 DEF Kept
    <3>2. From(k, f[k])  BY <2>1, <2>2, <3>1
    <3> QED  BY <3>2
  <2>5. CASE k \notin Overlapping(b, layers)
    <3>1. b[k].layers \cap layers = {}  BY <1>2, <2>5, OverlappingType
    <3>2. PICK t : t = f[k - 1]  OBVIOUS
    <3>3. PICK u : u = f[k]  OBVIOUS
    <3>4. u = Append(t, b[k]) /\ t \in Seq(Joint)  BY <2>1, <2>3, <2>5, <3>2, <3>3 DEF Kept
    <3>5. /\ DOMAIN t = 1 .. Len(t) /\ DOMAIN u = 1 .. Len(t) + 1 /\ Len(t) \in Nat
          /\ u[Len(t) + 1] = b[k] /\ \A i \in 1 .. Len(t) : u[i] = t[i]
      BY <3>4
    <3>6. \A i \in DOMAIN u :
            \/ i \in DOMAIN t /\ u[i] = t[i]
            \/ i = Len(t) + 1 /\ u[i] = b[k]
      BY <3>5
    <3>7. \A i \in DOMAIN t : t[i].layers \cap b[k].layers = {}
      <4> TAKE i \in DOMAIN t
      <4>1. PICK m \in 1 .. k - 1 : t[i] = b[m]  BY <2>1, <3>2
      <4>2. m # k /\ m \in DOMAIN b  OBVIOUS
      <4> QED  BY <4>1, <4>2 DEF Separate
    <3>8. Separate(t)  BY <2>1, <3>2
    <3>9. Separate(u)  BY <3>6, <3>7, <3>8 DEF Separate
    <3>10. \A i \in DOMAIN u : \E m \in 1 .. k : u[i] = b[m] /\ b[m].layers \cap layers = {}
      BY <2>1, <2>2, <3>1, <3>2, <3>6
    <3>11. From(k, f[k])  BY <3>3, <3>9, <3>10
    <3> QED  BY <3>11
  <2> QED  BY <2>4, <2>5
<1>5. Len(b) \in S
  <2> HIDE DEF S
  <2>1. \A k \in 1 .. Len(b) : k - 1 \in S => k \in S  BY <1>4
  <2>2. \A k \in 0 .. Len(b) : k \in S  BY <1>2, <1>3, <2>1, UpTo
  <2> QED  BY <1>2, <2>2
<1>6. From(Len(b), f[Len(b)]) /\ f[Len(b)] \in Seq(Joint)  BY <1>1, <1>5
<1> QED  BY <1>1, <1>2, <1>6
----------------------------------------------------------------------------
Good == {b \in Seq(Joint) : Separate(b)}

LEMMA RelinkedStands ==
    ASSUME NEW b \in Good, NEW link \in Item, NEW item \in Item, NEW erased
    PROVE  /\ Relinked(b, link, item, erased) \in Good
           /\ \A items : Holds(b, items) /\ item \notin items =>
                Holds(Relinked(b, link, item, erased), (items \cup {link}) \ {item})
<1>1. b \in Seq(Joint) /\ Separate(b)  BY DEF Good
<1>2. CASE link # item
  <2>1. Relinked(b, link, item, erased) = Linked(b, link)  BY <1>2 DEF Relinked
  <2>2. \A items : item \notin items => (items \cup {link}) \ {item} = items \cup {link}
    BY <1>2
  <2>3. Linked(b, link) \in Good  BY <1>1, LinkedStands DEF Good
  <2>4. \A items : Holds(b, items) => Holds(Linked(b, link), items \cup {link})
    BY <1>1, LinkedStands
  <2> QED  BY <2>1, <2>2, <2>3, <2>4
<1>3. CASE link = item
  <2>1. \A items : item \notin items =>
           (items \cup {link}) \ {item} = items /\ items \ {item} = items
    BY <1>3
  <2>2. CASE erased
    <3>1. Relinked(b, link, item, erased) = b  BY <1>3, <2>2 DEF Relinked
    <3> QED  BY <2>1, <3>1
  <2>3. CASE ~erased
    <3>1. Relinked(b, link, item, erased) = Unlinked(b, item)  BY <1>3, <2>3 DEF Relinked
    <3>2. Unlinked(b, item) \in Good  BY <1>1, UnlinkedStands DEF Good
    <3>3. ASSUME NEW items, Holds(b, items), item \notin items
          PROVE  Holds(Unlinked(b, item), (items \cup {link}) \ {item})
      <4>1. Holds(Unlinked(b, item), items \ {item})  BY <1>1, <3>3, UnlinkedStands
      <4>2. items \ {item} = (items \cup {link}) \ {item}  BY <1>3
      <4> QED  BY <4>1, <4>2
    <3> QED  BY <3>1, <3>2, <3>3
  <2> QED  BY <2>2, <2>3
<1> QED  BY <1>2, <1>3

Erased(own, inBranch, item) == inBranch /\ Apart(own, Layers[item]) = <<>>

IsRebuild(f, own, inBranch, links, item) ==
    /\ f \in [0 .. Len(links) -> Good]
    /\ f[0] = Apart(own, Layers[item])
    /\ \A k \in 1 .. Len(links) :
         f[k] = Relinked(f[k - 1], links[k], item, Erased(own, inBranch, item))
    /\ Rebuilt(own, inBranch, links, item) = f[Len(links)]

LEMMA RebuiltWalk ==
    ASSUME NEW own \in Good, NEW inBranch, NEW links \in Seq(Item), NEW item \in Item
    PROVE  \E f : IsRebuild(f, own, inBranch, links, item)
<1> DEFINE erased == Erased(own, inBranch, item)
           Is(g) == g = [k \in 0 .. Len(links) |->
                            IF k = 0 THEN Apart(own, Layers[item])
                            ELSE Relinked(g[k - 1], links[k], item, erased)]
<1>1. PICK Step :
        Step = [k \in 1 .. Len(links) |-> [t \in Good |-> Relinked(t, links[k], item, erased)]]
  OBVIOUS
<1>2. Step \in Steps(Good, Len(links))
  <2>1. \A k \in 1 .. Len(links), t \in Good : Relinked(t, links[k], item, erased) \in Good
    BY RelinkedStands
  <2> QED  BY <1>1, <2>1 DEF Steps
<1>3. Apart(own, Layers[item]) \in Good /\ Len(links) \in Nat  BY ApartStands DEF Good
<1>4. PICK f : IsWalk(f, Good, Apart(own, Layers[item]), Len(links), Step)  BY <1>2, <1>3, Walk
<1>5. ASSUME NEW k \in 1 .. Len(links)
      PROVE  f[k] = Relinked(f[k - 1], links[k], item, erased)
  <2>1. k - 1 \in 0 .. Len(links)  OBVIOUS
  <2> QED  BY <1>1, <1>4, <2>1 DEF IsWalk
<1>6. Is(f)  BY <1>4, <1>5 DEF IsWalk
<1>7. Is(CHOOSE g : Is(g))  BY <1>6
<1>8. PICK h : Is(h) /\ h = CHOOSE g : Is(g)  BY <1>7
<1>9. Rebuilt(own, inBranch, links, item) = h[Len(links)]  BY <1>8 DEF Rebuilt, Erased
<1>10. \A k \in 0 .. Len(links) : h[k] = f[k]
  <2> DEFINE S == {k \in 0 .. Len(links) : h[k] = f[k]}
  <2>1. 0 \in S  BY <1>3, <1>4, <1>8 DEF IsWalk
  <2>2. ASSUME NEW k \in 1 .. Len(links), k - 1 \in S PROVE k \in S
    BY <1>5, <1>8, <2>2
  <2> HIDE DEF S
  <2>3. \A k \in 0 .. Len(links) : k \in S  BY <1>3, <2>1, <2>2, UpTo
  <2> QED  BY <2>3 DEF S
<1>11. Rebuilt(own, inBranch, links, item) = f[Len(links)]  BY <1>3, <1>9, <1>10
<1> QED  BY <1>4, <1>5, <1>11 DEF IsWalk, IsRebuild

(* What was linked is linked again, but for the item.                      *)
LEMMA RebuiltStands ==
    ASSUME NEW own \in Good, NEW inBranch, NEW links \in Seq(Item), NEW item \in Item
    PROVE  /\ Rebuilt(own, inBranch, links, item) \in Good
           /\ Holds(Apart(own, Layers[item]), {})
                => Holds(Rebuilt(own, inBranch, links, item), ToSet(links) \ {item})
<1> DEFINE kept == Apart(own, Layers[item])
           erased == Erased(own, inBranch, item)
<1>1. PICK f : IsRebuild(f, own, inBranch, links, item)  BY RebuiltWalk
<1>2. /\ f \in [0 .. Len(links) -> Good]
      /\ f[0] = kept
      /\ \A k \in 1 .. Len(links) : f[k] = Relinked(f[k - 1], links[k], item, erased)
      /\ Rebuilt(own, inBranch, links, item) = f[Len(links)]
  BY <1>1 DEF IsRebuild
<1> HIDE DEF kept, erased
<1>3. Len(links) \in Nat /\ DOMAIN links = 1 .. Len(links)  OBVIOUS
<1>4. ASSUME Holds(kept, {})
      PROVE  Holds(f[Len(links)], ToSet(links) \ {item})
  <2> DEFINE Upto(k) == {links[m] : m \in 1 .. k} \ {item}
             S == {k \in 0 .. Len(links) : Holds(f[k], Upto(k))}
  <2>1. 0 \in S
    <3>1. Upto(0) = {}  OBVIOUS
    <3> QED  BY <1>2, <1>3, <1>4, <3>1
  <2>2. ASSUME NEW k \in 1 .. Len(links), k - 1 \in S PROVE k \in S
    <3>1. Holds(f[k - 1], Upto(k - 1)) /\ item \notin Upto(k - 1)  BY <2>2
    <3>2. f[k - 1] \in Good /\ links[k] \in Item  BY <1>2
    <3>3. Upto(k) = (Upto(k - 1) \cup {links[k]}) \ {item}
      <4>1. \A m \in 1 .. k : m \in 1 .. k - 1 \/ m = k  OBVIOUS
      <4>2. 1 .. k - 1 \subseteq 1 .. k /\ k \in 1 .. k  OBVIOUS
      <4> QED  BY <4>1, <4>2
    <3> HIDE DEF Upto
    <3>4. Holds(Relinked(f[k - 1], links[k], item, erased), Upto(k))
      BY <3>1, <3>2, <3>3, RelinkedStands
    <3>5. Holds(f[k], Upto(k))  BY <1>2, <3>4
    <3> QED  BY <3>5
  <2>3. Len(links) \in S
    <3> HIDE DEF S
    <3>1. \A k \in 1 .. Len(links) : k - 1 \in S => k \in S  BY <2>2
    <3>2. \A k \in 0 .. Len(links) : k \in S  BY <1>3, <2>1, <3>1, UpTo
    <3> QED  BY <1>3, <3>2
  <2>4. Upto(Len(links)) = ToSet(links) \ {item}  BY <1>3 DEF ToSet
  <2> QED  BY <2>3, <2>4
<1>5. f[Len(links)] \in Good  BY <1>2, <1>3
<1> QED  BY <1>2, <1>4, <1>5 DEF kept
----------------------------------------------------------------------------
LEMMA LowestLayer ==
    ASSUME NEW item \in Item
    PROVE  Min(Layers[item]) \in Layers[item]
<1>1. Layers[item] \in SUBSET Nat /\ Layers[item] # {}
  BY LayersType, RangesMeet, AssumeItems
<1> QED  BY <1>1, LeastOf

LEMMA JointOfType ==
    ASSUME NEW b \in Seq(Joint), NEW item \in Item, JointOf(b, item) # {}
    PROVE  /\ Min(JointOf(b, item)) \in 1 .. Len(b)
           /\ Min(Layers[item]) \in b[Min(JointOf(b, item))].layers
           /\ b[Min(JointOf(b, item))].links \in Seq(Item)
<1>1. DOMAIN b = 1 .. Len(b)  OBVIOUS
<1>2. JointOf(b, item) \in SUBSET Nat  BY <1>1 DEF JointOf
<1>3. Min(JointOf(b, item)) \in JointOf(b, item)  BY <1>2, LeastOf
<1>4. Min(JointOf(b, item)) \in 1 .. Len(b)  BY <1>1, <1>3 DEF JointOf
<1>5. b[Min(JointOf(b, item))] \in Joint  BY <1>4
<1> QED  BY <1>3, <1>4, <1>5 DEF JointOf, Joint

(* World::remove keeps the joints apart.                                   *)
LEMMA RemovedGood ==
    ASSUME NEW own \in Good, NEW seen \in Good, NEW inBranch, NEW item \in Item
    PROVE  Removed(own, seen, inBranch, item) \in Good
<1>1. seen \in Seq(Joint) /\ Separate(seen)  BY DEF Good
<1>2. CASE item \notin Through
  <2>1. Unlinked(seen, item) \in Good  BY <1>1, UnlinkedStands DEF Good
  <2> QED  BY <1>2, <2>1 DEF Removed
<1>3. CASE item \in Through /\ JointOf(seen, item) = {}  BY <1>3 DEF Removed
<1>4. CASE item \in Through /\ JointOf(seen, item) # {}
  <2>1. seen[Min(JointOf(seen, item))].links \in Seq(Item)  BY <1>1, <1>4, JointOfType
  <2>2. Rebuilt(own, inBranch, seen[Min(JointOf(seen, item))].links, item) \in Good
    BY <2>1, RebuiltStands
  <2> QED  BY <1>4, <2>2 DEF Removed
<1> QED  BY <1>2, <1>3, <1>4

(* It takes the item off the joints and nothing else, if the joint of a    *)
(* via or pad has all that end there.                                      *)
LEMMA RemovedHolds ==
    ASSUME ViasReachAll, NEW own \in Good, NEW seen \in Good, own = seen \/ own = <<>>,
           NEW inBranch, NEW items \in SUBSET Item, NEW item \in items, Holds(seen, items)
    PROVE  Holds(Removed(own, seen, inBranch, item), items \ {item})
<1>1. seen \in Seq(Joint) /\ Separate(seen) /\ own \in Seq(Joint) /\ Separate(own)
  BY DEF Good
<1>2. CASE item \notin Through
  <2>1. Holds(Unlinked(seen, item), items \ {item})  BY <1>1, UnlinkedStands
  <2> QED  BY <1>2, <2>1 DEF Removed
<1>3. CASE item \in Through
  <2> DEFINE low == Min(Layers[item])
  <2>1. low \in Layers[item]  BY LowestLayer
  <2>2. PICK at \in DOMAIN seen : item \in ToSet(seen[at].links) /\ Layers[item] \subseteq seen[at].layers
    BY DEF Holds
  <2>3. at \in JointOf(seen, item)  BY <2>1, <2>2 DEF JointOf
  <2>4. PICK j : j = Min(JointOf(seen, item))  OBVIOUS
  <2>5. j \in DOMAIN seen /\ low \in seen[j].layers /\ seen[j].links \in Seq(Item)
    BY <1>1, <2>3, <2>4, JointOfType
  <2>6. j = at  BY <2>1, <2>2, <2>5, <1>1 DEF Separate
  <2>7. \A i \in DOMAIN seen : \A y \in ToSet(seen[i].links) : i = at
    <3> TAKE i \in DOMAIN seen
    <3> TAKE y \in ToSet(seen[i].links)
    <3>1. y \in items /\ Layers[y] \subseteq seen[i].layers  BY DEF Holds
    <3>2. Layers[item] \cap Layers[y] # {}  BY <1>3, <3>1 DEF ViasReachAll
    <3>3. seen[i].layers \cap seen[at].layers # {}  BY <2>2, <3>1, <3>2
    <3> QED  BY <1>1, <3>3 DEF Separate
  <2>8. ToSet(seen[at].links) = items
    <3>1. ToSet(seen[at].links) \subseteq items  BY DEF Holds
    <3>2. \A y \in items : y \in ToSet(seen[at].links)  BY <2>7 DEF Holds
    <3> QED  BY <3>1, <3>2
  <2>9. Holds(Apart(own, Layers[item]), {})
    <3> DEFINE kept == Apart(own, Layers[item])
    <3>1. ASSUME NEW i \in DOMAIN kept
          PROVE  \E m \in DOMAIN seen : m # at /\ kept[i] = seen[m]
      <4>1. PICK m \in DOMAIN own : kept[i] = own[m] /\ own[m].layers \cap Layers[item] = {}
        BY <1>1, ApartStands
      <4>2. own = seen
        <5>1. DOMAIN <<>> = {}  OBVIOUS
        <5> QED  BY <4>1, <5>1
      <4>3. m # at  BY <2>1, <2>2, <4>1, <4>2
      <4> QED  BY <4>1, <4>2, <4>3
    <3> HIDE DEF kept
    <3>2. \A i \in DOMAIN kept : \A y \in ToSet(kept[i].links) : FALSE
      BY <2>7, <3>1
    <3>3. \A i \in DOMAIN kept : IsInjective(kept[i].links)
      BY <3>1 DEF Holds
    <3>4. Holds(kept, {})  BY <3>2, <3>3 DEF Holds
    <3> QED  BY <3>4 DEF kept
  <2>10. Removed(own, seen, inBranch, item) = Rebuilt(own, inBranch, seen[at].links, item)
    BY <1>3, <2>3, <2>4, <2>6 DEF Removed
  <2>11. Holds(Rebuilt(own, inBranch, seen[at].links, item), ToSet(seen[at].links) \ {item})
    BY <2>5, <2>6, <2>9, RebuiltStands
  <2> QED  BY <2>8, <2>10, <2>11
<1> QED  BY <1>2, <1>3
----------------------------------------------------------------------------
(* World::commit: the items one after the other.                           *)
IsRemoval(f, b, items) ==
    /\ f \in [0 .. Len(items) -> Good] /\ f[0] = b
    /\ \A k \in 1 .. Len(items) : f[k] = RootWithout(f[k - 1], items[k])
    /\ AllRemoved(b, items) = f[Len(items)]

LEMMA AllRemovedWalk ==
    ASSUME NEW b \in Good, NEW items \in Seq(Item)
    PROVE  \E f : IsRemoval(f, b, items)
<1> DEFINE Is(g) == g = [k \in 0 .. Len(items) |-> IF k = 0 THEN b ELSE RootWithout(g[k - 1], items[k])]
<1>1. PICK Step : Step = [k \in 1 .. Len(items) |-> [t \in Good |-> RootWithout(t, items[k])]]
  OBVIOUS
<1>2. Step \in Steps(Good, Len(items))
  <2>1. \A k \in 1 .. Len(items), t \in Good : RootWithout(t, items[k]) \in Good
    <3> TAKE k \in 1 .. Len(items), t \in Good
    <3>1. items[k] \in Item  OBVIOUS
    <3>2. Removed(t, t, FALSE, items[k]) \in Good  BY <3>1, RemovedGood
    <3> QED  BY <3>2 DEF RootWithout
  <2> QED  BY <1>1, <2>1 DEF Steps
<1>3. Len(items) \in Nat  OBVIOUS
<1>4. PICK f : IsWalk(f, Good, b, Len(items), Step)  BY <1>2, <1>3, Walk
<1>5. ASSUME NEW k \in 1 .. Len(items) PROVE f[k] = RootWithout(f[k - 1], items[k])
  <2>1. k - 1 \in 0 .. Len(items)  OBVIOUS
  <2> QED  BY <1>1, <1>4, <2>1 DEF IsWalk
<1>6. Is(f)  BY <1>4, <1>5 DEF IsWalk
<1>7. Is(CHOOSE g : Is(g))  BY <1>6
<1>8. PICK h : Is(h) /\ h = CHOOSE g : Is(g)  BY <1>7
<1>9. AllRemoved(b, items) = h[Len(items)]  BY <1>8 DEF AllRemoved
<1>10. \A k \in 0 .. Len(items) : h[k] = f[k]
  <2> DEFINE S == {k \in 0 .. Len(items) : h[k] = f[k]}
  <2>1. 0 \in S  BY <1>3, <1>4, <1>8 DEF IsWalk
  <2>2. ASSUME NEW k \in 1 .. Len(items), k - 1 \in S PROVE k \in S
    BY <1>5, <1>8, <2>2
  <2> HIDE DEF S
  <2>3. \A k \in 0 .. Len(items) : k \in S  BY <1>3, <2>1, <2>2, UpTo
  <2> QED  BY <2>3 DEF S
<1>11. AllRemoved(b, items) = f[Len(items)]  BY <1>3, <1>9, <1>10
<1> QED  BY <1>4, <1>5, <1>11 DEF IsWalk, IsRemoval

LEMMA AllRemovedGood ==
    ASSUME NEW b \in Good, NEW items \in Seq(Item)
    PROVE  AllRemoved(b, items) \in Good
<1>1. PICK f : IsRemoval(f, b, items)  BY AllRemovedWalk
<1>2. Len(items) \in 0 .. Len(items)  OBVIOUS
<1> QED  BY <1>1, <1>2 DEF IsRemoval

LEMMA AllRemovedHolds ==
    ASSUME ViasReachAll, NEW b \in Good, NEW before \in SUBSET Item, Holds(b, before),
           NEW items \in Seq(Item), ToSet(items) \subseteq before, IsInjective(items)
    PROVE  Holds(AllRemoved(b, items), before \ ToSet(items))
<1>1. PICK f : IsRemoval(f, b, items)  BY AllRemovedWalk
<1>2. /\ f \in [0 .. Len(items) -> Good] /\ f[0] = b
      /\ \A k \in 1 .. Len(items) : f[k] = RootWithout(f[k - 1], items[k])
      /\ AllRemoved(b, items) = f[Len(items)]
  BY <1>1 DEF IsRemoval
<1>3. Len(items) \in Nat /\ DOMAIN items = 1 .. Len(items)  OBVIOUS
<1> DEFINE Left(k) == before \ {items[m] : m \in 1 .. k}
           S == {k \in 0 .. Len(items) : Holds(f[k], Left(k))}
<1>4. 0 \in S
  <2>1. Left(0) = before  OBVIOUS
  <2> QED  BY <1>2, <1>3, <2>1
<1>5. ASSUME NEW k \in 1 .. Len(items), k - 1 \in S PROVE k \in S
  <2>1. Holds(f[k - 1], Left(k - 1)) /\ f[k - 1] \in Good /\ Left(k - 1) \in SUBSET Item
    BY <1>2, <1>5
  <2>2. items[k] \in Left(k - 1)
    <3>1. items[k] \in before  BY <1>3 DEF ToSet
    <3>2. ASSUME NEW m \in 1 .. k - 1 PROVE items[m] # items[k]
      <4>1. m \in DOMAIN items /\ k \in DOMAIN items /\ m # k  OBVIOUS
      <4> QED  BY <4>1 DEF IsInjective
    <3> QED  BY <3>1, <3>2
  <2>3. Left(k) = Left(k - 1) \ {items[k]}
    <3>1. \A m \in 1 .. k : m \in 1 .. k - 1 \/ m = k  OBVIOUS
    <3>2. 1 .. k - 1 \subseteq 1 .. k /\ k \in 1 .. k  OBVIOUS
    <3> QED  BY <3>1, <3>2
  <2> HIDE DEF Left
  <2>4. Holds(RootWithout(f[k - 1], items[k]), Left(k - 1) \ {items[k]})
    BY <2>1, <2>2, RemovedHolds DEF RootWithout
  <2>5. Holds(f[k], Left(k))  BY <1>2, <2>3, <2>4
  <2> QED  BY <2>5
<1>6. Len(items) \in S
  <2> HIDE DEF S
  <2>1. \A k \in 1 .. Len(items) : k - 1 \in S => k \in S  BY <1>5
  <2>2. \A k \in 0 .. Len(items) : k \in S  BY <1>3, <1>4, <2>1, UpTo
  <2> QED  BY <1>3, <2>2
<1>7. Left(Len(items)) = before \ ToSet(items)  BY <1>3 DEF ToSet
<1> QED  BY <1>2, <1>6, <1>7

IsLinking(f, b, items) ==
    /\ f \in [0 .. Len(items) -> Good] /\ f[0] = b
    /\ \A k \in 1 .. Len(items) : f[k] = Linked(f[k - 1], items[k])
    /\ AllLinked(b, items) = f[Len(items)]

LEMMA AllLinkedWalk ==
    ASSUME NEW b \in Good, NEW items \in Seq(Item)
    PROVE  \E f : IsLinking(f, b, items)
<1> DEFINE Is(g) == g = [k \in 0 .. Len(items) |-> IF k = 0 THEN b ELSE Linked(g[k - 1], items[k])]
<1>1. PICK Step : Step = [k \in 1 .. Len(items) |-> [t \in Good |-> Linked(t, items[k])]]
  OBVIOUS
<1>2. Step \in Steps(Good, Len(items))
  <2>1. \A k \in 1 .. Len(items), t \in Good : Linked(t, items[k]) \in Good
    BY LinkedStands DEF Good
  <2> QED  BY <1>1, <2>1 DEF Steps
<1>3. Len(items) \in Nat  OBVIOUS
<1>4. PICK f : IsWalk(f, Good, b, Len(items), Step)  BY <1>2, <1>3, Walk
<1>5. ASSUME NEW k \in 1 .. Len(items) PROVE f[k] = Linked(f[k - 1], items[k])
  <2>1. k - 1 \in 0 .. Len(items)  OBVIOUS
  <2> QED  BY <1>1, <1>4, <2>1 DEF IsWalk
<1>6. Is(f)  BY <1>4, <1>5 DEF IsWalk
<1>7. Is(CHOOSE g : Is(g))  BY <1>6
<1>8. PICK h : Is(h) /\ h = CHOOSE g : Is(g)  BY <1>7
<1>9. AllLinked(b, items) = h[Len(items)]  BY <1>8 DEF AllLinked
<1>10. \A k \in 0 .. Len(items) : h[k] = f[k]
  <2> DEFINE S == {k \in 0 .. Len(items) : h[k] = f[k]}
  <2>1. 0 \in S  BY <1>3, <1>4, <1>8 DEF IsWalk
  <2>2. ASSUME NEW k \in 1 .. Len(items), k - 1 \in S PROVE k \in S
    BY <1>5, <1>8, <2>2
  <2> HIDE DEF S
  <2>3. \A k \in 0 .. Len(items) : k \in S  BY <1>3, <2>1, <2>2, UpTo
  <2> QED  BY <2>3 DEF S
<1>11. AllLinked(b, items) = f[Len(items)]  BY <1>3, <1>9, <1>10
<1> QED  BY <1>4, <1>5, <1>11 DEF IsWalk, IsLinking

LEMMA AllLinkedGood ==
    ASSUME NEW b \in Good, NEW items \in Seq(Item)
    PROVE  AllLinked(b, items) \in Good
<1>1. PICK f : IsLinking(f, b, items)  BY AllLinkedWalk
<1>2. Len(items) \in 0 .. Len(items)  OBVIOUS
<1> QED  BY <1>1, <1>2 DEF IsLinking

LEMMA AllLinkedHolds ==
    ASSUME NEW b \in Good, NEW before, Holds(b, before), NEW items \in Seq(Item)
    PROVE  Holds(AllLinked(b, items), before \cup ToSet(items))
<1>1. PICK f : IsLinking(f, b, items)  BY AllLinkedWalk
<1>2. /\ f \in [0 .. Len(items) -> Good] /\ f[0] = b
      /\ \A k \in 1 .. Len(items) : f[k] = Linked(f[k - 1], items[k])
      /\ AllLinked(b, items) = f[Len(items)]
  BY <1>1 DEF IsLinking
<1>3. Len(items) \in Nat /\ DOMAIN items = 1 .. Len(items)  OBVIOUS
<1> DEFINE Now(k) == before \cup {items[m] : m \in 1 .. k}
           S == {k \in 0 .. Len(items) : Holds(f[k], Now(k))}
<1>4. 0 \in S
  <2>1. Now(0) = before  OBVIOUS
  <2> HIDE DEF Now
  <2>2. 0 \in 0 .. Len(items) /\ f[0] = b  BY <1>2, <1>3
  <2> QED  BY <2>1, <2>2
<1>5. ASSUME NEW k \in 1 .. Len(items), k - 1 \in S PROVE k \in S
  <2>1. Holds(f[k - 1], Now(k - 1)) /\ f[k - 1] \in Seq(Joint) /\ Separate(f[k - 1])
    BY <1>2, <1>5 DEF Good
  <2>2. Now(k) = Now(k - 1) \cup {items[k]}
    <3>1. \A m \in 1 .. k : m \in 1 .. k - 1 \/ m = k  OBVIOUS
    <3>2. 1 .. k - 1 \subseteq 1 .. k /\ k \in 1 .. k  OBVIOUS
    <3> QED  BY <3>1, <3>2
  <2> HIDE DEF Now
  <2>a. items[k] \in Item  OBVIOUS
  <2>3. Holds(Linked(f[k - 1], items[k]), Now(k - 1) \cup {items[k]})
    BY <2>1, <2>a, LinkedStands
  <2>4. Holds(f[k], Now(k))  BY <1>2, <2>2, <2>3
  <2> QED  BY <2>4
<1>6. Len(items) \in S
  <2> HIDE DEF S
  <2>1. \A k \in 1 .. Len(items) : k - 1 \in S => k \in S  BY <1>5
  <2>2. \A k \in 0 .. Len(items) : k \in S  BY <1>3, <1>4, <2>1, UpTo
  <2> QED  BY <1>3, <2>2
<1>7. Now(Len(items)) = before \cup ToSet(items)  BY <1>3 DEF ToSet
<1> QED  BY <1>2, <1>6, <1>7

LEMMA OrdersOf ==
    ASSUME NEW items \in SUBSET Item, NEW order \in SetToSeqs(items)
    PROVE  order \in Seq(Item) /\ ToSet(order) = items /\ IsInjective(order)
<1>1. IsFiniteSet(items)  BY AssumeItems, FS_Subset
<1> DEFINE n == Cardinality(items)
<1>2. n \in Nat  BY <1>1, FS_CardinalityType
<1>3. order \in [1 .. n -> items] /\ \A i, j \in 1 .. n : i # j => order[i] # order[j]
  BY DEF SetToSeqs
<1>4. order \in Seq(Item) /\ DOMAIN order = 1 .. n  BY <1>2, <1>3
<1>5. IsInjective(order)  BY <1>3, <1>4 DEF IsInjective
<1>6. ToSet(order) = items
  <2>1. ToSet(order) \subseteq items  BY <1>3, <1>4 DEF ToSet
  <2>2. IsFiniteSet(1 .. n) /\ Cardinality(1 .. n) = n  BY <1>2, FS_Interval
  <2>3. order \in Injection(1 .. n, items)
    BY <1>3, <1>4, <1>5 DEF Injection
  <2>4. order \in Surjection(1 .. n, items)  BY <1>1, <2>2, <2>3, FS_Injection
  <2>5. items \subseteq ToSet(order)  BY <1>4, <2>4 DEF Surjection, ToSet
  <2> QED  BY <2>1, <2>5
<1> QED  BY <1>4, <1>5, <1>6
----------------------------------------------------------------------------
LEMMA SeenGood ==
    ASSUME BucketsSeparate, NEW n \in Node
    PROVE  bucket[n] \in Good /\ Seen(n) \in Good
BY AssumeItems DEF BucketsSeparate, TypeOK, Good, Seen

LEMMA EmptyGood == <<>> \in Good /\ Holds(<<>>, {})
<1>1. DOMAIN <<>> = {} /\ <<>> \in Seq(Joint)  OBVIOUS
<1> QED  BY <1>1 DEF Good, Separate, Holds

LEMMA GoodFunction ==
    ASSUME NEW f, f \in [Node -> Good]
    PROVE  f \in [Node -> Seq(Joint)] /\ \A n \in Node : Separate(f[n])
BY DEF Good

LEMMA InitSeparate == Init => BucketsSeparate
BY EmptyGood, AssumeItems DEF Init, BucketsSeparate, TypeOK, Good

LEMMA BranchSeparate ==
    ASSUME BucketsSeparate, NEW n \in Node, NEW c \in Node, Branch(n, c)
    PROVE  BucketsSeparate'
<1>1. \A m \in Node : bucket[m] \in Good  BY SeenGood
<1>2. bucket' \in [Node -> Good]
  <2>1. (IF n = Root THEN <<>> ELSE bucket[n]) \in Good  BY <1>1, EmptyGood
  <2>2. bucket \in [Node -> Good]  BY <1>1 DEF BucketsSeparate, TypeOK
  <2> QED  BY <2>1, <2>2 DEF Branch
<1>3. live' \subseteq Node /\ Root \in live' /\ has' \subseteq live'
  BY DEF BucketsSeparate, TypeOK, Branch
<1>4. chain' \in [Node -> SUBSET (Node \ {Root})]
  <2>1. (chain[n] \cup {c}) \ {Root} \in SUBSET (Node \ {Root})
    BY DEF BucketsSeparate, TypeOK
  <2> QED  BY <2>1 DEF BucketsSeparate, TypeOK, Branch
<1>5. shows' \in [Node -> SUBSET Item]  BY DEF BucketsSeparate, TypeOK, Branch
<1> QED  BY <1>2, <1>3, <1>4, <1>5, GoodFunction DEF BucketsSeparate, TypeOK

(* A step that writes one bucket and no other.                             *)
LEMMA WriteSeparate ==
    ASSUME BucketsSeparate, NEW n \in live, NEW b \in Good, bucket' = [bucket EXCEPT ![n] = b],
           has' = has \/ has' = has \cup {n}, shows' \in [Node -> SUBSET Item],
           UNCHANGED <<live, chain>>
    PROVE  BucketsSeparate'
<1>1. \A m \in Node : bucket[m] \in Good  BY SeenGood
<1>2. bucket' \in [Node -> Good]  BY <1>1 DEF BucketsSeparate, TypeOK
<1>3. has' \subseteq live  BY DEF BucketsSeparate, TypeOK
<1> QED  BY <1>2, <1>3, GoodFunction DEF BucketsSeparate, TypeOK

LEMMA ItemSeparate ==
    ASSUME BucketsSeparate, NEW n \in Node, NEW i \in Item,
           AddItem(n, i) \/ RemoveItem(n, i) \/ LockJoint(n, i)
    PROVE  BucketsSeparate'
<1>1. bucket[n] \in Good /\ Seen(n) \in Good  BY SeenGood
<1>2. Seen(n) \in Seq(Joint) /\ Separate(Seen(n))  BY <1>1 DEF Good
<1>3. CASE AddItem(n, i)
  <2>1. Linked(Seen(n), i) \in Good  BY <1>2, LinkedStands DEF Good
  <2>2. shows' \in [Node -> SUBSET Item]  BY <1>3 DEF AddItem, BucketsSeparate, TypeOK
  <2>3. n \in live  BY <1>3 DEF AddItem, Leaf
  <2> QED  BY <1>3, <2>1, <2>2, <2>3, WriteSeparate DEF AddItem
<1>4. CASE RemoveItem(n, i)
  <2>1. Removed(bucket[n], Seen(n), n # Root, i) \in Good  BY <1>1, RemovedGood
  <2>2. shows' \in [Node -> SUBSET Item]  BY <1>4 DEF RemoveItem, BucketsSeparate, TypeOK
  <2>3. n \in live  BY <1>4 DEF RemoveItem, Leaf
  <2>4. has' = has \/ has' = has \cup {n}  BY <1>4 DEF RemoveItem
  <2> QED  BY <1>4, <2>1, <2>2, <2>3, <2>4, WriteSeparate DEF RemoveItem
<1>5. CASE LockJoint(n, i)
  <2>1. Locked(Seen(n), i) \in Good  BY <1>2, LockedStands DEF Good
  <2>2. shows' \in [Node -> SUBSET Item]  BY <1>5 DEF LockJoint, BucketsSeparate, TypeOK
  <2>3. n \in live  BY <1>5 DEF LockJoint, Leaf
  <2> QED  BY <1>5, <2>1, <2>2, <2>3, WriteSeparate DEF LockJoint
<1> QED  BY <1>3, <1>4, <1>5

LEMMA ForgetType ==
    ASSUME TypeOK, NEW n \in Node, Forget(Subtree(n))
    PROVE  /\ live' \subseteq Node /\ Root \in live' /\ has' \subseteq live'
           /\ chain' \in [Node -> SUBSET (Node \ {Root})]
<1>1. Root \notin Subtree(n)  BY DEF Subtree
<1> QED  BY <1>1 DEF TypeOK, Forget

LEMMA DropSeparate ==
    ASSUME BucketsSeparate, NEW n \in Node, DropNode(n)
    PROVE  BucketsSeparate'
<1>1. \A m \in Node : bucket[m] \in Good  BY SeenGood
<1>2. bucket' \in [Node -> Good]  BY <1>1, EmptyGood DEF DropNode
<1>3. shows' \in [Node -> SUBSET Item]  BY DEF DropNode, BucketsSeparate, TypeOK
<1>4. /\ live' \subseteq Node /\ Root \in live' /\ has' \subseteq live'
      /\ chain' \in [Node -> SUBSET (Node \ {Root})]
  BY ForgetType DEF DropNode, BucketsSeparate
<1> QED  BY <1>2, <1>3, <1>4, GoodFunction DEF BucketsSeparate, TypeOK

LEMMA CommitSeparate ==
    ASSUME BucketsSeparate, NEW n \in Node, Commit(n)
    PROVE  BucketsSeparate'
<1>1. shows[Root] \in SUBSET Item /\ shows[n] \in SUBSET Item
  BY AssumeItems DEF BucketsSeparate, TypeOK
<1>2. PICK out \in SetToSeqs(shows[Root] \ shows[n]), in \in SetToSeqs(shows[n] \ shows[Root]) :
        bucket' = [m \in Node |-> IF m = Root THEN AllLinked(AllRemoved(bucket[Root], out), in)
                                 ELSE <<>>]
  BY DEF Commit
<1>3. out \in Seq(Item) /\ in \in Seq(Item)
  <2>1. shows[Root] \ shows[n] \in SUBSET Item /\ shows[n] \ shows[Root] \in SUBSET Item
    BY <1>1
  <2> QED  BY <2>1, OrdersOf
<1>4. bucket[Root] \in Good  BY SeenGood, AssumeItems
<1>5. AllRemoved(bucket[Root], out) \in Good  BY <1>3, <1>4, AllRemovedGood
<1>6. AllLinked(AllRemoved(bucket[Root], out), in) \in Good  BY <1>3, <1>5, AllLinkedGood
<1>7. bucket' \in [Node -> Good]  BY <1>2, <1>6, EmptyGood
<1>8. shows' \in [Node -> SUBSET Item]  BY <1>1 DEF Commit
<1>9. /\ live' \subseteq Node /\ Root \in live' /\ has' \subseteq live'
      /\ chain' \in [Node -> SUBSET (Node \ {Root})]
  BY ForgetType, AssumeItems DEF Commit, BucketsSeparate
<1> QED  BY <1>7, <1>8, <1>9, GoodFunction DEF BucketsSeparate, TypeOK

(* Whatever is linked, unlinked, locked, rebuilt, branched, dropped and    *)
(* committed, every bucket is a row of joints over ranges of layers no two *)
(* of which meet.                                                          *)
THEOREM BucketsStaySeparate == Spec => []BucketsSeparate
<1>1. BucketsSeparate /\ [Next]_vars => BucketsSeparate'
  <2> SUFFICES ASSUME BucketsSeparate, [Next]_vars PROVE BucketsSeparate'  OBVIOUS
  <2>1. ASSUME NEW n \in Node, NEW c \in Node, Branch(n, c) PROVE BucketsSeparate'
    BY <2>1, BranchSeparate
  <2>2. ASSUME NEW n \in Node, NEW i \in Item,
               AddItem(n, i) \/ RemoveItem(n, i) \/ LockJoint(n, i)
        PROVE  BucketsSeparate'
    BY <2>2, ItemSeparate
  <2>3. ASSUME NEW n \in Node, DropNode(n) PROVE BucketsSeparate'
    BY <2>3, DropSeparate
  <2>4. ASSUME NEW n \in Node, Commit(n) PROVE BucketsSeparate'
    BY <2>4, CommitSeparate
  <2>5. CASE UNCHANGED vars
    BY <2>5 DEF vars, BucketsSeparate, TypeOK
  <2> QED  BY <2>1, <2>2, <2>3, <2>4, <2>5 DEF Next
<1> QED  BY <1>1, InitSeparate, PTL DEF Spec

(* Whatever node is asked, find_joint has at most one answer.              *)
THEOREM LayersDisjointHolds == Spec => []LayersDisjoint
<1>1. BucketsSeparate => LayersDisjoint
  <2> SUFFICES ASSUME BucketsSeparate, NEW n \in live PROVE Separate(Seen(n))
    BY DEF LayersDisjoint, Separate
  <2> QED  BY SeenGood DEF BucketsSeparate, TypeOK, Good
<1> QED  BY <1>1, BucketsStaySeparate, PTL
----------------------------------------------------------------------------
LEMMA ReadBuckets ==
    ASSUME BucketsHold, NEW n \in live
    PROVE  /\ n \in Node /\ shows[n] \in SUBSET Item
           /\ bucket[n] \in Good /\ Seen(n) \in Good /\ Holds(Seen(n), shows[n])
           /\ bucket[n] = Seen(n) \/ bucket[n] = <<>>
<1>1. BucketsSeparate /\ n \in Node /\ shows[n] \in SUBSET Item
  BY DEF BucketsHold, BucketsSeparate, TypeOK
<1>2. bucket[n] = Seen(n) \/ bucket[n] = <<>>
  <2>1. CASE n \in has \cup {Root}  BY <2>1 DEF Seen
  <2>2. CASE n \notin has \cup {Root}  BY <1>1, <2>2 DEF BucketsHold
  <2> QED  BY <2>1, <2>2
<1> QED  BY <1>1, <1>2, SeenGood DEF BucketsHold

LEMMA InitHold == Init => BucketsHold
<1> SUFFICES ASSUME Init PROVE BucketsHold  OBVIOUS
<1>1. \A n \in Node : bucket[n] = <<>> /\ shows[n] = {}  BY DEF Init
<1>2. \A n \in live : Seen(n) = <<>> /\ shows[n] = {}  BY <1>1, AssumeItems DEF Init, Seen
<1> QED  BY <1>1, <1>2, EmptyGood, InitSeparate DEF BucketsHold

(* A new branch sees what the node it was taken from sees.                 *)
LEMMA BranchHolds ==
    ASSUME BucketsHold, NEW n \in Node, NEW c \in Node, Branch(n, c)
    PROVE  BucketsHold'
<1>1. /\ n \in live /\ c \notin live /\ c # n /\ Root \in live /\ Root # c
      /\ has \subseteq live /\ live \subseteq Node
      /\ bucket \in [Node -> Seq(Joint)] /\ shows \in [Node -> SUBSET Item]
  BY DEF BucketsHold, BucketsSeparate, TypeOK, Branch
<1>2. BucketsSeparate'  BY BranchSeparate DEF BucketsHold
<1>3. /\ \A m \in live : bucket'[m] = bucket[m] /\ shows'[m] = shows[m]
      /\ bucket'[c] = (IF n = Root THEN <<>> ELSE bucket[n]) /\ shows'[c] = shows[n]
      /\ live' = live \cup {c}
      /\ has' = IF n \in has \ {Root} THEN has \cup {c} ELSE has
  BY <1>1 DEF Branch
<1>4. ASSUME NEW m \in live PROVE Holds(Seen(m)', shows'[m])
  <2>1. Seen(m)' = Seen(m)  BY <1>1, <1>3 DEF Seen
  <2> QED  BY <1>3, <2>1 DEF BucketsHold
<1>5. Holds(Seen(c)', shows'[c])
  <2>1. Seen(c)' = Seen(n)  BY <1>1, <1>3 DEF Seen
  <2> QED  BY <1>1, <1>3, <2>1 DEF BucketsHold
<1>6. ASSUME NEW m \in Node \ (has' \cup {Root}) PROVE bucket'[m] = <<>>
  <2>1. m \notin has /\ bucket[m] = <<>>  BY <1>3, <1>6 DEF BucketsHold
  <2>2. CASE m = c
    <3>1. n = Root \/ n \notin has  BY <1>3, <1>6, <2>2
    <3>2. n # Root => bucket[n] = <<>>  BY <3>1 DEF BucketsHold
    <3> QED  BY <1>3, <2>2, <3>2
  <2>3. CASE m # c  BY <1>1, <2>1, <2>3 DEF Branch
  <2> QED  BY <2>2, <2>3
<1>7. \A m \in live' : Holds(Seen(m)', shows'[m])  BY <1>3, <1>4, <1>5
<1> QED  BY <1>2, <1>6, <1>7 DEF BucketsHold

(* A leaf's own bucket is written: no other node sees it, as the root has  *)
(* no branch while it is a leaf.                                           *)
LEMMA WriteHolds ==
    ASSUME BucketsHold, NEW n \in Node, Leaf(n), NEW b, NEW items, Holds(b, items),
           bucket' = [bucket EXCEPT ![n] = b], shows' = [shows EXCEPT ![n] = items],
           has' = has \cup {n}, UNCHANGED <<live, chain>>, BucketsSeparate'
    PROVE  BucketsHold'
<1>1. /\ n \in live /\ Root \in live /\ has \subseteq live /\ live \subseteq Node
      /\ bucket \in [Node -> Seq(Joint)] /\ shows \in [Node -> SUBSET Item]
  BY DEF BucketsHold, BucketsSeparate, TypeOK, Leaf
<1>2. /\ \A m \in Node : m # n => bucket'[m] = bucket[m] /\ shows'[m] = shows[m]
      /\ bucket'[n] = b /\ shows'[n] = items
  BY <1>1
<1>3. ASSUME NEW m \in live PROVE Holds(Seen(m)', shows'[m])
  <2>1. CASE m = n
    <3>1. Seen(m)' = b  BY <1>2, <2>1 DEF Seen
    <3> QED  BY <1>2, <2>1, <3>1
  <2>2. CASE m # n
    <3>1. n # Root  BY <1>1, <2>2 DEF Leaf
    <3>2. Seen(m)' = Seen(m)  BY <1>1, <1>2, <2>2, <3>1 DEF Seen
    <3>3. shows'[m] = shows[m]  BY <1>1, <1>2, <2>2
    <3> QED  BY <3>2, <3>3 DEF BucketsHold
  <2> QED  BY <2>1, <2>2
<1>4. \A m \in Node \ (has' \cup {Root}) : bucket'[m] = <<>>  BY <1>2 DEF BucketsHold
<1> QED  BY <1>3, <1>4 DEF BucketsHold

LEMMA ItemHolds ==
    ASSUME ViasReachAll, BucketsHold, NEW n \in Node, NEW i \in Item,
           AddItem(n, i) \/ RemoveItem(n, i) \/ LockJoint(n, i)
    PROVE  BucketsHold'
<1>1. Leaf(n) /\ n \in live  BY DEF AddItem, RemoveItem, LockJoint, Leaf
<1>2. /\ shows[n] \in SUBSET Item
      /\ bucket[n] \in Good /\ Seen(n) \in Good /\ Holds(Seen(n), shows[n])
      /\ bucket[n] = Seen(n) \/ bucket[n] = <<>>
  BY <1>1, ReadBuckets
<1>3. Seen(n) \in Seq(Joint) /\ Separate(Seen(n))  BY <1>2 DEF Good
<1>4. BucketsSeparate'  BY ItemSeparate DEF BucketsHold
<1>5. CASE AddItem(n, i)
  <2>1. Holds(Linked(Seen(n), i), shows[n] \cup {i})  BY <1>2, <1>3, LinkedStands
  <2> QED  BY <1>1, <1>4, <1>5, <2>1, WriteHolds DEF AddItem
<1>6. CASE RemoveItem(n, i)
  <2>1. i \in shows[n]  BY <1>6 DEF RemoveItem
  <2>2. Holds(Removed(bucket[n], Seen(n), n # Root, i), shows[n] \ {i})
    BY <1>2, <2>1, RemovedHolds
  <2>3. JointOf(Seen(n), i) # {}
    <3>1. PICK at \in DOMAIN Seen(n) : Layers[i] \subseteq Seen(n)[at].layers
      BY <1>2, <2>1 DEF Holds
    <3> QED  BY <3>1, LowestLayer DEF JointOf
  <2>4. has' = has \cup {n}  BY <1>6, <2>3 DEF RemoveItem
  <2> QED  BY <1>1, <1>4, <1>6, <2>2, <2>4, WriteHolds DEF RemoveItem
<1>7. CASE LockJoint(n, i)
  <2>1. Holds(Locked(Seen(n), i), shows[n])  BY <1>2, <1>3, LockedStands
  <2>2. shows' = [shows EXCEPT ![n] = shows[n]]
    BY <1>7 DEF LockJoint, BucketsHold, BucketsSeparate, TypeOK
  <2> QED  BY <1>1, <1>4, <1>7, <2>1, <2>2, WriteHolds DEF LockJoint
<1> QED  BY <1>5, <1>6, <1>7

LEMMA DropHolds ==
    ASSUME BucketsHold, NEW n \in Node, DropNode(n)
    PROVE  BucketsHold'
<1>1. /\ Root \in live /\ live \subseteq Node /\ Root \notin Subtree(n)
      /\ live' = live \ Subtree(n) /\ has' = has \ Subtree(n)
      /\ \A m \in Node : /\ bucket'[m] = IF m \in Subtree(n) THEN <<>> ELSE bucket[m]
                         /\ shows'[m] = IF m \in Subtree(n) THEN {} ELSE shows[m]
  BY DEF BucketsHold, BucketsSeparate, TypeOK, DropNode, Forget, Subtree
<1>2. BucketsSeparate'  BY DropSeparate DEF BucketsHold
<1>3. ASSUME NEW m \in live' PROVE Holds(Seen(m)', shows'[m])
  <2>1. m \in live /\ m \notin Subtree(n)  BY <1>1
  <2>2. Seen(m)' = Seen(m) /\ shows'[m] = shows[m]  BY <1>1, <2>1 DEF Seen
  <2> QED  BY <2>1, <2>2 DEF BucketsHold
<1>4. \A m \in Node \ (has' \cup {Root}) : bucket'[m] = <<>>  BY <1>1 DEF BucketsHold
<1> QED  BY <1>2, <1>3, <1>4 DEF BucketsHold

LEMMA CommitHolds ==
    ASSUME ViasReachAll, BucketsHold, NEW n \in Node, Commit(n)
    PROVE  BucketsHold'
<1>1. n \in live /\ Root \in live /\ live \subseteq Node
  BY DEF BucketsHold, BucketsSeparate, TypeOK, Commit
<1>2. /\ shows[n] \in SUBSET Item /\ shows[Root] \in SUBSET Item
      /\ bucket[Root] \in Good /\ Holds(bucket[Root], shows[Root])
  BY <1>1, ReadBuckets DEF Seen
<1> DEFINE gone == shows[Root] \ shows[n]
           new  == shows[n] \ shows[Root]
<1>3. PICK out \in SetToSeqs(gone), in \in SetToSeqs(new) :
        bucket' = [m \in Node |-> IF m = Root THEN AllLinked(AllRemoved(bucket[Root], out), in)
                                 ELSE <<>>]
  BY DEF Commit
<1>4. gone \in SUBSET Item /\ new \in SUBSET Item /\ gone \subseteq shows[Root]
      /\ (shows[Root] \ gone) \cup new = shows[n]
  BY <1>2
<1> HIDE DEF gone, new
<1>5. /\ out \in Seq(Item) /\ ToSet(out) = gone /\ IsInjective(out)
      /\ in \in Seq(Item) /\ ToSet(in) = new
  BY <1>4, OrdersOf
<1> DEFINE rest == AllRemoved(bucket[Root], out)
<1>6. rest \in Good /\ Holds(rest, shows[Root] \ gone)
  BY <1>2, <1>4, <1>5, AllRemovedGood, AllRemovedHolds
<1>7. bucket'[Root] = AllLinked(rest, in)  BY <1>1, <1>3
<1> HIDE DEF rest
<1>8. Holds(AllLinked(rest, in), shows[n])  BY <1>4, <1>5, <1>6, AllLinkedHolds
<1>9. live' = {Root} /\ shows'[Root] = shows[n]
  BY <1>1 DEF Commit, Forget, Subtree
<1>10. Seen(Root)' = bucket'[Root]  BY DEF Seen
<1>11. \A m \in live' : Holds(Seen(m)', shows'[m])  BY <1>7, <1>8, <1>9, <1>10
<1>12. \A m \in Node \ (has' \cup {Root}) : bucket'[m] = <<>>  BY <1>3
<1>13. BucketsSeparate'  BY CommitSeparate DEF BucketsHold
<1> QED  BY <1>11, <1>12, <1>13 DEF BucketsHold

(* As long as no via is blind, what a node's joints link is what the node  *)
(* shows, whatever is rebuilt, branched, dropped and committed.            *)
THEOREM BucketsStayTrue == ASSUME ViasReachAll PROVE Spec => []BucketsHold
<1>1. BucketsHold /\ [Next]_vars => BucketsHold'
  <2> SUFFICES ASSUME BucketsHold, [Next]_vars PROVE BucketsHold'  OBVIOUS
  <2>1. ASSUME NEW n \in Node, NEW c \in Node, Branch(n, c) PROVE BucketsHold'
    BY <2>1, BranchHolds
  <2>2. ASSUME NEW n \in Node, NEW i \in Item,
               AddItem(n, i) \/ RemoveItem(n, i) \/ LockJoint(n, i)
        PROVE  BucketsHold'
    BY <2>2, ItemHolds
  <2>3. ASSUME NEW n \in Node, DropNode(n) PROVE BucketsHold'  BY <2>3, DropHolds
  <2>4. ASSUME NEW n \in Node, Commit(n) PROVE BucketsHold'  BY <2>4, CommitHolds
  <2>5. CASE UNCHANGED vars
    BY <2>5 DEF vars, BucketsHold, BucketsSeparate, TypeOK, Seen
  <2> QED  BY <2>1, <2>2, <2>3, <2>4, <2>5 DEF Next
<1> QED  BY <1>1, InitHold, PTL DEF Spec

(* An item that two joints linked would have its layers in both.           *)
LEMMA HeldOnce ==
    ASSUME NEW b \in Good, NEW items \in SUBSET Item, Holds(b, items)
    PROVE  /\ UNION {ToSet(b[i].links) : i \in DOMAIN b} = items
           /\ \A i \in DOMAIN b :
                /\ IsInjective(b[i].links)
                /\ \A j \in DOMAIN b \ {i} : ToSet(b[i].links) \cap ToSet(b[j].links) = {}
                /\ \A item \in ToSet(b[i].links) : Layers[item] \subseteq b[i].layers
<1>1. UNION {ToSet(b[i].links) : i \in DOMAIN b} = items  BY DEF Holds
<1>2. ASSUME NEW i \in DOMAIN b, NEW j \in DOMAIN b \ {i}
      PROVE  ToSet(b[i].links) \cap ToSet(b[j].links) = {}
  <2>1. SUFFICES ASSUME NEW x, x \in ToSet(b[i].links), x \in ToSet(b[j].links)
                 PROVE  FALSE
    OBVIOUS
  <2>2. x \in Item /\ Layers[x] \subseteq b[i].layers /\ Layers[x] \subseteq b[j].layers
    BY <2>1 DEF Holds
  <2>3. Layers[x] # {}  BY <2>2, LayersType
  <2> QED  BY <2>2, <2>3 DEF Good, Separate
<1>3. \A i \in DOMAIN b : IsInjective(b[i].links)  BY DEF Holds
<1>4. \A i \in DOMAIN b : \A item \in ToSet(b[i].links) : Layers[item] \subseteq b[i].layers
  BY DEF Holds
<1> QED  BY <1>1, <1>2, <1>3, <1>4

(* The joints a node sees hold the items it shows, each once and in a      *)
(* joint that spans its layers, as long as no via is blind.                *)
THEOREM JointsHoldItemsHolds == ASSUME ViasReachAll PROVE Spec => []JointsHoldItems
<1>1. BucketsHold => JointsHoldItems
  <2> SUFFICES ASSUME BucketsHold PROVE JointsHoldItems  OBVIOUS
  <2>1. \A n \in live : Seen(n) \in Good /\ Holds(Seen(n), shows[n]) /\ shows[n] \in SUBSET Item
    BY ReadBuckets
  <2> QED  BY <2>1, HeldOnce DEF JointsHoldItems
<1> QED  BY <1>1, BucketsStayTrue, PTL
=============================================================================
