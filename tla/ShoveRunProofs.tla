---------------------------- MODULE ShoveRunProofs ----------------------------
(***************************************************************************)
(* Proofs about a shove run, for any board, any heads and any iteration    *)
(* budget.  A state of the run is a record that the operators of ShoveRun  *)
(* pass on, so the lemmas are about any such record s: what an operator    *)
(* makes of it, and that it keeps it Good, or Good but for tracks whose    *)
(* turn is to come.  The invariant of the run is IInv.                     *)
(***************************************************************************)
EXTENDS ShoveRun, TLAPS, FiniteSetTheorems, SequenceTheorems, WellFoundedInduction
(* What the model's board is made of.                                      *)
Elem == Track \cup Via
Nets == {Net[e] : e \in Elem}

(* The lines and the states of a run, as the operators of ShoveRun pass    *)
(* them on.                                                                *)
Line == [track : Elem, net : Nets, chain : BOOLEAN, via : Nat, links : Seq(Nat), rank : Int]
Node == [items : [Elem -> SUBSET Nat], rank : Seq(Int), root : Seq(Nat), newest : Seq(Nat),
         heads : Seq(Nat), stack : Seq(Line), queue : SUBSET [key : Nat, line : Line],
         gone : SUBSET Track, relinked : BOOLEAN]

(* Items are numbered in the order they are stored.  A number of a place   *)
(* of the board belongs to what lies at that place.                        *)
Numbered(s) ==
    /\ NTracks + NVias <= Len(s.rank) /\ Len(s.root) = Len(s.rank)
    /\ \A e \in Elem : \A i \in s.items[e] :
          i \in 1..Len(s.rank) /\ (i \in Elem => i = e /\ i \in Board)

(* A track or a via shows one item at most, and no two show the same.      *)
OneEach(s) == \A d, e \in Elem : \A i \in s.items[d], j \in s.items[e] : d = e <=> i = j

(* Entries are places of the root line index, and no entry is of two       *)
(* tracks.                                                                 *)
Entered(s) ==
    /\ \A i \in DOMAIN s.root : s.root[i] <= Len(s.newest)
    /\ \A h \in DOMAIN s.heads : s.heads[h] <= Len(s.newest)
    /\ \A t, u \in Track : \A i \in s.items[t], j \in s.items[u] :
          s.root[i] = s.root[j] /\ s.root[i] # 0 => t = u

(* What a head brought is entered under the head's own entry, whose line   *)
(* is the last one entered there, and nothing else is.                     *)
Headed(s) ==
    /\ Len(s.heads) <= NHeads
    /\ \A h \in HeadTrack : \A i \in s.items[h] :
          /\ h \in DOMAIN s.heads /\ s.heads[h] # 0 /\ s.root[i] = s.heads[h]
          /\ s.newest[s.heads[h]] \in {0, i}
    /\ \A v \in HeadVias : \A i \in s.items[v] :
          \E h \in DOMAIN s.heads : End[h] = v /\ s.heads[h] # 0 /\ s.root[i] = s.heads[h]
    /\ \A e \in Elem : \A i \in s.items[e], h \in DOMAIN s.heads :
          s.heads[h] # 0 /\ s.root[i] = s.heads[h] => e \in HeadTrack \cup HeadVias

(* What the run removed is not there; all else is: the board, and each     *)
(* head that is entered.                                                   *)
Present(s) ==
    /\ \A e \in s.gone : s.items[e] = {} /\ (e \in HeadTrack => e \in DOMAIN s.heads)
    /\ \A e \in Elem \ (HeadTrack \cup HeadVias \cup s.gone) : s.items[e] # {}
    /\ \A h \in DOMAIN s.heads : s.heads[h] # 0 /\ h \notin s.gone => s.items[h] # {}

(* What the branch holds, and how it is entered.                           *)
Stock(s) == Numbered(s) /\ OneEach(s) /\ Entered(s) /\ Headed(s) /\ Present(s)

(* The line is the one the branch would assemble now: its links are the    *)
(* item its track shows and, if it ends with a via, the via's.             *)
Fits(s, l) ==
    /\ l.track \in Track
    /\ \E i \in s.items[l.track] : l.links = IF l.via = NoVia THEN <<i>> ELSE <<i, l.via>>
    /\ l.via # NoVia => End[l.track] \in Via /\ l.via \in s.items[End[l.track]]

(* What a line is reduced to: nothing, or a via alone.                     *)
Stub(s, l) == \/ l.links = <<>>
              \/ l.links = <<l.via>> /\ \E v \in Via : l.via \in s.items[v]

(* A line refers to what the branch holds.                                 *)
Stands(s, l) ==
    /\ l.net = Net[l.track] /\ l.via <= Len(s.rank)
    /\ \A v \in Via : l.via \in s.items[v] => Net[v] = l.net
    /\ IF l.chain THEN Fits(s, l) ELSE Stub(s, l)

(* All lines on the stack stand, and no track is on it twice.              *)
StackOK(s) ==
    /\ \A k \in DOMAIN s.stack : Stands(s, s.stack[k])
    /\ \A k, m \in DOMAIN s.stack :
          s.stack[k].chain /\ s.stack[m].chain /\ s.stack[k].track = s.stack[m].track => k = m

(* A line waits for the optimizer under the entry of its track, with the   *)
(* shape the track has.  Amid a via's drag this is not yet so for the      *)
(* tracks P whose turn is to come.                                         *)
Waits(s, q, P) ==
    /\ q.key \in 1..Len(s.newest)
    /\ IF q.line.chain
       THEN /\ q.line.track \in Track
            /\ \A i \in s.items[q.line.track] : s.root[i] = q.key /\ i \in Links(q.line)
            /\ s.items[q.line.track] # {}
            /\ q.line.track \notin P => Fits(s, q.line)
       ELSE q.line.links = <<>>

(* The optimizer's queue has one line for an entry.                        *)
QueueOK(s, P) ==
    /\ \A q \in s.queue : Waits(s, q, P)
    /\ \A p, q \in s.queue : p.key = q.key => p = q

(* What every handler of the run hands on, but for the queue; and with it. *)
Fine(s) == s \in Node /\ Stock(s) /\ StackOK(s)
Good(s, P) == Fine(s) /\ QueueOK(s, P)

(* A run on its way: heads come one at a time, when the stack is empty,    *)
(* and nothing waits for the optimizer before the first.                   *)
Running(s, ph, n) ==
    /\ Good(s, {})
    /\ ph = "heads" <=> s.stack = <<>>
    /\ ph = "loop" => n > 1
    /\ n = 1 => s.queue = {}
    /\ Len(s.heads) < n
    /\ n <= NHeads => Len(s.heads) = n - 1

(* A run that ended: nothing of the heads is left on the branch.           *)
Over(s) ==
    /\ s.stack = <<>> /\ s.queue = {}
    /\ OneEach(s)
    /\ \A e \in HeadTrack \cup HeadVias \cup s.gone : s.items[e] = {}
    /\ \A e \in Elem \ (HeadTrack \cup HeadVias \cup s.gone) : s.items[e] # {}

(* The inductive invariant, of any state, phase and head count.            *)
InvAt(s, ph, n) ==
    /\ n \in 1..(NHeads + 1)
    /\ ph \in {"heads", "loop", "done", "failed"}
    /\ ph \in {"heads", "loop"} => Running(s, ph, n)
    /\ ph = "done" => Over(s)

(* The inductive invariant of a run.                                       *)
IInv == InvAt(node, phase, adding)

----------------------------------------------------------------------------
(* What the assumptions on the constants say of the places of the board.   *)
LEMMA Places ==
    /\ NTracks \in Nat /\ NVias \in Nat /\ NHeads \in Nat \ {0} /\ NHeads <= NTracks
    /\ Track \subseteq Nat \ {0} /\ Via \subseteq Nat \ {0} /\ Track \cap Via = {}
    /\ Elem \subseteq 1..(NTracks + NVias) /\ 0 \notin Elem
    /\ HeadTrack \subseteq Track /\ HeadVias \subseteq Via /\ Board \subseteq Elem
    /\ Board \cap HeadTrack = {} /\ Board \cap HeadVias = {}
    /\ End \in [Track -> Via \cup {NoVia}] /\ DragVias \subseteq Via \ HeadVias
<1>1. NTracks \in Nat /\ NVias \in Nat /\ NHeads \in Nat \ {0} /\ NHeads <= NTracks
  BY AssumeSizes
<1>2. HeadVias \subseteq Via /\ DragVias \subseteq Via \ HeadVias
      /\ End \in [Track -> Via \cup {NoVia}]
  BY AssumeTopology
<1> QED  BY <1>1, <1>2 DEF Track, Via, Elem, HeadTrack, Board

(* What appending to a sequence makes.                                     *)
LEMMA AppendType ==
    ASSUME NEW S, NEW f \in Seq(S), NEW x \in S
    PROVE  /\ Append(f, x) \in Seq(S) /\ Len(Append(f, x)) = Len(f) + 1
           /\ DOMAIN Append(f, x) = 1..(Len(f) + 1)
           /\ \A j \in 1..Len(f) : Append(f, x)[j] = f[j]
           /\ Append(f, x)[Len(f) + 1] = x
OBVIOUS

(* Marked writes x at the members of items and leaves all else.            *)
LEMMA MarkedIs ==
    ASSUME NEW S, NEW f \in Seq(S), NEW items, NEW x \in S
    PROVE  /\ Marked(f, items, x) \in Seq(S) /\ Len(Marked(f, items, x)) = Len(f)
           /\ DOMAIN Marked(f, items, x) = DOMAIN f
           /\ \A j \in DOMAIN f : Marked(f, items, x)[j] = IF j \in items THEN x ELSE f[j]
<1>1. PICK g : g = [i \in DOMAIN f |-> IF i \in items THEN x ELSE f[i]]  OBVIOUS
<1>2. DOMAIN f = 1..Len(f) /\ Len(f) \in Nat /\ \A j \in DOMAIN f : f[j] \in S  OBVIOUS
<1>3. g \in [1..Len(f) -> S]  BY <1>1, <1>2
<1>4. g \in Seq(S) /\ Len(g) = Len(f)  BY <1>2, <1>3
<1>5. SubSeq(g, 1, Len(f)) = g  BY <1>4, SubSeqFull
<1> QED  BY <1>1, <1>2, <1>3, <1>4, <1>5 DEF Marked

(* The types of the fields of a state.                                     *)
LEMMA NodeFields ==
    ASSUME NEW s \in Node
    PROVE  /\ s.items \in [Elem -> SUBSET Nat] /\ s.rank \in Seq(Int) /\ s.root \in Seq(Nat)
           /\ s.newest \in Seq(Nat) /\ s.heads \in Seq(Nat) /\ s.stack \in Seq(Line)
           /\ s.queue \subseteq [key : Nat, line : Line]
           /\ s.gone \subseteq Track /\ s.relinked \in BOOLEAN
BY DEF Node

(* Binding items to an entry changes the root line index alone.            *)
LEMMA RootMarked ==
    ASSUME NEW s \in Node, NEW items, NEW entry \in Nat
    PROVE  /\ Bound(s, items, entry) \in Node
           /\ Bound(s, items, entry).items = s.items /\ Bound(s, items, entry).rank = s.rank
           /\ Bound(s, items, entry).newest = s.newest /\ Bound(s, items, entry).heads = s.heads
           /\ Bound(s, items, entry).stack = s.stack /\ Bound(s, items, entry).queue = s.queue
           /\ Bound(s, items, entry).gone = s.gone
           /\ Len(Bound(s, items, entry).root) = Len(s.root)
           /\ \A j \in 1..Len(s.root) :
                Bound(s, items, entry).root[j] =
                    IF j \in items /\ InArena(s, j) THEN entry ELSE s.root[j]
<1>0. PICK known : known = {i \in items : InArena(s, i)}  OBVIOUS
<1>1. PICK m : m = Marked(s.root, known, entry)  OBVIOUS
<1>a. s.root \in Seq(Nat)  BY NodeFields
<1>b. /\ m \in Seq(Nat) /\ Len(m) = Len(s.root)
      /\ \A j \in DOMAIN s.root : m[j] = IF j \in known THEN entry ELSE s.root[j]
  BY <1>1, <1>a, MarkedIs
<1>2. /\ m \in Seq(Nat) /\ Len(m) = Len(s.root)
      /\ \A j \in 1..Len(s.root) : m[j] = IF j \in items /\ InArena(s, j) THEN entry ELSE s.root[j]
  BY <1>0, <1>a, <1>b
<1>3. Bound(s, items, entry) = [s EXCEPT !.root = m]  BY <1>0, <1>1 DEF Bound
<1> QED  BY <1>2, <1>3 DEF Node
----------------------------------------------------------------------------
(* The least of some numbers is one of them.                               *)
LEMMA LeastOf ==
    ASSUME NEW S \in SUBSET Nat, S # {}
    PROVE  Min(S) \in S /\ \A y \in S : Min(S) <= y
<1> DEFINE R == OpToRel(<, Nat)
<1>1. PICK x \in S : \A y \in S : ~(<<y, x>> \in R)
  BY NatLessThanWellFounded, WFMin
<1>2. ASSUME NEW y \in S PROVE x <= y
  <2>1. y < x => <<y, x>> \in R  BY DEF OpToRel
  <2>2. <<y, x>> \notin R  BY <1>1
  <2> HIDE DEF R
  <2> QED  BY <2>1, <2>2
<1> QED  BY <1>2 DEF Min

(* What holds of 0 and is handed on holds up to n.                         *)
LEMMA UpTo ==
    ASSUME NEW n \in Nat, NEW S, 0 \in S, \A k \in 1 .. n : k - 1 \in S => k \in S
    PROVE  \A k \in 0 .. n : k \in S
<1> DEFINE Out == (0 .. n) \ S
<1>1. SUFFICES ASSUME Out # {} PROVE FALSE  OBVIOUS
<1>2. Out \in SUBSET Nat  OBVIOUS
<1>3. Min(Out) \in Out /\ \A y \in Out : Min(Out) <= y  BY <1>1, <1>2, LeastOf
<1> DEFINE m == Min(Out)
<1> HIDE DEF m
<1>4. m \in 0 .. n /\ m \notin S /\ \A y \in Out : m <= y  BY <1>3 DEF m
<1>5. m # 0  BY <1>4
<1>6. m \in 1 .. n /\ m - 1 \in 0 .. n /\ ~(m <= m - 1)  BY <1>4, <1>5
<1>7. m - 1 \in S  BY <1>4, <1>6
<1> QED  BY <1>4, <1>6, <1>7

(* The links of a line with none, one and two.                             *)
LEMMA LinksAre ==
    ASSUME NEW l, NEW i, NEW x
    PROVE  /\ l.links = <<>> => Links(l) = {} /\ DOMAIN l.links = {}
           /\ l.links = <<i>> => Links(l) = {i} /\ DOMAIN l.links = {1} /\ l.links[1] = i
           /\ l.links = <<i, x>> => /\ Links(l) = {i, x} /\ DOMAIN l.links = {1, 2}
                                    /\ l.links[1] = i /\ l.links[2] = x
BY DEF Links, ToSet

(* An item the branch shows is in the arena, and it is a via's if a via    *)
(* shows it.                                                               *)
LEMMA ShownIs ==
    ASSUME NEW s, Numbered(s), OneEach(s), NEW e \in Elem, NEW i \in s.items[e]
    PROVE  /\ InArena(s, i) /\ i \in Shown(s) /\ i \in 1..Len(s.rank)
           /\ IsVia(s, i) <=> e \in Via
<1>1. Via \subseteq Elem /\ (e \in Track \/ e \in Via)  BY DEF Elem
<1>2. i \in Shown(s)  BY DEF Shown, Elem
<1>3. i \in Via => e \in Via  BY <1>1 DEF Numbered
<1>4. ASSUME NEW v \in Via, i \in s.items[v] PROVE e = v  BY <1>1, <1>4 DEF OneEach
<1> QED  BY <1>2, <1>3, <1>4 DEF InArena, IsVia, Numbered

(* The root entry of a line is that of its first link.                     *)
LEMMA RootIs ==
    ASSUME NEW s, NEW l, NEW i, NEW x, InArena(s, i),
           l.links = <<i>> \/ (l.links = <<i, x>> /\ s.root[i] # 0)
    PROVE  RootOf(s, l) = s.root[i]
<1>1. PICK known : known = {k \in DOMAIN l.links : InArena(s, l.links[k]) /\ s.root[l.links[k]] # 0}
  OBVIOUS
<1>2. DOMAIN l.links \subseteq {1, 2} /\ l.links[1] = i /\ 1 \in DOMAIN l.links  BY LinksAre
<1>3. RootOf(s, l) = IF known = {} THEN 0 ELSE s.root[l.links[Min(known)]]
  BY <1>1 DEF RootOf
<1>4. CASE s.root[i] # 0
  <2>1. 1 \in known /\ known \in SUBSET Nat /\ known \subseteq {1, 2}  BY <1>1, <1>2, <1>4
  <2>2. Min(known) \in known /\ Min(known) <= 1  BY <2>1, LeastOf
  <2>3. PICK m : m = Min(known)  OBVIOUS
  <2>4. m \in {1, 2} /\ m <= 1  BY <2>1, <2>2, <2>3
  <2>5. Min(known) = 1  BY <2>3, <2>4
  <2> QED  BY <1>2, <1>3, <2>1, <2>5
<1>5. CASE s.root[i] = 0
  <2>1. DOMAIN l.links = {1}  BY <1>5, LinksAre
  <2>2. known = {}  BY <1>1, <1>2, <1>5, <2>1
  <2> QED  BY <1>3, <1>5, <2>2
<1> QED  BY <1>4, <1>5

(* A line none of whose links is entered has no root entry.                *)
LEMMA RootNone ==
    ASSUME NEW s, NEW l, \A i \in Links(l) : s.root[i] = 0
    PROVE  RootOf(s, l) = 0
<1>1. \A k \in DOMAIN l.links : l.links[k] \in Links(l)  BY DEF Links, ToSet
<1>2. PICK known : known = {k \in DOMAIN l.links : InArena(s, l.links[k]) /\ s.root[l.links[k]] # 0}
  OBVIOUS
<1>3. known = {}  BY <1>1, <1>2
<1> QED  BY <1>2, <1>3 DEF RootOf

(* A walk of n steps through S from base: step k is Step[k].               *)
IsWalk(f, S, base, n, Step) ==
    f \in [0 .. n -> S] /\ f[0] = base /\ \A k \in 1 .. n : f[k] = Step[k][f[k - 1]]
Steps(S, n) == [1 .. n -> [S -> S]]

(* Any steps, one after the other, make a walk.  The folds of the model    *)
(* are walks.                                                              *)
LEMMA Walk ==
    ASSUME NEW S, NEW base \in S, NEW n \in Nat, NEW Step \in Steps(S, n)
    PROVE  \E f : IsWalk(f, S, base, n, Step)
<1>. USE DEF Steps
<1> DEFINE Is(f, m) == f[0] = base /\ \A k \in 1 .. m : f[k] = Step[k][f[k - 1]]
           Ms == {m \in 0 .. n : \E f \in [0 .. m -> S] : Is(f, m)}
<1>1. 0 \in Ms
  <2>1. PICK f : f = [k \in 0 .. 0 |-> base]  OBVIOUS
  <2>2. f \in [0 .. 0 -> S] /\ f[0] = base  BY <2>1
  <2>3. Is(f, 0)  BY <2>2
  <2> HIDE DEF Is
  <2> QED  BY <2>2, <2>3
<1>2. ASSUME NEW k \in 1 .. n, k - 1 \in Ms PROVE k \in Ms
  <2>1. PICK f \in [0 .. k - 1 -> S] : Is(f, k - 1)  BY <1>2
  <2>0. PICK g : g = [i \in 0 .. k |-> IF i = k THEN Step[k][f[k - 1]] ELSE f[i]]
    OBVIOUS
  <2>a. Step[k] \in [S -> S] /\ k - 1 \in 0 .. k - 1  OBVIOUS
  <2>b. Step[k][f[k - 1]] \in S  BY <2>a
  <2>2. g \in [0 .. k -> S]  BY <2>0, <2>b
  <2>3. g[0] = base  BY <2>0, <2>1
  <2>4. ASSUME NEW i \in 1 .. k PROVE g[i] = Step[i][g[i - 1]]
    <3>1. CASE i = k
      <4>1. k \in 0 .. k /\ k - 1 \in 0 .. k /\ k - 1 # k  OBVIOUS
      <4>2. g[k - 1] = f[k - 1] /\ g[k] = Step[k][f[k - 1]]  BY <4>1, <2>0
      <4> QED  BY <3>1, <4>2
    <3>2. CASE i # k
      <4>1. i \in 1 .. k - 1 /\ i - 1 # k /\ i \in 0 .. k /\ i - 1 \in 0 .. k  BY <3>2
      <4>2. g[i] = f[i] /\ g[i - 1] = f[i - 1]  BY <2>0, <3>2, <4>1
      <4> QED  BY <2>1, <4>1, <4>2
    <3> QED  BY <3>1, <3>2
  <2>5. Is(g, k)  BY <2>3, <2>4
  <2> HIDE DEF Is
  <2> QED  BY <2>2, <2>5
<1> HIDE DEF Ms
<1>3. \A k \in 1 .. n : k - 1 \in Ms => k \in Ms  BY <1>2
<1>4. \A k \in 0 .. n : k \in Ms  BY <1>1, <1>3, UpTo
<1>5. n \in Ms  BY <1>4
<1> QED  BY <1>5 DEF Ms, IsWalk
----------------------------------------------------------------------------
(* A line touched that has an entry, and one that has none.                *)
LEMMA TouchedOld ==
    ASSUME NEW s, NEW l, RootOf(s, l) # 0
    PROVE  Touched(s, l) = s /\ KeyOf(s, l) = RootOf(s, l)
BY DEF Touched, KeyOf

(* A line touched that has no entry gets a new one, for all its links.     *)
LEMMA TouchedNew ==
    ASSUME NEW s \in Node, NEW l, RootOf(s, l) = 0, NEW r, r = Touched(s, l)
    PROVE  /\ r \in Node /\ r.items = s.items /\ r.rank = s.rank /\ r.heads = s.heads
           /\ r.stack = s.stack /\ r.queue = s.queue /\ r.gone = s.gone
           /\ r.newest = Append(s.newest, 0) /\ Len(r.root) = Len(s.root)
           /\ KeyOf(s, l) = Len(s.newest) + 1
           /\ \A j \in 1..Len(s.root) :
                r.root[j] = IF j \in Links(l) /\ InArena(s, j)
                            THEN Len(s.newest) + 1 ELSE s.root[j]
<1>1. PICK u : u = [s EXCEPT !.newest = Append(@, 0)]  OBVIOUS
<1>2. s.newest \in Seq(Nat) /\ Len(s.newest) \in Nat  BY NodeFields
<1>3. Append(s.newest, 0) \in Seq(Nat)  BY <1>2
<1>4. /\ u \in Node /\ u.items = s.items /\ u.rank = s.rank /\ u.heads = s.heads
      /\ u.stack = s.stack /\ u.queue = s.queue /\ u.gone = s.gone
      /\ u.newest = Append(s.newest, 0) /\ u.root = s.root
  BY <1>1, <1>3 DEF Node
<1>5. \A j : InArena(u, j) <=> InArena(s, j)  BY <1>4 DEF InArena, Shown
<1>6. r = Bound(u, Links(l), Len(s.newest) + 1)  BY <1>1 DEF Touched
<1>7. KeyOf(s, l) = Len(s.newest) + 1  BY DEF KeyOf
<1>8. Len(s.newest) + 1 \in Nat  BY <1>2
<1> QED  BY <1>4, <1>5, <1>6, <1>7, <1>8, RootMarked

(* What entering an item of a track or a via under an entry of its own     *)
(* leaves as it was.                                                       *)
SameBut(s, r, i) ==
    /\ r \in Node /\ r.items = s.items /\ r.rank = s.rank /\ r.heads = s.heads
    /\ r.stack = s.stack /\ r.queue = s.queue /\ r.gone = s.gone
    /\ Len(r.root) = Len(s.root)
    /\ \A j \in 1..Len(s.root) : j # i \/ s.root[i] # 0 => r.root[j] = s.root[j]
    /\ Len(s.newest) <= Len(r.newest) /\ \A j \in 1..Len(s.newest) : r.newest[j] = s.newest[j]

(* The types of what the branch holds.                                     *)
LEMMA StockTypes ==
    ASSUME NEW s \in Node, Stock(s)
    PROVE  /\ Len(s.root) = Len(s.rank) /\ Len(s.rank) \in Nat /\ DOMAIN s.root = 1..Len(s.rank)
           /\ s.root \in Seq(Nat) /\ s.newest \in Seq(Nat) /\ Len(s.newest) \in Nat
           /\ s.heads \in Seq(Nat) /\ Len(s.heads) \in Nat /\ DOMAIN s.heads = 1..Len(s.heads)
           /\ \A j \in 1..Len(s.rank) : s.root[j] \in 0..Len(s.newest)
           /\ \A h \in DOMAIN s.heads : s.heads[h] \in 0..Len(s.newest)
           /\ \A d \in Elem : \A j \in s.items[d] :
                 j \in 1..Len(s.rank) /\ s.root[j] \in 0..Len(s.newest)
<1>1. /\ Len(s.root) = Len(s.rank) /\ Len(s.rank) \in Nat /\ DOMAIN s.root = 1..Len(s.rank)
      /\ s.root \in Seq(Nat) /\ s.newest \in Seq(Nat) /\ Len(s.newest) \in Nat
      /\ s.heads \in Seq(Nat) /\ Len(s.heads) \in Nat /\ DOMAIN s.heads = 1..Len(s.heads)
  BY NodeFields DEF Stock, Numbered
<1>2. \A j \in 1..Len(s.rank) : s.root[j] \in Nat  BY <1>1
<1>3. \A h \in DOMAIN s.heads : s.heads[h] \in Nat  BY <1>1
<1>a. \A j \in DOMAIN s.root : s.root[j] <= Len(s.newest)  BY DEF Stock, Entered
<1>4. \A j \in 1..Len(s.rank) : s.root[j] \in 0..Len(s.newest)
  BY <1>1, <1>2, <1>a
<1>5. \A h \in DOMAIN s.heads : s.heads[h] \in 0..Len(s.newest)
  BY <1>1, <1>3 DEF Stock, Entered
<1>6. \A d \in Elem : \A j \in s.items[d] : j \in 1..Len(s.rank)  BY DEF Stock, Numbered
<1> QED  BY <1>1, <1>4, <1>5, <1>6

(* Touching a bare line enters its item and keeps the stock in order.      *)
LEMMA TouchedStock ==
    ASSUME NEW s \in Node, Stock(s), NEW e \in Elem, NEW i \in s.items[e],
           NEW l, l.links = <<i>>, NEW r, r = Touched(s, l), NEW key, key = KeyOf(s, l)
    PROVE  /\ SameBut(s, r, i) /\ Stock(r)
           /\ r.root[i] = key /\ key \in 1..Len(r.newest)
           /\ s.root[i] # 0 => key = s.root[i]
<1>1. InArena(s, i) /\ i \in 1..Len(s.rank)  BY ShownIs DEF Stock
<1>2. RootOf(s, l) = s.root[i]  BY <1>1, RootIs
<1>3. /\ Len(s.root) = Len(s.rank) /\ Len(s.rank) \in Nat /\ DOMAIN s.root = 1..Len(s.rank)
      /\ s.root \in Seq(Nat) /\ s.newest \in Seq(Nat) /\ Len(s.newest) \in Nat
      /\ \A j \in 1..Len(s.rank) : s.root[j] \in 0..Len(s.newest)
      /\ \A h \in DOMAIN s.heads : s.heads[h] \in 0..Len(s.newest)
  BY StockTypes
<1>4. CASE s.root[i] # 0
  <2>1. r = s /\ key = s.root[i]  BY <1>2, <1>4, TouchedOld
  <2>2. key \in 1..Len(s.newest)  BY <1>1, <1>3, <1>4, <2>1
  <2> QED  BY <1>3, <2>1, <2>2 DEF SameBut
<1>5. CASE s.root[i] = 0
  <2>1. RootOf(s, l) = 0 /\ Links(l) = {i}  BY <1>2, <1>5, LinksAre
  <2>2. /\ r \in Node /\ r.items = s.items /\ r.rank = s.rank /\ r.heads = s.heads
        /\ r.stack = s.stack /\ r.queue = s.queue /\ r.gone = s.gone
        /\ r.newest = Append(s.newest, 0) /\ Len(r.root) = Len(s.root)
        /\ key = Len(s.newest) + 1
        /\ \A j \in 1..Len(s.root) : r.root[j] = IF j = i THEN Len(s.newest) + 1 ELSE s.root[j]
    BY <1>1, <2>1, TouchedNew
  <2>3. /\ Len(r.newest) = Len(s.newest) + 1
        /\ \A j \in 1..Len(s.newest) : r.newest[j] = s.newest[j]
    BY <1>3, <2>2
  <2>4. r.root[i] = key /\ key \in 1..Len(r.newest)  BY <1>1, <1>3, <2>2, <2>3
  <2>5. SameBut(s, r, i)
    <3>1. \A j \in 1..Len(s.root) : j # i \/ s.root[i] # 0 => r.root[j] = s.root[j]
      BY <1>5, <2>2
    <3>2. Len(s.newest) <= Len(r.newest)  BY <1>3, <2>3
    <3> QED  BY <2>2, <2>3, <3>1, <3>2 DEF SameBut
  <2>6. Numbered(r) /\ OneEach(r) /\ Present(r)
    BY <2>2 DEF Stock, Numbered, OneEach, Present
  <2>7. \A d \in Elem : \A j \in s.items[d] :
          /\ j \in 1..Len(s.root) /\ s.root[j] \in 0..Len(s.newest)
          /\ j = i => d = e
    BY <1>3 DEF Stock, Numbered, OneEach
  <2>8. e \notin HeadTrack \cup HeadVias
    BY <1>5 DEF Stock, Headed
  <2>9. Entered(r)
    <3>1. \A j \in DOMAIN r.root : r.root[j] <= Len(r.newest)
      <4>1. DOMAIN r.root = 1..Len(s.rank)  BY <1>3, <2>2, NodeFields
      <4> SUFFICES ASSUME NEW j \in 1..Len(s.rank) PROVE r.root[j] <= Len(r.newest)
        BY <4>1
      <4>2. r.root[j] = Len(s.newest) + 1 \/ r.root[j] = s.root[j]  BY <1>3, <2>2
      <4> QED  BY <1>3, <2>3, <4>2
    <3>2. \A h \in DOMAIN r.heads : r.heads[h] <= Len(r.newest)
      BY <1>3, <2>2, <2>3
    <3>3. \A t, u \in Track : \A j \in r.items[t], k \in r.items[u] :
            r.root[j] = r.root[k] /\ r.root[j] # 0 => t = u
      <4> SUFFICES ASSUME NEW t \in Track, NEW u \in Track, NEW j \in r.items[t],
                          NEW k \in r.items[u], r.root[j] = r.root[k], r.root[j] # 0
                   PROVE  t = u
        OBVIOUS
      <4>1. t \in Elem /\ u \in Elem /\ j \in s.items[t] /\ k \in s.items[u]
        BY <2>2 DEF Elem
      <4>2. CASE j = i /\ k = i  BY <2>7, <4>1, <4>2
      <4>a. /\ r.root[j] = IF j = i THEN Len(s.newest) + 1 ELSE s.root[j]
            /\ r.root[k] = IF k = i THEN Len(s.newest) + 1 ELSE s.root[k]
            /\ s.root[j] \in 0..Len(s.newest) /\ s.root[k] \in 0..Len(s.newest)
        BY <2>2, <2>7, <4>1
      <4>b. PICK n \in Nat : n = Len(s.newest)  BY <1>3
      <4>c. \A x \in 0..n : x # n + 1  BY <4>b
      <4>3. CASE j = i /\ k # i  BY <4>a, <4>b, <4>c, <4>3
      <4>4. CASE j # i /\ k = i  BY <4>a, <4>b, <4>c, <4>4
      <4>5. CASE j # i /\ k # i  BY <2>2, <2>7, <4>1, <4>5 DEF Stock, Entered
      <4> QED  BY <4>2, <4>3, <4>4, <4>5
    <3> QED  BY <3>1, <3>2, <3>3 DEF Entered
  <2>10. Headed(r)
    <3>0. \A h \in DOMAIN s.heads : s.heads[h] \in Nat /\ s.heads[h] <= Len(s.newest)
      BY <1>3
    <3>1. \A h \in HeadTrack : \A j \in r.items[h] :
            /\ h \in DOMAIN r.heads /\ r.heads[h] # 0 /\ r.root[j] = r.heads[h]
            /\ r.newest[r.heads[h]] \in {0, j}
      <4> SUFFICES ASSUME NEW h \in HeadTrack, NEW j \in r.items[h]
                   PROVE  /\ h \in DOMAIN r.heads /\ r.heads[h] # 0 /\ r.root[j] = r.heads[h]
                          /\ r.newest[r.heads[h]] \in {0, j}
        OBVIOUS
      <4>1. h \in Elem /\ j \in s.items[h]  BY <2>2, Places DEF Elem
      <4>2. j # i /\ j \in 1..Len(s.root)  BY <2>7, <2>8, <4>1
      <4>3. r.root[j] = s.root[j]  BY <2>2, <4>2
      <4>4. /\ h \in DOMAIN s.heads /\ s.heads[h] # 0 /\ s.root[j] = s.heads[h]
            /\ s.newest[s.heads[h]] \in {0, j}
        BY <4>1 DEF Stock, Headed
      <4>5. s.heads[h] \in 1..Len(s.newest)  BY <3>0, <4>4, <1>3
      <4> QED  BY <2>2, <2>3, <4>3, <4>4, <4>5
    <3>2. \A v \in HeadVias : \A j \in r.items[v] :
            \E h \in DOMAIN r.heads : End[h] = v /\ r.heads[h] # 0 /\ r.root[j] = r.heads[h]
      <4> SUFFICES ASSUME NEW v \in HeadVias, NEW j \in r.items[v]
                   PROVE  \E h \in DOMAIN r.heads :
                            End[h] = v /\ r.heads[h] # 0 /\ r.root[j] = r.heads[h]
        OBVIOUS
      <4>1. v \in Elem /\ j \in s.items[v]  BY <2>2, Places DEF Elem
      <4>2. j # i /\ j \in 1..Len(s.root)  BY <2>7, <2>8, <4>1
      <4>3. r.root[j] = s.root[j]  BY <2>2, <4>2
      <4> QED  BY <2>2, <4>1, <4>3 DEF Stock, Headed
    <3>3. \A d \in Elem : \A j \in r.items[d], h \in DOMAIN r.heads :
            r.heads[h] # 0 /\ r.root[j] = r.heads[h] => d \in HeadTrack \cup HeadVias
      <4> SUFFICES ASSUME NEW d \in Elem, NEW j \in r.items[d], NEW h \in DOMAIN r.heads,
                          r.heads[h] # 0, r.root[j] = r.heads[h]
                   PROVE  d \in HeadTrack \cup HeadVias
        OBVIOUS
      <4>1. j \in s.items[d] /\ h \in DOMAIN s.heads  BY <2>2
      <4>2. j # i  BY <1>3, <2>2, <2>7, <3>0, <4>1
      <4>3. r.root[j] = s.root[j]  BY <2>2, <2>7, <4>1, <4>2
      <4> QED  BY <2>2, <4>1, <4>3 DEF Stock, Headed
    <3> QED  BY <2>2, <3>1, <3>2, <3>3 DEF Stock, Headed
  <2> QED  BY <1>5, <2>4, <2>5, <2>6, <2>9, <2>10 DEF Stock
<1> QED  BY <1>4, <1>5
----------------------------------------------------------------------------
(* Items and roots are as they were, and an entry may have come.           *)
LEMMA StockGrows ==
    ASSUME NEW s \in Node, Stock(s), NEW r \in Node, r.items = s.items,
           Len(r.rank) = Len(s.rank), r.heads = s.heads, r.gone = s.gone,
           Len(r.root) = Len(s.root), \A j \in 1..Len(s.root) : r.root[j] = s.root[j],
           Len(s.newest) <= Len(r.newest), \A j \in 1..Len(s.newest) : r.newest[j] = s.newest[j]
    PROVE  Stock(r)
<1>1. /\ Len(s.root) = Len(s.rank) /\ Len(s.rank) \in Nat /\ DOMAIN r.root = 1..Len(s.rank)
      /\ Len(s.newest) \in Nat /\ Len(r.newest) \in Nat
      /\ \A j \in 1..Len(s.rank) : s.root[j] \in 0..Len(s.newest)
      /\ \A h \in DOMAIN s.heads : s.heads[h] \in 0..Len(s.newest)
      /\ \A d \in Elem : \A j \in s.items[d] : j \in 1..Len(s.rank)
  BY StockTypes, NodeFields
<1>2. Numbered(r) /\ OneEach(r) /\ Present(r)
  BY DEF Stock, Numbered, OneEach, Present
<1>3. \A d \in Elem : \A j \in r.items[d] : r.root[j] = s.root[j]  BY <1>1
<1>4. Entered(r)
  <2>1. \A j \in DOMAIN r.root : r.root[j] <= Len(r.newest)  BY <1>1
  <2>2. \A h \in DOMAIN r.heads : r.heads[h] <= Len(r.newest)  BY <1>1
  <2>3. \A t, u \in Track : \A j \in r.items[t], k \in r.items[u] :
          r.root[j] = r.root[k] /\ r.root[j] # 0 => t = u
    BY <1>3 DEF Stock, Entered, Elem
  <2> QED  BY <2>1, <2>2, <2>3 DEF Entered
<1>5. Headed(r)
  <2>1. \A h \in HeadTrack : \A j \in r.items[h] :
          /\ h \in DOMAIN r.heads /\ r.heads[h] # 0 /\ r.root[j] = r.heads[h]
          /\ r.newest[r.heads[h]] \in {0, j}
    <3> SUFFICES ASSUME NEW h \in HeadTrack, NEW j \in r.items[h]
                 PROVE  /\ h \in DOMAIN r.heads /\ r.heads[h] # 0 /\ r.root[j] = r.heads[h]
                        /\ r.newest[r.heads[h]] \in {0, j}
      OBVIOUS
    <3>1. h \in Elem  BY Places DEF Elem
    <3>2. /\ h \in DOMAIN s.heads /\ s.heads[h] # 0 /\ s.root[j] = s.heads[h]
          /\ s.newest[s.heads[h]] \in {0, j}
      BY DEF Stock, Headed
    <3>3. s.heads[h] \in 1..Len(s.newest)  BY <1>1, <3>2
    <3> QED  BY <1>3, <3>1, <3>2, <3>3
  <2>2. \A v \in HeadVias : \A j \in r.items[v] :
          \E h \in DOMAIN r.heads : End[h] = v /\ r.heads[h] # 0 /\ r.root[j] = r.heads[h]
    BY <1>3, Places DEF Stock, Headed, Elem
  <2>3. \A d \in Elem : \A j \in r.items[d], h \in DOMAIN r.heads :
          r.heads[h] # 0 /\ r.root[j] = r.heads[h] => d \in HeadTrack \cup HeadVias
    BY <1>3 DEF Stock, Headed
  <2> QED  BY <2>1, <2>2, <2>3 DEF Stock, Headed
<1> QED  BY <1>2, <1>4, <1>5 DEF Stock

(* Item i of a track or a via made way for item n, under the same entry.   *)
Renewed(s, r, e, i, n) ==
    /\ r \in Node /\ r.items = [s.items EXCEPT ![e] = {n}]
    /\ n = Len(s.rank) + 1 /\ Len(r.rank) = n /\ Len(r.root) = n
    /\ r.heads = s.heads /\ r.stack = s.stack /\ r.queue = s.queue /\ r.gone = s.gone
    /\ Len(s.newest) <= Len(r.newest)
    /\ r.root[n] \in 1..Len(r.newest) /\ (s.root[i] # 0 => r.root[n] = s.root[i])
    /\ \A j \in 1..Len(s.rank) : j # i \/ s.root[i] # 0 => r.root[j] = s.root[j]

(* The stock stays in order when an item is renewed and the entry, of a    *)
(* track, names the new one.                                               *)
LEMMA StockRenewed ==
    ASSUME NEW s \in Node, Stock(s), NEW e \in Elem, NEW i \in s.items[e], s.root[i] # 0,
           NEW r, NEW n, Renewed(s, r, e, i, n), Len(r.newest) = Len(s.newest),
           \/ e \in Track /\ r.newest = [s.newest EXCEPT ![s.root[i]] = n]
           \/ e \in Via /\ r.newest = s.newest
    PROVE  Stock(r)
<1>1. /\ Len(s.root) = Len(s.rank) /\ Len(s.rank) \in Nat /\ DOMAIN s.root = 1..Len(s.rank)
      /\ Len(s.newest) \in Nat /\ s.newest \in Seq(Nat)
      /\ DOMAIN s.newest = 1..Len(s.newest)
      /\ \A j \in 1..Len(s.rank) : s.root[j] \in 0..Len(s.newest)
      /\ \A h \in DOMAIN s.heads : s.heads[h] \in 0..Len(s.newest)
      /\ \A d \in Elem : \A j \in s.items[d] : j \in 1..Len(s.rank)
  <2>1. s.newest \in Seq(Nat)  BY NodeFields
  <2>2. Len(s.newest) \in Nat /\ DOMAIN s.newest = 1..Len(s.newest)  BY <2>1
  <2> QED  BY <2>1, <2>2, StockTypes
<1>2. /\ r \in Node /\ n = Len(s.rank) + 1 /\ Len(r.rank) = n /\ Len(r.root) = n
      /\ r.heads = s.heads /\ r.gone = s.gone /\ r.root[n] = s.root[i]
      /\ \A j \in 1..Len(s.rank) : r.root[j] = s.root[j]
      /\ n \notin 1..Len(s.rank) /\ n \in 1..n /\ n \in Nat
      /\ \A j \in 1..Len(s.rank) : j \in 1..n
  BY <1>1 DEF Renewed
<1>3. /\ r.items[e] = {n}
      /\ \A d \in Elem : d # e => r.items[d] = s.items[d]
  BY NodeFields DEF Renewed
<1>4. \A d \in Elem : \A j \in s.items[d] : j = i <=> d = e
  BY DEF Stock, OneEach
(* Each item stands where one stood, with its root.                        *)
<1>5. \A d \in Elem : \A j \in r.items[d] :
        \E k \in s.items[d] : /\ r.root[j] = s.root[k] /\ (d # e => j = k)
                              /\ (d = e => j = n /\ k = i) /\ j \in 1..n
  <2> SUFFICES ASSUME NEW d \in Elem, NEW j \in r.items[d]
               PROVE  \E k \in s.items[d] :
                        /\ r.root[j] = s.root[k] /\ (d # e => j = k)
                        /\ (d = e => j = n /\ k = i) /\ j \in 1..n
    OBVIOUS
  <2>1. CASE d = e  BY <1>2, <1>3, <2>1
  <2>2. CASE d # e
    <3>1. j \in s.items[d] /\ j \in 1..Len(s.rank)  BY <1>1, <1>3, <2>2
    <3>2. r.root[j] = s.root[j] /\ j \in 1..n  BY <1>2, <3>1
    <3> QED  BY <2>2, <3>1, <3>2
  <2> QED  BY <2>1, <2>2
<1>6. Numbered(r)
  <2>1. NTracks + NVias <= Len(r.rank) /\ Len(r.root) = Len(r.rank)
    BY <1>1, <1>2, Places DEF Stock, Numbered
  <2>2. n \notin Elem
    BY <1>1, <1>2, Places DEF Stock, Numbered
  <2>3. ASSUME NEW d \in Elem, NEW j \in r.items[d]
        PROVE  j \in 1..Len(r.rank) /\ (j \in Elem => j = d /\ j \in Board)
    <3>1. j \in 1..Len(r.rank)  BY <1>2, <1>5, <2>3
    <3>2. CASE d = e  BY <1>3, <2>2, <3>1, <3>2
    <3>3. CASE d # e  BY <1>3, <3>1, <3>3 DEF Stock, Numbered
    <3> QED  BY <3>2, <3>3
  <2> QED  BY <2>1, <2>3 DEF Numbered
<1>7. OneEach(r)
  <2> SUFFICES ASSUME NEW c \in Elem, NEW d \in Elem, NEW j \in r.items[c], NEW k \in r.items[d]
               PROVE  c = d <=> j = k
    BY DEF OneEach
  <2>1. CASE c = e /\ d = e  BY <1>3, <2>1
  <2>2. CASE c = e /\ d # e
    <3>1. j = n /\ k \in 1..Len(s.rank)  BY <1>1, <1>3, <2>2
    <3> QED  BY <1>2, <2>2, <3>1
  <2>3. CASE c # e /\ d = e
    <3>1. k = n /\ j \in 1..Len(s.rank)  BY <1>1, <1>3, <2>3
    <3> QED  BY <1>2, <2>3, <3>1
  <2>4. CASE c # e /\ d # e  BY <1>3, <2>4 DEF Stock, OneEach
  <2> QED  BY <2>1, <2>2, <2>3, <2>4
<1>8. Entered(r)
  <2>1. \A j \in DOMAIN r.root : r.root[j] <= Len(r.newest)
    <3>1. DOMAIN r.root = 1..n  BY <1>2, NodeFields
    <3> SUFFICES ASSUME NEW j \in 1..n PROVE r.root[j] <= Len(r.newest)  BY <3>1
    <3>2. s.root[i] \in 0..Len(s.newest)  BY <1>1
    <3>3. CASE j = n  BY <1>1, <1>2, <3>2, <3>3
    <3>4. CASE j # n
      <4>1. j \in 1..Len(s.rank)  BY <1>1, <1>2, <3>4
      <4> QED  BY <1>1, <1>2, <4>1
    <3> QED  BY <3>3, <3>4
  <2>2. \A h \in DOMAIN r.heads : r.heads[h] <= Len(r.newest)  BY <1>1, <1>2
  <2>3. \A t, u \in Track : \A j \in r.items[t], k \in r.items[u] :
          r.root[j] = r.root[k] /\ r.root[j] # 0 => t = u
    BY <1>5 DEF Stock, Entered, Elem
  <2> QED  BY <2>1, <2>2, <2>3 DEF Entered
<1>9. Headed(r)
  <2>1. ASSUME NEW h \in HeadTrack, NEW j \in r.items[h]
        PROVE  /\ h \in DOMAIN r.heads /\ r.heads[h] # 0 /\ r.root[j] = r.heads[h]
               /\ r.newest[r.heads[h]] \in {0, j}
    <3>1. h \in Elem /\ h \in Track  BY Places DEF Elem
    <3>2. PICK k \in s.items[h] : /\ r.root[j] = s.root[k] /\ (h # e => j = k)
                                  /\ (h = e => j = n /\ k = i)
      BY <1>5, <2>1, <3>1
    <3>3. /\ h \in DOMAIN s.heads /\ s.heads[h] # 0 /\ s.root[k] = s.heads[h]
          /\ s.newest[s.heads[h]] \in {0, k}
      BY DEF Stock, Headed
    <3>4. s.heads[h] \in DOMAIN s.newest  BY <1>1, <3>3
    <3>5. CASE h = e
      <4>1. e \notin Via  BY <3>1, <3>5, Places
      <4> QED  BY <1>2, <3>2, <3>3, <3>4, <3>5, <4>1
    <3>6. CASE h # e
      <4>1. e \in Track => s.root[k] # s.root[i]
        BY <3>1, <3>3, <3>6 DEF Stock, Entered
      <4>2. r.newest[s.heads[h]] = s.newest[s.heads[h]]
        BY <3>3, <3>4, <4>1
      <4> QED  BY <1>2, <3>2, <3>3, <3>6, <4>2
    <3> QED  BY <3>5, <3>6
  <2>2. \A v \in HeadVias : \A j \in r.items[v] :
          \E h \in DOMAIN r.heads : End[h] = v /\ r.heads[h] # 0 /\ r.root[j] = r.heads[h]
    BY <1>2, <1>5, Places DEF Stock, Headed, Elem
  <2>3. \A d \in Elem : \A j \in r.items[d], h \in DOMAIN r.heads :
          r.heads[h] # 0 /\ r.root[j] = r.heads[h] => d \in HeadTrack \cup HeadVias
    BY <1>2, <1>5 DEF Stock, Headed
  <2>4. Len(r.heads) <= NHeads  BY <1>2 DEF Stock, Headed
  <2> QED  BY <2>1, <2>2, <2>3, <2>4 DEF Headed
<1>10. Present(r)
  <2>1. ASSUME NEW d \in r.gone
        PROVE  r.items[d] = {} /\ (d \in HeadTrack => d \in DOMAIN r.heads)
    <3>1. d \in Elem /\ d # e  BY <1>2, <2>1, NodeFields DEF Stock, Present, Elem
    <3> QED  BY <1>2, <1>3, <2>1, <3>1 DEF Stock, Present
  <2>2. ASSUME NEW d \in Elem \ (HeadTrack \cup HeadVias \cup r.gone) PROVE r.items[d] # {}
    BY <1>2, <1>3 DEF Stock, Present
  <2>3. ASSUME NEW h \in DOMAIN r.heads, r.heads[h] # 0, h \notin r.gone PROVE r.items[h] # {}
    <3>1. h \in DOMAIN s.heads /\ s.items[h] # {}  BY <1>2, <2>3 DEF Stock, Present
    <3>2. h \in Elem
      <4>1. h \in 1..NHeads
        BY <3>1, StockTypes, Places DEF Stock, Headed
      <4> QED  BY <4>1, Places DEF HeadTrack, Elem
    <3> QED  BY <1>3, <3>1, <3>2
  <2> QED  BY <2>1, <2>2, <2>3 DEF Present
<1> QED  BY <1>6, <1>7, <1>8, <1>9, <1>10 DEF Stock
----------------------------------------------------------------------------
(* World::remove and World::add_line or add_via, then the new item entered *)
(* under the old one's entry.                                              *)
Swapped(s, e, key, n, stored, r) ==
    /\ Len(stored.rank) = n /\ stored.newest = s.newest
    /\ r \in Node /\ r.items = [s.items EXCEPT ![e] = {n}]
    /\ Len(r.rank) = n /\ Len(r.root) = n /\ r.root[n] = key
    /\ r.heads = s.heads /\ r.stack = s.stack /\ r.queue = s.queue
    /\ r.gone = s.gone /\ r.newest = s.newest
    /\ \A j \in 1..Len(s.rank) : r.root[j] = s.root[j]

(* An item removed and stored anew under an entry is swapped.              *)
LEMMA SwappedIs ==
    ASSUME NEW s \in Node, Stock(s), NEW e \in Elem, NEW i \in s.items[e],
           NEW rank \in Int, NEW key \in Nat, NEW n, n = Len(s.rank) + 1, NEW stored,
           stored = Stored(Without(s, {i}), e, rank), NEW r, r = Bound(stored, {n}, key)
    PROVE  Swapped(s, e, key, n, stored, r)
<1>1. /\ Len(s.root) = Len(s.rank) /\ Len(s.rank) \in Nat /\ s.root \in Seq(Nat)
      /\ \A d \in Elem : \A j \in s.items[d] : j \in 1..Len(s.rank)
  BY StockTypes
<1>2. s.items \in [Elem -> SUBSET Nat] /\ s.rank \in Seq(Int)  BY NodeFields
<1>3. \A d \in Elem : \A j \in s.items[d] : j = i <=> d = e  BY DEF Stock, OneEach
<1>4. PICK w : w = [s EXCEPT !.items = [d \in Elem |-> s.items[d] \ {i}]]  OBVIOUS
<1>5. w = Without(s, {i})  BY <1>2, <1>4 DEF Without
<1>6. /\ w \in Node /\ w.rank = s.rank /\ w.root = s.root /\ w.newest = s.newest
      /\ w.heads = s.heads /\ w.stack = s.stack /\ w.queue = s.queue /\ w.gone = s.gone
      /\ w.items = [d \in Elem |-> s.items[d] \ {i}]
  BY <1>2, <1>4 DEF Node
<1>7. PICK it : it = [w.items EXCEPT ![e] = w.items[e] \cup {n}]  OBVIOUS
<1>8. /\ w.items[e] = {} /\ n \in Nat
      /\ \A d \in Elem : d # e => w.items[d] = s.items[d]
  BY <1>1, <1>3, <1>6
<1>9. it = [s.items EXCEPT ![e] = {n}] /\ it \in [Elem -> SUBSET Nat]
  BY <1>2, <1>6, <1>7, <1>8
<1>10. PICK a, b : a = Append(s.rank, rank) /\ b = Append(s.root, 0)  OBVIOUS
<1>11. /\ a \in Seq(Int) /\ Len(a) = n /\ b \in Seq(Nat) /\ Len(b) = n
       /\ \A j \in 1..Len(s.rank) : b[j] = s.root[j]
  BY <1>1, <1>2, <1>10
<1>12. stored = [w EXCEPT !.items = it, !.rank = a, !.root = b]
  BY <1>5, <1>6, <1>7, <1>10 DEF Stored
<1>13. /\ stored \in Node /\ stored.items = it /\ stored.rank = a /\ stored.root = b
       /\ stored.newest = s.newest /\ stored.heads = s.heads /\ stored.stack = s.stack
       /\ stored.queue = s.queue /\ stored.gone = s.gone
  BY <1>6, <1>9, <1>11, <1>12 DEF Node
<1>14. InArena(stored, n)
  <2>1. n \in stored.items[e]  BY <1>2, <1>9, <1>13
  <2> QED  BY <2>1 DEF InArena, Shown, Elem
<1>15. n \in 1..n /\ \A j \in 1..Len(s.rank) : j \in 1..n /\ j # n  BY <1>1
<1>16. /\ r \in Node /\ r.items = it /\ r.rank = a /\ r.newest = s.newest
       /\ r.heads = s.heads /\ r.stack = s.stack /\ r.queue = s.queue /\ r.gone = s.gone
       /\ Len(r.root) = Len(b)
       /\ \A j \in 1..Len(b) : r.root[j] = IF j \in {n} /\ InArena(stored, j) THEN key ELSE b[j]
  <2>1. stored \in Node  BY <1>13
  <2>2. /\ r \in Node /\ r.items = stored.items /\ r.rank = stored.rank
        /\ r.newest = stored.newest /\ r.heads = stored.heads
        /\ r.stack = stored.stack /\ r.queue = stored.queue
        /\ r.gone = stored.gone
    BY <2>1, RootMarked
  <2>3. Len(r.root) = Len(stored.root)  BY <2>1, RootMarked
  <2>4. \A j \in 1..Len(stored.root) : r.root[j] =
           IF j \in {n} /\ InArena(stored, j) THEN key ELSE stored.root[j]
    BY <2>1, RootMarked
  <2> QED  BY <1>13, <2>2, <2>3, <2>4
<1>17. r.root[n] = key /\ \A j \in 1..Len(s.rank) : r.root[j] = s.root[j]
  BY <1>11, <1>14, <1>15, <1>16
<1> QED  BY <1>9, <1>11, <1>13, <1>16, <1>17 DEF Swapped

(* Shove::replace_line, for a track's item: the track shows the new one.   *)
LEMMA ReplacedStock ==
    ASSUME NEW s \in Node, Stock(s), NEW t \in Track, NEW i \in s.items[t],
           NEW old \in Line, OldLinks(s, old) = <<i>>,
           NEW new \in Line, new.links = <<>>, new.track = t,
           NEW rank \in Int, NEW r, r = Replaced(s, old, new, rank),
           NEW n, n = Len(s.rank) + 1
    PROVE  Renewed(s, r, t, i, n) /\ Stock(r)
<1>1. PICK was : was = [old EXCEPT !.links = OldLinks(s, old)]  OBVIOUS
<1>2. was.links = <<i>> /\ Links(was) = {i} /\ Links(new) = {}
  <2>1. was.links = <<i>>  BY <1>1 DEF Line
  <2> QED  BY <2>1, LinksAre
<1>3. t \in Elem /\ t \notin Via  BY Places DEF Elem
<1>4. PICK m : m = Marked(s.rank, {k \in Links(new) : InArena(s, k)}, rank)  OBVIOUS
<1>5. m \in Seq(Int) /\ Len(m) = Len(s.rank)  BY <1>4, MarkedIs, NodeFields
<1>6. PICK ranked : ranked = [s EXCEPT !.rank = m]  OBVIOUS
<1>7. /\ ranked \in Node /\ ranked.items = s.items /\ ranked.rank = m /\ ranked.root = s.root
      /\ ranked.newest = s.newest /\ ranked.heads = s.heads /\ ranked.stack = s.stack
      /\ ranked.queue = s.queue /\ ranked.gone = s.gone
  BY <1>5, <1>6 DEF Node
<1>8. Stock(ranked)
  <2>1. Len(s.newest) \in Nat  BY StockTypes
  <2> QED  BY <1>5, <1>7, <2>1, StockGrows
<1>9. PICK u, key : u = Touched(ranked, was) /\ key = KeyOf(s, was)  OBVIOUS
<1>10. KeyOf(ranked, was) = key
  <2>1. \A k : InArena(ranked, k) <=> InArena(s, k)  BY <1>7 DEF InArena, Shown
  <2>2. RootOf(ranked, was) = RootOf(s, was)  BY <1>7, <2>1 DEF RootOf
  <2> QED  BY <1>7, <1>9, <2>2 DEF KeyOf
<1>11. /\ SameBut(ranked, u, i) /\ Stock(u) /\ u.root[i] = key /\ key \in 1..Len(u.newest)
       /\ s.root[i] # 0 => key = s.root[i]
  BY <1>2, <1>3, <1>7, <1>8, <1>9, <1>10, TouchedStock
<1>12. /\ u \in Node /\ u.items = s.items /\ u.rank = m /\ u.heads = s.heads
       /\ u.stack = s.stack /\ u.queue = s.queue /\ u.gone = s.gone
       /\ Len(s.newest) <= Len(u.newest)
       /\ \A j \in 1..Len(s.root) : j # i \/ s.root[i] # 0 => u.root[j] = s.root[j]
  BY <1>7, <1>11 DEF SameBut
<1>13. n = Len(u.rank) + 1 /\ i \in u.items[t] /\ key \in Nat /\ key # 0
  <2>1. Len(u.newest) \in Nat  BY <1>11, <1>12, StockTypes
  <2> QED  BY <1>5, <1>11, <1>12, <2>1
<1>14. PICK stored : stored = Stored(Without(u, {i}), t, rank)  OBVIOUS
<1>15. PICK b : b = Bound(stored, {n}, key)  OBVIOUS
<1>16. /\ Len(stored.rank) = n /\ stored.newest = u.newest
       /\ b \in Node /\ b.items = [u.items EXCEPT ![t] = {n}]
       /\ Len(b.rank) = n /\ Len(b.root) = n /\ b.root[n] = key
       /\ b.heads = u.heads /\ b.stack = u.stack /\ b.queue = u.queue
       /\ b.gone = u.gone /\ b.newest = u.newest
       /\ \A j \in 1..Len(u.rank) : b.root[j] = u.root[j]
  <2>1. u \in Node /\ Stock(u) /\ t \in Elem /\ i \in u.items[t] /\ key \in Nat
    BY <1>3, <1>11, <1>12, <1>13
  <2>2. n = Len(u.rank) + 1  BY <1>13
  <2>3. Swapped(u, t, key, n, stored, b)  BY <1>14, <1>15, <2>1, <2>2, SwappedIs
  <2> QED  BY <2>3 DEF Swapped
<1>17. Links(new) \cup {Len(stored.rank)} = {n} /\ RootedAs(s, was) = key
  BY <1>2, <1>9, <1>16 DEF RootedAs
<1>18. PICK x : x = [b.newest EXCEPT ![key] = n]  OBVIOUS
<1>19. r = [b EXCEPT !.newest = x, !.relinked = @ \/ new.links # <<>>]
  <2>1. u = Touched([s EXCEPT !.rank = Marked(@, {k \in Links(new) : InArena(s, k)}, rank)], was)
    BY <1>4, <1>6, <1>9
  <2>2. stored = Stored(Without(u, Links(was)), new.track, rank)  BY <1>2, <1>14
  <2>3. b = Bound(stored, Links(new) \cup {Len(stored.rank)}, RootedAs(s, was))
    BY <1>15, <1>17
  <2>4. r = [b EXCEPT !.newest[RootedAs(s, was)] = Len(stored.rank),
                      !.relinked = @ \/ new.links # <<>>]
    BY <1>1, <2>1, <2>2, <2>3 DEF Replaced
  <2> QED  BY <1>16, <1>17, <1>18, <2>4
<1>20. x \in Seq(Nat) /\ Len(x) = Len(u.newest)
  <2>1. u.newest \in Seq(Nat) /\ n \in Nat
    <3>1. u \in Node /\ Stock(u)  BY <1>11, <1>12
    <3>2. u.newest \in Seq(Nat) /\ Len(u.rank) \in Nat  BY <3>1, StockTypes
    <3> QED  BY <1>13, <3>2
  <2>2. u.newest \in [1..Len(u.newest) -> Nat] /\ Len(u.newest) \in Nat  BY <2>1
  <2>3. x = [u.newest EXCEPT ![key] = n]  BY <1>16, <1>18
  <2>4. x \in [1..Len(u.newest) -> Nat]  BY <2>1, <2>2, <2>3
  <2> QED  BY <2>2, <2>4
<1>21. /\ r \in Node /\ r.items = b.items /\ r.rank = b.rank /\ r.root = b.root
       /\ r.newest = x /\ r.heads = b.heads /\ r.stack = b.stack /\ r.queue = b.queue
       /\ r.gone = b.gone
  BY <1>16, <1>19, <1>20 DEF Node
<1>22. Len(s.root) = Len(s.rank)  BY StockTypes
<1>23. Renewed(s, r, t, i, n)
  <2>1. r \in Node /\ r.items = [s.items EXCEPT ![t] = {n}]  BY <1>12, <1>16, <1>21
  <2>2. n = Len(s.rank) + 1 /\ Len(r.rank) = n /\ Len(r.root) = n
    BY <1>5, <1>12, <1>13, <1>16, <1>21
  <2>3. r.heads = s.heads /\ r.stack = s.stack /\ r.queue = s.queue /\ r.gone = s.gone
    BY <1>12, <1>16, <1>21
  <2>4. Len(r.newest) = Len(u.newest) /\ Len(s.newest) <= Len(r.newest)
    BY <1>12, <1>20, <1>21
  <2>5. r.root[n] \in 1..Len(r.newest) /\ (s.root[i] # 0 => r.root[n] = s.root[i])
    BY <1>11, <1>16, <1>21, <2>4
  <2>6. \A j \in 1..Len(s.rank) : j # i \/ s.root[i] # 0 => r.root[j] = s.root[j]
    BY <1>5, <1>12, <1>16, <1>21, <1>22
  <2> QED  BY <2>1, <2>2, <2>3, <2>4, <2>5, <2>6 DEF Renewed
<1>24. Renewed(u, r, t, i, n)
  <2>1. /\ r \in Node /\ r.items = [u.items EXCEPT ![t] = {n}]
        /\ n = Len(u.rank) + 1 /\ Len(r.rank) = n /\ Len(r.root) = n
        /\ r.heads = u.heads /\ r.stack = u.stack /\ r.queue = u.queue /\ r.gone = u.gone
    BY <1>13, <1>16, <1>21
  <2>2. Len(u.newest) <= Len(r.newest)
    <3>1. Len(u.newest) \in Nat  BY <1>11, <1>12, StockTypes
    <3> QED  BY <1>20, <1>21, <3>1
  <2>3. r.root[n] \in 1..Len(r.newest) /\ r.root[n] = u.root[i]
    BY <1>11, <1>16, <1>20, <1>21
  <2>4. \A j \in 1..Len(u.rank) : r.root[j] = u.root[j]  BY <1>16, <1>21
  <2> QED  BY <2>1, <2>2, <2>3, <2>4 DEF Renewed
<1>25. u.root[i] # 0 /\ Len(r.newest) = Len(u.newest) /\ r.newest = [u.newest EXCEPT ![u.root[i]] = n]
  BY <1>11, <1>13, <1>16, <1>18, <1>20, <1>21
<1>26. u \in Node /\ Stock(u) /\ t \in Elem /\ i \in u.items[t]  BY <1>3, <1>11, <1>12, <1>13
<1>27. Stock(r)  BY <1>24, <1>25, <1>26, StockRenewed
<1> QED  BY <1>23, <1>27
----------------------------------------------------------------------------
(* LineStack::unwind                                                       *)
LineSet(s) == {l \in Line : Stands(s, l)}

(* degrade_to_via_stub leaves a line that stands.                          *)
LEMMA DegradedStands ==
    ASSUME NEW s \in Node, Numbered(s), OneEach(s), NEW l \in LineSet(s), NEW i \in Links(l),
           l.via # NoVia, ~(InArena(s, i) /\ IsVia(s, i)), NEW d, d = Degraded(s, l)
    PROVE  d \in LineSet(s) /\ Links(d) \subseteq Links(l) /\ i \notin Links(d) /\ ~d.chain
<1>1. ASSUME NEW v \in Via, NEW j \in s.items[v] PROVE InArena(s, j) /\ IsVia(s, j)
  BY ShownIs DEF Elem
<1>2. l \in Line /\ Stands(s, l)  BY DEF LineSet
<1>3. CASE l.chain
  <2>1. Fits(s, l)  BY <1>2, <1>3 DEF Stands
  <2>2. PICK j \in s.items[l.track] : l.links = <<j, l.via>>  BY <2>1 DEF Fits
  <2>3. End[l.track] \in Via /\ l.via \in s.items[End[l.track]]  BY <2>1 DEF Fits
  <2>4. InArena(s, l.via) /\ IsVia(s, l.via)  BY <1>1, <2>3
  <2>5. l.track \in Elem /\ l.track \notin Via  BY <2>1, Places DEF Fits, Elem
  <2>6. ~IsVia(s, j)  BY <2>5, ShownIs
  <2>7. Links(l) = {j, l.via} /\ DOMAIN l.links = {1, 2} /\ l.links[1] = j /\ l.links[2] = l.via
    BY <2>2, LinksAre
  <2>8. LinkedVias(s, l) = {2}  BY <2>4, <2>6, <2>7 DEF LinkedVias
  <2>9. Max({2}) = 2  BY DEF Max
  <2>10. d = [l EXCEPT !.chain = FALSE, !.via = l.via, !.links = <<l.via>>]
    BY <2>7, <2>8, <2>9 DEF Degraded
  <2>11. /\ d \in Line /\ d.links = <<l.via>> /\ d.via = l.via /\ d.chain = FALSE
         /\ d.net = l.net /\ d.track = l.track
    <3>1. l.via \in Nat  BY <1>2 DEF Line
    <3>2. PICK x : x = <<l.via>>  OBVIOUS
    <3>3. x \in Seq(Nat)  BY <3>1, <3>2
    <3> QED  BY <1>2, <2>10, <3>1, <3>2, <3>3 DEF Line
  <2>12. Links(d) = {l.via} /\ i # l.via  BY <2>4, <2>11, LinksAre
  <2>13. Stub(s, d)  BY <2>3, <2>11 DEF Stub
  <2>14. Stands(s, d)  BY <1>2, <2>11, <2>13 DEF Stands
  <2> QED  BY <2>7, <2>11, <2>12, <2>14 DEF LineSet
<1>4. CASE ~l.chain
  <2>1. Stub(s, l)  BY <1>2, <1>4 DEF Stands
  <2>2. l.links # <<>>  BY LinksAre
  <2>3. PICK v \in Via : l.links = <<l.via>> /\ l.via \in s.items[v]  BY <2>1, <2>2 DEF Stub
  <2>4. i = l.via  BY <2>3, LinksAre
  <2> QED  BY <1>1, <2>3, <2>4
<1> QED  BY <1>2, <1>3, <1>4 DEF Line

(* What unwinding makes of one line: it goes, stays, or is reduced.        *)
Restacking(s, i, l, below, made) ==
    \/ made = below /\ i \in Links(l)
    \/ \E m \in LineSet(s) : /\ made = Append(below, m)
                             /\ i \notin Links(m) /\ Links(m) \subseteq Links(l)
                             /\ m = l \/ (~m.chain /\ i \in Links(l))

(* One line unwound is restacked so.                                       *)
LEMMA RestackedIs ==
    ASSUME NEW s \in Node, Numbered(s), OneEach(s), NEW i, NEW l \in LineSet(s),
           NEW below \in Seq(LineSet(s))
    PROVE  Restacking(s, i, l, below, Restacked(s, i, l, below))
<1>1. CASE i \notin Links(l)  BY <1>1 DEF Restacked, Restacking
<1>2. CASE i \in Links(l) /\ l.via # NoVia /\ ~(InArena(s, i) /\ IsVia(s, i))
  <2>1. PICK d : d = Degraded(s, l)  OBVIOUS
  <2>2. d \in LineSet(s) /\ Links(d) \subseteq Links(l) /\ i \notin Links(d) /\ ~d.chain
    BY <1>2, <2>1, DegradedStands
  <2>3. Restacked(s, i, l, below) = Append(below, d)  BY <1>2, <2>1 DEF Restacked
  <2> QED  BY <1>2, <2>2, <2>3 DEF Restacking
<1>3. CASE i \in Links(l) /\ ~(l.via # NoVia /\ ~(InArena(s, i) /\ IsVia(s, i)))
  BY <1>3 DEF Restacked, Restacking
<1> QED  BY <1>1, <1>2, <1>3

(* The lines of a stack in order stand, all of them.                       *)
LEMMA StackLines ==
    ASSUME NEW s \in Node, StackOK(s)
    PROVE  /\ s.stack \in Seq(LineSet(s)) /\ Len(s.stack) \in Nat
           /\ DOMAIN s.stack = 1..Len(s.stack)
<1>1. s.stack \in Seq(Line)  BY NodeFields
<1>2. \A k \in 1..Len(s.stack) : s.stack[k] \in LineSet(s)  BY <1>1 DEF LineSet, StackOK
<1> QED  BY <1>1, <1>2

(* The walk of LineStack::unwind up the stack.                             *)
IsUnwind(f, s, i) ==
    /\ f \in [0 .. Len(s.stack) -> Seq(LineSet(s))] /\ f[0] = <<>>
    /\ \A k \in 1 .. Len(s.stack) : f[k] = Restacked(s, i, s.stack[k], f[k - 1])
    /\ UnwoundLines(s, i) = f[Len(s.stack)]

(* UnwoundLines is the end of such a walk.                                 *)
LEMMA UnwindWalk ==
    ASSUME NEW s \in Node, Numbered(s), OneEach(s), StackOK(s), NEW i
    PROVE  \E f : IsUnwind(f, s, i)
<1> DEFINE n == Len(s.stack)
           Ls == Seq(LineSet(s))
           Is(g) == g = [k \in 0 .. n |->
                            IF k = 0 THEN <<>> ELSE Restacked(s, i, s.stack[k], g[k - 1])]
<1>0. n \in Nat /\ \A k \in 1..n : s.stack[k] \in LineSet(s)  BY StackLines
<1>1. PICK Step : Step = [k \in 1 .. n |-> [t \in Ls |-> Restacked(s, i, s.stack[k], t)]]
  OBVIOUS
<1>2. Step \in Steps(Ls, n)
  <2>1. ASSUME NEW k \in 1 .. n, NEW t \in Ls PROVE Restacked(s, i, s.stack[k], t) \in Ls
    <3>1. s.stack[k] \in LineSet(s)  BY <1>0
    <3>2. CASE Restacked(s, i, s.stack[k], t) = t  BY <3>2
    <3>3. CASE \E m \in LineSet(s) : Restacked(s, i, s.stack[k], t) = Append(t, m)  BY <3>3
    <3>4. Restacking(s, i, s.stack[k], t, Restacked(s, i, s.stack[k], t))
      BY <3>1, RestackedIs
    <3> QED  BY <3>2, <3>3, <3>4 DEF Restacking
  <2> QED  BY <1>1, <2>1 DEF Steps
<1>3. <<>> \in Ls  OBVIOUS
<1>4. PICK f : IsWalk(f, Ls, <<>>, n, Step)  BY <1>0, <1>2, <1>3, Walk
<1>5. ASSUME NEW k \in 1 .. n PROVE f[k] = Restacked(s, i, s.stack[k], f[k - 1])
  <2>1. k - 1 \in 0 .. n  BY <1>0
  <2> QED  BY <1>1, <1>4, <2>1 DEF IsWalk
<1>6. Is(f)  BY <1>4, <1>5 DEF IsWalk
<1>7. Is(CHOOSE g : Is(g))  BY <1>6
<1>8. PICK h : Is(h) /\ h = CHOOSE g : Is(g)  BY <1>7
<1>9. UnwoundLines(s, i) = h[n]  BY <1>8 DEF UnwoundLines
<1>10. \A k \in 0 .. n : h[k] = f[k]
  <2> DEFINE S == {k \in 0 .. n : h[k] = f[k]}
  <2>1. 0 \in S  BY <1>0, <1>4, <1>8 DEF IsWalk
  <2>2. ASSUME NEW k \in 1 .. n, k - 1 \in S PROVE k \in S
    BY <1>5, <1>8, <2>2
  <2> HIDE DEF S
  <2>3. \A k \in 0 .. n : k \in S  BY <1>0, <2>1, <2>2, UpTo
  <2> QED  BY <2>3 DEF S
<1>11. UnwoundLines(s, i) = f[n]  BY <1>0, <1>9, <1>10
<1> QED  BY <1>4, <1>5, <1>11 DEF IsWalk, IsUnwind

(* The stack that is left once item i was unwound.                         *)
Thinned(s, left, i) ==
    /\ left \in Seq(Line)
    /\ \A k \in DOMAIN left : /\ Stands(s, left[k]) /\ i \notin Links(left[k])
                              /\ \E m \in DOMAIN s.stack : Links(left[k]) \subseteq Links(s.stack[m])
    /\ \A k, m \in DOMAIN left :
          left[k].chain /\ left[m].chain /\ left[k].track = left[m].track => k = m
    /\ s.stack # <<>> /\ i \notin Links(Last(s.stack)) => left # <<>> /\ Last(left) = Last(s.stack)

(* LineStack::unwind thins the stack and leaves no line that references    *)
(* the item.                                                               *)
LEMMA UnwoundThins ==
    ASSUME NEW s \in Node, Numbered(s), OneEach(s), StackOK(s), NEW i
    PROVE  Thinned(s, UnwoundLines(s, i), i)
<1> DEFINE n == Len(s.stack)
<1>0. n \in Nat /\ s.stack \in Seq(LineSet(s)) /\ DOMAIN s.stack = 1..n  BY StackLines
<1>1. PICK f : IsUnwind(f, s, i)  BY UnwindWalk
<1>2. \A k \in 0 .. n : f[k] \in Seq(LineSet(s))  BY <1>1 DEF IsUnwind
<1> DEFINE From(a, j) == \E m \in 1..j : /\ Links(a) \subseteq Links(s.stack[m])
                                         /\ (a.chain => a = s.stack[m])
           Is(j) == \A a \in DOMAIN f[j] : i \notin Links(f[j][a]) /\ From(f[j][a], j)
           Alone(j) == \A a, b \in DOMAIN f[j] :
               f[j][a].chain /\ f[j][b].chain /\ f[j][a].track = f[j][b].track => a = b
           S == {j \in 0..n : Is(j) /\ Alone(j)}
<1>3. 0 \in S  BY <1>0, <1>1 DEF IsUnwind
<1>4. ASSUME NEW k \in 1 .. n, k - 1 \in S PROVE k \in S
  <2>1. k - 1 \in 0 .. n /\ k \in 0 .. n  BY <1>0
  <2>2. s.stack[k] \in LineSet(s) /\ f[k - 1] \in Seq(LineSet(s))  BY <1>0, <1>2, <2>1
  <2>3. f[k] = Restacked(s, i, s.stack[k], f[k - 1])  BY <1>1 DEF IsUnwind
  <2>4. \A a : From(a, k - 1) => From(a, k)  BY <1>0, <2>1
  <2>5. Is(k - 1) /\ Alone(k - 1)  BY <1>4
  <2>6. CASE f[k] = f[k - 1]
    <3>1. Is(k)
      <4> HIDE DEF From
      <4> QED  BY <2>4, <2>5, <2>6
    <3>2. Alone(k)  BY <2>5, <2>6
    <3> QED  BY <2>1, <3>1, <3>2
  <2>7. CASE \E m \in LineSet(s) : /\ f[k] = Append(f[k - 1], m)
                                   /\ i \notin Links(m) /\ Links(m) \subseteq Links(s.stack[k])
                                   /\ m = s.stack[k] \/ (~m.chain /\ i \in Links(s.stack[k]))
    <3>1. PICK m \in LineSet(s) : /\ f[k] = Append(f[k - 1], m)
                                  /\ i \notin Links(m) /\ Links(m) \subseteq Links(s.stack[k])
                                  /\ m = s.stack[k] \/ (~m.chain /\ i \in Links(s.stack[k]))
      BY <2>7
    <3>2. PICK g : g = f[k - 1]  OBVIOUS
    <3>3. /\ DOMAIN f[k] = 1..(Len(g) + 1) /\ Len(g) \in Nat /\ DOMAIN g = 1..Len(g)
          /\ \A j \in 1..Len(g) : f[k][j] = g[j]
          /\ f[k][Len(g) + 1] = m
      BY <2>2, <3>1, <3>2, AppendType
    <3>4. \A a \in DOMAIN f[k] : a \in DOMAIN g \/ a = Len(g) + 1  BY <3>3
    <3>5. From(m, k)  BY <3>1, <2>1
    <3>6. Is(k)
      <4> SUFFICES ASSUME NEW a \in DOMAIN f[k]
                   PROVE  i \notin Links(f[k][a]) /\ From(f[k][a], k)
        OBVIOUS
      <4> HIDE DEF From
      <4>1. CASE a \in DOMAIN g  BY <2>4, <2>5, <3>2, <3>3, <4>1
      <4>2. CASE a = Len(g) + 1  BY <3>1, <3>3, <3>5, <4>2
      <4> QED  BY <3>4, <4>1, <4>2
    (* No line below is of the track of the line that comes next.          *)
    <3>7. ASSUME NEW a \in DOMAIN g, g[a].chain, m.chain, g[a].track = m.track PROVE FALSE
      <4>1. m = s.stack[k]  BY <3>1, <3>7
      <4>2. From(g[a], k - 1)  BY <2>5, <3>2
      <4>3. PICK j \in 1..(k - 1) : g[a] = s.stack[j]  BY <3>7, <4>2
      <4>4. j \in 1..n /\ j # k  BY <1>0, <2>1
      <4> QED  BY <1>0, <3>7, <4>1, <4>3, <4>4 DEF StackOK
    <3>8. Alone(k)
      <4> SUFFICES ASSUME NEW a \in DOMAIN f[k], NEW b \in DOMAIN f[k],
                          f[k][a].chain, f[k][b].chain, f[k][a].track = f[k][b].track
                   PROVE  a = b
        OBVIOUS
      <4>1. CASE a \in DOMAIN g /\ b \in DOMAIN g
        <5>1. f[k][a] = g[a] /\ f[k][b] = g[b]  BY <3>3, <4>1
        <5>2. Alone(k - 1)  BY <2>5
        <5> QED  BY <3>2, <4>1, <5>1, <5>2
      <4>2. CASE a \in DOMAIN g /\ b = Len(g) + 1  BY <3>3, <3>7, <4>2
      <4>3. CASE b \in DOMAIN g /\ a = Len(g) + 1  BY <3>3, <3>7, <4>3
      <4> QED  BY <3>4, <4>1, <4>2, <4>3
    <3> QED  BY <2>1, <3>6, <3>8
  <2>8. Restacking(s, i, s.stack[k], f[k - 1], f[k])  BY <2>2, <2>3, RestackedIs
  <2> QED  BY <2>6, <2>7, <2>8 DEF Restacking
<1> HIDE DEF S
<1>5. \A k \in 0 .. n : k \in S  BY <1>0, <1>3, <1>4, UpTo
<1>6. PICK left : left = UnwoundLines(s, i)  OBVIOUS
<1>7. left = f[n] /\ n \in S /\ left \in Seq(LineSet(s))
  BY <1>0, <1>1, <1>2, <1>5, <1>6 DEF IsUnwind
<1>8. Is(n) /\ Alone(n)  BY <1>7 DEF S
<1>9. left \in Seq(Line) /\ \A k \in DOMAIN left : Stands(s, left[k])
  BY <1>7 DEF LineSet
<1>10. \A k \in DOMAIN left :
         i \notin Links(left[k]) /\ \E m \in DOMAIN s.stack : Links(left[k]) \subseteq Links(s.stack[m])
  BY <1>0, <1>7, <1>8
<1>11. \A k, m \in DOMAIN left :
          left[k].chain /\ left[m].chain /\ left[k].track = left[m].track => k = m
  BY <1>7, <1>8
<1>12. ASSUME s.stack # <<>>, i \notin Links(Last(s.stack))
       PROVE  left # <<>> /\ Last(left) = Last(s.stack)
  <2>1. n \in 1..n /\ n - 1 \in 0..n  BY <1>0, <1>12
  <2>2. Last(s.stack) = s.stack[n] /\ f[n] = Restacked(s, i, s.stack[n], f[n - 1])
    BY <1>1, <2>1 DEF IsUnwind, Last
  <2>3. f[n] = Append(f[n - 1], s.stack[n])  BY <1>12, <2>2 DEF Restacked
  <2>4. f[n - 1] \in Seq(LineSet(s)) /\ s.stack[n] \in LineSet(s)  BY <1>0, <1>2, <2>1
  <2>5. Len(left) = Len(f[n - 1]) + 1 /\ left[Len(left)] = s.stack[n] /\ Len(left) \in Nat \ {0}
    BY <1>7, <2>3, <2>4, AppendType
  <2> QED  BY <2>2, <2>5 DEF Last
<1>13. Thinned(s, left, i)  BY <1>9, <1>10, <1>11, <1>12 DEF Thinned
<1> QED  BY <1>6, <1>13
----------------------------------------------------------------------------
(* No line on the stack references item j.                                 *)
Free(s, j) == \A k \in DOMAIN s.stack : j \notin Links(s.stack[k])

(* Only the stack and the queue differ.                                    *)
SameGround(s, r) ==
    /\ r \in Node /\ r.items = s.items /\ r.rank = s.rank /\ r.root = s.root
    /\ r.newest = s.newest /\ r.heads = s.heads /\ r.gone = s.gone

(* Lines and queued lines went, none came.                                 *)
Thinner(s, r) ==
    /\ SameGround(s, r) /\ r.queue \subseteq s.queue
    /\ \A j : Free(s, j) => Free(r, j)

(* What stands on some ground stands wherever the ground is the same.      *)
LEMMA GroundStands ==
    ASSUME NEW s, NEW r, SameGround(s, r)
    PROVE  /\ Stock(s) => Stock(r)
           /\ \A l : Stands(s, l) => Stands(r, l)
           /\ \A q, P : Waits(s, q, P) => Waits(r, q, P)
<1> USE DEF SameGround
<1>1. Stock(s) => Stock(r)
  BY DEF Stock, Numbered, OneEach, Entered, Headed, Present
<1>2. \A l : Stands(s, l) => Stands(r, l)  BY DEF Stands, Fits, Stub
<1>3. \A q, P : Waits(s, q, P) => Waits(r, q, P)  BY DEF Waits, Fits
<1> QED  BY <1>1, <1>2, <1>3

(* Thinning twice is thinning.                                             *)
LEMMA ThinnerTwice ==
    ASSUME NEW s, NEW r, NEW u, Thinner(s, r), Thinner(r, u)
    PROVE  Thinner(s, u)
BY DEF Thinner, SameGround

(* A queue in order stays so when lines leave it.                          *)
LEMMA QueueThins ==
    ASSUME NEW s, NEW P, QueueOK(s, P), NEW r, SameGround(s, r), r.queue \subseteq s.queue
    PROVE  QueueOK(r, P)
<1>1. \A q \in r.queue : Waits(r, q, P)  BY GroundStands DEF QueueOK
<1> QED  BY <1>1 DEF QueueOK

(* Shove::unwind_line_stack: nothing refers to the item any longer.        *)
Unwinding(s, r, i) ==
    /\ Fine(r) /\ Thinner(s, r) /\ Free(r, i)
    /\ ~IsVia(s, i) => \A q \in r.queue : i \notin Links(q.line)
    /\ s.stack # <<>> /\ i \notin Links(Last(s.stack)) =>
          r.stack # <<>> /\ Last(r.stack) = Last(s.stack)

(* Shove::unwind_line_stack: the ground is kept, the item is free.         *)
LEMMA UnwoundFine ==
    ASSUME NEW s, Fine(s), NEW i, NEW r, r = Unwound(s, i)
    PROVE  Unwinding(s, r, i)
<1>1. s \in Node /\ Stock(s) /\ StackOK(s)  BY DEF Fine
<1>2. PICK left : left = UnwoundLines(s, i)  OBVIOUS
<1>3. Thinned(s, left, i)  BY <1>1, <1>2, UnwoundThins DEF Stock
<1>4. PICK queue : queue = IF InArena(s, i) /\ IsVia(s, i) THEN s.queue
                           ELSE {q \in s.queue : i \notin Links(q.line)}
  OBVIOUS
<1>5. r = [s EXCEPT !.stack = left, !.queue = queue]  BY <1>2, <1>4 DEF Unwound
<1>6. left \in Seq(Line) /\ queue \subseteq s.queue  BY <1>3, <1>4 DEF Thinned
<1>7. SameGround(s, r) /\ r.stack = left /\ r.queue = queue
  BY <1>1, <1>5, <1>6 DEF Node, SameGround
<1>8. Stock(r)  BY <1>1, <1>7, GroundStands
<1>9. StackOK(r)  BY <1>3, <1>7, GroundStands DEF Thinned, StackOK
<1>10. Free(r, i) /\ \A j : Free(s, j) => Free(r, j)
  BY <1>3, <1>7 DEF Thinned, Free
<1>11. s.stack # <<>> /\ i \notin Links(Last(s.stack)) =>
         r.stack # <<>> /\ Last(r.stack) = Last(s.stack)
  BY <1>3, <1>7 DEF Thinned
<1>12. ~IsVia(s, i) => \A q \in r.queue : i \notin Links(q.line)
  BY <1>4, <1>7
<1> QED  BY <1>6, <1>7, <1>8, <1>9, <1>10, <1>11, <1>12
        DEF Fine, Unwinding, Thinner, SameGround

(* Shove::unwind_line for lines of one link and of two.                    *)
LEMMA UnwoundAllOne ==
    ASSUME NEW s, NEW a
    PROVE  UnwoundAll(s, <<a>>) = Unwound(s, a)
<1> DEFINE Is(g) == g = [k \in 0 .. Len(<<a>>) |->
                            IF k = 0 THEN s ELSE Unwound(g[k - 1], <<a>>[k])]
<1>1. Len(<<a>>) = 1 /\ <<a>>[1] = a  OBVIOUS
<1>2. PICK f : f = [k \in 0 .. 1 |-> IF k = 0 THEN s ELSE Unwound(s, a)]  OBVIOUS
<1>3. f = [k \in 0 .. 1 |-> IF k = 0 THEN s ELSE Unwound(f[k - 1], <<a>>[k])]
  <2>1. f[0] = s  BY <1>2
  <2>2. \A k \in 0 .. 1 : k = 0 \/ (k = 1 /\ k - 1 = 0)  OBVIOUS
  <2> QED  BY <1>1, <1>2, <2>1, <2>2
<1>4. Is(CHOOSE g : Is(g))  BY <1>1, <1>3
<1>5. PICK h : Is(h) /\ h = CHOOSE g : Is(g)  BY <1>4
<1>6. UnwoundAll(s, <<a>>) = h[1]  BY <1>1, <1>5 DEF UnwoundAll
<1>7. h[0] = s /\ h[1] = Unwound(h[0], <<a>>[1])
  <2>1. h = [k \in 0 .. 1 |-> IF k = 0 THEN s ELSE Unwound(h[k - 1], <<a>>[k])]
    BY <1>1, <1>5
  <2>2. 0 \in 0 .. 1 /\ 1 \in 0 .. 1 /\ 1 - 1 = 0  OBVIOUS
  <2> QED  BY <2>1, <2>2
<1> QED  BY <1>1, <1>6, <1>7

(* Unwinding two items is unwinding one after the other.                   *)
LEMMA UnwoundAllTwo ==
    ASSUME NEW s, NEW a, NEW b
    PROVE  UnwoundAll(s, <<a, b>>) = Unwound(Unwound(s, a), b)
<1> DEFINE two == <<a, b>>
           Is(g) == g = [k \in 0 .. Len(two) |-> IF k = 0 THEN s ELSE Unwound(g[k - 1], two[k])]
<1>1. Len(two) = 2 /\ two[1] = a /\ two[2] = b  OBVIOUS
<1>2. PICK f : f = [k \in 0 .. 2 |-> IF k = 0 THEN s ELSE IF k = 1 THEN Unwound(s, a)
                                     ELSE Unwound(Unwound(s, a), b)]
  OBVIOUS
<1>3. f = [k \in 0 .. 2 |-> IF k = 0 THEN s ELSE Unwound(f[k - 1], two[k])]
  <2>1. f[0] = s /\ f[1] = Unwound(s, a)  BY <1>2
  <2>2. \A k \in 0 .. 2 : k = 0 \/ (k = 1 /\ k - 1 = 0) \/ (k = 2 /\ k - 1 = 1)  OBVIOUS
  <2> HIDE DEF two
  <2> QED  BY <1>1, <1>2, <2>1, <2>2
<1>4. Is(CHOOSE g : Is(g))  BY <1>1, <1>3
<1>5. PICK h : Is(h) /\ h = CHOOSE g : Is(g)  BY <1>4
<1>6. UnwoundAll(s, two) = h[2]  BY <1>1, <1>5 DEF UnwoundAll
<1>7. h[0] = s /\ h[1] = Unwound(h[0], two[1]) /\ h[2] = Unwound(h[1], two[2])
  <2>1. h = [k \in 0 .. 2 |-> IF k = 0 THEN s ELSE Unwound(h[k - 1], two[k])]
    BY <1>1, <1>5
  <2>2. 0 \in 0 .. 2 /\ 1 \in 0 .. 2 /\ 2 \in 0 .. 2 /\ 1 - 1 = 0 /\ 2 - 1 = 1  OBVIOUS
  <2> HIDE DEF two
  <2> QED  BY <2>1, <2>2
<1> QED  BY <1>1, <1>6, <1>7

(* Shove::pop_line_stack                                                   *)
Popping(s, r) ==
    /\ SameGround(s, r) /\ r.queue \subseteq s.queue
    /\ DOMAIN r.stack = 1..(Len(s.stack) - 1)
    /\ \A k \in 1..(Len(s.stack) - 1) : k \in DOMAIN s.stack /\ r.stack[k] = s.stack[k]

(* A stack without its top, whoever leaves the queue, is popped.           *)
LEMMA FrontIs ==
    ASSUME NEW s \in Node, s.stack # <<>>, NEW queue, queue \subseteq s.queue,
           NEW r, r = [s EXCEPT !.stack = Front(@), !.queue = queue]
    PROVE  Popping(s, r)
<1>1. s.stack \in Seq(Line) /\ Len(s.stack) \in Nat \ {0} /\ DOMAIN s.stack = 1..Len(s.stack)
  <2>1. s.stack \in Seq(Line)  BY NodeFields
  <2> QED  BY <2>1
<1>2. PICK left : left = Front(s.stack)  OBVIOUS
<1>3. r = [s EXCEPT !.stack = left, !.queue = queue]  BY <1>2
<1>4. /\ left \in Seq(Line) /\ DOMAIN left = 1..(Len(s.stack) - 1)
      /\ \A k \in 1..(Len(s.stack) - 1) : k \in DOMAIN s.stack /\ left[k] = s.stack[k]
  <2>1. left = SubSeq(s.stack, 1, Len(s.stack) - 1)  BY <1>2 DEF Front
  <2>2. \A k \in 1..(Len(s.stack) - 1) : k \in 1..Len(s.stack) /\ s.stack[k] \in Line  BY <1>1
  <2>3. /\ left \in Seq(Line) /\ Len(left) = Len(s.stack) - 1
        /\ \A k \in 1..(Len(s.stack) - 1) : left[k] = s.stack[k]
    BY <1>1, <2>1, <2>2, SubSeqProperties
  <2>4. DOMAIN left = 1..Len(left)  BY <2>3
  <2> QED  BY <1>1, <2>2, <2>3, <2>4
<1>5. SameGround(s, r) /\ r.stack = left /\ r.queue = queue
  BY <1>3, <1>4 DEF Node, SameGround
<1> QED  BY <1>4, <1>5 DEF Popping

(* Shove::pop_line_stack takes the top off.                                *)
LEMMA PoppedIs ==
    ASSUME NEW s \in Node, s.stack # <<>>, NEW r, r = Popped(s)
    PROVE  Popping(s, r)
<1>1. PICK queue : queue = {q \in s.queue : RootOf(s, Last(s.stack)) = 0 \/
                                            q.key # RootOf(s, Last(s.stack))}
  OBVIOUS
<1>2. r = [s EXCEPT !.stack = Front(@), !.queue = queue]  BY <1>1 DEF Popped
<1> QED  BY <1>1, <1>2, FrontIs

(* ShoveEffect::RetireLine                                                 *)
LEMMA RetiredIs ==
    ASSUME NEW s \in Node, s.stack # <<>>, NEW r, r = [s EXCEPT !.stack = Front(@)]
    PROVE  Popping(s, r)
<1>1. PICK queue : queue = s.queue  OBVIOUS
<1>2. r = [s EXCEPT !.stack = Front(@), !.queue = queue]  BY <1>1 DEF Node
<1> QED  BY <1>1, <1>2, FrontIs

(* A popped stack is in order and thinner.                                 *)
LEMMA PoppedFine ==
    ASSUME NEW s, Fine(s), s.stack # <<>>, NEW r, Popping(s, r)
    PROVE  Fine(r) /\ Thinner(s, r)
<1>1. SameGround(s, r)  BY DEF Popping
<1>2. Stock(r)  BY <1>1, GroundStands DEF Fine
<1>3. StackOK(r)  BY <1>1, GroundStands DEF StackOK, Fine, Popping
<1>4. \A j : Free(s, j) => Free(r, j)  BY DEF Free, Popping
<1> QED  BY <1>1, <1>2, <1>3, <1>4 DEF Fine, Thinner, SameGround, Popping
----------------------------------------------------------------------------
(* What a line of the stack links belongs to its track, or to the via at   *)
(* its end.                                                                *)
Linking(s, l, j) ==
    /\ j \in 1..Len(s.rank) /\ j \in Shown(s)
    /\ \A t \in Track : j \in s.items[t] => l.chain /\ l.track = t
    /\ \A v \in Via : j \in s.items[v] => l.via = j /\ Net[v] = l.net
    /\ \/ \E v \in Via : j \in s.items[v]
       \/ l.chain /\ l.track \in Track /\ j \in s.items[l.track]

(* A link of a line that stands is an item of the line's own track or a    *)
(* via's.                                                                  *)
LEMMA LinksOwned ==
    ASSUME NEW s, Numbered(s), OneEach(s), NEW l, Stands(s, l), NEW j \in Links(l)
    PROVE  Linking(s, l, j)
<1>1. \A e \in Elem : \A k \in s.items[e] : k \in 1..Len(s.rank) /\ k \in Shown(s)
  BY DEF Numbered, Shown, Elem
<1>2. Track \subseteq Elem /\ Via \subseteq Elem /\ Track \cap Via = {}  BY Places DEF Elem
<1>3. \A d, e \in Elem : j \in s.items[d] /\ j \in s.items[e] => d = e  BY DEF OneEach
<1>4. CASE l.chain
  <2>1. Fits(s, l)  BY <1>4 DEF Stands
  <2>2. PICK i \in s.items[l.track] : l.links = IF l.via = NoVia THEN <<i>> ELSE <<i, l.via>>
    BY <2>1 DEF Fits
  <2>3. l.track \in Track  BY <2>1 DEF Fits
  <2>4. j = i \/ (l.via # NoVia /\ j = l.via)
    <3>1. CASE l.via = NoVia  BY <2>2, <3>1, LinksAre
    <3>2. CASE l.via # NoVia  BY <2>2, <3>2, LinksAre
    <3> QED  BY <3>1, <3>2
  <2>5. CASE j = i
    <3>1. /\ \A t \in Track : j \in s.items[t] => l.track = t
          /\ \A v \in Via : j \notin s.items[v]
      BY <1>2, <1>3, <2>2, <2>3, <2>5
    <3> QED  BY <1>1, <1>2, <1>4, <2>2, <2>3, <2>5, <3>1 DEF Linking
  <2>6. CASE l.via # NoVia /\ j = l.via
    <3>1. End[l.track] \in Via /\ j \in s.items[End[l.track]]  BY <2>1, <2>6 DEF Fits
    <3>2. \A t \in Track : j \notin s.items[t]  BY <1>2, <1>3, <3>1
    <3>3. \A v \in Via : j \in s.items[v] => Net[v] = l.net  BY <2>6 DEF Stands
    <3> QED  BY <1>1, <1>2, <2>6, <3>1, <3>2, <3>3 DEF Linking
  <2> QED  BY <2>4, <2>5, <2>6
<1>5. CASE ~l.chain
  <2>1. Stub(s, l)  BY <1>5 DEF Stands
  <2>2. l.links # <<>>  BY LinksAre
  <2>3. j = l.via /\ \E v \in Via : j \in s.items[v]  BY <2>1, <2>2, LinksAre DEF Stub
  <2>4. \A t \in Track : j \notin s.items[t]  BY <1>2, <1>3, <2>3
  <2>5. \A v \in Via : j \in s.items[v] => Net[v] = l.net  BY <2>3 DEF Stands
  <2> QED  BY <1>1, <1>2, <2>3, <2>4, <2>5 DEF Linking
<1> QED  BY <1>4, <1>5

(* Of the lines on the stack one at most links the item of a track.        *)
LEMMA LinkedOnce ==
    ASSUME NEW s, Fine(s), NEW t \in Track, NEW i \in s.items[t],
           NEW k \in DOMAIN s.stack, i \in Links(s.stack[k]),
           NEW m \in DOMAIN s.stack, i \in Links(s.stack[m])
    PROVE  k = m
<1>1. Linking(s, s.stack[k], i) /\ Linking(s, s.stack[m], i)
  BY LinksOwned DEF Fine, Stock, StackOK
<1> QED  BY <1>1 DEF Linking, Fine, StackOK

(* An item the branch has yet to store is on no line.                      *)
LEMMA FreshFree ==
    ASSUME NEW s, Fine(s), NEW n, n \notin 1..Len(s.rank)
    PROVE  Free(s, n)
<1>1. ASSUME NEW k \in DOMAIN s.stack, n \in Links(s.stack[k]) PROVE FALSE
  <2>1. Linking(s, s.stack[k], n)  BY <1>1, LinksOwned DEF Fine, Stock, StackOK
  <2> QED  BY <2>1 DEF Linking
<1> QED  BY <1>1 DEF Free

(* A line stands as long as the items it links do.                         *)
LEMMA UnlinkedStands ==
    ASSUME NEW s \in Node, Stock(s), NEW e \in Elem, NEW i \in s.items[e],
           NEW l, Stands(s, l), l.via \in Nat, i \notin Links(l), NEW r, NEW x,
           r.items = [s.items EXCEPT ![e] = x], \A n \in x : n \notin 1..Len(s.rank) /\ n # 0,
           Len(s.rank) <= Len(r.rank), Len(r.rank) \in Nat
    PROVE  Stands(r, l)
<1>1. /\ \A d \in Elem : d # e => r.items[d] = s.items[d]
      /\ r.items[e] = x
  BY NodeFields
<1>2. \A d \in Elem : \A j \in s.items[d] : j = i <=> d = e  BY DEF Stock, OneEach
<1>3. Track \subseteq Elem /\ Via \subseteq Elem /\ Track \cap Via = {} /\ 0 \notin Via
  BY Places DEF Elem
<1>4. l.via <= Len(s.rank) /\ Len(s.rank) \in Nat  BY StockTypes DEF Stands
<1>5. l.via <= Len(r.rank)  BY <1>4
<1>6. l.via \notin x  BY <1>4
<1>7. \A v \in Via : l.via \in r.items[v] => Net[v] = l.net
  BY <1>1, <1>3, <1>6 DEF Stands
<1>8. l.net = Net[l.track]  BY DEF Stands
<1>9. CASE l.chain
  <2>1. Fits(s, l)  BY <1>9 DEF Stands
  <2>2. PICK k \in s.items[l.track] : l.links = IF l.via = NoVia THEN <<k>> ELSE <<k, l.via>>
    BY <2>1 DEF Fits
  <2>3. k \in Links(l) /\ (l.via # NoVia => l.via \in Links(l))  BY <2>2, LinksAre
  <2>4. l.track \in Track /\ l.track # e  BY <1>2, <1>3, <2>1, <2>2, <2>3 DEF Fits
  <2>5. k \in r.items[l.track]  BY <1>1, <1>3, <2>2, <2>4
  <2>6. l.via # NoVia => End[l.track] \in Via /\ l.via \in r.items[End[l.track]]
    BY <1>1, <1>2, <1>3, <2>1, <2>3 DEF Fits
  <2> QED  BY <1>5, <1>7, <1>8, <1>9, <2>2, <2>4, <2>5, <2>6 DEF Stands, Fits
<1>10. CASE ~l.chain
  <2>1. Stub(s, l)  BY <1>10 DEF Stands
  <2>2. CASE l.links = <<>>  BY <1>5, <1>7, <1>8, <1>10, <2>2 DEF Stands, Stub
  <2>3. CASE l.links # <<>>
    <3>1. PICK v \in Via : l.links = <<l.via>> /\ l.via \in s.items[v]  BY <2>1, <2>3 DEF Stub
    <3>2. l.via # i  BY <3>1, LinksAre
    <3>3. l.via \in r.items[v]  BY <1>1, <1>2, <1>3, <3>1, <3>2
    <3>4. Stub(r, l)  BY <3>1, <3>3 DEF Stub
    <3> QED  BY <1>5, <1>7, <1>8, <1>10, <3>4 DEF Stands
  <2> QED  BY <2>2, <2>3
<1> QED  BY <1>9, <1>10

(* The lines of the stack stand if none links the item that goes.          *)
LEMMA StackStays ==
    ASSUME NEW s, Fine(s), NEW e \in Elem, NEW i \in s.items[e], Free(s, i), NEW r, NEW x,
           r.items = [s.items EXCEPT ![e] = x], \A n \in x : n \notin 1..Len(s.rank) /\ n # 0,
           Len(s.rank) <= Len(r.rank), Len(r.rank) \in Nat, r.stack = s.stack
    PROVE  StackOK(r)
<1>1. s \in Node /\ Stock(s) /\ StackOK(s)  BY DEF Fine
<1>2. ASSUME NEW k \in DOMAIN s.stack PROVE Stands(r, s.stack[k])
  <2>0. s.stack \in Seq(Line)  BY <1>1, NodeFields
  <2>1. s.stack[k] \in Line /\ Stands(s, s.stack[k])  BY <1>1, <2>0 DEF StackOK
  <2>2. s.stack[k].via \in Nat  BY <2>1 DEF Line
  <2>3. i \notin Links(s.stack[k])  BY DEF Free
  <2> QED  BY <1>1, <2>1, <2>2, <2>3, UnlinkedStands
<1> QED  BY <1>1, <1>2 DEF StackOK
----------------------------------------------------------------------------
(* A line that is about to be stacked: the item of its track is on no line *)
(* and known to the root index, or the only link; or a via alone.          *)
Pushable(s, l) ==
    \/ l.chain /\ \E i \in s.items[l.track] : Free(s, i) /\ (l.links = <<i>> \/ s.root[i] # 0)
    \/ ~l.chain /\ l.links = <<>>

(* What touching line l makes of s, key being the entry it has then.       *)
Touching(s, u, l, key) ==
    /\ u \in Node /\ Stock(u)
    /\ u.items = s.items /\ u.rank = s.rank /\ u.heads = s.heads
    /\ u.stack = s.stack /\ u.queue = s.queue /\ u.gone = s.gone
    /\ Len(s.newest) <= Len(u.newest) /\ key \in 1..Len(u.newest)
    /\ \A e \in Elem : \A j \in s.items[e] : s.root[j] # 0 => u.root[j] = s.root[j]
    /\ l.chain => \A i \in s.items[l.track] : u.root[i] = key /\ i \in Links(l)

(* Touching any line that may be pushed does that.                         *)
LEMMA TouchedIs ==
    ASSUME NEW s, Fine(s), NEW l, Stands(s, l), Pushable(s, l),
           NEW u, u = Touched(s, l), NEW key, key = KeyOf(s, l)
    PROVE  Touching(s, u, l, key)
<1>1. s \in Node /\ Stock(s) /\ Len(s.root) = Len(s.rank) /\ Len(s.newest) \in Nat
  BY StockTypes DEF Fine
<1>2. \A e \in Elem : \A j \in s.items[e] : j \in 1..Len(s.rank) /\ s.root[j] \in 0..Len(s.newest)
  BY <1>1, StockTypes
<1>3. CASE l.chain
  <2>1. PICK i \in s.items[l.track] : Free(s, i) /\ (l.links = <<i>> \/ s.root[i] # 0)
    BY <1>3 DEF Pushable
  <2>2. l.track \in Elem /\ Fits(s, l)  BY <1>3 DEF Stands, Fits, Elem
  <2>3. \A k \in s.items[l.track] : k = i  BY <1>1, <2>1, <2>2 DEF Stock, OneEach
  <2>4. l.links = IF l.via = NoVia THEN <<i>> ELSE <<i, l.via>>  BY <2>2, <2>3 DEF Fits
  <2>5. i \in Links(l)  BY <2>4, LinksAre
  <2>6. CASE l.links = <<i>>
    <3>1. /\ SameBut(s, u, i) /\ Stock(u)
          /\ u.root[i] = key /\ key \in 1..Len(u.newest)
      BY <1>1, <2>1, <2>2, <2>6, TouchedStock
    <3>2. ASSUME NEW e \in Elem, NEW j \in s.items[e], s.root[j] # 0 PROVE u.root[j] = s.root[j]
      BY <1>1, <1>2, <3>1, <3>2 DEF SameBut
    <3>3. \A k \in s.items[l.track] : u.root[k] = key /\ k \in Links(l)
      BY <2>3, <2>5, <3>1
    <3> QED  BY <3>1, <3>2, <3>3 DEF Touching, SameBut
  <2>7. CASE s.root[i] # 0
    <3>1. InArena(s, i)  BY <1>1, <2>1, <2>2, ShownIs DEF Stock
    <3>2. RootOf(s, l) = s.root[i]  BY <2>4, <2>7, <3>1, RootIs
    <3>3. u = s /\ key = s.root[i]  BY <2>7, <3>2, TouchedOld
    <3>4. s.root[i] \in 1..Len(s.newest)  BY <1>1, <1>2, <2>1, <2>2, <2>7
    <3>5. \A k \in s.items[l.track] : u.root[k] = key /\ k \in Links(l)
      BY <2>3, <2>5, <3>3
    <3> QED  BY <1>1, <3>3, <3>4, <3>5 DEF Touching
  <2> QED  BY <2>1, <2>6, <2>7
<1>4. CASE ~l.chain
  <2>1. l.links = <<>> /\ Links(l) = {}  BY <1>4, LinksAre DEF Pushable
  <2>2. RootOf(s, l) = 0  BY <2>1, RootNone
  <2>3. /\ u \in Node /\ u.items = s.items /\ u.rank = s.rank /\ u.heads = s.heads
        /\ u.stack = s.stack /\ u.queue = s.queue /\ u.gone = s.gone
        /\ u.newest = Append(s.newest, 0) /\ Len(u.root) = Len(s.root)
        /\ key = Len(s.newest) + 1
        /\ \A j \in 1..Len(s.root) : u.root[j] = s.root[j]
    BY <1>1, <2>1, <2>2, TouchedNew
  <2>4. s.newest \in Seq(Nat)  BY <1>1, StockTypes
  <2>5. /\ Len(u.newest) = Len(s.newest) + 1
        /\ \A j \in 1..Len(s.newest) : u.newest[j] = s.newest[j]
    BY <2>3, <2>4
  <2>6. Len(s.newest) <= Len(u.newest) /\ key \in 1..Len(u.newest)  BY <1>1, <2>3, <2>5
  <2>7. Stock(u)
    <3>1. Len(u.rank) = Len(s.rank)  BY <2>3
    <3> QED  BY <1>1, <2>3, <2>5, <2>6, <3>1, StockGrows
  <2>8. \A e \in Elem : \A j \in s.items[e] : u.root[j] = s.root[j]  BY <1>1, <1>2, <2>3
  <2> QED  BY <1>4, <2>3, <2>6, <2>7, <2>8 DEF Touching
<1> QED  BY <1>3, <1>4

(* Every queued line waits, but for one that is about to be replaced.      *)
QueueBut(s, P, key) ==
    /\ \A q \in s.queue : q.key = key \/ Waits(s, q, P)
    /\ \A p, q \in s.queue : p.key = q.key => p = q

(* A queue in order is in order but for any one entry.                     *)
LEMMA QueueIsBut ==
    ASSUME NEW s, NEW P, QueueOK(s, P), NEW key
    PROVE  QueueBut(s, P, key)
BY DEF QueueOK, QueueBut

(* So it is when lines leave it.                                           *)
LEMMA ButThins ==
    ASSUME NEW s, NEW P, NEW key, QueueBut(s, P, key), NEW r, SameGround(s, r),
           r.queue \subseteq s.queue
    PROVE  QueueBut(r, P, key)
<1>1. \A q \in r.queue : q.key = key \/ Waits(r, q, P)  BY GroundStands DEF QueueBut
<1> QED  BY <1>1 DEF QueueBut

(* A queued line waits on, if its track and the via at its end are as they *)
(* were; a pending one need not end at its via.                            *)
LEMMA WaitsOn ==
    ASSUME NEW s \in Node, Stock(s), NEW P, NEW q, Waits(s, q, P), NEW r, NEW R,
           Len(s.newest) <= Len(r.newest), Len(r.newest) \in Nat,
           q.line.chain => /\ r.items[q.line.track] = s.items[q.line.track]
                           /\ \A i \in s.items[q.line.track] : s.root[i] # 0 => r.root[i] = s.root[i]
                           /\ q.line.track \in R \/
                                 (q.line.track \notin P /\
                                  \A v \in Via : v = End[q.line.track] /\ q.line.via \in s.items[v] =>
                                                 q.line.via \in r.items[v])
    PROVE  Waits(r, q, R)
<1>1. q.key \in 1..Len(r.newest) /\ q.key # 0
  <2>1. Len(s.newest) \in Nat  BY StockTypes
  <2> QED  BY <2>1 DEF Waits
<1>2. CASE q.line.chain
  <2>1. q.line.track \in Track /\ r.items[q.line.track] # {}  BY <1>2 DEF Waits
  <2>2. \A i \in r.items[q.line.track] : r.root[i] = q.key /\ i \in Links(q.line)
    BY <1>1, <1>2 DEF Waits
  <2>3. q.line.track \notin R => Fits(r, q.line)
    BY <1>2 DEF Waits, Fits
  <2> QED  BY <1>1, <1>2, <2>1, <2>2, <2>3 DEF Waits
<1>3. CASE ~q.line.chain  BY <1>1, <1>3 DEF Waits
<1> QED  BY <1>2, <1>3

(* Shove::push_line_stack                                                  *)
Pushing(s, r, l) ==
    /\ r.items = s.items /\ r.rank = s.rank /\ r.heads = s.heads /\ r.gone = s.gone
    /\ r.stack = Append(s.stack, l) /\ r.stack # <<>>
    /\ \A j : Free(s, j) /\ j \notin Links(l) => Free(r, j)
    /\ \A q \in r.queue : q \in s.queue \/ q.line = l

(* Shove::push_line_stack: a line that stands, and that no line on the     *)
(* stack shares its track with, is pushed and waits for the optimizer.     *)
LEMMA PushedGood ==
    ASSUME NEW s, Fine(s), NEW P, NEW l \in Line, Stands(s, l), Pushable(s, l),
           QueueBut(s, P, KeyOf(s, l)), NEW r, r = Pushed(s, l)
    PROVE  Good(r, P) /\ Pushing(s, r, l)
<1>1. PICK u, key : u = Touched(s, l) /\ key = KeyOf(s, l)  OBVIOUS
<1>2. Touching(s, u, l, key)  BY <1>1, TouchedIs
<1>3. /\ u \in Node /\ Stock(u) /\ u.items = s.items /\ u.rank = s.rank /\ u.heads = s.heads
      /\ u.stack = s.stack /\ u.queue = s.queue /\ u.gone = s.gone
      /\ Len(s.newest) <= Len(u.newest) /\ key \in 1..Len(u.newest)
  BY <1>2 DEF Touching
<1>4. s \in Node /\ Stock(s) /\ StackOK(s) /\ Len(u.newest) \in Nat
  BY <1>3, StockTypes DEF Fine
<1>5. PICK stack, queue, new : /\ stack = Append(s.stack, l) /\ new = [key |-> key, line |-> l]
                               /\ queue = {q \in s.queue : q.key # key} \cup {new}
  OBVIOUS
<1>6. r = [u EXCEPT !.stack = stack, !.queue = queue]  BY <1>1, <1>3, <1>5 DEF Pushed
<1>7. s.stack \in Seq(Line) /\ Len(s.stack) \in Nat /\ DOMAIN s.stack = 1..Len(s.stack)
  BY <1>4, NodeFields
<1>8. /\ stack \in Seq(Line) /\ DOMAIN stack = 1..(Len(s.stack) + 1) /\ stack # <<>>
      /\ \A k \in 1..Len(s.stack) : stack[k] = s.stack[k]
      /\ stack[Len(s.stack) + 1] = l
  <2>1. stack # <<>>  BY <1>5, <1>7
  <2> QED  BY <1>5, <1>7, <2>1, AppendType
<1>9. queue \subseteq [key : Nat, line : Line]
  <2>1. s.queue \subseteq [key : Nat, line : Line]  BY <1>4, NodeFields
  <2>2. new \in [key : Nat, line : Line]  BY <1>3, <1>4, <1>5
  <2> QED  BY <1>5, <2>1, <2>2
<1>10. /\ r \in Node /\ r.items = s.items /\ r.rank = s.rank /\ r.root = u.root
       /\ r.newest = u.newest /\ r.heads = s.heads /\ r.gone = s.gone
       /\ r.stack = stack /\ r.queue = queue
  BY <1>3, <1>6, <1>8, <1>9 DEF Node
<1>11. Stock(r)
  BY <1>3, <1>10 DEF Stock, Numbered, OneEach, Entered, Headed, Present
<1>12. \A m : Stands(s, m) => Stands(r, m)  BY <1>10 DEF Stands, Fits, Stub
<1>13. StackOK(r)
  <2>1. ASSUME NEW k \in DOMAIN stack PROVE Stands(r, stack[k])
    <3>1. CASE k \in 1..Len(s.stack)  BY <1>4, <1>7, <1>8, <1>12, <3>1 DEF StackOK
    <3>2. CASE k = Len(s.stack) + 1  BY <1>8, <1>12, <3>2
    <3> QED  BY <1>7, <1>8, <3>1, <3>2
  <2>2. ASSUME NEW k \in 1..Len(s.stack), stack[k].chain, l.chain, stack[k].track = l.track
        PROVE  FALSE
    <3>1. k \in DOMAIN s.stack /\ stack[k] = s.stack[k]  BY <1>7, <1>8
    <3>2. PICK i \in s.items[l.track] : Free(s, i)  BY <2>2 DEF Pushable
    <3>3. Fits(s, s.stack[k])  BY <1>4, <2>2, <3>1 DEF StackOK, Stands
    <3>4. PICK j \in s.items[l.track] : j \in Links(s.stack[k])
      BY <2>2, <3>1, <3>3, LinksAre DEF Fits
    <3>5. j = i
      <4>1. l.track \in Elem  BY <2>2, <3>1, <3>3 DEF Fits, Elem
      <4> QED  BY <1>4, <3>2, <3>4, <4>1 DEF Stock, OneEach
    <3> QED  BY <3>1, <3>2, <3>4, <3>5 DEF Free
  <2>3. ASSUME NEW k \in DOMAIN stack, NEW m \in DOMAIN stack, stack[k].chain, stack[m].chain,
               stack[k].track = stack[m].track
        PROVE  k = m
    <3>1. CASE k \in 1..Len(s.stack) /\ m \in 1..Len(s.stack)
      BY <1>4, <1>7, <1>8, <2>3, <3>1 DEF StackOK
    <3>2. CASE k \in 1..Len(s.stack) /\ m = Len(s.stack) + 1  BY <1>8, <2>2, <2>3, <3>2
    <3>3. CASE k = Len(s.stack) + 1 /\ m \in 1..Len(s.stack)  BY <1>8, <2>2, <2>3, <3>3
    <3> QED  BY <1>7, <1>8, <3>1, <3>2, <3>3
  <2> QED  BY <1>10, <2>1, <2>3 DEF StackOK
<1>14. QueueOK(r, P)
  <2>1. new.key = key /\ new.line = l  BY <1>5
  <2>2. Waits(r, new, P)
    <3>1. new.key \in 1..Len(r.newest)  BY <1>3, <1>10, <2>1
    <3>2. CASE l.chain
      <4>1. Fits(r, l)  BY <1>12, <3>2 DEF Stands
      <4>2. \A i \in r.items[l.track] : r.root[i] = key /\ i \in Links(l)
        BY <1>2, <1>10, <3>2 DEF Touching
      <4> QED  BY <2>1, <3>1, <3>2, <4>1, <4>2 DEF Waits, Fits
    <3>3. CASE ~l.chain  BY <2>1, <3>1, <3>3 DEF Waits, Pushable
    <3> QED  BY <3>2, <3>3
  <2>3. ASSUME NEW q \in s.queue, q.key # key PROVE Waits(r, q, P)
    <3>1. Waits(s, q, P)  BY <1>1, <2>3 DEF QueueBut
    <3>2. Len(s.newest) <= Len(r.newest) /\ Len(r.newest) \in Nat  BY <1>3, <1>4, <1>10
    <3>3. \A e \in Elem : \A j \in s.items[e] : s.root[j] # 0 => r.root[j] = s.root[j]
      BY <1>2, <1>10 DEF Touching
    <3>4. q.line.chain => q.line.track \in Elem  BY <3>1 DEF Waits, Elem
    <3>5. q.line.chain =>
            /\ \A j \in r.items[q.line.track] : r.root[j] = q.key /\ j \in Links(q.line)
            /\ Fits(s, q.line) => Fits(r, q.line)
      <4>1. q.key # 0  BY <3>1 DEF Waits
      <4>2. Fits(s, q.line) => Fits(r, q.line)  BY <1>10 DEF Fits
      <4> QED  BY <1>10, <3>1, <3>3, <3>4, <4>1, <4>2 DEF Waits
    <3>6. q.key \in 1..Len(r.newest)
      <4>1. Len(s.newest) \in Nat  BY <1>4, StockTypes
      <4> QED  BY <3>1, <3>2, <4>1 DEF Waits
    <3> QED  BY <1>10, <3>1, <3>5, <3>6 DEF Waits
  <2>4. \A q \in r.queue : Waits(r, q, P)  BY <1>5, <1>10, <2>2, <2>3
  <2>5. \A p, q \in r.queue : p.key = q.key => p = q
    BY <1>5, <1>10, <2>1 DEF QueueBut
  <2> QED  BY <2>4, <2>5 DEF QueueOK
<1>15. ASSUME NEW j, Free(s, j), j \notin Links(l) PROVE Free(r, j)
  BY <1>7, <1>8, <1>10, <1>15 DEF Free
<1>16. \A q \in r.queue : q \in s.queue \/ q.line = l  BY <1>5, <1>10
<1>17. Pushing(s, r, l)  BY <1>5, <1>8, <1>10, <1>15, <1>16 DEF Pushing
<1> QED  BY <1>10, <1>11, <1>13, <1>14, <1>17 DEF Good, Fine

(* Only the replaced line itself may wait with a shape that is gone.       *)
LEMMA QueueRenewed ==
    ASSUME NEW s \in Node, Stock(s), NEW P, QueueOK(s, P), NEW t \in Track, NEW i \in s.items[t],
           NEW r, NEW n, Renewed(s, r, t, i, n)
    PROVE  QueueBut(r, P \ {t}, r.root[n])
<1>1. /\ \A d \in Elem : d # t => r.items[d] = s.items[d]
      /\ r.queue = s.queue /\ Len(s.newest) <= Len(r.newest) /\ Len(r.newest) \in Nat
      /\ s.root[i] # 0 => r.root[n] = s.root[i]
  <2>1. r.newest \in Seq(Nat)  BY NodeFields DEF Renewed
  <2>2. s.items \in [Elem -> SUBSET Nat]  BY NodeFields
  <2> QED  BY <2>1, <2>2 DEF Renewed
<1>2. Track \subseteq Elem /\ Via \subseteq Elem /\ Track \cap Via = {}  BY Places DEF Elem
<1>3. \A d \in Elem : \A j \in s.items[d] : s.root[j] # 0 => r.root[j] = s.root[j]
  BY StockTypes DEF Renewed
<1>4. ASSUME NEW q \in s.queue, q.key # r.root[n] PROVE Waits(r, q, P \ {t})
  <2>1. Waits(s, q, P)  BY DEF QueueOK
  <2>2. ASSUME q.line.chain PROVE q.line.track \in Track \ {t}
    <3>1. q.line.track \in Track  BY <2>1, <2>2 DEF Waits
    <3>2. ASSUME q.line.track = t PROVE FALSE
      <4>1. s.root[i] = q.key  BY <2>1, <2>2, <3>2 DEF Waits
      <4>2. q.key # 0  BY <2>1 DEF Waits
      <4> QED  BY <1>1, <1>4, <4>1, <4>2
    <3> QED  BY <3>1, <3>2
  <2>3. q.line.chain =>
          /\ r.items[q.line.track] = s.items[q.line.track]
          /\ \A j \in s.items[q.line.track] : s.root[j] # 0 => r.root[j] = s.root[j]
          /\ q.line.track \in P \ {t} \/
                (q.line.track \notin P /\
                 \A v \in Via : v = End[q.line.track] /\ q.line.via \in s.items[v] =>
                                q.line.via \in r.items[v])
    BY <1>1, <1>2, <1>3, <2>2
  <2> QED  BY <1>1, <2>1, <2>3, WaitsOn
<1> QED  BY <1>1, <1>4 DEF QueueBut, QueueOK

(* A track's item made way for a new one, and no line linked it.           *)
Unstacked(s, r, P, n) ==
    /\ Fine(r) /\ QueueBut(r, P, r.root[n])
    /\ Free(r, n) /\ \A j : Free(s, j) => Free(r, j)

(* A track's item renewed that no line references leaves the stack and the *)
(* queue in order; the track is no longer to come.                         *)
LEMMA TrackRenewed ==
    ASSUME NEW s, NEW P, Good(s, P), NEW t \in Track, NEW i \in s.items[t], Free(s, i),
           NEW r, NEW n, Renewed(s, r, t, i, n), Stock(r)
    PROVE  Unstacked(s, r, P \ {t}, n)
<1>1. s \in Node /\ Stock(s) /\ Fine(s) /\ QueueOK(s, P) /\ Len(s.rank) \in Nat
  BY StockTypes DEF Good, Fine
<1>2. /\ r \in Node /\ r.items = [s.items EXCEPT ![t] = {n}] /\ r.stack = s.stack
      /\ n = Len(s.rank) + 1 /\ Len(r.rank) = n
  BY DEF Renewed
<1>3. t \in Elem  BY DEF Elem
<1>4. n \notin 1..Len(s.rank) /\ n # 0 /\ Len(s.rank) <= Len(r.rank) /\ Len(r.rank) \in Nat
  BY <1>1, <1>2
<1>5. StackOK(r)
  <2>1. PICK x : x = {n}  OBVIOUS
  <2>2. \A m \in x : m \notin 1..Len(s.rank) /\ m # 0  BY <1>4, <2>1
  <2>3. r.items = [s.items EXCEPT ![t] = x] /\ r.stack = s.stack  BY <1>2, <2>1
  <2> QED  BY <1>1, <1>3, <1>4, <2>2, <2>3, StackStays
<1>6. QueueBut(r, P \ {t}, r.root[n])  BY <1>1, QueueRenewed
<1>7. Free(s, n)  BY <1>1, <1>4, FreshFree
<1> QED  BY <1>2, <1>5, <1>6, <1>7 DEF Fine, Free, Unstacked

(* A line of one link, without a via at its end.                           *)
IsBare(s, l, t, i) ==
    /\ l \in Line /\ l.links = <<i>> /\ l.chain /\ l.track = t /\ l.via = NoVia
    /\ l.net = Net[t] /\ i \in s.items[t]

(* A line of one link, the item its track shows, stands.                   *)
LEMMA BareLine ==
    ASSUME NEW s, Fine(s), NEW t \in Track, NEW i, NEW l, IsBare(s, l, t, i)
    PROVE  Stands(s, l) /\ (Free(s, i) => Pushable(s, l)) /\ Links(l) = {i}
<1>1. s \in Node /\ Stock(s) /\ Len(s.rank) \in Nat  BY StockTypes DEF Fine
<1>2. Fits(s, l)  BY DEF Fits, IsBare
<1>3. l.via <= Len(s.rank)  BY <1>1 DEF NoVia, IsBare
<1>4. \A v \in Via : 0 \notin s.items[v]
  <2>1. \A v \in Via : \A j \in s.items[v] : j \in 1..Len(s.rank)
    BY <1>1 DEF Stock, Numbered, Elem
  <2> QED  BY <1>1, <2>1
<1>5. Stands(s, l)  BY <1>2, <1>3, <1>4 DEF Stands, NoVia, IsBare
<1>6. Free(s, i) => Pushable(s, l)  BY DEF Pushable, IsBare
<1>7. Links(l) = {i}  BY LinksAre DEF IsBare
<1> QED  BY <1>5, <1>6, <1>7

(* ShoveEffect::ReplaceLine for a line that is on the stack no longer: the *)
(* new line is stacked and queued in its place.                            *)
OnTop(s, r, t, i, n) ==
    /\ r.items = [s.items EXCEPT ![t] = {n}] /\ n = Len(s.rank) + 1
    /\ r.heads = s.heads /\ r.gone = s.gone /\ r.stack # <<>>
    /\ \A j : j # n /\ Free(s, j) => Free(r, j)

(* apply_effects, replaced and pushed: the line is on the stack, with its  *)
(* new item, and all is in order.                                          *)
LEMMA OnTopGood ==
    ASSUME NEW s, NEW P, Good(s, P), NEW t \in Track, NEW i \in s.items[t], Free(s, i),
           NEW old \in Line, OldLinks(s, old) = <<i>>,
           NEW new \in Line, new.links = <<>>, new.track = t, new.chain, new.via = NoVia,
           new.net = Net[t], NEW rank \in Int, NEW r, r = ReplacedOnTop(s, old, new, rank),
           NEW n, n = Len(s.rank) + 1
    PROVE  Good(r, P \ {t}) /\ OnTop(s, r, t, i, n)
<1>1. s \in Node /\ Stock(s) /\ Len(s.rank) \in Nat  BY StockTypes DEF Good, Fine
<1>2. PICK u : u = Replaced(s, old, new, rank)  OBVIOUS
<1>3. Renewed(s, u, t, i, n) /\ Stock(u)  BY <1>1, <1>2, ReplacedStock
<1>4. /\ Fine(u) /\ QueueBut(u, P \ {t}, u.root[n])
      /\ Free(u, n) /\ \A j : Free(s, j) => Free(u, j)
  <2>1. Unstacked(s, u, P \ {t}, n)  BY <1>3, TrackRenewed
  <2> QED  BY <2>1 DEF Unstacked
<1>5. PICK l : l = Linked(s, new, rank)  OBVIOUS
<1>6. l = [new EXCEPT !.links = <<n>>, !.rank = rank]  BY <1>5 DEF Linked
<1>7. /\ l \in Line /\ l.links = <<n>> /\ l.chain /\ l.track = t /\ l.via = NoVia
      /\ l.net = Net[t]
  <2>1. PICK links : links = <<n>>  OBVIOUS
  <2>2. links \in Seq(Nat)  BY <1>1, <2>1
  <2>3. l = [new EXCEPT !.links = links, !.rank = rank]  BY <1>6, <2>1
  <2> QED  BY <2>1, <2>2, <2>3 DEF Line
<1>8. /\ u.items = [s.items EXCEPT ![t] = {n}] /\ u.heads = s.heads /\ u.gone = s.gone
      /\ u.root[n] # 0 /\ Len(u.rank) = n /\ u.stack = s.stack
  BY <1>3 DEF Renewed
<1>9. t \in Elem /\ u.items[t] = {n}
  <2>1. s.items \in [Elem -> SUBSET Nat]  BY <1>1, NodeFields
  <2> QED  BY <1>8, <2>1 DEF Elem
<1>10. KeyOf(u, l) = u.root[n]
  <2>1. Numbered(u) /\ OneEach(u) /\ n \in u.items[t]  BY <1>3, <1>9 DEF Stock
  <2>2. t \in Elem /\ u.root[n] # 0 /\ l.links = <<n>>  BY <1>7, <1>8, <1>9
  <2>3. InArena(u, n)  BY <2>1, <2>2, ShownIs
  <2>4. RootOf(u, l) = u.root[n]  BY <2>2, <2>3, RootIs
  <2> QED  BY <2>2, <2>4 DEF KeyOf
<1>11. IsBare(u, l, t, n)  BY <1>7, <1>9 DEF IsBare
<1>12. Stands(u, l) /\ Pushable(u, l) /\ Links(l) = {n}  BY <1>4, <1>11, BareLine
<1>13. r = Pushed(u, l)  BY <1>2, <1>5 DEF ReplacedOnTop
<1>14. Good(r, P \ {t}) /\ Pushing(u, r, l)  BY <1>4, <1>7, <1>10, <1>12, <1>13, PushedGood
<1>15. \A j : j # n /\ Free(s, j) => Free(r, j)  BY <1>4, <1>12, <1>14 DEF Pushing
<1> QED  BY <1>8, <1>14, <1>15 DEF OnTop, Pushing
----------------------------------------------------------------------------
(* ShoveEffect::MoveVia up to the tracks: the via is stored anew.          *)
StoresVia(s, v, i, rank, held, stored, r, n) ==
    /\ i \in s.items[v] /\ rank \in Int /\ held.links = <<i>> /\ n = Len(s.rank) + 1
    /\ stored = Stored(Without(Touched(s, held), {i}), v, rank)
    /\ r = Bound(stored, {n}, KeyOf(s, held))

(* A via moved, that is stored anew: the stock stays in order.             *)
LEMMA ViaStored ==
    ASSUME NEW s \in Node, Stock(s), NEW v \in Via, NEW i, NEW rank, NEW held, NEW stored,
           NEW r, NEW n, StoresVia(s, v, i, rank, held, stored, r, n)
    PROVE  Renewed(s, r, v, i, n) /\ Stock(r) /\ Len(stored.rank) = n
<1>0. /\ i \in s.items[v] /\ rank \in Int /\ held.links = <<i>> /\ n = Len(s.rank) + 1
      /\ stored = Stored(Without(Touched(s, held), {i}), v, rank)
      /\ r = Bound(stored, {n}, KeyOf(s, held))
  BY DEF StoresVia
<1>1. v \in Elem /\ v \notin Track  BY Places DEF Elem
<1>2. PICK u, key : u = Touched(s, held) /\ key = KeyOf(s, held)  OBVIOUS
<1>3. /\ SameBut(s, u, i) /\ Stock(u) /\ u.root[i] = key /\ key \in 1..Len(u.newest)
      /\ s.root[i] # 0 => key = s.root[i]
  BY <1>0, <1>1, <1>2, TouchedStock
<1>4. /\ u \in Node /\ u.items = s.items /\ u.rank = s.rank /\ u.heads = s.heads
      /\ u.stack = s.stack /\ u.queue = s.queue /\ u.gone = s.gone
      /\ Len(s.newest) <= Len(u.newest)
      /\ \A j \in 1..Len(s.root) : j # i \/ s.root[i] # 0 => u.root[j] = s.root[j]
  BY <1>3 DEF SameBut
<1>5. Len(u.newest) \in Nat /\ key \in Nat /\ key # 0 /\ Len(s.root) = Len(s.rank)
  <2>1. Len(u.newest) \in Nat  BY <1>3, <1>4, StockTypes
  <2> QED  BY <1>3, <2>1, StockTypes
<1>6. Swapped(u, v, key, n, stored, r)
  <2>1. i \in u.items[v] /\ n = Len(u.rank) + 1  BY <1>0, <1>4
  <2>2. stored = Stored(Without(u, {i}), v, rank) /\ r = Bound(stored, {n}, key)  BY <1>0, <1>2
  <2> QED  BY <1>0, <1>1, <1>3, <1>4, <1>5, <2>1, <2>2, SwappedIs
<1>7. /\ Len(stored.rank) = n
      /\ r \in Node /\ r.items = [u.items EXCEPT ![v] = {n}]
      /\ Len(r.rank) = n /\ Len(r.root) = n /\ r.root[n] = key
      /\ r.heads = u.heads /\ r.stack = u.stack /\ r.queue = u.queue
      /\ r.gone = u.gone /\ r.newest = u.newest
      /\ \A j \in 1..Len(u.rank) : r.root[j] = u.root[j]
  BY <1>6 DEF Swapped
<1>8. Renewed(s, r, v, i, n)
  <2>1. Len(s.newest) <= Len(r.newest) /\ r.root[n] \in 1..Len(r.newest)
    BY <1>3, <1>4, <1>7
  <2>2. \A j \in 1..Len(s.rank) : j # i \/ s.root[i] # 0 => r.root[j] = s.root[j]
    BY <1>4, <1>5, <1>7
  <2> QED  BY <1>0, <1>3, <1>4, <1>7, <2>1, <2>2 DEF Renewed
<1>9. Renewed(u, r, v, i, n)
  <2>1. Len(u.newest) <= Len(r.newest)  BY <1>5, <1>7
  <2>2. r.root[n] \in 1..Len(r.newest) /\ r.root[n] = u.root[i]  BY <1>3, <1>7
  <2>3. n = Len(u.rank) + 1  BY <1>0, <1>4
  <2> QED  BY <1>7, <2>1, <2>2, <2>3 DEF Renewed
<1>10. Stock(r)
  <2>1. u.root[i] # 0 /\ Len(r.newest) = Len(u.newest) /\ r.newest = u.newest
    BY <1>3, <1>5, <1>7
  <2>2. i \in u.items[v]  BY <1>0, <1>4
  <2> QED  BY <1>1, <1>3, <1>4, <1>9, <2>1, <2>2, StockRenewed
<1> QED  BY <1>7, <1>8, <1>10

(* The tracks of a stored via are still to follow it; no line links the    *)
(* old item nor, yet, the new one.                                         *)
ViaAnew(s, r, v, n) ==
    /\ Good(r, Attached(r, v)) /\ Attached(r, v) = Attached(s, v)
    /\ r.items = [s.items EXCEPT ![v] = {n}]
    /\ r.heads = s.heads /\ r.gone = s.gone /\ r.stack = s.stack /\ r.queue = s.queue
    /\ Len(r.rank) = n /\ n = Len(s.rank) + 1

(* A via's item renewed leaves the stack and the queue in order, but for   *)
(* the tracks that end on the via, whose turn is to come.                  *)
LEMMA ViaRenewed ==
    ASSUME NEW s, Good(s, {}), NEW v \in Via, NEW i \in s.items[v], Free(s, i),
           NEW r, NEW n, Renewed(s, r, v, i, n), Stock(r)
    PROVE  ViaAnew(s, r, v, n)
<1>1. s \in Node /\ Stock(s) /\ Fine(s) /\ QueueOK(s, {}) /\ Len(s.rank) \in Nat
  BY StockTypes DEF Good, Fine
<1>2. /\ r \in Node /\ r.items = [s.items EXCEPT ![v] = {n}] /\ r.stack = s.stack
      /\ n = Len(s.rank) + 1 /\ Len(r.rank) = n /\ r.queue = s.queue
      /\ r.heads = s.heads /\ r.gone = s.gone /\ Len(s.newest) <= Len(r.newest)
  BY DEF Renewed
<1>3. v \in Elem /\ Track \subseteq Elem /\ Via \subseteq Elem /\ v \notin Track
  BY Places DEF Elem
<1>4. /\ \A d \in Elem : d # v => r.items[d] = s.items[d]
      /\ r.items[v] = {n}
  <2>1. s.items \in [Elem -> SUBSET Nat]  BY <1>1, NodeFields
  <2> QED  BY <1>2, <1>3, <2>1
<1>5. n \notin 1..Len(s.rank) /\ n # 0 /\ Len(s.rank) <= Len(r.rank) /\ Len(r.rank) \in Nat
  BY <1>1, <1>2
<1>6. StackOK(r)
  <2>1. PICK x : x = {n}  OBVIOUS
  <2>2. \A m \in x : m \notin 1..Len(s.rank) /\ m # 0  BY <1>5, <2>1
  <2>3. r.items = [s.items EXCEPT ![v] = x] /\ r.stack = s.stack  BY <1>2, <2>1
  <2> QED  BY <1>1, <1>3, <1>5, <2>2, <2>3, StackStays
<1>7. Attached(r, v) = Attached(s, v)  BY <1>3, <1>4 DEF Attached
<1>8. ASSUME NEW q \in s.queue PROVE Waits(r, q, Attached(s, v))
  <2>1. Waits(s, q, {})  BY <1>1 DEF QueueOK
  <2>2. \A d \in Elem : \A j \in s.items[d] : s.root[j] # 0 => r.root[j] = s.root[j]
    BY <1>1, StockTypes DEF Renewed
  <2>3. q.line.chain =>
          /\ r.items[q.line.track] = s.items[q.line.track]
          /\ \A j \in s.items[q.line.track] : s.root[j] # 0 => r.root[j] = s.root[j]
          /\ q.line.track \in Attached(s, v) \/
                (q.line.track \notin {} /\
                 \A w \in Via : w = End[q.line.track] /\ q.line.via \in s.items[w] =>
                                q.line.via \in r.items[w])
    <3>1. SUFFICES ASSUME q.line.chain
                   PROVE  /\ r.items[q.line.track] = s.items[q.line.track]
                          /\ \A j \in s.items[q.line.track] : s.root[j] # 0 => r.root[j] = s.root[j]
                          /\ q.line.track \in Attached(s, v) \/
                             \A w \in Via : w = End[q.line.track] /\ q.line.via \in s.items[w] =>
                                            q.line.via \in r.items[w]
      OBVIOUS
    <3>2. q.line.track \in Track /\ s.items[q.line.track] # {}  BY <2>1, <3>1 DEF Waits
    <3>3. CASE End[q.line.track] = v
      <4>1. q.line.track \in Attached(s, v)  BY <3>2, <3>3 DEF Attached
      <4> QED  BY <1>3, <1>4, <2>2, <3>2, <4>1
    <3>4. CASE End[q.line.track] # v  BY <1>3, <1>4, <2>2, <3>2, <3>4
    <3> QED  BY <3>3, <3>4
  <2>4. Len(r.newest) \in Nat  BY <1>2, StockTypes
  <2>5. PICK none, rest : none = {} /\ rest = Attached(s, v)  OBVIOUS
  <2>6. Waits(s, q, none) /\ Len(s.newest) <= Len(r.newest)  BY <1>2, <2>1, <2>5
  <2>7. q.line.chain =>
          /\ r.items[q.line.track] = s.items[q.line.track]
          /\ \A j \in s.items[q.line.track] : s.root[j] # 0 => r.root[j] = s.root[j]
          /\ q.line.track \in rest \/
                (q.line.track \notin none /\
                 \A w \in Via : w = End[q.line.track] /\ q.line.via \in s.items[w] =>
                                q.line.via \in r.items[w])
    BY <2>3, <2>5
  <2>8. Waits(r, q, rest)  BY <1>1, <2>4, <2>6, <2>7, WaitsOn
  <2> QED  BY <2>5, <2>8
<1>9. QueueOK(r, Attached(r, v))  BY <1>1, <1>2, <1>7, <1>8 DEF QueueOK
<1> QED  BY <1>2, <1>6, <1>7, <1>9 DEF ViaAnew, Good, Fine
----------------------------------------------------------------------------
(* Line::new                                                               *)
LEMMA NewLineIs ==
    ASSUME NEW t \in Track
    PROVE  /\ NewLine(t) \in Line /\ NewLine(t).links = <<>> /\ NewLine(t).track = t
           /\ NewLine(t).chain /\ NewLine(t).via = NoVia /\ NewLine(t).net = Net[t]
<1>1. t \in Elem /\ Net[t] \in Nets  BY DEF Nets, Elem
<1>2. PICK none : none = <<>>  OBVIOUS
<1>3. none \in Seq(Nat) /\ NoVia \in Nat /\ Unranked \in Int  BY <1>2 DEF NoVia, Unranked
<1>4. NewLine(t) = [track |-> t, net |-> Net[t], chain |-> TRUE, via |-> NoVia,
                    links |-> none, rank |-> Unranked]
  BY <1>2 DEF NewLine
<1> QED  BY <1>1, <1>2, <1>3, <1>4 DEF Line

(* World::assemble_line of a track's item.                                 *)
LEMMA AssembledIs ==
    ASSUME NEW t \in Track, NEW i \in Nat
    PROVE  /\ Assembled(t, i) \in Line /\ Assembled(t, i).links = <<i>>
           /\ Assembled(t, i).track = t /\ Assembled(t, i).chain
           /\ Assembled(t, i).via = NoVia /\ Assembled(t, i).net = Net[t]
           /\ \A s : OldLinks(s, Assembled(t, i)) = <<i>>
<1>1. PICK l, links : l = NewLine(t) /\ links = <<i>>  OBVIOUS
<1>2. l \in Line /\ l.track = t /\ l.chain /\ l.via = NoVia /\ l.net = Net[t]
  BY <1>1, NewLineIs
<1>3. links \in Seq(Nat)  BY <1>1
<1>4. Assembled(t, i) = [l EXCEPT !.links = links]  BY <1>1 DEF Assembled
<1>5. /\ Assembled(t, i) \in Line /\ Assembled(t, i).links = links
      /\ Assembled(t, i).track = t /\ Assembled(t, i).chain
      /\ Assembled(t, i).via = NoVia /\ Assembled(t, i).net = Net[t]
  BY <1>2, <1>3, <1>4 DEF Line
<1> QED  BY <1>1, <1>5 DEF OldLinks

(* Neither the stack nor the queue refers to the track.                    *)
FreeOf(s, t) == \A i \in s.items[t] : Free(s, i)
Clear(s, t) == FreeOf(s, t) /\ \A q \in s.queue : q.line.chain => q.line.track # t

(* A track that is clear stays clear when the stack and the queue thin.    *)
LEMMA ThinnerClear ==
    ASSUME NEW s, NEW r, Thinner(s, r), NEW t
    PROVE  (Clear(s, t) => Clear(r, t)) /\ (FreeOf(s, t) => FreeOf(r, t))
BY DEF Thinner, SameGround, Clear, FreeOf

(* A thinner stack and queue are in order.                                 *)
LEMMA ThinnerGood ==
    ASSUME NEW s, NEW P, Good(s, P), NEW r, Fine(r), Thinner(s, r)
    PROVE  Good(r, P)
BY QueueThins DEF Good, Thinner

(* A track is unwound before it follows its via.                           *)
LEMMA UnwoundClear ==
    ASSUME NEW s, NEW P, Good(s, P), NEW t \in Track, NEW i \in s.items[t],
           NEW r, r = Unwound(s, i)
    PROVE  Good(r, P) /\ Thinner(s, r) /\ Clear(r, t)
<1>1. s \in Node /\ Stock(s) /\ Fine(s)  BY DEF Good, Fine
<1>2. Unwinding(s, r, i)  BY <1>1, UnwoundFine
<1>3. Fine(r) /\ Thinner(s, r) /\ Free(r, i)  BY <1>2 DEF Unwinding
<1>4. t \in Elem /\ t \notin Via  BY Places DEF Elem
<1>5. Good(r, P)  BY <1>3, ThinnerGood
<1>6. \A j \in s.items[t] : j = i  BY <1>1, <1>4 DEF Stock, OneEach
<1>7. r.items = s.items  BY <1>3 DEF Thinner, SameGround
<1>8. ~IsVia(s, i)  BY <1>1, <1>4, ShownIs DEF Stock
<1>9. \A q \in r.queue : i \notin Links(q.line)  BY <1>2, <1>8 DEF Unwinding
<1>10. \A q \in r.queue : q.line.chain => q.line.track # t
  BY <1>5, <1>7, <1>9 DEF Good, QueueOK, Waits
<1> QED  BY <1>3, <1>5, <1>6, <1>7, <1>10 DEF Clear, FreeOf

(* A collapsed track goes: nothing refers to it.                           *)
Dropped(s, t) == [s EXCEPT !.items[t] = {}, !.gone = @ \cup {t}]

(* Track t is taken off the branch, and nothing else changes.              *)
Collapsing(s, r, t) ==
    /\ r.items = [s.items EXCEPT ![t] = {}]
    /\ r.stack = s.stack /\ r.queue = s.queue /\ r.heads = s.heads

(* A track the via's move collapsed, if it is clear, goes and leaves all   *)
(* in order.                                                               *)
LEMMA CollapsedGood ==
    ASSUME NEW s, NEW P, Good(s, P), NEW t \in Track, NEW i \in s.items[t], Clear(s, t),
           NEW r, r = Dropped(s, t)
    PROVE  Good(r, P \ {t}) /\ Collapsing(s, r, t)
<1>1. s \in Node /\ Stock(s) /\ Fine(s) /\ QueueOK(s, P) /\ Len(s.rank) \in Nat
  BY StockTypes DEF Good, Fine
<1>2. PICK items : items = [s.items EXCEPT ![t] = {}]  OBVIOUS
<1>3. s.items \in [Elem -> SUBSET Nat] /\ t \in Elem  BY <1>1, NodeFields DEF Elem
<1>4. /\ items \in [Elem -> SUBSET Nat] /\ items[t] = {}
      /\ \A d \in Elem : d # t => items[d] = s.items[d]
  BY <1>2, <1>3
<1>5. /\ r \in Node /\ r.items = items /\ r.rank = s.rank /\ r.root = s.root
      /\ r.newest = s.newest /\ r.heads = s.heads /\ r.stack = s.stack
      /\ r.queue = s.queue /\ r.gone = s.gone \cup {t}
  BY <1>1, <1>2, <1>4 DEF Node, Dropped
<1>6. \A d \in Elem : r.items[d] \subseteq s.items[d]  BY <1>4, <1>5
<1>7. Numbered(r) /\ OneEach(r)  BY <1>1, <1>5, <1>6 DEF Stock, Numbered, OneEach
<1>8. Entered(r)  BY <1>1, <1>5, <1>6 DEF Stock, Entered, Elem
<1>9. HeadTrack \subseteq Elem /\ HeadVias \subseteq Elem  BY Places DEF Elem
<1>10. Headed(r)  BY <1>1, <1>5, <1>6, <1>9 DEF Stock, Headed
<1>11. Present(r)
  <2>1. t \in HeadTrack => t \in DOMAIN s.heads  BY <1>1 DEF Stock, Headed
  <2>2. s.gone \subseteq Elem  BY <1>1, NodeFields DEF Elem
  <2>3. \A e \in r.gone : r.items[e] = {} /\ (e \in HeadTrack => e \in DOMAIN r.heads)
    BY <1>1, <1>4, <1>5, <2>1, <2>2 DEF Stock, Present
  <2>4. \A e \in Elem \ (HeadTrack \cup HeadVias \cup r.gone) : r.items[e] # {}
    BY <1>1, <1>4, <1>5 DEF Stock, Present
  <2>5. \A h \in DOMAIN r.heads : r.heads[h] # 0 /\ h \notin r.gone => r.items[h] # {}
    <3>1. DOMAIN s.heads \subseteq Elem
      <4>1. DOMAIN s.heads = 1..Len(s.heads) /\ Len(s.heads) <= NHeads /\ Len(s.heads) \in Nat
        BY <1>1, StockTypes DEF Stock, Headed
      <4> QED  BY <1>9, <4>1, Places DEF HeadTrack
    <3> QED  BY <1>1, <1>4, <1>5, <3>1 DEF Stock, Present
  <2> QED  BY <2>3, <2>4, <2>5 DEF Present
<1>12. StackOK(r)
  <2>1. Free(s, i)  BY DEF Clear, FreeOf
  <2>2. PICK x : x = {}  OBVIOUS
  <2>3. \A n \in x : n \notin 1..Len(s.rank) /\ n # 0  BY <2>2
  <2>4. /\ r.items = [s.items EXCEPT ![t] = x] /\ r.stack = s.stack
        /\ Len(s.rank) <= Len(r.rank) /\ Len(r.rank) \in Nat
    BY <1>1, <1>2, <1>5, <2>2
  <2> QED  BY <1>1, <1>3, <2>1, <2>3, <2>4, StackStays
<1>13. ASSUME NEW q \in s.queue PROVE Waits(r, q, P \ {t})
  <2>1. Waits(s, q, P)  BY <1>1 DEF QueueOK
  <2>2. Track \subseteq Elem /\ Via \subseteq Elem /\ t \notin Via  BY Places DEF Elem
  <2>3. q.line.chain => q.line.track \in Track /\ q.line.track # t  BY <2>1 DEF Waits, Clear
  <2>4. q.line.chain =>
          /\ r.items[q.line.track] = s.items[q.line.track]
          /\ \A j \in s.items[q.line.track] : s.root[j] # 0 => r.root[j] = s.root[j]
          /\ q.line.track \in P \ {t} \/
                (q.line.track \notin P /\
                 \A w \in Via : w = End[q.line.track] /\ q.line.via \in s.items[w] =>
                                q.line.via \in r.items[w])
    BY <1>4, <1>5, <2>2, <2>3
  <2>5. Len(s.newest) <= Len(r.newest) /\ Len(r.newest) \in Nat  BY <1>1, <1>5, StockTypes
  <2> QED  BY <1>1, <2>1, <2>4, <2>5, WaitsOn
<1>14. QueueOK(r, P \ {t})  BY <1>1, <1>5, <1>13 DEF QueueOK
<1> QED  BY <1>2, <1>5, <1>7, <1>8, <1>10, <1>11, <1>12, <1>14 DEF Good, Fine, Stock, Collapsing

(* What following its via changes: the one track.                          *)
Following(s, r, t) ==
    /\ r.heads = s.heads
    /\ \A d \in Elem : d # t => r.items[d] = s.items[d]
    /\ \A u \in Track : u # t => (Clear(s, u) => Clear(r, u)) /\ (FreeOf(s, u) => FreeOf(r, u))

(* A second element after one.                                             *)
LEMMA AppendTwo ==
    ASSUME NEW a, NEW b
    PROVE  Append(<<a>>, b) = <<a, b>>
<1>1. PICK f, g, h : f = <<a>> /\ g = <<a, b>> /\ h = Append(f, b)  OBVIOUS
<1>2. f \in Seq({a, b}) /\ Len(f) = 1 /\ f[1] = a  BY <1>1
<1>3. g \in Seq({a, b}) /\ Len(g) = 2 /\ g[1] = a /\ g[2] = b  BY <1>1
<1>4. h \in Seq({a, b}) /\ Len(h) = 2 /\ h[1] = a /\ h[2] = b  BY <1>1, <1>2, AppendProperties
<1>5. \A k \in 1 .. 2 : k = 1 \/ k = 2  OBVIOUS
<1>6. g = h  BY <1>3, <1>4, <1>5, SeqEqual
<1> QED  BY <1>1, <1>6

(* A track that follows the via is replaced and on the stack again.        *)
LEMMA DraggedGood ==
    ASSUME NEW s, NEW P, Good(s, P), NEW v \in Via, NEW item, s.items[v] = {item},
           NEW t \in Track, NEW i, s.items[t] = {i}, Free(s, i), End[t] = v, NEW rank \in Int, NEW unwinds,
           NEW r, r = Dragged(s, t, item, rank, unwinds)
    PROVE  Good(r, P \ {t}) /\ Following(s, r, t)
<1>1. s \in Node /\ Stock(s) /\ Len(s.rank) \in Nat  BY StockTypes DEF Good, Fine
<1>2. t \in Elem /\ v \in Elem /\ t # v /\ v # 0 /\ Via \subseteq Elem /\ Track \subseteq Elem
      /\ Track \cap Via = {}
  BY Places DEF Elem
<1>3. /\ i \in 1..Len(s.rank) /\ item \in 1..Len(s.rank) /\ i \in Nat /\ i \in s.items[t]
      /\ item # NoVia
  <2>1. \A d \in Elem : \A j \in s.items[d] : j \in 1..Len(s.rank)  BY <1>1, StockTypes
  <2>2. i \in s.items[t] /\ item \in s.items[v]  OBVIOUS
  <2>3. i \in 1..Len(s.rank) /\ item \in 1..Len(s.rank)  BY <1>2, <2>1, <2>2
  <2> QED  BY <1>1, <2>2, <2>3 DEF NoVia
<1>4. Min(s.items[t]) = i
  <2>1. s.items[t] \in SUBSET Nat /\ s.items[t] # {}  BY <1>1, <1>2, NodeFields
  <2>2. Min(s.items[t]) \in s.items[t]  BY <2>1, LeastOf
  <2> QED  BY <2>2
<1>5. PICK n : n = Len(s.rank) + 1  OBVIOUS
<1>6. PICK old, new : old = Assembled(t, i) /\ new = NewLine(t)  OBVIOUS
<1>7. /\ old \in Line /\ OldLinks(s, old) = <<i>>
      /\ new \in Line /\ new.links = <<>> /\ new.track = t /\ new.chain /\ new.net = Net[t]
  BY <1>3, <1>6, AssembledIs, NewLineIs
<1>8. PICK u : u = Replaced(s, old, new, rank)  OBVIOUS
<1>9. Renewed(s, u, t, i, n) /\ Stock(u)  BY <1>1, <1>3, <1>5, <1>7, <1>8, ReplacedStock
<1>10. /\ Fine(u) /\ QueueBut(u, P \ {t}, u.root[n])
       /\ Free(u, n) /\ \A j : Free(s, j) => Free(u, j)
  <2>1. Unstacked(s, u, P \ {t}, n)  BY <1>3, <1>9, TrackRenewed
  <2> QED  BY <2>1 DEF Unstacked
<1>11. PICK after : after = [new EXCEPT !.links = <<n, item>>, !.rank = rank, !.via = item]
  OBVIOUS
<1>12. after = [Linked(s, NewLine(t), rank) EXCEPT !.via = item, !.links = Append(@, item)]
  <2>1. PICK a : a = Linked(s, new, rank)  OBVIOUS
  <2>2. a = [new EXCEPT !.links = <<n>>, !.rank = rank]  BY <1>5, <1>7, <2>1 DEF Linked
  <2>3. a.links = <<n>>  BY <1>7, <2>2 DEF Line
  <2>4. Append(a.links, item) = <<n, item>>  BY <2>3, AppendTwo
  <2>5. [a EXCEPT !.via = item, !.links = Append(@, item)] = after
    BY <1>7, <1>11, <2>2, <2>4 DEF Line
  <2> QED  BY <1>6, <2>1, <2>5
<1>13. /\ after \in Line /\ after.links = <<n, item>> /\ after.chain /\ after.track = t
       /\ after.via = item /\ after.net = Net[t]
  <2>1. PICK links : links = <<n, item>>  OBVIOUS
  <2>2. n \in Nat /\ item \in Nat  BY <1>1, <1>3, <1>5
  <2>3. links \in Seq(Nat)  BY <2>1, <2>2
  <2>4. after = [new EXCEPT !.links = links, !.rank = rank, !.via = item]  BY <1>11, <2>1
  <2> QED  BY <1>7, <2>1, <2>2, <2>3, <2>4 DEF Line
<1>14. PICK x : x = IF unwinds THEN UnwoundAll(u, after.links) ELSE u  OBVIOUS
<1>15. Fine(x) /\ Thinner(u, x)
  <2>1. CASE unwinds
    <3>1. PICK y : y = Unwound(u, n)  OBVIOUS
    <3>2. Fine(y) /\ Thinner(u, y)  BY <1>10, <3>1, UnwoundFine DEF Unwinding
    <3>3. x = Unwound(y, item)  BY <1>13, <1>14, <2>1, <3>1, UnwoundAllTwo
    <3>4. Fine(x) /\ Thinner(y, x)  BY <3>2, <3>3, UnwoundFine DEF Unwinding
    <3> QED  BY <3>2, <3>4, ThinnerTwice
  <2>2. CASE ~unwinds
    <3>1. x = u  BY <1>14, <2>2
    <3> QED  BY <1>10, <3>1 DEF Thinner, SameGround, Fine
  <2> QED  BY <2>1, <2>2
<1>16. r = Pushed(x, after)  BY <1>4, <1>6, <1>8, <1>12, <1>14 DEF Dragged
<1>17. /\ x.items = u.items /\ x.rank = u.rank /\ x.root = u.root /\ x.heads = u.heads
       /\ x.queue \subseteq u.queue /\ SameGround(u, x)
  BY <1>15 DEF Thinner, SameGround
<1>18. /\ u.items[t] = {n} /\ \A d \in Elem : d # t => u.items[d] = s.items[d]
       /\ u.root[n] # 0 /\ Len(u.rank) = n /\ u.heads = s.heads /\ u.queue = s.queue
  <2>1. s.items \in [Elem -> SUBSET Nat]  BY <1>1, NodeFields
  <2> QED  BY <1>2, <1>9, <2>1 DEF Renewed
<1>19. Stands(x, after)
  <2>1. item \in x.items[v]  BY <1>2, <1>17, <1>18
  <2>2. Fits(x, after)  BY <1>3, <1>13, <1>17, <1>18, <2>1 DEF Fits
  <2>3. after.via <= Len(x.rank)  BY <1>1, <1>3, <1>5, <1>13, <1>17, <1>18
  <2>4. ASSUME NEW w \in Via, after.via \in x.items[w] PROVE Net[w] = after.net
    <3>1. w = v
      <4>1. OneEach(x)  BY <1>15 DEF Fine, Stock
      <4> QED  BY <1>2, <1>13, <2>1, <2>4, <4>1 DEF OneEach
    <3>2. Net[End[t]] = Net[t]  BY <1>2, AssumeTopology DEF NoVia
    <3> QED  BY <1>13, <3>1, <3>2
  <2> QED  BY <1>13, <2>2, <2>3, <2>4 DEF Stands
<1>20. Pushable(x, after)
  <2>1. n \in x.items[t] /\ Free(x, n) /\ x.root[n] # 0
    BY <1>10, <1>15, <1>17, <1>18 DEF Thinner
  <2> QED  BY <1>13, <2>1 DEF Pushable
<1>21. QueueBut(x, P \ {t}, KeyOf(x, after))
  <2>1. InArena(x, n)  BY <1>2, <1>15, <1>17, <1>18, ShownIs DEF Fine, Stock
  <2>a. after.links = <<n, item>> /\ x.root[n] # 0  BY <1>13, <1>17, <1>18
  <2>2. RootOf(x, after) = x.root[n]  BY <2>1, <2>a, RootIs
  <2>3. KeyOf(x, after) = u.root[n]  BY <1>17, <1>18, <2>2 DEF KeyOf
  <2> QED  BY <1>10, <1>17, <2>3, ButThins
<1>22. Good(r, P \ {t}) /\ Pushing(x, r, after)
  BY <1>13, <1>15, <1>16, <1>19, <1>20, <1>21, PushedGood
<1>23. /\ r.items = x.items /\ r.heads = x.heads
       /\ \A j : Free(x, j) /\ j \notin Links(after) => Free(r, j)
       /\ \A q \in r.queue : q \in x.queue \/ q.line = after
  BY <1>22 DEF Pushing
<1>24. ASSUME NEW w \in Track, w # t, FreeOf(s, w) PROVE FreeOf(r, w)
  <2>1. r.items[w] = s.items[w]  BY <1>2, <1>17, <1>18, <1>23, <1>24
  <2>2. ASSUME NEW j \in s.items[w] PROVE Free(r, j)
    <3>1. Free(x, j)  BY <1>10, <1>15, <1>24 DEF FreeOf, Thinner
    <3>2. j # n  BY <1>1, <1>2, <1>5, StockTypes
    <3>3. j # item  BY <1>1, <1>2 DEF Stock, OneEach
    <3>4. Links(after) = {n, item}  BY <1>13, LinksAre
    <3> QED  BY <1>23, <3>1, <3>2, <3>3, <3>4
  <2> QED  BY <2>1, <2>2 DEF FreeOf
<1>25. ASSUME NEW w \in Track, w # t, Clear(s, w) PROVE Clear(r, w)
  <2>1. FreeOf(r, w)  BY <1>24, <1>25 DEF Clear
  <2>2. \A q \in r.queue : q.line.chain => q.line.track # w
    BY <1>13, <1>17, <1>18, <1>23, <1>25 DEF Clear
  <2> QED  BY <2>1, <2>2 DEF Clear
<1> QED  BY <1>17, <1>18, <1>22, <1>23, <1>24, <1>25 DEF Following

(* One track of Shove::apply_via_movement.                                 *)
LEMMA FollowedGood ==
    ASSUME NEW s, NEW P, Good(s, P), NEW v \in Via, NEW item, s.items[v] = {item},
           NEW t \in Track, s.items[t] # {}, End[t] = v, NEW collapsed, NEW rank \in Int,
           NEW unwinds, unwinds \/ Clear(s, t),
           NEW r, r = Followed(s, t, item, collapsed, rank, unwinds)
    PROVE  Good(r, P \ {t}) /\ Following(s, r, t)
<1>1. s \in Node /\ Stock(s) /\ s.items \in [Elem -> SUBSET Nat]
  BY NodeFields DEF Good, Fine
<1>2. t \in Elem /\ v \in Elem  BY DEF Elem
<1>3. PICK i : i \in s.items[t]  OBVIOUS
<1>4. s.items[t] = {i}  BY <1>1, <1>2, <1>3 DEF Stock, OneEach
<1>5. Min(s.items[t]) = i
  <2>1. Min(s.items[t]) \in s.items[t]  BY <1>1, <1>2, LeastOf
  <2> QED  BY <1>4, <2>1
<1>6. PICK free : free = IF unwinds THEN UnwoundAll(s, <<i>>) ELSE s  OBVIOUS
<1>7. Good(free, P) /\ Thinner(s, free) /\ Clear(free, t)
  <2>1. CASE unwinds
    <3>1. free = Unwound(s, i)  BY <1>6, <2>1, UnwoundAllOne
    <3> QED  BY <1>3, <3>1, UnwoundClear
  <2>2. CASE ~unwinds
    <3>1. free = s  BY <1>6, <2>2
    <3> QED  BY <1>1, <2>2, <3>1 DEF Thinner, SameGround
  <2> QED  BY <2>1, <2>2
<1>8. free.items = s.items /\ free.heads = s.heads /\ SameGround(s, free)
  BY <1>7 DEF Thinner, SameGround
<1>9. CASE t \in collapsed
  <2>1. r = [free EXCEPT !.items[t] = {}, !.gone = @ \cup {t}]
    BY <1>5, <1>6, <1>9 DEF Followed
  <2>2. i \in free.items[t]  BY <1>3, <1>8
  <2>3. /\ Good(r, P \ {t}) /\ r.items = [free.items EXCEPT ![t] = {}]
        /\ r.stack = free.stack /\ r.queue = free.queue /\ r.heads = free.heads
    <3>1. r = Dropped(free, t)  BY <2>1 DEF Dropped
    <3>2. Good(r, P \ {t}) /\ Collapsing(free, r, t)  BY <1>7, <2>2, <3>1, CollapsedGood
    <3> QED  BY <3>2 DEF Collapsing
  <2>4. \A d \in Elem : d # t => r.items[d] = s.items[d]  BY <1>1, <1>8, <2>3
  <2>5. ASSUME NEW u \in Track, u # t
        PROVE  (Clear(s, u) => Clear(r, u)) /\ (FreeOf(s, u) => FreeOf(r, u))
    <3>1. (Clear(s, u) => Clear(free, u)) /\ (FreeOf(s, u) => FreeOf(free, u))
      BY <1>7, ThinnerClear
    <3>2. r.items[u] = free.items[u]  BY <1>8, <2>4, <2>5 DEF Elem
    <3>3. \A j : Free(free, j) => Free(r, j)  BY <2>3 DEF Free
    <3> QED  BY <2>3, <3>1, <3>2, <3>3 DEF Clear, FreeOf
  <2> QED  BY <1>8, <2>3, <2>4, <2>5 DEF Following
<1>10. CASE t \notin collapsed
  <2>1. r = Dragged(free, t, item, rank, unwinds)  BY <1>5, <1>6, <1>10 DEF Followed
  <2>2. free.items[v] = {item} /\ free.items[t] = {i} /\ Free(free, i)
    BY <1>4, <1>7, <1>8 DEF Clear, FreeOf
  <2>3. Good(r, P \ {t}) /\ Following(free, r, t)  BY <1>7, <2>1, <2>2, DraggedGood
  <2>4. \A u \in Track : (Clear(s, u) => Clear(free, u)) /\ (FreeOf(s, u) => FreeOf(free, u))
    BY <1>7, ThinnerClear
  <2> QED  BY <1>8, <2>3, <2>4 DEF Following
<1> QED  BY <1>9, <1>10
----------------------------------------------------------------------------
(* The tracks of a via follow it one by one: A are the attached ones, the  *)
(* first k are done.                                                       *)
Dragging(s, x, A, k) ==
    /\ Good(x, A \ 1..k) /\ x.heads = s.heads
    /\ \A d \in Elem \ (A \cap 1..k) : x.items[d] = s.items[d]
    /\ \A u \in Track \ (A \cap 1..k) :
          (Clear(s, u) => Clear(x, u)) /\ (FreeOf(s, u) => FreeOf(x, u))

(* One track's turn keeps what holds between two turns.                    *)
LEMMA DraggingStep ==
    ASSUME NEW s, NEW v \in Via, NEW item, s.items[v] = {item}, NEW A, A = Attached(s, v),
           NEW collapsed, NEW rank \in Int, NEW unwinds, unwinds \/ \A t \in A : Clear(s, t),
           NEW k \in 1..NTracks, NEW x, Dragging(s, x, A, k - 1),
           NEW y, y = IF k \in A THEN Followed(x, k, item, collapsed, rank, unwinds) ELSE x
    PROVE  Dragging(s, y, A, k)
<1>1. Track \subseteq Elem /\ Via \subseteq Elem /\ v \notin Track /\ k \in Track /\ NTracks \in Nat
  BY Places DEF Elem, Track
<1>2. PICK j : j = k - 1  OBVIOUS
<1>3. 1..k = (1..j) \cup {k} /\ k \notin 1..j  BY <1>1, <1>2
<1>4. Dragging(s, x, A, j)  BY <1>2
<1>5. CASE k \notin A
  <2>1. A \cap 1..k = A \cap 1..j /\ A \ 1..k = A \ 1..j /\ y = x  BY <1>3, <1>5
  <2> QED  BY <1>4, <2>1 DEF Dragging
<1>6. CASE k \in A
  <2>1. k \in Track \ (A \cap 1..j) /\ v \in Elem \ (A \cap 1..j) /\ k \in Elem \ (A \cap 1..j)
    BY <1>1, <1>3 DEF Attached
  <2>2. x.items[v] = {item} /\ x.items[k] # {} /\ End[k] = v
    BY <1>4, <1>6, <2>1 DEF Dragging, Attached
  <2>3. unwinds \/ Clear(x, k)  BY <1>4, <1>6, <2>1 DEF Dragging
  <2>4. PICK P : P = A \ 1..j  OBVIOUS
  <2>5. Good(x, P)  BY <1>4, <2>4 DEF Dragging
  <2>6. y = Followed(x, k, item, collapsed, rank, unwinds)  BY <1>6
  <2>7. Good(y, P \ {k}) /\ Following(x, y, k)  BY <1>1, <2>2, <2>3, <2>5, <2>6, FollowedGood
  <2>8. P \ {k} = A \ 1..k  BY <1>3, <2>4
  <2>9. \A d \in Elem \ (A \cap 1..k) : y.items[d] = s.items[d]
    <3> SUFFICES ASSUME NEW d \in Elem \ (A \cap 1..k) PROVE y.items[d] = s.items[d]  OBVIOUS
    <3>1. d # k /\ d \in Elem \ (A \cap 1..j)  BY <1>3, <1>6
    <3> QED  BY <1>4, <2>7, <3>1 DEF Dragging, Following
  <2>10. ASSUME NEW u \in Track \ (A \cap 1..k)
         PROVE  (Clear(s, u) => Clear(y, u)) /\ (FreeOf(s, u) => FreeOf(y, u))
    <3>1. u # k /\ u \in Track \ (A \cap 1..j)  BY <1>3, <1>6, <2>10
    <3> QED  BY <1>4, <2>7, <3>1 DEF Dragging, Following
  <2> QED  BY <1>4, <2>7, <2>8, <2>9, <2>10 DEF Dragging, Following
<1> QED  BY <1>5, <1>6

(* Shove::apply_via_movement from where the via is stored.                 *)
ViaTook(s, r, A) ==
    /\ Good(r, {}) /\ r.heads = s.heads
    /\ \A d \in Elem \ A : r.items[d] = s.items[d]
    /\ \A u \in Track \ A : FreeOf(s, u) => FreeOf(r, u)

(* When all the tracks of the via have had their turn, none is to come.    *)
LEMMA TracksDragged ==
    ASSUME NEW s, NEW v \in Via, NEW item, s.items[v] = {item}, NEW A, A = Attached(s, v),
           A # {}, Good(s, A), NEW collapsed, NEW rank \in Int, NEW unwinds,
           unwinds \/ \A t \in A : Clear(s, t),
           NEW r, r = ViaDragged(s, v, item, collapsed, rank, unwinds)
    PROVE  ViaTook(s, r, A)
<1> DEFINE n == NTracks
           Go(k, x) == IF k \in A THEN Followed(x, k, item, collapsed, rank, unwinds) ELSE x
           Is(g) == g = [t \in 0 .. n |-> IF t = 0 THEN s
                            ELSE IF t \in Attached(s, v)
                            THEN Followed(g[t - 1], t, item, collapsed, rank, unwinds)
                            ELSE g[t - 1]]
<1>0. n \in Nat  BY Places
<1>1. PICK Step : Step = [k \in 1 .. n |->
                            [x \in Node |-> IF Go(k, x) \in Node THEN Go(k, x) ELSE x]]
  OBVIOUS
<1>2. Step \in Steps(Node, n)  BY <1>1 DEF Steps
<1>3. s \in Node  BY DEF Good, Fine
<1>4. PICK f : IsWalk(f, Node, s, n, Step)  BY <1>0, <1>2, <1>3, Walk
<1>5. f \in [0 .. n -> Node] /\ f[0] = s /\ \A k \in 1 .. n : f[k] = Step[k][f[k - 1]]
  BY <1>4 DEF IsWalk
<1>6. ASSUME NEW k \in 1 .. n, Go(k, f[k - 1]) \in Node PROVE f[k] = Go(k, f[k - 1])
  <2>1. k - 1 \in 0 .. n  BY <1>0
  <2> HIDE DEF Go
  <2> QED  BY <1>1, <1>5, <1>6, <2>1
<1>7. \A k \in 0 .. n : Dragging(s, f[k], A, k)
  <2> DEFINE S == {k \in 0 .. n : Dragging(s, f[k], A, k)}
  <2>1. Dragging(s, s, A, 0)
    <3>1. A \ 1..0 = A  OBVIOUS
    <3> QED  BY <3>1 DEF Dragging
  <2>2. 0 \in S  BY <1>0, <1>5, <2>1
  <2>3. ASSUME NEW k \in 1 .. n, k - 1 \in S PROVE k \in S
    <3>1. PICK x, y : x = f[k - 1] /\ y = Go(k, x)  OBVIOUS
    <3>2. Dragging(s, x, A, k - 1)  BY <2>3, <3>1
    <3>3. y = IF k \in A THEN Followed(x, k, item, collapsed, rank, unwinds) ELSE x  BY <3>1
    <3>4. Dragging(s, y, A, k)  BY <3>2, <3>3, DraggingStep
    <3>5. y \in Node  BY <3>4 DEF Dragging, Good, Fine
    <3>6. f[k] = y  BY <1>6, <3>1, <3>5
    <3> QED  BY <3>4, <3>6
  <2> HIDE DEF S
  <2>4. \A k \in 0 .. n : k \in S  BY <1>0, <2>2, <2>3, UpTo
  <2> QED  BY <2>4 DEF S
<1>8. \A k \in 1 .. n : f[k] = Go(k, f[k - 1])
  <2> SUFFICES ASSUME NEW k \in 1 .. n PROVE f[k] = Go(k, f[k - 1])  OBVIOUS
  <2>1. k - 1 \in 0 .. n  BY <1>0
  <2>2. PICK x, y : x = f[k - 1] /\ y = Go(k, x)  OBVIOUS
  <2>3. Dragging(s, x, A, k - 1)  BY <1>7, <2>1, <2>2
  <2>4. y = IF k \in A THEN Followed(x, k, item, collapsed, rank, unwinds) ELSE x  BY <2>2
  <2>5. Dragging(s, y, A, k)  BY <2>3, <2>4, DraggingStep
  <2>6. y \in Node  BY <2>5 DEF Dragging, Good, Fine
  <2> QED  BY <1>6, <2>2, <2>6
<1>9. Is(f)
  <2>1. f = [k \in 0 .. n |-> f[k]]  BY <1>5
  <2>2. ASSUME NEW k \in 0 .. n
        PROVE  f[k] = IF k = 0 THEN s
                      ELSE IF k \in Attached(s, v)
                      THEN Followed(f[k - 1], k, item, collapsed, rank, unwinds) ELSE f[k - 1]
    <3>1. CASE k = 0  BY <1>5, <3>1
    <3>2. CASE k # 0
      <4>1. k \in 1 .. n  BY <1>0, <3>2
      <4> QED  BY <1>8, <3>2, <4>1
    <3> QED  BY <3>1, <3>2
  <2> QED  BY <2>1, <2>2
<1>10. Is(CHOOSE g : Is(g))  BY <1>9
<1>11. PICK h : Is(h) /\ h = CHOOSE g : Is(g)  BY <1>10
<1>12. r = h[n]  BY <1>11 DEF ViaDragged
<1>13. \A k \in 0 .. n : h[k] = f[k]
  <2> DEFINE S == {k \in 0 .. n : h[k] = f[k]}
  <2>1. 0 \in S  BY <1>0, <1>5, <1>11
  <2>2. ASSUME NEW k \in 1 .. n, k - 1 \in S PROVE k \in S
    <3>1. k \in 0 .. n /\ k # 0 /\ h[k - 1] = f[k - 1]  BY <1>0, <2>2
    <3>a. h = [t \in 0 .. n |-> IF t = 0 THEN s
                  ELSE IF t \in Attached(s, v)
                  THEN Followed(h[t - 1], t, item, collapsed, rank, unwinds)
                  ELSE h[t - 1]]
      BY <1>11
    <3>b. h[k] = IF k \in A THEN Followed(h[k - 1], k, item, collapsed, rank, unwinds)
                 ELSE h[k - 1]
      BY <3>1, <3>a
    <3>2. h[k] = Go(k, h[k - 1])  BY <3>b
    <3> QED  BY <1>8, <3>1, <3>2
  <2> HIDE DEF S
  <2>3. \A k \in 0 .. n : k \in S  BY <1>0, <2>1, <2>2, UpTo
  <2> QED  BY <2>3 DEF S
<1>14. Dragging(s, r, A, n)  BY <1>0, <1>7, <1>12, <1>13
<1>15. A \ 1..n = {} /\ A \cap 1..n = A  BY DEF Attached, Track
<1> QED  BY <1>14, <1>15 DEF Dragging, ViaTook

(* Shove::apply_via_movement for a via alone.                              *)
LEMMA ViaAlonePushed ==
    ASSUME NEW s, Good(s, {}), NEW v \in Via, NEW item, s.items[v] = {item},
           NEW rank \in Int, NEW r, r = Pushed(s, ViaAlone(v, item, rank))
    PROVE  ViaTook(s, r, {})
<1>1. Fine(s) /\ s \in Node /\ Stock(s) /\ QueueOK(s, {}) /\ Len(s.rank) \in Nat
  BY StockTypes DEF Good, Fine
<1>2. v \in Elem /\ Net[v] \in Nets /\ Via \subseteq Elem  BY DEF Elem, Nets
<1>3. item \in 1..Len(s.rank)
  <2>1. \A d \in Elem : \A j \in s.items[d] : j \in 1..Len(s.rank)  BY <1>1, StockTypes
  <2>2. item \in s.items[v]  OBVIOUS
  <2> QED  BY <1>2, <2>1, <2>2
<1>4. PICK l, none : l = ViaAlone(v, item, rank) /\ none = <<>>  OBVIOUS
<1>5. l = [track |-> v, net |-> Net[v], chain |-> FALSE, via |-> item, links |-> none, rank |-> rank]
  BY <1>4 DEF ViaAlone
<1>6. none \in Seq(Nat) /\ item \in Nat  BY <1>1, <1>3, <1>4
<1>7. /\ l \in Line /\ l.links = <<>> /\ ~l.chain /\ l.track = v /\ l.net = Net[v] /\ l.via = item
  BY <1>2, <1>4, <1>5, <1>6 DEF Line
<1>8. Stands(s, l)
  <2>1. \A w \in Via : item \in s.items[w] => w = v  BY <1>1, <1>2 DEF Stock, OneEach
  <2>2. item <= Len(s.rank)  BY <1>1, <1>3
  <2> QED  BY <1>7, <2>1, <2>2 DEF Stands, Stub
<1>9. Pushable(s, l)  BY <1>7 DEF Pushable
<1>10. PICK none0 : none0 = {}  OBVIOUS
<1>11. QueueBut(s, none0, KeyOf(s, l))  BY <1>1, <1>10, QueueIsBut
<1>12. Good(r, none0) /\ Pushing(s, r, l)  BY <1>1, <1>4, <1>7, <1>8, <1>9, <1>11, PushedGood
<1>13. Links(l) = {}  BY <1>7, LinksAre
<1>14. \A u \in Track : FreeOf(s, u) => FreeOf(r, u)  BY <1>12, <1>13 DEF FreeOf, Pushing
<1> QED  BY <1>10, <1>12, <1>14 DEF Pushing, ViaTook

(* ShoveEffect::MoveVia                                                    *)
ViaMoving(s, r, v) ==
    /\ Good(r, {}) /\ r.heads = s.heads
    /\ \A d \in Elem : d # v /\ d \notin Attached(s, v) => r.items[d] = s.items[d]
    /\ \A u \in Track \ Attached(s, v) : FreeOf(s, u) => FreeOf(r, u)

(* apply_via_movement: the via and all the tracks on it are as they should *)
(* be.                                                                     *)
LEMMA ViaMovedGood ==
    ASSUME NEW s, Good(s, {}), NEW v \in Via, NEW old \in s.items[v], NEW collapsed,
           NEW rank \in Int, NEW unwinds, unwinds \/ (s.stack = <<>> /\ s.queue = {}),
           NEW r, r = ViaMoved(s, v, old, collapsed, rank, unwinds)
    PROVE  ViaMoving(s, r, v)
<1>1. Fine(s) /\ s \in Node /\ Stock(s)  BY DEF Good, Fine
<1>2. PICK free : free = IF unwinds THEN Unwound(s, old) ELSE s  OBVIOUS
<1>3. Good(free, {}) /\ Thinner(s, free) /\ Free(free, old)
  <2>1. CASE unwinds
    <3>1. Unwinding(s, free, old)  BY <1>1, <1>2, <2>1, UnwoundFine
    <3> QED  BY <3>1, ThinnerGood DEF Unwinding
  <2>2. CASE ~unwinds
    <3>1. free = s /\ s.stack = <<>>  BY <1>2, <2>2
    <3> QED  BY <1>1, <3>1 DEF Thinner, SameGround, Free
  <2> QED  BY <2>1, <2>2
<1>4. free \in Node /\ Stock(free) /\ free.items = s.items /\ free.heads = s.heads
  BY <1>3 DEF Good, Fine, Thinner, SameGround
<1>5. PICK held, stored : /\ held = [NewLine(v) EXCEPT !.links = <<old>>]
                          /\ stored = Stored(Without(Touched(free, held), {old}), v, rank)
  OBVIOUS
<1>6. held.links = <<old>>  BY <1>5 DEF NewLine
<1>7. PICK n, w : n = Len(free.rank) + 1 /\ w = Bound(stored, {n}, KeyOf(free, held))  OBVIOUS
<1>8. Renewed(free, w, v, old, n) /\ Stock(w) /\ Len(stored.rank) = n
  <2>1. free \in Node /\ Stock(free) /\ old \in free.items[v]  BY <1>4
  <2>2. stored = Stored(Without(Touched(free, held), {old}), v, rank)  BY <1>5
  <2>3. StoresVia(free, v, old, rank, held, stored, w, n)  BY <1>6, <1>7, <2>1, <2>2 DEF StoresVia
  <2> QED  BY <2>1, <2>3, ViaStored
<1>9. ViaAnew(free, w, v, n)  BY <1>3, <1>4, <1>8, ViaRenewed
<1>10. r = ViaDragged(w, v, n, collapsed, rank, unwinds)
  BY <1>2, <1>5, <1>7, <1>8 DEF ViaMoved
<1>11. PICK A : A = Attached(w, v)  OBVIOUS
<1>12. /\ Good(w, A) /\ A = Attached(s, v)
       /\ w.items = [s.items EXCEPT ![v] = {n}]
       /\ w.heads = s.heads /\ w.stack = free.stack /\ w.queue = free.queue
  BY <1>4, <1>9, <1>11 DEF ViaAnew, Attached
<1>13. /\ v \in Elem /\ v \notin Track /\ Track \subseteq Elem /\ w.items[v] = {n}
       /\ \A d \in Elem : d # v => w.items[d] = s.items[d]
  <2>1. s.items \in [Elem -> SUBSET Nat]  BY <1>1, NodeFields
  <2> QED  BY <1>12, <2>1, Places DEF Elem
<1>14. ASSUME NEW u \in Track, FreeOf(s, u) PROVE FreeOf(w, u)
  <2>1. w.items[u] = s.items[u]  BY <1>13
  <2>2. \A j : Free(s, j) => Free(w, j)  BY <1>3, <1>12 DEF Thinner, Free
  <2> QED  BY <1>14, <2>1, <2>2 DEF FreeOf
<1>15. CASE A = {}
  <2>1. r = Pushed(w, ViaAlone(v, n, rank))  BY <1>10, <1>11, <1>15 DEF ViaDragged
  <2>2. Good(w, {})  BY <1>12, <1>15
  <2>3. w.items[v] = {n}  BY <1>13
  <2>4. ViaTook(w, r, {})  BY <2>1, <2>2, <2>3, ViaAlonePushed
  <2> QED  BY <1>12, <1>13, <1>14, <2>4 DEF ViaTook, ViaMoving
<1>16. CASE A # {}
  <2>1. unwinds \/ \A t \in A : Clear(w, t)
    <3>1. CASE unwinds  BY <3>1
    <3>2. CASE ~unwinds
      <4>1. w.stack = <<>> /\ w.queue = {}  BY <1>2, <1>12, <3>2
      <4> QED  BY <4>1 DEF Clear, FreeOf, Free
    <3> QED  BY <3>1, <3>2
  <2>2. w.items[v] = {n} /\ Good(w, A)  BY <1>12, <1>13
  <2>3. ViaTook(w, r, A)  BY <1>10, <1>11, <1>16, <2>1, <2>2, TracksDragged
  <2> QED  BY <1>12, <1>13, <1>14, <2>3 DEF ViaTook, ViaMoving
<1> QED  BY <1>15, <1>16
----------------------------------------------------------------------------
(* Line::rank: of at most two links the least.                             *)
LEMMA LeastRank ==
    ASSUME NEW s \in Node, NEW l \in Line, \A i \in Links(l) : i \in 1..Len(s.rank),
           \E a, b : Links(l) \subseteq {a, b}
    PROVE  RankOf(s, l) \in Int
<1>1. PICK ranks : ranks = {s.rank[i] : i \in {k \in Links(l) : InArena(s, k)}}  OBVIOUS
<1>2. \A i \in Links(l) : s.rank[i] \in Int
  <2>1. s.rank \in Seq(Int)  BY NodeFields
  <2> QED  BY <2>1
<1>3. l.rank \in Int  BY DEF Line
<1>4. RankOf(s, l) = IF l.links = <<>> THEN l.rank
                     ELSE IF ranks = {} THEN Unranked ELSE Min(ranks)
  BY <1>1 DEF RankOf
<1>5. CASE ranks = {}  BY <1>3, <1>4, <1>5 DEF Unranked
<1>6. CASE ranks # {}
  <2>1. ranks \subseteq Int  BY <1>1, <1>2
  <2>2. PICK a, b : Links(l) \subseteq {a, b}  OBVIOUS
  <2>3. PICK p, q : ranks \subseteq {p, q} /\ p \in ranks /\ q \in ranks
    <3>1. PICK x, y : x = s.rank[a] /\ y = s.rank[b]  OBVIOUS
    <3>2. ranks \subseteq {x, y}  BY <1>1, <2>2, <3>1
    <3>3. CASE x \in ranks /\ y \in ranks  BY <3>2, <3>3
    <3>4. CASE x \notin ranks
      <4>1. y \in ranks /\ ranks \subseteq {y, y}  BY <1>6, <3>2, <3>4
      <4> QED  BY <4>1
    <3>5. CASE y \notin ranks
      <4>1. x \in ranks /\ ranks \subseteq {x, x}  BY <1>6, <3>2, <3>5
      <4> QED  BY <4>1
    <3> QED  BY <3>3, <3>4, <3>5
  <2>4. \E x \in ranks : \A y \in ranks : x <= y
    <3>1. p \in Int /\ q \in Int  BY <2>1, <2>3
    <3>2. p <= q \/ q <= p  BY <3>1
    <3> QED  BY <2>3, <3>1, <3>2
  <2>5. Min(ranks) \in ranks  BY <2>4 DEF Min
  <2> QED  BY <1>3, <1>4, <1>6, <2>1, <2>5
<1> QED  BY <1>5, <1>6

(* The rank of a line that stands is a number.                             *)
LEMMA RankIsInt ==
    ASSUME NEW s \in Node, Numbered(s), OneEach(s), NEW l \in Line, Stands(s, l)
    PROVE  RankOf(s, l) \in Int
<1>1. \A i \in Links(l) : i \in 1..Len(s.rank)  BY LinksOwned DEF Linking
<1>2. \E a, b : Links(l) \subseteq {a, b}
  <2>1. CASE l.chain
    <3>1. PICK i : l.links = <<i>> \/ l.links = <<i, l.via>>  BY <2>1 DEF Stands, Fits
    <3>2. Links(l) \subseteq {i, l.via}  BY <3>1, LinksAre
    <3> QED  BY <3>2
  <2>2. CASE ~l.chain
    <3>1. l.links = <<>> \/ l.links = <<l.via>>  BY <2>2 DEF Stands, Stub
    <3>2. Links(l) \subseteq {l.via, l.via}  BY <3>1, LinksAre
    <3> QED  BY <3>2
  <2> QED  BY <2>1, <2>2
<1> QED  BY <1>1, <1>2, LeastRank

(* The line on top of the stack, when it ends with no via.                 *)
LEMMA TopBare ==
    ASSUME NEW s, Fine(s), s.stack # <<>>, NEW cur, cur = Last(s.stack), cur.chain,
           cur.via = NoVia
    PROVE  \E t \in Track : \E i : IsBare(s, cur, t, i)
<1>1. s \in Node /\ StackOK(s)  BY DEF Fine
<1>2. s.stack \in Seq(Line) /\ Len(s.stack) \in DOMAIN s.stack
  <2>1. s.stack \in Seq(Line)  BY <1>1, NodeFields
  <2> QED  BY <2>1
<1>3. cur = s.stack[Len(s.stack)]  BY DEF Last
<1>4. cur \in Line /\ Stands(s, cur)  BY <1>1, <1>2, <1>3 DEF StackOK
<1>5. Fits(s, cur) /\ cur.net = Net[cur.track]  BY <1>4 DEF Stands
<1>6. PICK i : i \in s.items[cur.track] /\ cur.links = <<i>>  BY <1>5 DEF Fits
<1> QED  BY <1>4, <1>5, <1>6 DEF IsBare, Fits

(* Once the top is popped no line links its track.                         *)
LEMMA PoppedFree ==
    ASSUME NEW s, Fine(s), s.stack # <<>>, NEW t \in Track, NEW i,
           IsBare(s, Last(s.stack), t, i), NEW k \in 1..(Len(s.stack) - 1)
    PROVE  i \notin Links(s.stack[k])
<1>1. s.stack \in Seq(Line)  BY NodeFields DEF Fine
<1>2. k \in DOMAIN s.stack /\ Len(s.stack) \in DOMAIN s.stack /\ k # Len(s.stack)  BY <1>1
<1>3. i \in Links(s.stack[Len(s.stack)]) /\ i \in s.items[t]
  BY BareLine DEF IsBare, Last
<1> QED  BY <1>2, <1>3, LinkedOnce
----------------------------------------------------------------------------
(* The run goes on with the same heads.                                    *)
Going(s, r) == Good(r, {}) /\ r.heads = s.heads

(* Shove::on_colliding_via                                                 *)
ViaPushing(s, r, v) ==
    /\ Going(s, r)
    /\ \A u \in Track : End[u] # v =>
          r.items[u] = s.items[u] /\ (FreeOf(s, u) => FreeOf(r, u))

(* push_or_shove_via, whether the via moves or not, leaves all in order.   *)
LEMMA ViaPushesGood ==
    ASSUME NEW s, Good(s, {}), NEW v \in Via, NEW rank \in Int, NEW r \in ViaPushes(s, v, rank)
    PROVE  ViaPushing(s, r, v)
<1>1. CASE r = s  BY <1>1 DEF ViaPushing, Going
<1>2. CASE r # s
  <2>0. \E old \in s.items[v] : \E collapsed \in SUBSET Attached(s, v) :
           r = ViaMoved(s, v, old, collapsed, rank, TRUE)
    <3>1. PICK old \in {k \in s.items[v] : MayMove(s, v)} :
             r \in {ViaMoved(s, v, old, collapsed, rank, TRUE) : collapsed \in SUBSET Attached(s, v)}
      BY <1>2 DEF ViaPushes
    <3>2. \E collapsed \in SUBSET Attached(s, v) : r = ViaMoved(s, v, old, collapsed, rank, TRUE)
      BY <3>1
    <3> QED  BY <3>1, <3>2
  <2>1. PICK old \in s.items[v] : \E collapsed : r = ViaMoved(s, v, old, collapsed, rank, TRUE)
    BY <2>0
  <2>b. PICK collapsed : r = ViaMoved(s, v, old, collapsed, rank, TRUE)  BY <2>1
  <2>2. PICK unwinds : unwinds = TRUE  OBVIOUS
  <2>3. ViaMoving(s, r, v)
    <3>1. r = ViaMoved(s, v, old, collapsed, rank, unwinds)  BY <2>b, <2>2
    <3>2. unwinds \/ (s.stack = <<>> /\ s.queue = {})  BY <2>2
    <3> QED  BY <3>1, <3>2, ViaMovedGood
  <2>4. \A u \in Track : End[u] # v => u \notin Attached(s, v) /\ u # v /\ u \in Elem
    BY Places DEF Attached, Elem
  <2> QED  BY <2>3, <2>4 DEF ViaMoving, ViaPushing, Going
<1> QED  BY <1>1, <1>2

(* The walkaround: the line is replaced while it is still on the stack.    *)
LEMMA WalksGood ==
    ASSUME NEW s, Good(s, {}), s.stack # <<>>, NEW t \in Track, NEW i, NEW cur,
           cur = Last(s.stack), IsBare(s, cur, t, i), NEW rank \in Int,
           NEW walked, walked = [cur EXCEPT !.links = <<>>],
           NEW r, r = Pushed(Popped(Replaced(s, cur, walked, rank)), Linked(s, walked, rank))
    PROVE  Going(s, r)
<1>1. Fine(s) /\ s \in Node /\ Stock(s) /\ QueueOK(s, {}) /\ StackOK(s) /\ Len(s.rank) \in Nat
  BY StockTypes DEF Good, Fine
<1>2. /\ cur \in Line /\ cur.links = <<i>> /\ cur.chain /\ cur.track = t /\ cur.via = NoVia
      /\ cur.net = Net[t] /\ i \in s.items[t]
  BY DEF IsBare
<1>3. OldLinks(s, cur) = <<i>>  BY <1>2 DEF OldLinks
<1>4. /\ walked \in Line /\ walked.links = <<>> /\ walked.chain /\ walked.track = t
      /\ walked.via = NoVia /\ walked.net = Net[t]
  <2>1. PICK none : none = <<>>  OBVIOUS
  <2>2. none \in Seq(Nat) /\ walked = [cur EXCEPT !.links = none]  BY <2>1
  <2> QED  BY <1>2, <2>1, <2>2 DEF Line
<1>5. PICK u, n : u = Replaced(s, cur, walked, rank) /\ n = Len(s.rank) + 1  OBVIOUS
<1>6. Renewed(s, u, t, i, n) /\ Stock(u)  BY <1>1, <1>2, <1>3, <1>4, <1>5, ReplacedStock
<1>7. PICK none : none = {}  OBVIOUS
<1>8. QueueBut(u, none \ {t}, u.root[n])
  <2>1. QueueOK(s, none)  BY <1>1, <1>7
  <2> QED  BY <1>1, <1>2, <1>6, <2>1, QueueRenewed
<1>9. /\ u \in Node /\ u.items = [s.items EXCEPT ![t] = {n}] /\ Len(u.rank) = n
      /\ u.stack = s.stack /\ u.heads = s.heads /\ u.root[n] # 0
  BY <1>6 DEF Renewed
<1>10. PICK x : x = Popped(u)  OBVIOUS
<1>11. Popping(u, x)  BY <1>9, <1>10, PoppedIs
<1>12. /\ SameGround(u, x) /\ x.queue \subseteq u.queue
       /\ DOMAIN x.stack = 1..(Len(s.stack) - 1)
       /\ \A k \in 1..(Len(s.stack) - 1) : k \in DOMAIN s.stack /\ x.stack[k] = s.stack[k]
  BY <1>9, <1>11 DEF Popping
<1>13. Stock(x)  BY <1>6, <1>12, GroundStands
<1>14. ASSUME NEW k \in 1..(Len(s.stack) - 1) PROVE Stands(x, s.stack[k]) /\ n \notin Links(s.stack[k])
  <2>1. i \notin Links(s.stack[k])  BY <1>1, <1>14, PoppedFree
  <2>2. k \in DOMAIN s.stack /\ s.stack[k] \in Line /\ Stands(s, s.stack[k])
    <3>1. s.stack \in Seq(Line)  BY <1>1, NodeFields
    <3> QED  BY <1>1, <1>12, <3>1 DEF StackOK
  <2>3. s.stack[k].via \in Nat  BY <2>2 DEF Line
  <2>4. PICK one : one = {n}  OBVIOUS
  <2>5. /\ u.items = [s.items EXCEPT ![t] = one]
        /\ \A m \in one : m \notin 1..Len(s.rank) /\ m # 0
        /\ Len(s.rank) <= Len(u.rank) /\ Len(u.rank) \in Nat
    BY <1>1, <1>5, <1>9, <2>4
  <2>6. t \in Elem  BY DEF Elem
  <2>7. Stands(u, s.stack[k])  BY <1>1, <1>2, <2>1, <2>2, <2>3, <2>5, <2>6, UnlinkedStands
  <2>8. Stands(x, s.stack[k])  BY <1>12, <2>7, GroundStands
  <2>9. n \notin Links(s.stack[k])
    <3>1. n \notin 1..Len(s.rank)  BY <1>1, <1>5
    <3> QED  BY <1>1, <2>2, <3>1, LinksOwned DEF Linking, Stock
  <2> QED  BY <2>8, <2>9
<1>15. StackOK(x)  BY <1>1, <1>12, <1>14 DEF StackOK
<1>16. Free(x, n)  BY <1>12, <1>14 DEF Free
<1>17. Fine(x)  BY <1>12, <1>13, <1>15 DEF Fine, SameGround
<1>18. QueueBut(x, none \ {t}, u.root[n])  BY <1>8, <1>12, ButThins
<1>19. PICK l : l = Linked(s, walked, rank)  OBVIOUS
<1>20. IsBare(x, l, t, n)
  <2>1. PICK links : links = <<n>>  OBVIOUS
  <2>2. n \in Nat  BY <1>1, <1>5
  <2>3. links \in Seq(Nat)  BY <2>1, <2>2
  <2>4. l = [walked EXCEPT !.links = links, !.rank = rank]  BY <1>4, <1>5, <1>19, <2>1 DEF Linked
  <2>5. /\ l \in Line /\ l.links = links /\ l.chain /\ l.track = t /\ l.via = NoVia
        /\ l.net = Net[t]
    BY <1>4, <2>3, <2>4 DEF Line
  <2>6. n \in x.items[t]
    <3>1. s.items \in [Elem -> SUBSET Nat] /\ t \in Elem  BY <1>1, NodeFields DEF Elem
    <3> QED  BY <1>9, <1>12, <3>1 DEF SameGround
  <2> QED  BY <2>1, <2>5, <2>6 DEF IsBare
<1>21. Stands(x, l) /\ Pushable(x, l)  BY <1>16, <1>17, <1>20, BareLine
<1>22. KeyOf(x, l) = u.root[n]
  <2>1. InArena(x, n)
    <3>1. n \in x.items[t] /\ t \in Elem  BY <1>20 DEF IsBare, Elem
    <3> QED  BY <1>13, <3>1, ShownIs DEF Stock
  <2>2. l.links = <<n>> /\ x.root[n] # 0 /\ x.root[n] = u.root[n]
    BY <1>9, <1>12, <1>20 DEF IsBare, SameGround
  <2>3. RootOf(x, l) = x.root[n]  BY <2>1, <2>2, RootIs
  <2> QED  BY <2>2, <2>3 DEF KeyOf
<1>23. r = Pushed(x, l)  BY <1>5, <1>10, <1>19
<1>24. Good(r, none \ {t}) /\ Pushing(x, r, l)
  <2>1. l \in Line  BY <1>20 DEF IsBare
  <2>2. QueueBut(x, none \ {t}, KeyOf(x, l))  BY <1>18, <1>22
  <2> QED  BY <1>17, <1>21, <1>23, <2>1, <2>2, PushedGood
<1>25. none \ {t} = {}  BY <1>7
<1> QED  BY <1>9, <1>12, <1>24, <1>25 DEF Going, Pushing, SameGround
----------------------------------------------------------------------------
(* The tail of an iteration keeps the invariant, if its handler left a     *)
(* good branch.                                                            *)
LEMMA IteratedInv ==
    ASSUME IInv, phase = "loop", NEW r, Iterated(r), Going(node, r)
    PROVE  IInv'
<1>1. Running(node, phase, adding) /\ adding \in 1..(NHeads + 1)  BY DEF IInv, InvAt
<1>2. node' = r /\ adding' = adding /\ phase' \in {"heads", "loop", "failed"}
      /\ (phase' \in {"heads", "loop"} => (phase' = "heads" <=> r.stack = <<>>))
  BY DEF Iterated
<1>3. Good(r, {}) /\ r.heads = node.heads  BY DEF Going
<1>4. adding > 1 /\ NHeads \in Nat  BY <1>1, Places DEF Running
<1>5. phase' \in {"heads", "loop"} => Running(r, phase', adding)
  BY <1>1, <1>2, <1>3, <1>4 DEF Running
<1>6. InvAt(r, phase', adding)  BY <1>1, <1>2, <1>5 DEF InvAt
<1> QED  BY <1>2, <1>6 DEF IInv

(* The line that is being looked at.                                       *)
Looking(s, cur) ==
    /\ Good(s, {}) /\ s.stack # <<>> /\ cur = Last(s.stack)
    /\ cur \in Line /\ Stands(s, cur)

(* The line on top of the stack is one the iteration can look at.          *)
LEMMA CurrentIs ==
    ASSUME IInv, phase = "loop"
    PROVE  Looking(node, Current) /\ RankOf(node, Current) \in Int
<1>1. Good(node, {}) /\ node.stack # <<>>  BY DEF IInv, InvAt, Running
<1>2. node \in Node /\ Stock(node) /\ StackOK(node)  BY <1>1 DEF Good, Fine
<1>3. node.stack \in Seq(Line)  BY <1>2, NodeFields
<1>4. Len(node.stack) \in DOMAIN node.stack /\ Current = node.stack[Len(node.stack)]
  BY <1>1, <1>3 DEF Current, Last
<1>5. Current \in Line /\ Stands(node, Current)  BY <1>2, <1>3, <1>4 DEF StackOK
<1> QED  BY <1>1, <1>2, <1>5, RankIsInt DEF Looking, Current, Stock

(* An obstacle of another net is no link of the current line, which stays  *)
(* on top when the obstacle is unwound.                                    *)
Hit(s, r, cur, i) ==
    /\ Looking(r, cur) /\ r.items = s.items /\ r.heads = s.heads /\ Free(r, i)

(* Unwinding an item of another net leaves the current line where it is.   *)
LEMMA UnwoundHit ==
    ASSUME NEW s, NEW cur, Looking(s, cur), NEW e \in Elem, NEW i \in s.items[e],
           Net[e] # cur.net, NEW r, r = Unwound(s, i)
    PROVE  Hit(s, r, cur, i) /\ s.rank[i] \in Int
<1>1. /\ Good(s, {}) /\ s.stack # <<>> /\ cur = Last(s.stack) /\ cur \in Line /\ Stands(s, cur)
  BY DEF Looking
<1>2. s \in Node /\ Stock(s) /\ Fine(s)  BY <1>1 DEF Good, Fine
<1>3. i \notin Links(cur)
  <2>1. SUFFICES ASSUME i \in Links(cur) PROVE FALSE  OBVIOUS
  <2>2. Linking(s, cur, i)  BY <1>1, <1>2, <2>1, LinksOwned DEF Stock
  <2>3. cur.net = Net[cur.track]  BY <1>1 DEF Stands
  <2> QED  BY <2>2, <2>3 DEF Linking, Elem
<1>4. Unwinding(s, r, i)  BY <1>2, UnwoundFine
<1>5. /\ Fine(r) /\ Thinner(s, r) /\ Free(r, i) /\ r.stack # <<>> /\ Last(r.stack) = cur
  BY <1>1, <1>3, <1>4 DEF Unwinding
<1>6. Good(r, {})  BY <1>1, <1>5, ThinnerGood
<1>7. Stands(r, cur) /\ r.items = s.items /\ r.heads = s.heads
  BY <1>1, <1>5, GroundStands DEF Thinner, SameGround
<1>8. s.rank[i] \in Int
  <2>1. s.rank \in Seq(Int) /\ i \in 1..Len(s.rank)  BY <1>2, NodeFields, StockTypes
  <2> QED  BY <2>1
<1> QED  BY <1>1, <1>5, <1>6, <1>7, <1>8 DEF Hit, Looking

(* Retire: a line that hits nothing leaves the stack.                      *)
LEMMA RetireInv ==
    ASSUME IInv, Retire
    PROVE  IInv'
<1>1. phase = "loop"  BY DEF Retire
<1>2. PICK r : r = [node EXCEPT !.stack = Front(@)]  OBVIOUS
<1>3. Iterated(r)  BY <1>2 DEF Retire
<1>4. Good(node, {}) /\ node.stack # <<>>  BY <1>1, CurrentIs DEF Looking
<1>5. Fine(node) /\ node \in Node  BY <1>4 DEF Good, Fine
<1>6. Popping(node, r)  BY <1>2, <1>4, <1>5, RetiredIs
<1>7. Fine(r) /\ Thinner(node, r)  BY <1>4, <1>5, <1>6, PoppedFine
<1>8. Good(r, {}) /\ r.heads = node.heads  BY <1>4, <1>7, ThinnerGood DEF Thinner, SameGround
<1> QED  BY <1>1, <1>3, <1>8, IteratedInv DEF Going

(* Shove::on_colliding_solid, on a branch unwound or not.                  *)
LEMMA SolidInv ==
    ASSUME IInv, phase = "loop", ~ViaLines, NEW s, Looking(s, Current), s.heads = node.heads,
           NEW rank \in Int, Solid(s, rank)
    PROVE  IInv'
<1>1. Good(s, {}) /\ s.stack # <<>> /\ Current = Last(s.stack) /\ Fine(s)
  BY DEF Looking, Good
<1>2. RankOf(node, Current) \in Int /\ Promotion \in Int  BY CurrentIs, AssumeSizes
<1>3. ASSUME NEW v \in ViaAtEnd(Current), NEW after \in ViaPushes(s, v, rank - 1), Iterated(after)
      PROVE  IInv'
  <2>1. v \in Via /\ rank - 1 \in Int  BY DEF ViaAtEnd
  <2>2. ViaPushing(s, after, v)  BY <1>1, <1>3, <2>1, ViaPushesGood
  <2>3. Going(node, after)  BY <2>2 DEF ViaPushing, Going
  <2> QED  BY <1>3, <2>3, IteratedInv
<1>4. ASSUME Current.chain, Current.via = NoVia, NEW new \in Int, Iterated(Walks(s, new))
      PROVE  IInv'
  <2>1. PICK t \in Track : \E i : IsBare(s, Current, t, i)  BY <1>1, <1>4, TopBare
  <2>2. PICK i : IsBare(s, Current, t, i)  BY <2>1
  <2>3. PICK walked, r : walked = [Current EXCEPT !.links = <<>>] /\ r = Walks(s, new)  OBVIOUS
  <2>4. r = Pushed(Popped(Replaced(s, Current, walked, new)), Linked(s, walked, new))
    BY <2>3 DEF Walks
  <2>5. Going(s, r)  BY <1>1, <2>2, <2>3, <2>4, WalksGood
  <2>6. Going(node, r)  BY <2>5 DEF Going
  <2> QED  BY <1>4, <2>3, <2>6, IteratedInv
<1>5. {RankOf(node, Current) + Promotion, RankOf(node, Current) - 1} \subseteq Int  BY <1>2
<1> QED  BY <1>3, <1>4, <1>5 DEF Solid

(* HitSolid: a line gives way to a solid, or walks around it.              *)
LEMMA HitSolidInv ==
    ASSUME IInv, ~ViaLines, HitSolid
    PROVE  IInv'
<1>1. phase = "loop" /\ Solid(node, Unranked)  BY DEF HitSolid
<1>2. Looking(node, Current) /\ Unranked \in Int  BY <1>1, CurrentIs DEF Unranked
<1> QED  BY <1>1, <1>2, SolidInv

(* HitSegment: the line pushes a track.                                    *)
LEMMA HitSegmentInv ==
    ASSUME IInv, ~ViaLines, NEW t \in Track, NEW i \in node.items[t], HitSegment(t, i)
    PROVE  IInv'
<1>1. phase = "loop" /\ Net[t] # Current.net  BY DEF HitSegment
<1>2. Looking(node, Current) /\ RankOf(node, Current) \in Int  BY <1>1, CurrentIs
<1>3. t \in Elem  BY DEF Elem
<1>4. PICK hit : hit = Unwound(node, i)  OBVIOUS
<1>5. Hit(node, hit, Current, i) /\ node.rank[i] \in Int  BY <1>1, <1>2, <1>3, <1>4, UnwoundHit
<1>6. CASE t \in Locked
  <2>1. Solid(hit, node.rank[i])  BY <1>4, <1>6 DEF HitSegment
  <2> QED  BY <1>1, <1>5, <2>1, SolidInv DEF Hit
<1>7. CASE t \notin Locked
  <2>1. PICK cleared : cleared = Unwound(hit, i)  OBVIOUS
  <2>2. i \in hit.items[t] /\ Looking(hit, Current) /\ hit.heads = node.heads  BY <1>5 DEF Hit
  <2>3. Hit(hit, cleared, Current, i)  BY <1>1, <1>3, <2>1, <2>2, UnwoundHit
  <2>4. /\ Good(cleared, {}) /\ i \in cleared.items[t] /\ Free(cleared, i)
        /\ cleared.heads = node.heads
    BY <2>2, <2>3 DEF Hit, Looking
  <2>5. PICK old, new, rank : /\ old = Assembled(t, i) /\ new = NewLine(t)
                              /\ rank = RankOf(node, Current) - 1
    OBVIOUS
  <2>6. i \in Nat
    <3>1. cleared.items \in [Elem -> SUBSET Nat]  BY <2>4, NodeFields DEF Good, Fine
    <3> QED  BY <1>3, <2>4, <3>1
  <2>7. /\ old \in Line /\ OldLinks(cleared, old) = <<i>>
        /\ new \in Line /\ new.links = <<>> /\ new.track = t /\ new.chain
        /\ new.via = NoVia /\ new.net = Net[t] /\ rank \in Int
    BY <1>2, <2>5, <2>6, AssembledIs, NewLineIs
  <2>8. PICK r, n, none : /\ r = ReplacedOnTop(cleared, old, new, rank)
                          /\ n = Len(cleared.rank) + 1 /\ none = {}
    OBVIOUS
  <2>9. Good(r, none \ {t}) /\ OnTop(cleared, r, t, i, n)
    <3>1. Good(cleared, none)  BY <2>4, <2>8
    <3>2. i \in cleared.items[t] /\ Free(cleared, i)  BY <2>4
    <3>3. r = ReplacedOnTop(cleared, old, new, rank) /\ n = Len(cleared.rank) + 1  BY <2>8
    <3> QED  BY <2>7, <3>1, <3>2, <3>3, OnTopGood
  <2>10. Going(node, r)
    <3>1. none \ {t} = {}  BY <2>8
    <3> QED  BY <2>4, <2>9, <3>1 DEF Going, OnTop
  <2>11. Iterated(r)  BY <1>4, <1>7, <2>1, <2>5, <2>8 DEF HitSegment
  <2> QED  BY <1>1, <2>10, <2>11, IteratedInv
<1> QED  BY <1>6, <1>7

(* HitVia: the line pushes a via and the tracks on it.                     *)
LEMMA HitViaInv ==
    ASSUME IInv, ~ViaLines, NEW v \in Via, NEW i \in node.items[v], HitVia(v, i)
    PROVE  IInv'
<1>1. phase = "loop" /\ Net[v] # Current.net  BY DEF HitVia
<1>2. Looking(node, Current) /\ RankOf(node, Current) \in Int  BY <1>1, CurrentIs
<1>3. v \in Elem  BY DEF Elem
<1>4. PICK hit : hit = Unwound(node, i)  OBVIOUS
<1>5. Hit(node, hit, Current, i) /\ node.rank[i] \in Int  BY <1>1, <1>2, <1>3, <1>4, UnwoundHit
<1>6. Looking(hit, Current) /\ hit.heads = node.heads /\ Good(hit, {})
  BY <1>5 DEF Hit, Looking
<1>7. ASSUME NEW after \in ViaPushes(hit, v, RankOf(node, Current) - 1), Iterated(after)
      PROVE  IInv'
  <2>1. RankOf(node, Current) - 1 \in Int  BY <1>2
  <2>2. ViaPushing(hit, after, v)  BY <1>6, <1>7, <2>1, ViaPushesGood
  <2>3. Going(node, after)  BY <1>6, <2>2 DEF ViaPushing, Going
  <2> QED  BY <1>1, <1>7, <2>3, IteratedInv
<1>8. ASSUME Solid(hit, node.rank[i]) PROVE IInv'
  BY <1>1, <1>5, <1>6, <1>8, SolidInv
<1> QED  BY <1>4, <1>7, <1>8 DEF HitVia

(* The pusher of a reversed collision is stacked on top of what came.      *)
LEMMA PusherGood ==
    ASSUME NEW s, Good(s, {}), NEW t \in Track, NEW i \in s.items[t], Free(s, i),
           NEW r, r = Pushed(s, Assembled(t, i))
    PROVE  Going(s, r)
<1>1. Fine(s) /\ s \in Node /\ QueueOK(s, {})  BY DEF Good, Fine
<1>2. i \in Nat
  <2>1. s.items \in [Elem -> SUBSET Nat] /\ t \in Elem  BY <1>1, NodeFields DEF Elem
  <2> QED  BY <2>1
<1>3. PICK l, none : l = Assembled(t, i) /\ none = {}  OBVIOUS
<1>4. IsBare(s, l, t, i)  BY <1>2, <1>3, AssembledIs DEF IsBare
<1>5. l \in Line /\ Stands(s, l) /\ Pushable(s, l)  BY <1>1, <1>4, BareLine DEF IsBare
<1>6. QueueBut(s, none, KeyOf(s, l))  BY <1>1, <1>3, QueueIsBut
<1>7. r = Pushed(s, l)  BY <1>3
<1>8. Good(r, none) /\ Pushing(s, r, l)  BY <1>1, <1>5, <1>6, <1>7, PushedGood
<1> QED  BY <1>3, <1>8 DEF Going, Pushing

(* patch_tadpole_via has nothing to patch on a line that ends with no via. *)
LEMMA PatchedIs ==
    ASSUME ~ViaLines
    PROVE  PatchedLines = {Current}
BY DEF PatchedLines

(* A line that gives way: its replacement goes on top.                     *)
LEMMA GaveWayGood ==
    ASSUME NEW s, Good(s, {}), NEW t \in Track, NEW i, NEW l, IsBare(s, l, t, i), Free(s, i),
           NEW rank \in Int, NEW r, r = ReplacedOnTop(s, l, GaveWay(l), rank),
           NEW n, n = Len(s.rank) + 1
    PROVE  Good(r, {}) /\ OnTop(s, r, t, i, n)
<1>1. /\ l \in Line /\ l.links = <<i>> /\ l.chain /\ l.track = t /\ l.via = NoVia
      /\ l.net = Net[t] /\ i \in s.items[t]
  BY DEF IsBare
<1>2. PICK new, links, none : new = GaveWay(l) /\ links = <<>> /\ none = {}  OBVIOUS
<1>3. links \in Seq(Nat) /\ new = [l EXCEPT !.links = links]  BY <1>1, <1>2 DEF GaveWay
<1>4. /\ new \in Line /\ new.links = <<>> /\ new.track = t /\ new.chain
      /\ new.via = NoVia /\ new.net = Net[t]
  BY <1>1, <1>2, <1>3 DEF Line
<1>5. OldLinks(s, l) = <<i>>  BY <1>1 DEF OldLinks
<1>6. PICK old : old = l  OBVIOUS
<1>7. /\ old \in Line /\ OldLinks(s, old) = <<i>>
      /\ new \in Line /\ new.links = <<>> /\ new.track = t /\ new.chain
      /\ new.via = NoVia /\ new.net = Net[t] /\ rank \in Int
  BY <1>1, <1>4, <1>5, <1>6
<1>8. r = ReplacedOnTop(s, old, new, rank) /\ n = Len(s.rank) + 1 /\ i \in s.items[t]
  BY <1>1, <1>2, <1>6
<1>9. Good(s, none) /\ Free(s, i)  BY <1>2
<1>10. Good(r, none \ {t}) /\ OnTop(s, r, t, i, n)  BY <1>7, <1>8, <1>9, OnTopGood
<1>11. none \ {t} = {}  BY <1>2
<1> QED  BY <1>10, <1>11
----------------------------------------------------------------------------
(* The via at the end of a line that stands is not that of a track of      *)
(* another net.                                                            *)
LEMMA OtherEnd ==
    ASSUME NEW s, NEW cur, Stands(s, cur), NEW v \in Via, cur.via \in s.items[v],
           NEW t \in Track, Net[t] # cur.net
    PROVE  End[t] # v
<1>1. SUFFICES ASSUME End[t] = v PROVE FALSE  OBVIOUS
<1>2. Net[v] = cur.net  BY DEF Stands
<1>3. v # NoVia  BY Places DEF NoVia
<1>4. Net[End[t]] = Net[t]  BY <1>1, <1>3, AssumeTopology
<1> QED  BY <1>1, <1>2, <1>4

(* Shove::reverse_collision: the obstacle is unwound, the current line     *)
(* popped, and what is left of it unwound again.                           *)
Cleared(s, r, t, i) ==
    /\ Good(r, {}) /\ r.items = s.items /\ r.heads = s.heads /\ Free(r, i)
    /\ \A u \in Track : \A j : IsBare(s, Last(s.stack), u, j) => Free(r, j)

(* The line on top popped and the item unwound: the track that was hit is  *)
(* free.                                                                   *)
LEMMA ClearedIs ==
    ASSUME NEW s, NEW cur, Looking(s, cur), NEW t \in Track, NEW i \in s.items[t],
           Net[t] # cur.net, NEW r, r = Unwound(Popped(Unwound(s, i)), i)
    PROVE  Cleared(s, r, t, i) /\ s.rank[i] \in Int
<1>1. t \in Elem  BY DEF Elem
<1>2. PICK hit : hit = Unwound(s, i)  OBVIOUS
<1>3. Hit(s, hit, cur, i) /\ s.rank[i] \in Int  BY <1>1, <1>2, UnwoundHit
<1>4. /\ Good(hit, {}) /\ Fine(hit) /\ hit \in Node /\ hit.stack # <<>> /\ cur = Last(hit.stack)
      /\ hit.items = s.items /\ hit.heads = s.heads /\ cur = Last(s.stack)
  BY <1>3 DEF Hit, Looking, Good, Fine
<1>5. PICK popped : popped = Popped(hit)  OBVIOUS
<1>6. Popping(hit, popped)  BY <1>4, <1>5, PoppedIs
<1>7. Fine(popped) /\ Thinner(hit, popped)  BY <1>4, <1>6, PoppedFine
<1>8. Good(popped, {})  BY <1>4, <1>7, ThinnerGood
<1>9. r = Unwound(popped, i)  BY <1>2, <1>5
<1>10. Unwinding(popped, r, i)  BY <1>7, <1>9, UnwoundFine
<1>11. Fine(r) /\ Thinner(popped, r) /\ Free(r, i)  BY <1>10 DEF Unwinding
<1>12. Good(r, {})  BY <1>8, <1>11, ThinnerGood
<1>13. r.items = s.items /\ r.heads = s.heads
  BY <1>4, <1>7, <1>11 DEF Thinner, SameGround
<1>14. ASSUME NEW u \in Track, NEW j, IsBare(s, Last(s.stack), u, j) PROVE Free(r, j)
  <2>1. IsBare(hit, Last(hit.stack), u, j)  BY <1>4, <1>14 DEF IsBare
  <2>2. \A k \in 1..(Len(hit.stack) - 1) : j \notin Links(hit.stack[k])
    BY <1>4, <2>1, PoppedFree
  <2>3. Free(popped, j)  BY <1>6, <2>2 DEF Free, Popping
  <2> QED  BY <1>11, <2>3 DEF Thinner
<1> QED  BY <1>3, <1>11, <1>12, <1>13, <1>14 DEF Cleared

(* ReverseSegment: a track of higher rank pushes the line back.            *)
LEMMA ReverseSegmentInv ==
    ASSUME IInv, ~ViaLines, NEW t \in Track, NEW i \in node.items[t], ReverseSegment(t, i)
    PROVE  IInv'
<1>1. phase = "loop" /\ Net[t] # Current.net  BY DEF ReverseSegment
<1>2. PICK cur : cur = Current  OBVIOUS
<1>3. Looking(node, cur)  BY <1>1, <1>2, CurrentIs
<1>4. PICK cleared, pusher, rank : /\ cleared = Unwound(Popped(Unwound(node, i)), i)
                                   /\ pusher = Assembled(t, i) /\ rank = node.rank[i] + 1
  OBVIOUS
<1>5. Cleared(node, cleared, t, i) /\ rank \in Int
  <2>1. Net[t] # cur.net  BY <1>1, <1>2
  <2>2. Cleared(node, cleared, t, i) /\ node.rank[i] \in Int  BY <1>3, <1>4, <2>1, ClearedIs
  <2> QED  BY <1>4, <2>2
<1>6. /\ Good(cleared, {}) /\ cleared.items = node.items /\ cleared.heads = node.heads
      /\ Free(cleared, i) /\ i \in cleared.items[t]
  BY <1>5 DEF Cleared
<1>7. /\ cur \in Line /\ Stands(node, cur) /\ cur = Last(node.stack) /\ node.stack # <<>>
      /\ Good(node, {}) /\ Fine(node)
  BY <1>3 DEF Looking, Good
<1>8. ASSUME NEW v \in ViaAtEnd(cur), NEW after \in ViaPushes(cleared, v, rank),
             Iterated(Pushed(after, pusher))
      PROVE  IInv'
  <2>1. v \in Via /\ cur.via \in node.items[v]  BY DEF ViaAtEnd
  <2>2. End[t] # v  BY <1>1, <1>2, <1>7, <2>1, OtherEnd
  <2>3. ViaPushing(cleared, after, v)  BY <1>5, <1>6, <1>8, <2>1, ViaPushesGood
  <2>4. FreeOf(cleared, t)
    <3>1. \A j \in cleared.items[t] : j = i
      BY <1>6 DEF Good, Fine, Stock, OneEach, Elem
    <3> QED  BY <1>6, <3>1 DEF FreeOf
  <2>5. /\ Good(after, {}) /\ after.heads = node.heads /\ i \in after.items[t] /\ Free(after, i)
    BY <1>6, <2>2, <2>3, <2>4 DEF ViaPushing, Going, FreeOf
  <2>6. PICK r : r = Pushed(after, pusher)  OBVIOUS
  <2>7. Going(after, r)  BY <1>4, <2>5, <2>6, PusherGood
  <2>8. Going(node, r)  BY <2>5, <2>7 DEF Going
  <2> QED  BY <1>1, <1>8, <2>6, <2>8, IteratedInv
<1>9. ASSUME cur.chain, cur.via = NoVia,
             Iterated(Pushed(ReplacedOnTop(cleared, cur, GaveWay(cur), rank), pusher))
      PROVE  IInv'
  <2>1. PICK u \in Track : \E j : IsBare(node, cur, u, j)  BY <1>7, <1>9, TopBare
  <2>2. PICK j : IsBare(node, cur, u, j)  BY <2>1
  <2>3. IsBare(cleared, cur, u, j) /\ Free(cleared, j)
    BY <1>5, <1>6, <1>7, <2>2 DEF Cleared, IsBare
  <2>4. PICK x, n : x = ReplacedOnTop(cleared, cur, GaveWay(cur), rank) /\ n = Len(cleared.rank) + 1
    OBVIOUS
  <2>5. Good(x, {}) /\ OnTop(cleared, x, u, j, n)  BY <1>5, <1>6, <2>3, <2>4, GaveWayGood
  <2>6. /\ x.items = [cleared.items EXCEPT ![u] = {n}] /\ x.heads = cleared.heads
        /\ \A k : k # n /\ Free(cleared, k) => Free(x, k)
    BY <2>5 DEF OnTop
  <2>7. t # u
    <3>1. cur.net = Net[u]  BY <2>2 DEF IsBare
    <3> QED  BY <1>1, <1>2, <3>1
  <2>8. /\ cleared \in Node /\ Stock(cleared) /\ cleared.items \in [Elem -> SUBSET Nat]
        /\ t \in Elem /\ u \in Elem
    BY <1>6, NodeFields DEF Good, Fine, Elem
  <2>9. i \in x.items[t]  BY <1>6, <2>6, <2>7, <2>8
  <2>10. Free(x, i)
    <3>1. i \in 1..Len(cleared.rank) /\ Len(cleared.rank) \in Nat
      BY <1>6, <2>8, StockTypes
    <3>2. i # n  BY <2>4, <3>1
    <3> QED  BY <1>6, <2>6, <3>2
  <2>11. PICK r : r = Pushed(x, pusher)  OBVIOUS
  <2>12. Going(x, r)  BY <1>4, <2>5, <2>9, <2>10, <2>11, PusherGood
  <2>13. Going(node, r)  BY <1>6, <2>6, <2>12 DEF Going
  <2> QED  BY <1>1, <1>9, <2>4, <2>11, <2>13, IteratedInv
<1>10. PatchedLines = {cur}  BY <1>2, PatchedIs
<1>11. \/ \E v \in ViaAtEnd(cur) : \E after \in ViaPushes(cleared, v, rank) :
             Iterated(Pushed(after, pusher))
       \/ /\ cur.chain /\ cur.via = NoVia
          /\ Iterated(Pushed(ReplacedOnTop(cleared, cur, GaveWay(cur), rank), pusher))
  BY <1>4, <1>10 DEF ReverseSegment
<1> QED  BY <1>8, <1>9, <1>11

(* Two sequences of one make one of two.                                   *)
LEMMA TwiceIs ==
    ASSUME NEW a
    PROVE  <<a>> \o <<a>> = <<a, a>>
<1>1. PICK f, g, h : f = <<a>> /\ g = <<a, a>> /\ h = f \o f  OBVIOUS
<1>2. f \in Seq({a}) /\ Len(f) = 1 /\ f[1] = a  BY <1>1
<1>3. g \in Seq({a}) /\ Len(g) = 2 /\ g[1] = a /\ g[2] = a  BY <1>1
<1>4. h \in Seq({a}) /\ Len(h) = 2 /\ h[1] = a /\ h[2] = a  BY <1>1, <1>2, ConcatProperties
<1>5. \A k \in 1 .. 2 : k = 1 \/ k = 2  OBVIOUS
<1>6. g = h  BY <1>3, <1>4, <1>5, SeqEqual
<1> QED  BY <1>1, <1>6

(* ReverseVia: a via of higher rank pushes the line back.                  *)
LEMMA ReverseViaInv ==
    ASSUME IInv, ~ViaLines, NEW v \in Via, NEW i \in node.items[v], ReverseVia(v, i)
    PROVE  IInv'
<1>1. phase = "loop" /\ Net[v] # Current.net  BY DEF ReverseVia
<1>2. PICK cur : cur = Current  OBVIOUS
<1>3. Looking(node, cur) /\ RankOf(node, cur) \in Int  BY <1>1, <1>2, CurrentIs
<1>4. PICK hit : hit = Unwound(node, i)  OBVIOUS
<1>5. Hit(node, hit, cur, i) /\ node.rank[i] \in Int
  <2>1. Net[v] # cur.net /\ v \in Elem  BY <1>1, <1>2 DEF Elem
  <2> QED  BY <1>3, <1>4, <2>1, UnwoundHit
<1>6. /\ Good(hit, {}) /\ Fine(hit) /\ hit.items = node.items /\ hit.heads = node.heads
      /\ hit.stack # <<>> /\ cur = Last(hit.stack)
  BY <1>5 DEF Hit, Looking, Good
<1>7. ASSUME NEW rank \in Int, NEW after \in ViaPushes(hit, v, rank), Iterated(after)
      PROVE  IInv'
  <2>1. ViaPushing(hit, after, v)  BY <1>6, <1>7, ViaPushesGood
  <2>2. Going(node, after)  BY <1>6, <2>1 DEF ViaPushing, Going
  <2> QED  BY <1>1, <1>7, <2>2, IteratedInv
<1>8. ASSUME cur.chain, cur.via = NoVia,
             Iterated(ReplacedOnTop(UnwoundAll(hit, cur.links \o cur.links), cur, GaveWay(cur),
                                    RankOf(node, cur)))
      PROVE  IInv'
  <2>1. PICK u \in Track : \E j : IsBare(hit, cur, u, j)  BY <1>6, <1>8, TopBare
  <2>2. PICK j : IsBare(hit, cur, u, j)  BY <2>1
  <2>3. PICK x, y, r, n, rank :
          /\ x = Unwound(hit, j) /\ y = Unwound(x, j) /\ rank = RankOf(node, cur)
          /\ n = Len(y.rank) + 1 /\ r = ReplacedOnTop(y, cur, GaveWay(cur), rank)
    OBVIOUS
  <2>4. UnwoundAll(hit, cur.links \o cur.links) = y
    <3>1. cur.links = <<j>>  BY <2>2 DEF IsBare
    <3>2. cur.links \o cur.links = <<j, j>>  BY <3>1, TwiceIs
    <3> QED  BY <2>3, <3>2, UnwoundAllTwo
  <2>5. Good(x, {}) /\ Thinner(hit, x)
    <3>1. Fine(x) /\ Thinner(hit, x)  BY <1>6, <2>3, UnwoundFine DEF Unwinding
    <3> QED  BY <1>6, <3>1, ThinnerGood
  <2>6. Good(y, {}) /\ Thinner(x, y) /\ Free(y, j)
    <3>1. Fine(x)  BY <2>5 DEF Good
    <3>2. Fine(y) /\ Thinner(x, y) /\ Free(y, j)  BY <2>3, <3>1, UnwoundFine DEF Unwinding
    <3> QED  BY <2>5, <3>2, ThinnerGood
  <2>7. y.items = hit.items /\ y.heads = hit.heads
    BY <2>5, <2>6 DEF Thinner, SameGround
  <2>8. IsBare(y, cur, u, j)  BY <2>2, <2>7 DEF IsBare
  <2>9. rank \in Int  BY <1>3, <2>3
  <2>10. Good(r, {}) /\ OnTop(y, r, u, j, n)  BY <2>3, <2>6, <2>8, <2>9, GaveWayGood
  <2>11. Going(node, r)  BY <1>6, <2>7, <2>10 DEF Going, OnTop
  <2> QED  BY <1>1, <1>8, <2>3, <2>4, <2>11, IteratedInv
<1>9. PatchedLines = {cur}  BY <1>2, PatchedIs
<1>10. {node.rank[i] + 1, RankOf(node, cur) - 1} \subseteq Int  BY <1>3, <1>5
<1>11. \/ \E rank \in {node.rank[i] + 1, RankOf(node, cur) - 1} :
            \E after \in ViaPushes(hit, v, rank) : Iterated(after)
       \/ /\ cur.chain /\ cur.via = NoVia
          /\ Iterated(ReplacedOnTop(UnwoundAll(hit, cur.links \o cur.links), cur, GaveWay(cur),
                                    RankOf(node, cur)))
  BY <1>4, <1>9 DEF ReverseVia
<1> QED  BY <1>7, <1>8, <1>10, <1>11

(* GiveUp: the run fails.                                                  *)
LEMMA GiveUpInv ==
    ASSUME IInv, GiveUp
    PROVE  IInv'
BY DEF IInv, InvAt, GiveUp
----------------------------------------------------------------------------
(* World::clear_ranks                                                      *)
LEMMA UnrankIs ==
    ASSUME NEW s \in Node
    PROVE  /\ Unrank(s) \in Node /\ Len(Unrank(s).rank) = Len(s.rank)
           /\ Unrank(s).items = s.items /\ Unrank(s).root = s.root
           /\ Unrank(s).newest = s.newest /\ Unrank(s).heads = s.heads
           /\ Unrank(s).stack = s.stack /\ Unrank(s).queue = s.queue /\ Unrank(s).gone = s.gone
<1>1. PICK m : m = Marked(s.rank, Shown(s) \ Board, Unranked)  OBVIOUS
<1>2. s.rank \in Seq(Int) /\ Unranked \in Int  BY NodeFields DEF Unranked
<1>3. m \in Seq(Int) /\ Len(m) = Len(s.rank)  BY <1>1, <1>2, MarkedIs
<1>4. Unrank(s) = [s EXCEPT !.rank = m]  BY <1>1 DEF Unrank
<1> QED  BY <1>3, <1>4 DEF Node

(* Only the ranks are others.                                              *)
LEMMA UnrankStock ==
    ASSUME NEW s \in Node, Stock(s), NEW r, r = Unrank(s)
    PROVE  r \in Node /\ Stock(r)
<1>1. Len(s.newest) \in Nat  BY StockTypes
<1> QED  BY <1>1, UnrankIs, StockGrows

(* World::add_line, World::add_via                                         *)
Storing(s, r, e, n) ==
    /\ r \in Node /\ n = Len(s.rank) + 1
    /\ r.items = [s.items EXCEPT ![e] = s.items[e] \cup {n}]
    /\ Len(r.rank) = n /\ Len(r.root) = n /\ r.root[n] = 0
    /\ \A j \in 1..Len(s.root) : r.root[j] = s.root[j]
    /\ r.newest = s.newest /\ r.heads = s.heads /\ r.stack = s.stack
    /\ r.queue = s.queue /\ r.gone = s.gone

(* World::add_line: the item gets the next number.                         *)
LEMMA StoredIs ==
    ASSUME NEW s \in Node, Len(s.root) = Len(s.rank), NEW e \in Elem, NEW rank \in Int,
           NEW r, r = Stored(s, e, rank), NEW n, n = Len(s.rank) + 1
    PROVE  Storing(s, r, e, n)
<1>1. /\ s.items \in [Elem -> SUBSET Nat] /\ s.rank \in Seq(Int) /\ s.root \in Seq(Nat)
      /\ Len(s.rank) \in Nat
  BY NodeFields
<1>2. PICK items, a, b : /\ items = [s.items EXCEPT ![e] = s.items[e] \cup {n}]
                         /\ a = Append(s.rank, rank) /\ b = Append(s.root, 0)
  OBVIOUS
<1>3. items \in [Elem -> SUBSET Nat]  BY <1>1, <1>2
<1>4. /\ a \in Seq(Int) /\ Len(a) = n /\ b \in Seq(Nat) /\ Len(b) = n /\ b[n] = 0
      /\ \A j \in 1..Len(s.root) : b[j] = s.root[j]
  BY <1>1, <1>2
<1>5. r = [s EXCEPT !.items = items, !.rank = a, !.root = b]
  BY <1>2 DEF Stored
<1>6. /\ r \in Node /\ r.items = items /\ r.rank = a /\ r.root = b
      /\ r.newest = s.newest /\ r.heads = s.heads /\ r.stack = s.stack
      /\ r.queue = s.queue /\ r.gone = s.gone
  BY <1>3, <1>4, <1>5 DEF Node
<1> QED  BY <1>2, <1>4, <1>6 DEF Storing
----------------------------------------------------------------------------
(* Shove::add_head_to_node: the branch with the head h in it, as item n,   *)
(* and the via v it brings, if any, as item m; then both under entry key,  *)
(* which is the head's.                                                    *)
Laid(s, r, h, v, n, m) ==
    /\ r \in Node /\ n = Len(s.rank) + 1 /\ m = IF v = NoVia THEN n ELSE n + 1
    /\ r.items[h] = {n} /\ (v # NoVia => r.items[v] = {m})
    /\ \A d \in Elem : d # h /\ d # v => r.items[d] = s.items[d]
    /\ Len(r.rank) = m /\ Len(r.root) = m
    /\ r.stack = s.stack /\ r.queue = s.queue /\ r.gone = s.gone

(* What add_head_to_node makes of s for head h with via v: items n and m,  *)
(* entered under a new entry.                                              *)
Heading(s, r, h, v, n, m, key) ==
    /\ Laid(s, r, h, v, n, m)
    /\ \A j \in 1..Len(s.rank) : r.root[j] = s.root[j]
    /\ r.root[n] = key /\ r.root[m] = key
    /\ key = Len(s.newest) + 1 /\ r.newest = Append(s.newest, 0)
    /\ r.heads = Append(s.heads, key)

(* The head that comes next, and its via.                                  *)
NextHead(s, h, v) ==
    /\ h \in HeadTrack /\ Len(s.heads) = h - 1 /\ s.items[h] = {} /\ h \notin s.gone
    /\ v # NoVia => v \in HeadVias /\ End[h] = v /\ s.items[v] = {}

(* Before its turn a head is not there, nor is its via: each head brings   *)
(* its own.                                                                *)
LEMMA NextHeadIs ==
    ASSUME NEW s \in Node, Stock(s), NEW h \in HeadTrack, Len(s.heads) = h - 1,
           NEW v, v = IF End[h] \in HeadVias THEN End[h] ELSE NoVia
    PROVE  NextHead(s, h, v)
<1>1. h \notin DOMAIN s.heads /\ h \in Nat
  <2>1. DOMAIN s.heads = 1..Len(s.heads)  BY StockTypes
  <2>2. h \in Nat  BY Places
  <2> QED  BY <2>1, <2>2
<1>2. s.items[h] = {}  BY <1>1 DEF Stock, Headed
<1>3. h \notin s.gone  BY <1>1 DEF Stock, Present
<1>4. ASSUME v # NoVia PROVE v \in HeadVias /\ End[h] = v /\ s.items[v] = {}
  <2>1. v \in HeadVias /\ End[h] = v  BY <1>4
  <2>2. ASSUME NEW i \in s.items[v] PROVE FALSE
    <3>1. PICK g \in DOMAIN s.heads : End[g] = v  BY <2>1 DEF Stock, Headed
    <3>2. g \in HeadTrack
      <4>1. DOMAIN s.heads = 1..Len(s.heads) /\ Len(s.heads) \in Nat /\ Len(s.heads) <= NHeads
        BY StockTypes DEF Stock, Headed
      <4> QED  BY <4>1, Places DEF HeadTrack
    <3>3. g = h  BY <2>1, <3>1, <3>2, AssumeTopology
    <3> QED  BY <1>1, <3>1, <3>3
  <2> QED  BY <2>1, <2>2
<1> QED  BY <1>2, <1>3, <1>4 DEF NextHead

(* A head added keeps the stock in order.                                  *)
LEMMA HeadingStock ==
    ASSUME NEW s \in Node, Stock(s), NEW h, NEW v, NextHead(s, h, v), NEW r, NEW n, NEW m,
           NEW key, Heading(s, r, h, v, n, m, key)
    PROVE  Stock(r)
<1>1. /\ Len(s.root) = Len(s.rank) /\ Len(s.rank) \in Nat
      /\ s.newest \in Seq(Nat) /\ Len(s.newest) \in Nat
      /\ s.heads \in Seq(Nat) /\ Len(s.heads) \in Nat /\ DOMAIN s.heads = 1..Len(s.heads)
      /\ \A g \in DOMAIN s.heads : s.heads[g] \in 0..Len(s.newest)
      /\ \A d \in Elem : \A j \in s.items[d] :
            j \in 1..Len(s.rank) /\ s.root[j] \in 0..Len(s.newest)
      /\ \A j \in 1..Len(s.rank) : s.root[j] \in 0..Len(s.newest)
  BY StockTypes
<1>2. /\ h \in HeadTrack /\ Len(s.heads) = h - 1 /\ s.items[h] = {} /\ h \notin s.gone
      /\ v # NoVia => v \in HeadVias /\ End[h] = v
  BY DEF NextHead
<1>3. /\ r \in Node /\ n = Len(s.rank) + 1 /\ m \in {n, n + 1} /\ (v = NoVia => m = n)
      /\ (v # NoVia => m = n + 1) /\ n \in Nat
      /\ Len(r.rank) = m /\ Len(r.root) = m /\ r.gone = s.gone
      /\ r.root[n] = key /\ r.root[m] = key /\ key = Len(s.newest) + 1
  BY <1>1 DEF Heading, Laid
<1>4. /\ r.items[h] = {n} /\ (v # NoVia => r.items[v] = {m})
      /\ \A d \in Elem : d # h /\ d # v => r.items[d] = s.items[d]
      /\ \A j \in 1..Len(s.rank) : r.root[j] = s.root[j]
  BY DEF Heading, Laid
<1>5. /\ Track \subseteq Elem /\ Via \subseteq Elem /\ Track \cap Via = {}
      /\ HeadTrack \subseteq Track /\ HeadVias \subseteq Via /\ NoVia \notin Elem
      /\ h \in Nat \ {0} /\ h <= NHeads /\ NHeads \in Nat /\ h # v
  BY <1>2, Places DEF Elem, HeadTrack, NoVia
<1>6. /\ DOMAIN r.heads = 1..h /\ Len(r.heads) = h /\ r.heads[h] = key
      /\ \A g \in 1..h : g # h => g \in DOMAIN s.heads /\ r.heads[g] = s.heads[g]
      /\ \A g \in DOMAIN s.heads : g \in 1..h /\ g # h /\ r.heads[g] = s.heads[g]
  <2>1. key \in Nat /\ r.heads = Append(s.heads, key)  BY <1>1 DEF Heading
  <2>2. /\ Len(r.heads) = Len(s.heads) + 1 /\ DOMAIN r.heads = 1..(Len(s.heads) + 1)
        /\ \A j \in 1..Len(s.heads) : r.heads[j] = s.heads[j]
        /\ r.heads[Len(s.heads) + 1] = key
    BY <1>1, <2>1, AppendType
  <2>3. Len(s.heads) + 1 = h  BY <1>2, <1>5
  <2>4. \A g \in 1..h : g # h => g \in 1..Len(s.heads)  BY <1>1, <2>3
  <2>5. \A g \in 1..Len(s.heads) : g \in 1..h /\ g # h  BY <1>1, <2>3
  <2> QED  BY <1>1, <2>2, <2>3, <2>4, <2>5
<1>7. /\ Len(r.newest) = key /\ r.newest[key] = 0 /\ key \in Nat /\ key # 0
      /\ \A k \in 1..Len(s.newest) : r.newest[k] = s.newest[k]
      /\ \A k \in 0..Len(s.newest) : k # key /\ k <= key
  <2>1. r.newest = Append(s.newest, 0) /\ key = Len(s.newest) + 1  BY DEF Heading
  <2>2. 0 \in Nat  OBVIOUS
  <2>3. /\ Len(r.newest) = Len(s.newest) + 1 /\ r.newest[Len(s.newest) + 1] = 0
        /\ \A k \in 1..Len(s.newest) : r.newest[k] = s.newest[k]
    BY <1>1, <2>1, <2>2, AppendType
  <2> QED  BY <1>1, <2>1, <2>3
(* An item is one the branch had or one that came.                         *)
<1>8. ASSUME NEW d \in Elem, NEW j \in r.items[d]
      PROVE  \/ /\ d # h /\ d # v /\ j \in s.items[d] /\ r.root[j] = s.root[j]
                /\ j \in 1..Len(s.rank) /\ s.root[j] \in 0..Len(s.newest)
             \/ d = h /\ j = n /\ r.root[j] = key
             \/ d = v /\ v # NoVia /\ j = m /\ r.root[j] = key /\ d \in HeadVias
  <2>1. CASE d = h  BY <1>3, <1>4, <1>8, <2>1
  <2>2. CASE d = v  BY <1>2, <1>3, <1>4, <1>5, <1>8, <2>2
  <2>3. CASE d # h /\ d # v
    <3>1. j \in s.items[d]  BY <1>4, <1>8, <2>3
    <3> QED  BY <1>1, <1>4, <2>3, <3>1
  <2> QED  BY <2>1, <2>2, <2>3
<1>9. /\ n \notin 1..Len(s.rank) /\ m \notin 1..Len(s.rank) /\ n \in 1..m /\ m \in 1..m
      /\ \A j \in 1..Len(s.rank) : j \in 1..m
      /\ n \notin Elem /\ m \notin Elem /\ NTracks + NVias <= m
  <2>1. NTracks + NVias <= Len(s.rank)  BY DEF Stock, Numbered
  <2> QED  BY <1>1, <1>3, <2>1, Places
<1>10. Numbered(r)
  <2>1. ASSUME NEW d \in Elem, NEW j \in r.items[d]
        PROVE  j \in 1..m /\ (j \in Elem => j = d /\ j \in Board)
    BY <1>8, <1>9, <2>1 DEF Stock, Numbered
  <2> QED  BY <1>3, <1>9, <2>1 DEF Numbered
<1>11. OneEach(r)
  <2> SUFFICES ASSUME NEW c \in Elem, NEW d \in Elem, NEW j \in r.items[c], NEW k \in r.items[d]
               PROVE  c = d <=> j = k
    BY DEF OneEach
  <2>1. v # NoVia => m # n  BY <1>3
  <2>2. CASE c # h /\ c # v /\ d # h /\ d # v
    <3>1. j \in s.items[c] /\ k \in s.items[d]  BY <1>4, <2>2
    <3> QED  BY <3>1 DEF Stock, OneEach
  <2>3. CASE (c = h \/ c = v) /\ d # h /\ d # v  BY <1>8, <1>9, <2>3
  <2>4. CASE c # h /\ c # v /\ (d = h \/ d = v)  BY <1>8, <1>9, <2>4
  <2>5. CASE (c = h \/ c = v) /\ (d = h \/ d = v)  BY <1>5, <1>8, <2>1, <2>5
  <2> QED  BY <2>2, <2>3, <2>4, <2>5
<1>12. Entered(r)
  <2>1. ASSUME NEW j \in DOMAIN r.root PROVE r.root[j] <= Len(r.newest)
    <3>1. j \in 1..m  BY <1>3, <2>1, NodeFields
    <3>2. j \in 1..Len(s.rank) \/ j = n \/ j = m  BY <1>1, <1>3, <3>1
    <3>3. CASE j \in 1..Len(s.rank)
      <4>1. r.root[j] \in 0..Len(s.newest)  BY <1>1, <1>4, <3>3
      <4> QED  BY <1>7, <4>1
    <3>4. CASE j = n \/ j = m  BY <1>3, <1>7, <3>4
    <3> QED  BY <3>2, <3>3, <3>4
  <2>2. ASSUME NEW g \in DOMAIN r.heads PROVE r.heads[g] <= Len(r.newest)
    <3>1. CASE g = h  BY <1>6, <1>7, <3>1
    <3>2. CASE g # h
      <4>1. r.heads[g] \in 0..Len(s.newest)  BY <1>1, <1>6, <3>2
      <4> QED  BY <1>7, <4>1
    <3> QED  BY <3>1, <3>2
  <2>3. ASSUME NEW t \in Track, NEW u \in Track, NEW j \in r.items[t], NEW k \in r.items[u],
               r.root[j] = r.root[k], r.root[j] # 0
        PROVE  t = u
    <3>1. t \in Elem /\ u \in Elem /\ t \notin HeadVias /\ u \notin HeadVias  BY <1>5
    <3>2. CASE t # h /\ u # h
      <4>1. j \in s.items[t] /\ k \in s.items[u] /\ s.root[j] = s.root[k] /\ s.root[j] # 0
        BY <1>8, <2>3, <3>1, <3>2
      <4> QED  BY <4>1 DEF Stock, Entered
    <3>3. CASE t = h /\ u # h  BY <1>5, <1>7, <1>8, <2>3, <3>1, <3>3
    <3>4. CASE t # h /\ u = h  BY <1>5, <1>7, <1>8, <2>3, <3>1, <3>4
    <3> QED  BY <3>2, <3>3, <3>4
  <2> QED  BY <2>1, <2>2, <2>3 DEF Entered
<1>13. Headed(r)
  <2>1. ASSUME NEW g \in HeadTrack, NEW j \in r.items[g]
        PROVE  /\ g \in DOMAIN r.heads /\ r.heads[g] # 0 /\ r.root[j] = r.heads[g]
               /\ r.newest[r.heads[g]] \in {0, j}
    <3>1. g \in Elem /\ g \notin HeadVias  BY <1>5
    <3>2. CASE g = h
      <4>1. h \in 1..h  BY <1>5
      <4> QED  BY <1>5, <1>6, <1>7, <1>8, <2>1, <3>1, <3>2, <4>1
    <3>3. CASE g # h
      <4>1. j \in s.items[g] /\ r.root[j] = s.root[j]  BY <1>8, <2>1, <3>1, <3>3
      <4>2. /\ g \in DOMAIN s.heads /\ s.heads[g] # 0 /\ s.root[j] = s.heads[g]
            /\ s.newest[s.heads[g]] \in {0, j}
        BY <4>1 DEF Stock, Headed
      <4>3. s.heads[g] \in 1..Len(s.newest)  BY <1>1, <4>2
      <4> QED  BY <1>6, <1>7, <4>1, <4>2, <4>3
    <3> QED  BY <3>2, <3>3
  <2>2. ASSUME NEW w \in HeadVias, NEW j \in r.items[w]
        PROVE  \E g \in DOMAIN r.heads : End[g] = w /\ r.heads[g] # 0 /\ r.root[j] = r.heads[g]
    <3>1. w \in Elem /\ w # h  BY <1>2, <1>5
    <3>2. CASE w = v
      <4>1. h \in 1..h /\ End[h] = w  BY <1>2, <1>5, <3>1, <3>2
      <4>2. r.root[j] = key  BY <1>8, <2>2, <3>1, <3>2
      <4> QED  BY <1>6, <1>7, <4>1, <4>2
    <3>3. CASE w # v
      <4>1. j \in s.items[w] /\ r.root[j] = s.root[j]  BY <1>8, <2>2, <3>1, <3>3
      <4>2. PICK g \in DOMAIN s.heads : End[g] = w /\ s.heads[g] # 0 /\ s.root[j] = s.heads[g]
        BY <4>1 DEF Stock, Headed
      <4> QED  BY <1>6, <4>1, <4>2
    <3> QED  BY <3>2, <3>3
  <2>3. ASSUME NEW d \in Elem, NEW j \in r.items[d], NEW g \in DOMAIN r.heads,
               r.heads[g] # 0, r.root[j] = r.heads[g]
        PROVE  d \in HeadTrack \cup HeadVias
    <3>1. CASE d = h  BY <1>2, <3>1
    <3>2. CASE d # h /\ d # v
      <4>1. j \in s.items[d] /\ r.root[j] = s.root[j] /\ s.root[j] \in 0..Len(s.newest)
        BY <1>8, <2>3, <3>2
      <4>2. g # h  BY <1>6, <1>7, <2>3, <4>1
      <4>3. g \in DOMAIN s.heads /\ s.heads[g] # 0 /\ s.root[j] = s.heads[g]
        BY <1>6, <2>3, <4>1, <4>2
      <4> QED  BY <4>1, <4>3 DEF Stock, Headed
    <3>3. CASE d = v  BY <1>2, <1>5, <3>3
    <3> QED  BY <3>1, <3>2, <3>3
  <2> QED  BY <1>5, <1>6, <2>1, <2>2, <2>3 DEF Headed
<1>14. Present(r)
  <2>1. ASSUME NEW e \in r.gone
        PROVE  r.items[e] = {} /\ (e \in HeadTrack => e \in DOMAIN r.heads)
    <3>1. e \in Track  BY <2>1, <1>3, NodeFields
    <3>2. e \in Elem /\ e # h /\ e # v  BY <1>2, <1>3, <1>5, <2>1, <3>1
    <3>3. s.items[e] = {} /\ (e \in HeadTrack => e \in DOMAIN s.heads)
      BY <1>3, <2>1 DEF Stock, Present
    <3> QED  BY <1>4, <1>6, <3>2, <3>3
  <2>2. ASSUME NEW e \in Elem \ (HeadTrack \cup HeadVias \cup r.gone) PROVE r.items[e] # {}
    <3>1. e # h /\ e # v  BY <1>2, <1>5, <2>2
    <3> QED  BY <1>3, <1>4, <2>2, <3>1 DEF Stock, Present
  <2>3. ASSUME NEW g \in DOMAIN r.heads, r.heads[g] # 0, g \notin r.gone PROVE r.items[g] # {}
    <3>1. CASE g = h  BY <1>4, <3>1
    <3>2. CASE g # h
      <4>1. g \in DOMAIN s.heads /\ s.heads[g] # 0  BY <1>6, <2>3, <3>2
      <4>2. s.items[g] # {}  BY <1>3, <2>3, <4>1 DEF Stock, Present
      <4>3. g \in HeadTrack  BY <1>5, <1>6, <2>3 DEF HeadTrack
      <4>4. g \in Elem /\ g # v  BY <1>2, <1>5, <4>3
      <4> QED  BY <1>4, <3>2, <4>2, <4>4
    <3> QED  BY <3>1, <3>2
  <2> QED  BY <2>1, <2>2, <2>3 DEF Present
<1> QED  BY <1>10, <1>11, <1>12, <1>13, <1>14 DEF Stock

(* What the head is stored as.                                             *)
LEMMA LaidIs ==
    ASSUME NEW s \in Node, Stock(s), NEW h, NEW v, NextHead(s, h, v), NEW rank \in Int,
           NEW laid, laid = Stored(s, h, rank),
           NEW r, r = IF v = NoVia THEN laid ELSE Stored(laid, v, rank),
           NEW n, n = Len(s.rank) + 1, NEW m, m = Len(r.rank)
    PROVE  /\ Laid(s, r, h, v, n, m)
           /\ \A j \in 1..Len(s.rank) : r.root[j] = s.root[j]
           /\ r.root[n] = 0 /\ r.root[m] = 0
           /\ r.newest = s.newest /\ r.heads = s.heads
<1>1. Len(s.root) = Len(s.rank) /\ Len(s.rank) \in Nat  BY StockTypes
<1>2. /\ h \in Elem /\ (v # NoVia => v \in Elem /\ v # h /\ s.items[v] = {}) /\ s.items[h] = {}
      /\ NoVia \notin Elem
  BY Places DEF NextHead, Elem, NoVia
<1>3. Storing(s, laid, h, n)  BY <1>1, <1>2, StoredIs
<1>4. /\ laid \in Node /\ laid.items = [s.items EXCEPT ![h] = s.items[h] \cup {n}]
      /\ Len(laid.rank) = n /\ Len(laid.root) = n /\ laid.root[n] = 0
      /\ \A j \in 1..Len(s.rank) : laid.root[j] = s.root[j]
      /\ laid.newest = s.newest /\ laid.heads = s.heads /\ laid.stack = s.stack
      /\ laid.queue = s.queue /\ laid.gone = s.gone
  BY <1>1, <1>3 DEF Storing
<1>5. /\ laid.items[h] = {n}
      /\ \A d \in Elem : d # h => laid.items[d] = s.items[d]
  <2>1. s.items \in [Elem -> SUBSET Nat]  BY NodeFields
  <2> QED  BY <1>2, <1>4, <2>1
<1>6. CASE v = NoVia
  <2>1. r = laid /\ m = n  BY <1>4, <1>6
  <2> QED  BY <1>2, <1>4, <1>5, <1>6, <2>1 DEF Laid
<1>7. CASE v # NoVia
  <2>1. PICK k : k = n + 1  OBVIOUS
  <2>2. r = Stored(laid, v, rank) /\ k = Len(laid.rank) + 1 /\ Len(laid.root) = Len(laid.rank)
    BY <1>4, <1>7, <2>1
  <2>3. Storing(laid, r, v, k)  BY <1>2, <1>4, <1>7, <2>2, StoredIs
  <2>4. /\ r \in Node /\ r.items = [laid.items EXCEPT ![v] = laid.items[v] \cup {k}]
        /\ Len(r.rank) = k /\ Len(r.root) = k /\ r.root[k] = 0
        /\ \A j \in 1..n : r.root[j] = laid.root[j]
        /\ r.newest = s.newest /\ r.heads = s.heads /\ r.stack = s.stack
        /\ r.queue = s.queue /\ r.gone = s.gone
    BY <1>4, <2>3 DEF Storing
  <2>5. m = k /\ n \in 1..n /\ \A j \in 1..Len(s.rank) : j \in 1..n  BY <1>1, <2>4
  <2>6. /\ r.items[v] = {m} /\ r.items[h] = {n}
        /\ \A d \in Elem : d # h /\ d # v => r.items[d] = s.items[d]
    <3>1. laid.items \in [Elem -> SUBSET Nat]  BY <1>4, NodeFields
    <3>2. laid.items[v] = {}  BY <1>2, <1>5, <1>7
    <3> QED  BY <1>2, <1>5, <1>7, <2>4, <2>5, <3>1, <3>2
  <2>7. Laid(s, r, h, v, n, m)  BY <1>7, <2>1, <2>4, <2>5, <2>6 DEF Laid
  <2>8. \A j \in 1..Len(s.rank) : r.root[j] = s.root[j]  BY <1>4, <2>4, <2>5
  <2>9. r.root[n] = 0 /\ r.root[m] = 0  BY <1>4, <2>4, <2>5
  <2> QED  BY <2>4, <2>7, <2>8, <2>9
<1> QED  BY <1>6, <1>7

(* The head as a line.                                                     *)
HeadLine(l, h, v, n, m) ==
    /\ l \in Line /\ l.chain /\ l.track = h /\ l.net = Net[h]
    /\ l.via = IF v = NoVia THEN NoVia ELSE m
    /\ l.links = IF v = NoVia THEN <<n>> ELSE <<n, m>>

(* The line of a head, as it is pushed.                                    *)
LEMMA HeadLineIs ==
    ASSUME NEW s, NEW h \in HeadTrack, NEW v, NEW rank \in Int, NEW n \in Nat, n = Len(s.rank) + 1,
           NEW m \in Nat,
           NEW l, l = [Linked(s, NewLine(h), rank) EXCEPT
                          !.via = IF v = NoVia THEN NoVia ELSE m,
                          !.links = IF v = NoVia THEN @ ELSE Append(@, m)]
    PROVE  HeadLine(l, h, v, n, m)
<1>1. h \in Track  BY Places
<1>2. PICK new, a : new = NewLine(h) /\ a = Linked(s, new, rank)  OBVIOUS
<1>3. new \in Line /\ new.links = <<>> /\ new.track = h /\ new.chain /\ new.net = Net[h]
  BY <1>1, <1>2, NewLineIs
<1>4. a = [new EXCEPT !.links = <<n>>, !.rank = rank]  BY <1>2, <1>3 DEF Linked
<1>5. a.links = <<n>>  BY <1>3, <1>4 DEF Line
<1>6. PICK via, links : /\ via = IF v = NoVia THEN NoVia ELSE m
                        /\ links = IF v = NoVia THEN <<n>> ELSE <<n, m>>
  OBVIOUS
<1>7. (IF v = NoVia THEN a.links ELSE Append(a.links, m)) = links  BY <1>5, <1>6, AppendTwo
<1>8. l = [a EXCEPT !.via = via, !.links = links]
  BY <1>2, <1>6, <1>7
<1>9. l = [new EXCEPT !.links = links, !.rank = rank, !.via = via]
  BY <1>3, <1>4, <1>8 DEF Line
<1>10. via \in Nat /\ links \in Seq(Nat)
  <2>1. via \in Nat  BY <1>6 DEF NoVia
  <2>2. PICK one, two : one = <<n>> /\ two = <<n, m>>  OBVIOUS
  <2>3. one \in Seq(Nat) /\ two \in Seq(Nat)  BY <2>2
  <2> QED  BY <1>6, <2>1, <2>2, <2>3
<1>11. /\ l \in Line /\ l.chain /\ l.track = h /\ l.net = Net[h] /\ l.via = via /\ l.links = links
  BY <1>3, <1>9, <1>10 DEF Line
<1> QED  BY <1>6, <1>11 DEF HeadLine

(* Nothing is on the stack and the queue waits on a branch that differs    *)
(* from the run's by its ranks alone.                                      *)
Resting(s) == Good(s, {}) /\ s.stack = <<>>

(* World::clear_ranks changes no more than the ranks.                      *)
LEMMA UnrankRests ==
    ASSUME NEW s, Resting(s), NEW r, r = Unrank(s)
    PROVE  Resting(r)
<1>1. s \in Node /\ Stock(s) /\ QueueOK(s, {}) /\ s.stack = <<>>  BY DEF Resting, Good, Fine
<1>2. /\ r \in Node /\ Stock(r) /\ r.items = s.items /\ r.root = s.root /\ r.newest = s.newest
      /\ r.stack = <<>> /\ r.queue = s.queue
  BY <1>1, UnrankIs, UnrankStock
<1>3. \A q : Waits(s, q, {}) => Waits(r, q, {})  BY <1>2 DEF Waits, Fits
<1>4. QueueOK(r, {})  BY <1>1, <1>2, <1>3 DEF QueueOK
<1>5. StackOK(r)  BY <1>2 DEF StackOK
<1> QED  BY <1>2, <1>4, <1>5 DEF Resting, Good, Fine

(* The head entered under the entry it gets.                               *)
LEMMA HeadingIs ==
    ASSUME NEW s \in Node, Stock(s), NEW h, NEW v, NextHead(s, h, v), NEW full, NEW n, NEW m,
           Laid(s, full, h, v, n, m), \A j \in 1..Len(s.rank) : full.root[j] = s.root[j],
           full.root[n] = 0, full.root[m] = 0, full.newest = s.newest, full.heads = s.heads,
           NEW line, HeadLine(line, h, v, n, m), NEW known, known = Touched(full, line),
           NEW r, r = [known EXCEPT !.heads = Append(@, Len(known.newest))],
           NEW key, key = Len(s.newest) + 1
    PROVE  Heading(s, r, h, v, n, m, key)
<1>1. /\ full \in Node /\ n = Len(s.rank) + 1 /\ m \in {n, n + 1} /\ (v = NoVia => m = n)
      /\ full.items[h] = {n} /\ (v # NoVia => full.items[v] = {m})
      /\ Len(full.root) = m /\ h \in Elem /\ (v # NoVia => v \in Elem)
  BY Places DEF Laid, NextHead, Elem
<1>2. Links(line) = {n, m}
  <2>1. CASE v = NoVia
    <3>1. line.links = <<n>> /\ m = n  BY <1>1, <2>1 DEF HeadLine
    <3> QED  BY <3>1, LinksAre
  <2>2. CASE v # NoVia
    <3>1. line.links = <<n, m>>  BY <2>2 DEF HeadLine
    <3> QED  BY <3>1, LinksAre
  <2> QED  BY <2>1, <2>2
<1>3. InArena(full, n) /\ InArena(full, m)
  <2>1. n \in Shown(full)  BY <1>1 DEF Shown, Elem
  <2>2. m \in Shown(full)
    <3>1. CASE v = NoVia  BY <1>1, <2>1, <3>1
    <3>2. CASE v # NoVia  BY <1>1, <3>2 DEF Shown, Elem
    <3> QED  BY <3>1, <3>2
  <2> QED  BY <2>1, <2>2 DEF InArena
<1>4. RootOf(full, line) = 0  BY <1>2, RootNone
<1>5. /\ known \in Node /\ known.items = full.items /\ known.rank = full.rank
      /\ known.heads = full.heads /\ known.stack = full.stack /\ known.queue = full.queue
      /\ known.gone = full.gone /\ known.newest = Append(s.newest, 0)
      /\ Len(known.root) = Len(full.root)
  BY <1>1, <1>4, TouchedNew
<1>6. \A j \in 1..m : known.root[j] = IF j \in {n, m} THEN key ELSE full.root[j]
  <2>1. \A j \in 1..Len(full.root) :
          known.root[j] = IF j \in Links(line) /\ InArena(full, j)
                          THEN Len(full.newest) + 1 ELSE full.root[j]
    BY <1>1, <1>4, TouchedNew
  <2> QED  BY <1>1, <1>2, <1>3, <2>1
<1>7. s.newest \in Seq(Nat) /\ Len(s.newest) \in Nat /\ Len(s.rank) \in Nat /\ s.heads \in Seq(Nat)
  BY StockTypes
<1>8. Len(known.newest) = key /\ key \in Nat  BY <1>5, <1>7
<1>9. PICK heads : heads = Append(s.heads, key)  OBVIOUS
<1>10. heads \in Seq(Nat)  BY <1>7, <1>8, <1>9
<1>11. r = [known EXCEPT !.heads = heads]  BY <1>5, <1>8, <1>9
<1>12. /\ r \in Node /\ r.items = full.items /\ r.rank = full.rank /\ r.root = known.root
       /\ r.newest = Append(s.newest, 0) /\ r.heads = heads /\ r.stack = full.stack
       /\ r.queue = full.queue /\ r.gone = full.gone
  BY <1>5, <1>10, <1>11 DEF Node
<1>13. Laid(s, r, h, v, n, m)  BY <1>1, <1>5, <1>12 DEF Laid
<1>14. /\ n \in 1..m /\ m \in 1..m
       /\ \A j \in 1..Len(s.rank) : j \in 1..m /\ j \notin {n, m}
  BY <1>1, <1>7
<1>15. r.root[n] = key /\ r.root[m] = key /\ \A j \in 1..Len(s.rank) : r.root[j] = s.root[j]
  BY <1>6, <1>12, <1>14
<1> QED  BY <1>9, <1>12, <1>13, <1>15 DEF Heading

(* Shove::add_head_to_node                                                 *)
LEMMA HeadPushed ==
    ASSUME NEW s, Resting(s), NEW h, NEW v, NextHead(s, h, v), NEW r, NEW n, NEW m, NEW key,
           Heading(s, r, h, v, n, m, key), NEW line, HeadLine(line, h, v, n, m),
           NEW u, u = Pushed(r, line)
    PROVE  Good(u, {}) /\ u.stack # <<>> /\ Len(u.heads) = h
<1>1. s \in Node /\ Stock(s) /\ QueueOK(s, {}) /\ s.stack = <<>> /\ Len(s.rank) \in Nat
  BY StockTypes DEF Resting, Good, Fine
<1>2. Stock(r)  BY <1>1, HeadingStock
<1>3. /\ r \in Node /\ n = Len(s.rank) + 1 /\ m \in {n, n + 1} /\ Len(r.rank) = m
      /\ r.items[h] = {n} /\ (v # NoVia => r.items[v] = {m})
      /\ \A d \in Elem : d # h /\ d # v => r.items[d] = s.items[d]
      /\ r.stack = <<>> /\ r.queue = s.queue
      /\ \A j \in 1..Len(s.rank) : r.root[j] = s.root[j]
      /\ r.root[n] = key /\ key = Len(s.newest) + 1 /\ r.newest = Append(s.newest, 0)
      /\ r.heads = Append(s.heads, key)
  BY <1>1 DEF Heading, Laid
<1>4. /\ h \in Track /\ h \in Elem /\ Via \subseteq Elem /\ Track \subseteq Elem
      /\ Track \cap Via = {} /\ Len(s.heads) = h - 1 /\ s.items[h] = {} /\ h \in Nat \ {0}
      /\ (v # NoVia => v \in Via /\ End[h] = v /\ s.items[v] = {})
      /\ v \notin Track /\ NoVia \notin Via
  BY Places DEF NextHead, Elem, NoVia
<1>5. key \in Nat /\ key # 0 /\ Len(r.newest) = key /\ Len(s.newest) \in Nat
      /\ Len(s.newest) <= Len(r.newest)
  <2>1. s.newest \in Seq(Nat) /\ Len(s.newest) \in Nat  BY <1>1, StockTypes
  <2> QED  BY <1>3, <2>1
<1>6. StackOK(r) /\ Free(r, n)  BY <1>3 DEF StackOK, Free
<1>7. Fine(r)  BY <1>2, <1>3, <1>6 DEF Fine
<1>8. /\ line \in Line /\ line.chain /\ line.track = h /\ line.net = Net[h]
      /\ line.via = IF v = NoVia THEN NoVia ELSE m
      /\ line.links = IF v = NoVia THEN <<n>> ELSE <<n, m>>
  BY DEF HeadLine
<1>9. m # 0 /\ m \in Nat  BY <1>1, <1>3
<1>10. Stands(r, line)
  <2>1. Fits(r, line)
    <3>1. n \in r.items[line.track] /\ line.track \in Track  BY <1>3, <1>4, <1>8
    <3>2. CASE v = NoVia  BY <1>8, <3>1, <3>2 DEF Fits
    <3>3. CASE v # NoVia
      <4>1. line.via = m /\ line.links = <<n, line.via>> /\ line.via # NoVia
        BY <1>8, <1>9, <3>3 DEF NoVia
      <4>2. End[line.track] \in Via /\ line.via \in r.items[End[line.track]]
        BY <1>3, <1>4, <1>8, <3>3, <4>1
      <4> QED  BY <3>1, <4>1, <4>2 DEF Fits
    <3> QED  BY <3>2, <3>3
  <2>2. line.via <= Len(r.rank)  BY <1>3, <1>8, <1>9 DEF NoVia
  <2>3. ASSUME NEW w \in Via, line.via \in r.items[w] PROVE Net[w] = line.net
    <3>1. line.via \in 1..Len(r.rank)  BY <1>2, <1>3, <1>4, <2>3, StockTypes
    <3>2. v # NoVia  BY <1>8, <3>1 DEF NoVia
    <3>3. w = v
      <4>1. line.via \in r.items[v]  BY <1>3, <1>8, <3>2
      <4>2. v \in Elem /\ w \in Elem /\ OneEach(r)  BY <1>2, <1>4, <2>3, <3>2 DEF Stock
      <4> QED  BY <2>3, <4>1, <4>2 DEF OneEach
    <3>4. Net[End[h]] = Net[h]  BY <1>4, <3>2, AssumeTopology
    <3> QED  BY <1>4, <1>8, <3>2, <3>3, <3>4
  <2> QED  BY <1>8, <2>1, <2>2, <2>3 DEF Stands
<1>11. Pushable(r, line)  BY <1>3, <1>5, <1>6, <1>8 DEF Pushable
<1>12. KeyOf(r, line) = key
  <2>1. InArena(r, n)
    <3>1. n \in r.items[h]  BY <1>3
    <3> QED  BY <1>2, <1>4, <3>1, ShownIs DEF Stock
  <2>2. line.links = <<n>> \/ (line.links = <<n, m>> /\ r.root[n] # 0)  BY <1>3, <1>5, <1>8
  <2>3. RootOf(r, line) = r.root[n]  BY <2>1, <2>2, RootIs
  <2> QED  BY <1>3, <1>5, <2>3 DEF KeyOf
<1>13. PICK none : none = {}  OBVIOUS
<1>14. QueueBut(r, none, key)
  <2>1. ASSUME NEW q \in s.queue PROVE Waits(r, q, none)
    <3>1. Waits(s, q, none)  BY <1>1, <1>13 DEF QueueOK
    <3>2. ASSUME q.line.chain
          PROVE  /\ r.items[q.line.track] = s.items[q.line.track]
                 /\ \A i \in s.items[q.line.track] : s.root[i] # 0 => r.root[i] = s.root[i]
                 /\ q.line.track \notin none
                 /\ \A w \in Via : w = End[q.line.track] /\ q.line.via \in s.items[w] =>
                                   q.line.via \in r.items[w]
      <4>1. q.line.track \in Track /\ s.items[q.line.track] # {}  BY <3>1, <3>2 DEF Waits
      <4>2. q.line.track # h /\ q.line.track # v /\ q.line.track \in Elem  BY <1>4, <4>1
      <4>3. r.items[q.line.track] = s.items[q.line.track]  BY <1>3, <4>2
      <4>4. \A i \in s.items[q.line.track] : r.root[i] = s.root[i]
        BY <1>1, <1>3, <4>2, StockTypes
      <4>5. ASSUME NEW w \in Via, q.line.via \in s.items[w] PROVE q.line.via \in r.items[w]
        <5>1. w \in Elem /\ w # h  BY <1>4, <4>5
        <5>2. w # v  BY <1>4, <4>5
        <5> QED  BY <1>3, <4>5, <5>1, <5>2
      <4> QED  BY <1>13, <4>3, <4>4, <4>5
    <3>3. Len(s.newest) <= Len(r.newest) /\ Len(r.newest) \in Nat  BY <1>5
    <3> QED  BY <1>1, <3>1, <3>2, <3>3, WaitsOn
  <2> QED  BY <1>1, <1>3, <2>1 DEF QueueBut, QueueOK
<1>15. Good(u, none) /\ Pushing(r, u, line)
  <2>1. QueueBut(r, none, KeyOf(r, line))  BY <1>12, <1>14
  <2> QED  BY <1>7, <1>8, <1>10, <1>11, <2>1, PushedGood
<1>16. u.stack # <<>> /\ u.heads = Append(s.heads, key)  BY <1>3, <1>15 DEF Pushing
<1>17. Len(u.heads) = h
  <2>1. s.heads \in Seq(Nat)  BY <1>1, StockTypes
  <2>2. Len(u.heads) = Len(s.heads) + 1  BY <1>5, <1>16, <2>1
  <2> QED  BY <1>4, <2>2
<1> QED  BY <1>13, <1>15, <1>16, <1>17

(* AddHead: the next head is added and pushed.                             *)
LEMMA AddHeadInv ==
    ASSUME IInv, AddHead
    PROVE  IInv'
<1>1. phase = "heads" /\ adding <= NHeads /\ adding' = adding + 1 /\ phase' = "loop"
  BY DEF AddHead
<1>2. Running(node, phase, adding) /\ adding \in 1..(NHeads + 1)  BY <1>1 DEF IInv, InvAt
<1>3. Resting(node) /\ Len(node.heads) = adding - 1  BY <1>1, <1>2 DEF Running, Resting
<1>4. PICK h, v, s : /\ h = adding /\ v = IF End[h] \in HeadVias THEN End[h] ELSE NoVia
                     /\ s = Unrank(node)
  OBVIOUS
<1>5. h \in HeadTrack /\ NHeads \in Nat  BY <1>1, <1>2, <1>4, Places DEF HeadTrack
<1>6. Resting(s)  BY <1>3, <1>4, UnrankRests
<1>7. s \in Node /\ Stock(s) /\ Len(s.rank) \in Nat /\ HeadRank \in Int
  BY <1>6, StockTypes, AssumeSizes DEF Resting, Good, Fine
<1>8. Len(s.heads) = h - 1
  <2>1. node \in Node  BY <1>3 DEF Resting, Good, Fine
  <2>2. s.heads = node.heads  BY <1>4, <2>1, UnrankIs
  <2> QED  BY <1>3, <1>4, <2>2
<1>9. NextHead(s, h, v)  BY <1>4, <1>5, <1>7, <1>8, NextHeadIs
<1>10. PICK laid, full : /\ laid = Stored(s, h, HeadRank)
                         /\ full = IF v = NoVia THEN laid ELSE Stored(laid, v, HeadRank)
  OBVIOUS
<1>11. PICK n, m : n = Len(s.rank) + 1 /\ m = Len(full.rank)  OBVIOUS
<1>12. /\ Laid(s, full, h, v, n, m)
       /\ \A j \in 1..Len(s.rank) : full.root[j] = s.root[j]
       /\ full.root[n] = 0 /\ full.root[m] = 0
       /\ full.newest = s.newest /\ full.heads = s.heads
  BY <1>7, <1>9, <1>10, <1>11, LaidIs
<1>13. n \in Nat /\ m \in Nat
  <2>1. m = n \/ m = n + 1  BY <1>12 DEF Laid
  <2> QED  BY <1>7, <1>11, <2>1
<1>14. PICK line : line = [Linked(s, NewLine(h), HeadRank) EXCEPT
                              !.via = IF v = NoVia THEN NoVia ELSE m,
                              !.links = IF v = NoVia THEN @ ELSE Append(@, m)]
  OBVIOUS
<1>15. HeadLine(line, h, v, n, m)  BY <1>5, <1>7, <1>11, <1>13, <1>14, HeadLineIs
<1>16. PICK known, r, key : /\ known = Touched(full, line) /\ key = Len(s.newest) + 1
                            /\ r = [known EXCEPT !.heads = Append(@, Len(known.newest))]
  OBVIOUS
<1>17. Heading(s, r, h, v, n, m, key)  BY <1>7, <1>9, <1>12, <1>15, <1>16, HeadingIs
<1>18. PICK u : u = Pushed(r, line)  OBVIOUS
<1>19. Good(u, {}) /\ u.stack # <<>> /\ Len(u.heads) = h
  BY <1>6, <1>9, <1>15, <1>17, <1>18, HeadPushed
<1>20. node' = u
  <2> DEFINE head == adding
             via == IF End[head] \in HeadVias THEN End[head] ELSE NoVia
             one == Stored(Unrank(node), head, HeadRank)
             all == IF via = NoVia THEN one ELSE Stored(one, via, HeadRank)
             l == [Linked(Unrank(node), NewLine(head), HeadRank) EXCEPT
                     !.via = IF via = NoVia THEN NoVia ELSE Len(all.rank),
                     !.links = IF via = NoVia THEN @ ELSE Append(@, Len(all.rank))]
             k == Touched(all, l)
  <2>1. node' = Pushed([k EXCEPT !.heads = Append(@, Len(k.newest))], l)
    BY Zenon DEF AddHead
  <2>2. head = h /\ via = v  BY <1>4
  <2>3. one = laid  BY <1>4, <1>10
  <2> HIDE DEF one, via, head
  <2>4. all = full  BY <1>10, <2>2, <2>3
  <2> HIDE DEF all
  <2>5. l = line  BY <1>4, <1>11, <1>14, <2>2, <2>4
  <2> HIDE DEF l
  <2>6. k = known  BY <1>16, <2>4, <2>5
  <2> HIDE DEF k
  <2> QED  BY <1>16, <1>18, <2>1, <2>5, <2>6
<1>21. adding + 1 \in 1..(NHeads + 1) /\ adding + 1 > 1  BY <1>1, <1>2, <1>5
<1>22. Running(u, "loop", adding + 1)
  <2>1. h = adding /\ adding \in Nat  BY <1>2, <1>4, <1>5
  <2> QED  BY <1>19, <1>21, <2>1 DEF Running
<1>23. InvAt(u, "loop", adding + 1)  BY <1>21, <1>22 DEF InvAt
<1> QED  BY <1>1, <1>20, <1>23 DEF IInv
----------------------------------------------------------------------------
(* Shove::add_via_head_to_node: the via, as the line held, is no head's.   *)
ViaEntered(s, r, held) == r = Touched([s EXCEPT !.heads = Append(@, 0)], held)

(* A via dragged as a head is entered, and leaves a run that rests.        *)
LEMMA ViaHeadKnown ==
    ASSUME NEW s, Resting(s), NEW v \in Via, NEW i \in s.items[v], s.heads = <<>>, s.queue = {},
           NEW held, held.links = <<i>>, NEW r, ViaEntered(s, r, held)
    PROVE  Resting(r) /\ r.queue = {} /\ Len(r.heads) = 1 /\ r.items = s.items
<1>1. s \in Node /\ Stock(s) /\ s.stack = <<>>  BY DEF Resting, Good, Fine
<1>2. PICK heads, w : heads = Append(s.heads, 0) /\ w = [s EXCEPT !.heads = Append(@, 0)]  OBVIOUS
<1>3. /\ heads \in Seq(Nat) /\ Len(heads) = 1 /\ DOMAIN heads = {1} /\ heads[1] = 0
  <2>1. heads = <<0>>  BY <1>2
  <2>2. 0 \in Nat  OBVIOUS
  <2> QED  BY <2>1, <2>2
<1>4. w = [s EXCEPT !.heads = heads]  BY <1>2
<1>5. /\ w \in Node /\ w.items = s.items /\ w.rank = s.rank /\ w.root = s.root
      /\ w.newest = s.newest /\ w.heads = heads /\ w.stack = s.stack /\ w.queue = s.queue
      /\ w.gone = s.gone
  BY <1>1, <1>3, <1>4 DEF Node
<1>6. Stock(w)
  <2>1. Numbered(w) /\ OneEach(w)  BY <1>1, <1>5 DEF Stock, Numbered, OneEach
  <2>2. DOMAIN s.heads = {}  OBVIOUS
  <2>3. Len(s.newest) \in Nat  BY <1>1, StockTypes
  <2>4. Entered(w)  BY <1>1, <1>3, <1>5, <2>3 DEF Stock, Entered
  <2>5. Headed(w)
    <3>1. \A h \in HeadTrack : w.items[h] = {}  BY <1>1, <1>5, <2>2 DEF Stock, Headed
    <3>2. \A u \in HeadVias : w.items[u] = {}  BY <1>1, <1>5, <2>2 DEF Stock, Headed
    <3>3. 1 <= NHeads  BY Places
    <3> QED  BY <1>3, <1>5, <3>1, <3>2, <3>3 DEF Headed
  <2>6. Present(w)  BY <1>1, <1>3, <1>5, <2>2 DEF Stock, Present
  <2> QED  BY <2>1, <2>4, <2>5, <2>6 DEF Stock
<1>7. v \in Elem /\ i \in w.items[v]  BY <1>5 DEF Elem
<1>8. PICK key : key = KeyOf(w, held)  OBVIOUS
<1>9. SameBut(w, r, i) /\ Stock(r)
  <2>1. r = Touched(w, held)  BY <1>2 DEF ViaEntered
  <2>2. w \in Node  BY <1>5
  <2> QED  BY <1>6, <1>7, <1>8, <2>1, <2>2, TouchedStock
<1>10. /\ r \in Node /\ r.items = s.items /\ r.heads = heads /\ r.stack = <<>> /\ r.queue = {}
  BY <1>1, <1>5, <1>9 DEF SameBut
<1>11. StackOK(r) /\ QueueOK(r, {})  BY <1>10 DEF StackOK, QueueOK
<1> QED  BY <1>3, <1>9, <1>10, <1>11 DEF Resting, Good, Fine

(* AddViaHead: a via is dragged, with the tracks on it.                    *)
LEMMA AddViaHeadInv ==
    ASSUME IInv, NEW v \in DragVias, NEW i \in node.items[v], AddViaHead(v, i)
    PROVE  IInv'
<1>1. phase = "heads" /\ adding = 1 /\ adding' = NHeads + 1 /\ v \in Via
      /\ phase' = IF node'.stack = <<>> THEN "heads" ELSE "loop"
  BY Places DEF AddViaHead
<1>2. Running(node, phase, adding)  BY <1>1 DEF IInv, InvAt
<1>3. Resting(node) /\ node.queue = {} /\ node \in Node  BY <1>1, <1>2 DEF Running, Resting, Good, Fine
<1>4. node.heads = <<>>
  <2>1. node.heads \in Seq(Nat) /\ Len(node.heads) < 1  BY <1>1, <1>2, <1>3, NodeFields DEF Running
  <2> QED  BY <2>1
<1>5. PICK s, held, w, r : /\ s = Unrank(node) /\ held = [NewLine(v) EXCEPT !.links = <<i>>]
                           /\ w = [s EXCEPT !.heads = Append(@, 0)] /\ r = Touched(w, held)
  OBVIOUS
<1>6. /\ Resting(s) /\ s.items = node.items /\ s.heads = <<>> /\ s.queue = {}
  BY <1>3, <1>4, <1>5, UnrankIs, UnrankRests
<1>7. held.links = <<i>>  BY <1>5 DEF NewLine
<1>8. Resting(r) /\ r.queue = {} /\ Len(r.heads) = 1 /\ r.items = s.items
  <2>1. i \in s.items[v]  BY <1>6
  <2>2. ViaEntered(s, r, held)  BY <1>5 DEF ViaEntered
  <2> QED  BY <1>1, <1>6, <1>7, <2>1, <2>2, ViaHeadKnown
<1>9. \/ node' = r
      \/ \E collapsed : node' = ViaMoved(r, v, i, collapsed, 0, FALSE)
  BY <1>5 DEF AddViaHead
<1>10. Good(node', {}) /\ Len(node'.heads) = 1
  <2>1. CASE node' = r  BY <1>8, <2>1 DEF Resting
  <2>2. CASE \E collapsed : node' = ViaMoved(r, v, i, collapsed, 0, FALSE)
    <3>1. PICK collapsed : node' = ViaMoved(r, v, i, collapsed, 0, FALSE)  BY <2>2
    <3>2. PICK u, unwinds, rank : u = node' /\ unwinds = FALSE /\ rank = 0  OBVIOUS
    <3>3. u = ViaMoved(r, v, i, collapsed, rank, unwinds)  BY <3>1, <3>2
    <3>4. Good(r, {}) /\ (unwinds \/ (r.stack = <<>> /\ r.queue = {})) /\ i \in r.items[v]
      BY <1>6, <1>8 DEF Resting
    <3>5. rank \in Int  BY <3>2
    <3>6. ViaMoving(r, u, v)  BY <1>1, <3>3, <3>4, <3>5, ViaMovedGood
    <3> QED  BY <1>8, <3>2, <3>6 DEF ViaMoving
  <2> QED  BY <1>9, <2>1, <2>2
<1>11. NHeads \in Nat /\ NHeads >= 1  BY Places
<1>12. NHeads + 1 \in 1..(NHeads + 1) /\ NHeads + 1 > 1 /\ ~(NHeads + 1 <= NHeads) /\ 1 < NHeads + 1
       /\ NHeads + 1 # 1
  BY <1>11
<1>13. phase' \in {"heads", "loop"} /\ (phase' = "heads" <=> node'.stack = <<>>)  BY <1>1
<1>14. Running(node', phase', NHeads + 1)  BY <1>10, <1>12, <1>13 DEF Running
<1>15. InvAt(node', phase', NHeads + 1)  BY <1>12, <1>13, <1>14 DEF InvAt
<1> QED  BY <1>1, <1>15 DEF IInv
----------------------------------------------------------------------------
(* The second of two removed.                                              *)
LEMMA TailGoes ==
    ASSUME NEW a, NEW b
    PROVE  RemoveAt(<<a, b>>, 2) = <<a>>
<1>1. PICK f, g, h : f = <<a, b>> /\ g = <<a>> /\ h = <<>>  OBVIOUS
<1>2. f \in Seq({a, b}) /\ Len(f) = 2 /\ f[1] = a  BY <1>1
<1>3. g \in Seq({a, b}) /\ Len(g) = 1 /\ g[1] = a  BY <1>1
<1>4. PICK front, back : front = SubSeq(f, 1, 1) /\ back = SubSeq(f, 3, 2)  OBVIOUS
<1>5. front \in Seq({a, b}) /\ Len(front) = 1 /\ front[1] = a  BY <1>2, <1>4, SubSeqProperties
<1>6. back = <<>>  BY <1>2, <1>4, SubSeqEmpty
<1>7. front = g
  <2>1. \A k \in 1 .. 1 : k = 1  OBVIOUS
  <2> QED  BY <1>3, <1>5, <2>1, SeqEqual
<1>8. g \o <<>> = g  BY <1>3, ConcatEmptySeq
<1>9. RemoveAt(f, 2) = front \o back  BY <1>2, <1>4 DEF RemoveAt
<1> QED  BY <1>1, <1>6, <1>7, <1>8, <1>9

(* Shove::replace_line: of the links of a line that fits the via stays.    *)
LEMMA FittingIs ==
    ASSUME NEW s \in Node, Stock(s), NEW l \in Line, Fits(s, l)
    PROVE  /\ \E i \in s.items[l.track] : OldLinks(s, l) = <<i>>
           /\ RankOf(s, l) \in Int
<1>1. PICK i \in s.items[l.track] : l.links = IF l.via = NoVia THEN <<i>> ELSE <<i, l.via>>
  BY DEF Fits
<1>2. /\ l.track \in Track /\ l.track \in Elem /\ l.track \notin Via
      /\ (l.via # NoVia => End[l.track] \in Via /\ End[l.track] \in Elem /\ l.via \in s.items[End[l.track]])
  BY Places DEF Fits, Elem
<1>3. InArena(s, i) /\ ~IsVia(s, i) /\ i \in 1..Len(s.rank)
  BY <1>1, <1>2, ShownIs DEF Stock
<1>4. l.via # NoVia => InArena(s, l.via) /\ IsVia(s, l.via) /\ l.via \in 1..Len(s.rank)
  BY <1>2, ShownIs DEF Stock
<1>5. CASE l.via = NoVia
  <2>1. l.links = <<i>>  BY <1>1, <1>5
  <2>2. OldLinks(s, l) = <<i>>  BY <1>5, <2>1 DEF OldLinks
  <2>3. Links(l) = {i} /\ Links(l) \subseteq {i, i}  BY <2>1, LinksAre
  <2>4. RankOf(s, l) \in Int  BY <1>3, <2>3, LeastRank
  <2> QED  BY <2>2, <2>4
<1>6. CASE l.via # NoVia
  <2>1. l.links = <<i, l.via>>  BY <1>1, <1>6
  <2>2. Links(l) = {i, l.via} /\ DOMAIN l.links = {1, 2} /\ l.links[1] = i /\ l.links[2] = l.via
    BY <2>1, LinksAre
  <2>3. LinkedVias(s, l) = {2}  BY <1>3, <1>4, <1>6, <2>2 DEF LinkedVias
  <2>4. Min({2}) = 2
    <3>1. PICK two : two = {2}  OBVIOUS
    <3>2. two \in SUBSET Nat /\ two # {}  BY <3>1
    <3>3. Min(two) \in two  BY <3>2, LeastOf
    <3> QED  BY <3>1, <3>3
  <2>5. OldLinks(s, l) = RemoveAt(l.links, 2)  BY <1>6, <2>3, <2>4 DEF OldLinks
  <2>6. OldLinks(s, l) = <<i>>  BY <2>1, <2>5, TailGoes
  <2>7. RankOf(s, l) \in Int
    <3>1. \A k \in Links(l) : k \in 1..Len(s.rank)  BY <1>3, <1>4, <1>6, <2>2
    <3>2. Links(l) \subseteq {i, l.via}  BY <2>2
    <3> QED  BY <3>1, <3>2, LeastRank
  <2> QED  BY <2>6, <2>7
<1> QED  BY <1>5, <1>6

(* Shove::run_optimizer takes the queued lines in the order of their keys; *)
(* those up to k have been looked at.                                      *)
Optimizing(s, x, chosen, k) ==
    /\ x \in Node /\ Stock(x) /\ x.stack = <<>> /\ x.heads = s.heads
    /\ \A q \in chosen : q.key > k => Waits(x, q, {})

(* The lines the optimizer takes from the queue.                           *)
Choosing(chosen) ==
    \A q \in chosen : q \in [key : Nat, line : Line] /\ q.line.chain

(* One line optimized keeps what holds between two of them.                *)
LEMMA OptimizingStep ==
    ASSUME NEW s, NEW chosen, Choosing(chosen), NEW k \in Nat \ {0}, NEW x,
           Optimizing(s, x, chosen, k - 1), NEW y,
           y = IF \E q \in chosen : q.key = k
               THEN Improved(x, (CHOOSE q \in chosen : q.key = k).line) ELSE x
    PROVE  Optimizing(s, y, chosen, k)
<1>1. x \in Node /\ Stock(x) /\ x.stack = <<>> /\ x.heads = s.heads  BY DEF Optimizing
<1>2. \A q \in chosen : q.key >= k => Waits(x, q, {})
  <2>1. \A q \in chosen : q.key \in Nat  BY DEF Choosing
  <2>2. \A q \in chosen : q.key >= k => q.key > k - 1  BY <2>1
  <2> QED  BY <2>2 DEF Optimizing
<1>3. \A q \in chosen : q.key > k => q.key >= k /\ q.key # k
  <2>1. \A q \in chosen : q.key \in Nat  BY DEF Choosing
  <2> QED  BY <2>1
<1>4. CASE ~\E q \in chosen : q.key = k
  <2>1. y = x  BY <1>4
  <2> QED  BY <1>1, <1>2, <1>3, <2>1 DEF Optimizing
<1>5. CASE \E q \in chosen : q.key = k
  <2>1. PICK c : c \in chosen /\ c.key = k /\ c = CHOOSE q \in chosen : q.key = k  BY <1>5
  <2>2. PICK l, new, rank : /\ l = c.line /\ new = [l EXCEPT !.links = <<>>]
                            /\ rank = RankOf(x, l)
    OBVIOUS
  <2>3. y = Replaced(x, l, new, rank)  BY <1>5, <2>1, <2>2 DEF Improved
  <2>4. l \in Line /\ l.chain  BY <2>1, <2>2 DEF Choosing
  <2>5. c.key >= k  BY <2>1
  <2>6. Waits(x, c, {})  BY <1>2, <2>1, <2>5
  <2>7. /\ l.track \in Track /\ Fits(x, l)
        /\ \A j \in x.items[l.track] : x.root[j] = k
    BY <2>1, <2>2, <2>4, <2>6 DEF Waits
  <2>8. rank \in Int  BY <1>1, <2>2, <2>4, <2>7, FittingIs
  <2>9. PICK i \in x.items[l.track] : OldLinks(x, l) = <<i>>  BY <1>1, <2>4, <2>7, FittingIs
  <2>10. PICK t, n, old : t = l.track /\ n = Len(x.rank) + 1 /\ old = l  OBVIOUS
  <2>11. new \in Line /\ new.links = <<>> /\ new.track = t
    <3>1. PICK none : none = <<>>  OBVIOUS
    <3>2. none \in Seq(Nat) /\ new = [l EXCEPT !.links = none]  BY <2>2, <3>1
    <3> QED  BY <2>4, <2>10, <3>1, <3>2 DEF Line
  <2>12. /\ t \in Track /\ i \in x.items[t] /\ old \in Line /\ OldLinks(x, old) = <<i>>
         /\ y = Replaced(x, old, new, rank) /\ x.root[i] = k
    BY <2>3, <2>4, <2>7, <2>9, <2>10
  <2>13. Renewed(x, y, t, i, n) /\ Stock(y)  BY <1>1, <2>8, <2>10, <2>11, <2>12, ReplacedStock
  <2>14. /\ y \in Node /\ y.items = [x.items EXCEPT ![t] = {n}]
         /\ y.stack = x.stack /\ y.heads = x.heads /\ Len(x.newest) <= Len(y.newest)
         /\ \A j \in 1..Len(x.rank) : y.root[j] = x.root[j]
    BY <2>12, <2>13 DEF Renewed
  <2>15. /\ Track \subseteq Elem /\ Via \subseteq Elem /\ Track \cap Via = {}
         /\ \A d \in Elem : d # t => y.items[d] = x.items[d]
    <3>1. x.items \in [Elem -> SUBSET Nat]  BY <1>1, NodeFields
    <3> QED  BY <2>14, <3>1, Places DEF Elem
  <2>16. Len(y.newest) \in Nat  BY <2>13, <2>14, StockTypes
  <2>17. ASSUME NEW q \in chosen, q.key > k PROVE Waits(y, q, {})
    <3>1. PICK none : none = {}  OBVIOUS
    <3>2. Waits(x, q, none) /\ q.key # k /\ q.line.chain
      BY <1>2, <1>3, <2>17, <3>1 DEF Choosing
    <3>3. q.line.track \in Track /\ q.line.track # t
      <4>1. q.line.track \in Track /\ \A j \in x.items[q.line.track] : x.root[j] = q.key
        BY <3>2 DEF Waits
      <4> QED  BY <2>12, <3>2, <4>1
    <3>4. /\ y.items[q.line.track] = x.items[q.line.track]
          /\ \A j \in x.items[q.line.track] : x.root[j] # 0 => y.root[j] = x.root[j]
          /\ q.line.track \notin none
          /\ \A w \in Via : w = End[q.line.track] /\ q.line.via \in x.items[w] =>
                            q.line.via \in y.items[w]
      BY <1>1, <2>12, <2>14, <2>15, <3>1, <3>3, StockTypes
    <3>5. Waits(y, q, none)  BY <1>1, <2>14, <2>16, <3>2, <3>4, WaitsOn
    <3> QED  BY <3>1, <3>5
  <2> QED  BY <1>1, <2>13, <2>14, <2>17 DEF Optimizing
<1> QED  BY <1>4, <1>5

(* run_optimizer replaces the lines it chose and keeps the stock in order. *)
LEMMA OptimizedGood ==
    ASSUME NEW s, NEW chosen, Choosing(chosen), Optimizing(s, s, chosen, 0),
           NEW r, r = Optimized(s, chosen)
    PROVE  r \in Node /\ Stock(r) /\ r.stack = <<>> /\ r.heads = s.heads
<1> DEFINE n == Len(s.newest)
           Go(k, x) == IF \E q \in chosen : q.key = k
                       THEN Improved(x, (CHOOSE q \in chosen : q.key = k).line) ELSE x
           Is(g) == g = [key \in 0 .. n |->
                            IF key = 0 THEN s
                            ELSE IF \E q \in chosen : q.key = key
                            THEN Improved(g[key - 1], (CHOOSE q \in chosen : q.key = key).line)
                            ELSE g[key - 1]]
<1>1. s \in Node /\ n \in Nat  BY StockTypes DEF Optimizing
<1>2. PICK Step : Step = [k \in 1 .. n |->
                            [x \in Node |-> IF Go(k, x) \in Node THEN Go(k, x) ELSE x]]
  OBVIOUS
<1>3. Step \in Steps(Node, n)  BY <1>2 DEF Steps
<1>4. PICK f : IsWalk(f, Node, s, n, Step)  BY <1>1, <1>3, Walk
<1>5. f \in [0 .. n -> Node] /\ f[0] = s /\ \A k \in 1 .. n : f[k] = Step[k][f[k - 1]]
  BY <1>4 DEF IsWalk
<1>6. ASSUME NEW k \in 1 .. n, Go(k, f[k - 1]) \in Node PROVE f[k] = Go(k, f[k - 1])
  <2>1. k - 1 \in 0 .. n  BY <1>1
  <2> HIDE DEF Go
  <2> QED  BY <1>2, <1>5, <1>6, <2>1
<1>7. ASSUME NEW k \in 1 .. n, Optimizing(s, f[k - 1], chosen, k - 1)
      PROVE  f[k] = Go(k, f[k - 1]) /\ Optimizing(s, f[k], chosen, k)
  <2>1. PICK x, y : x = f[k - 1] /\ y = Go(k, x)  OBVIOUS
  <2>2. Optimizing(s, x, chosen, k - 1) /\ k \in Nat \ {0}  BY <1>1, <1>7, <2>1
  <2>3. y = IF \E q \in chosen : q.key = k
            THEN Improved(x, (CHOOSE q \in chosen : q.key = k).line) ELSE x
    BY <2>1
  <2>4. Optimizing(s, y, chosen, k)  BY <2>2, <2>3, OptimizingStep
  <2>5. y \in Node  BY <2>4 DEF Optimizing
  <2>6. f[k] = y  BY <1>6, <2>1, <2>5
  <2> QED  BY <2>1, <2>4, <2>6
<1>8. \A k \in 0 .. n : Optimizing(s, f[k], chosen, k)
  <2> DEFINE S == {k \in 0 .. n : Optimizing(s, f[k], chosen, k)}
  <2>1. 0 \in S  BY <1>1, <1>5
  <2>2. ASSUME NEW k \in 1 .. n, k - 1 \in S PROVE k \in S
    <3>1. Optimizing(s, f[k], chosen, k)  BY <1>7, <2>2
    <3> QED  BY <3>1
  <2> HIDE DEF S
  <2>3. \A k \in 0 .. n : k \in S  BY <1>1, <2>1, <2>2, UpTo
  <2> QED  BY <2>3 DEF S
<1>9. \A k \in 1 .. n : f[k] = Go(k, f[k - 1])
  <2> SUFFICES ASSUME NEW k \in 1 .. n PROVE f[k] = Go(k, f[k - 1])  OBVIOUS
  <2>1. k - 1 \in 0 .. n  BY <1>1
  <2>2. Optimizing(s, f[k - 1], chosen, k - 1)  BY <1>8, <2>1
  <2> HIDE DEF Go
  <2> QED  BY <1>7, <2>2
<1>10. Is(f)
  <2>1. f = [k \in 0 .. n |-> f[k]]  BY <1>5
  <2>2. ASSUME NEW k \in 0 .. n
        PROVE  f[k] = IF k = 0 THEN s
                      ELSE IF \E q \in chosen : q.key = k
                      THEN Improved(f[k - 1], (CHOOSE q \in chosen : q.key = k).line)
                      ELSE f[k - 1]
    <3>1. CASE k = 0  BY <1>5, <3>1
    <3>2. CASE k # 0
      <4>1. k \in 1 .. n  BY <1>1, <3>2
      <4> QED  BY <1>9, <3>2, <4>1
    <3> QED  BY <3>1, <3>2
  <2> QED  BY <2>1, <2>2
<1>11. Is(CHOOSE g : Is(g))  BY <1>10
<1>12. PICK h : Is(h) /\ h = CHOOSE g : Is(g)  BY <1>11
<1>13. r = h[n]  BY <1>12 DEF Optimized
<1>14. \A k \in 0 .. n : h[k] = f[k]
  <2> DEFINE S == {k \in 0 .. n : h[k] = f[k]}
  <2>1. 0 \in S  BY <1>1, <1>5, <1>12
  <2>2. ASSUME NEW k \in 1 .. n, k - 1 \in S PROVE k \in S
    <3>1. k \in 0 .. n /\ k # 0 /\ h[k - 1] = f[k - 1]  BY <1>1, <2>2
    <3>2. h = [key \in 0 .. n |->
                  IF key = 0 THEN s
                  ELSE IF \E q \in chosen : q.key = key
                  THEN Improved(h[key - 1], (CHOOSE q \in chosen : q.key = key).line)
                  ELSE h[key - 1]]
      BY <1>12
    <3>3. h[k] = IF \E q \in chosen : q.key = k
                 THEN Improved(h[k - 1], (CHOOSE q \in chosen : q.key = k).line)
                 ELSE h[k - 1]
      BY <3>1, <3>2
    <3>4. h[k] = Go(k, h[k - 1])  BY <3>3
    <3> QED  BY <1>9, <3>1, <3>4
  <2> HIDE DEF S
  <2>3. \A k \in 0 .. n : k \in S  BY <1>1, <2>1, <2>2, UpTo
  <2> QED  BY <2>3 DEF S
<1>15. Optimizing(s, r, chosen, n)
  <2>1. n \in 0 .. n  BY <1>1
  <2>2. Optimizing(s, f[n], chosen, n) /\ h[n] = f[n]  BY <1>8, <1>14, <2>1
  <2> QED  BY <1>13, <2>2
<1> QED  BY <1>15 DEF Optimizing

(* Shove::remove_heads: what the heads were stored as goes, and only that. *)
LEMMA HeadsGone ==
    ASSUME NEW s \in Node, Stock(s), s.stack = <<>>,
           NEW r, r = [Without(s, HeadItems(s)) EXCEPT !.queue = {}]
    PROVE  Over(r)
<1>1. PICK gone : gone = HeadItems(s)  OBVIOUS
<1>2. s.items \in [Elem -> SUBSET Nat]  BY NodeFields
<1>3. PICK items : items = [e \in Elem |-> s.items[e] \ gone]  OBVIOUS
<1>4. PICK w : w = [s EXCEPT !.items = items]  OBVIOUS
<1>5. Without(s, gone) = w  BY <1>2, <1>3, <1>4 DEF Without
<1>6. PICK none : none = {}  OBVIOUS
<1>7. r = [w EXCEPT !.queue = none]  BY <1>1, <1>5, <1>6
<1>8. r.items = items /\ r.stack = <<>> /\ r.queue = {} /\ r.gone = s.gone
  BY <1>4, <1>6, <1>7 DEF Node
<1>9. \A e \in Elem : r.items[e] = s.items[e] \ gone  BY <1>3, <1>8
<1>10. OneEach(r)  BY <1>9 DEF Stock, OneEach
<1>11. HeadTrack \subseteq Elem /\ HeadVias \subseteq Elem /\ s.gone \subseteq Elem
       /\ Board \cap HeadTrack = {} /\ Board \cap HeadVias = {} /\ Board \subseteq Elem
  <2>1. s.gone \subseteq Track  BY NodeFields
  <2> QED  BY <2>1, Places DEF Elem
<1>12. DOMAIN s.heads = 1..Len(s.heads) /\ s.heads \in Seq(Nat)  BY StockTypes
<1>13. \A h \in DOMAIN s.heads : s.heads[h] \in ToSet(s.heads)  BY DEF ToSet
<1>14. ASSUME NEW e \in HeadTrack \cup HeadVias PROVE r.items[e] = {}
  <2>1. e \in Elem /\ e \notin Board  BY <1>11, <1>14
  <2>2. ASSUME NEW i \in s.items[e] PROVE i \in gone
    <3>1. PICK h \in DOMAIN s.heads : s.heads[h] # 0 /\ s.root[i] = s.heads[h]
      BY <1>14 DEF Stock, Headed
    <3>2. s.root[i] \in ToSet(s.heads) \ {0}  BY <1>13, <3>1
    <3>3. i \notin Board  BY <1>11, <2>1 DEF Stock, Numbered
    <3>4. i \in Shown(s)  BY <2>1 DEF Shown, Elem
    <3> QED  BY <1>1, <3>2, <3>3, <3>4 DEF HeadItems
  <2> QED  BY <1>9, <2>1, <2>2
<1>15. ASSUME NEW e \in Elem \ (HeadTrack \cup HeadVias), NEW i \in s.items[e] PROVE i \notin gone
  <2>1. SUFFICES ASSUME i \in gone PROVE FALSE  OBVIOUS
  <2>2. s.root[i] \in ToSet(s.heads) \ {0}  BY <1>1, <2>1 DEF HeadItems
  <2>3. PICK h \in DOMAIN s.heads : s.heads[h] = s.root[i] /\ s.heads[h] # 0
    BY <2>2 DEF ToSet
  <2> QED  BY <1>15, <2>3 DEF Stock, Headed
<1>16. \A e \in s.gone : r.items[e] = {}  BY <1>9, <1>11 DEF Stock, Present
<1>17. \A e \in Elem \ (HeadTrack \cup HeadVias \cup s.gone) : r.items[e] # {}
  BY <1>9, <1>15 DEF Stock, Present
<1> QED  BY <1>8, <1>10, <1>14, <1>16, <1>17 DEF Over

(* Finish: the optimizer runs, the heads are taken off, and nothing of     *)
(* them is left.                                                           *)
LEMMA FinishInv ==
    ASSUME IInv, Finish
    PROVE  IInv'
<1>1. phase = "heads" /\ phase' = "done" /\ adding' = adding  BY DEF Finish
<1>2. Running(node, phase, adding) /\ adding \in 1..(NHeads + 1)  BY <1>1 DEF IInv, InvAt
<1>3. /\ node \in Node /\ Stock(node) /\ node.stack = <<>> /\ QueueOK(node, {})
  BY <1>1, <1>2 DEF Running, Good, Fine
<1>4. PICK lines : lines = {q \in node.queue : q.key \notin ToSet(node.heads) /\ q.line.chain}
  OBVIOUS
<1>5. PICK chosen \in SUBSET lines :
         node' = [Without(Optimized(node, chosen), HeadItems(Optimized(node, chosen)))
                     EXCEPT !.queue = {}]
  BY <1>4 DEF Finish
<1>6. PICK done : done = Optimized(node, chosen)  OBVIOUS
<1>7. Choosing(chosen)
  <2>1. node.queue \subseteq [key : Nat, line : Line]  BY <1>3, NodeFields
  <2> QED  BY <1>4, <2>1 DEF Choosing
<1>8. Optimizing(node, node, chosen, 0)
  <2>1. \A q \in chosen : Waits(node, q, {})  BY <1>3, <1>4 DEF QueueOK
  <2> QED  BY <1>3, <2>1 DEF Optimizing
<1>9. done \in Node /\ Stock(done) /\ done.stack = <<>>  BY <1>6, <1>7, <1>8, OptimizedGood
<1>10. PICK r : r = node'  OBVIOUS
<1>11. r = [Without(done, HeadItems(done)) EXCEPT !.queue = {}]  BY <1>5, <1>6, <1>10
<1>12. Over(r)  BY <1>9, <1>11, HeadsGone
<1>13. InvAt(r, "done", adding)  BY <1>2, <1>12 DEF InvAt
<1> QED  BY <1>1, <1>10, <1>13 DEF IInv
----------------------------------------------------------------------------
(* A run begins with the board as it is, with no head and nothing pushed.  *)
LEMMA InitInv ==
    ASSUME Init
    PROVE  IInv
<1> DEFINE n == NTracks + NVias
<1>1. /\ Track \cup Via = 1..n /\ n \in Nat /\ Elem = Track \cup Via
      /\ Board \subseteq Elem /\ Board \cap HeadTrack = {} /\ Board \cap HeadVias = {}
      /\ Board = (Track \ HeadTrack) \cup (Via \ HeadVias)
  BY Places DEF Track, Via, Elem, Board
<1>2. PICK items, rank, root, none, empty :
         /\ items = [e \in Elem |-> {e} \cap Board] /\ none = <<>> /\ empty = {}
         /\ rank = [i \in 1..n |-> Unranked] /\ root = [i \in 1..n |-> 0]
  OBVIOUS
<1>3. node = [items |-> items, rank |-> rank, root |-> root, newest |-> none, heads |-> none,
              stack |-> none, queue |-> empty, gone |-> empty, relinked |-> FALSE]
  <2>1. items = [e \in Track \cup Via |-> {e} \cap Board]  BY <1>1, <1>2
  <2>2. /\ rank = [i \in Track \cup Via |-> Unranked] /\ root = [i \in Track \cup Via |-> 0]
    BY <1>1, <1>2
  <2> QED  BY <1>2, <2>1, <2>2 DEF Init
<1>4. /\ node.items = items /\ node.rank = rank /\ node.root = root /\ node.newest = none
      /\ node.heads = none /\ node.stack = none /\ node.queue = empty /\ node.gone = empty
  BY <1>3
<1>5. /\ rank \in Seq(Int) /\ Len(rank) = n /\ root \in Seq(Nat) /\ Len(root) = n
      /\ \A i \in 1..n : root[i] = 0
  <2>1. Unranked \in Int /\ 0 \in Nat  BY DEF Unranked
  <2>2. rank \in [1..n -> Int] /\ root \in [1..n -> Nat]  BY <1>2, <2>1
  <2> QED  BY <1>1, <1>2, <2>2
<1>6. items \in [Elem -> SUBSET Nat]
  <2>1. Elem \subseteq Nat  BY <1>1
  <2> QED  BY <1>2, <2>1
<1>7. /\ none \in Seq(Nat) /\ none \in Seq(Line) /\ Len(none) = 0 /\ DOMAIN none = {}
  BY <1>2
<1>8. node \in Node
  <2>1. empty \in SUBSET [key : Nat, line : Line] /\ empty \in SUBSET Track  BY <1>2
  <2> QED  BY <1>3, <1>5, <1>6, <1>7, <2>1 DEF Node
<1>9. \A e \in Elem : items[e] = {e} \cap Board  BY <1>2
<1>10. DOMAIN root = 1..n  BY <1>2
<1>11. Stock(node)
  <2>1. Numbered(node)  BY <1>1, <1>4, <1>5, <1>9 DEF Numbered
  <2>2. OneEach(node)  BY <1>4, <1>9 DEF OneEach
  <2>3. Entered(node)
    <3>1. \A i \in DOMAIN node.root : node.root[i] <= Len(node.newest)
      BY <1>4, <1>5, <1>7, <1>10
    <3>2. \A t, u \in Track : \A i \in node.items[t], j \in node.items[u] :
            node.root[i] = node.root[j] /\ node.root[i] # 0 => t = u
      BY <1>1, <1>4, <1>5, <1>9
    <3> QED  BY <1>4, <1>7, <3>1, <3>2 DEF Entered
  <2>4. Headed(node)
    <3>1. HeadTrack \subseteq Elem /\ HeadVias \subseteq Elem /\ NHeads \in Nat  BY Places DEF Elem
    <3>2. \A h \in HeadTrack : node.items[h] = {}  BY <1>1, <1>4, <1>9, <3>1
    <3>3. \A v \in HeadVias : node.items[v] = {}  BY <1>1, <1>4, <1>9, <3>1
    <3> QED  BY <1>4, <1>7, <3>1, <3>2, <3>3 DEF Headed
  <2>5. Present(node)
    <3>1. \A e \in Elem \ (HeadTrack \cup HeadVias) : e \in Board  BY <1>1
    <3> QED  BY <1>2, <1>4, <1>7, <1>9, <3>1 DEF Present
  <2> QED  BY <2>1, <2>2, <2>3, <2>4, <2>5 DEF Stock
<1>12. StackOK(node) /\ QueueOK(node, {})  BY <1>2, <1>4, <1>7 DEF StackOK, QueueOK
<1>13. Good(node, {})  BY <1>8, <1>11, <1>12 DEF Good, Fine
<1>14. phase = "heads" /\ adding = 1  BY DEF Init
<1>15. Running(node, phase, adding)  BY <1>2, <1>4, <1>7, <1>13, <1>14 DEF Running
<1>16. adding \in 1..(NHeads + 1)  BY <1>14, Places
<1> QED  BY <1>14, <1>15, <1>16 DEF IInv, InvAt

(* Every step of a run keeps the invariant.                                *)
LEMMA StepInv ==
    ASSUME IInv, ~ViaLines, [Next]_vars
    PROVE  IInv'
<1>1. CASE AddHead  BY <1>1, AddHeadInv
<1>2. CASE \E v \in DragVias : \E i \in node.items[v] : AddViaHead(v, i)  BY <1>2, AddViaHeadInv
<1>3. CASE Finish  BY <1>3, FinishInv
<1>4. CASE Retire  BY <1>4, RetireInv
<1>5. CASE HitSolid  BY <1>5, HitSolidInv
<1>6. CASE GiveUp  BY <1>6, GiveUpInv
<1>7. ASSUME NEW t \in Track, NEW i \in node.items[t], HitSegment(t, i) \/ ReverseSegment(t, i)
      PROVE  IInv'
  BY <1>7, HitSegmentInv, ReverseSegmentInv
<1>8. ASSUME NEW v \in Via, NEW i \in node.items[v], HitVia(v, i) \/ ReverseVia(v, i)
      PROVE  IInv'
  BY <1>8, HitViaInv, ReverseViaInv
<1>9. CASE UNCHANGED vars  BY <1>9 DEF vars, IInv
<1> QED  BY <1>1, <1>2, <1>3, <1>4, <1>5, <1>6, <1>7, <1>8, <1>9 DEF Next

(* The inductive invariant of a run, for any board of tracks and vias, any *)
(* heads and any bound on the iterations, while lines that end with a via  *)
(* do not give way themselves (see InvAt).                                 *)
THEOREM RunStands ==
    ASSUME ~ViaLines
    PROVE  Spec => []IInv
<1>1. Init => IInv  BY InitInv
<1>2. IInv /\ [Next]_vars => IInv'  BY StepInv
<1> QED  BY <1>1, <1>2, PTL DEF Spec
----------------------------------------------------------------------------
(* The invariant says that the stack stands.                               *)
LEMMA InvStands ==
    ASSUME IInv
    PROVE  StackStands
<1>1. phase # "failed" => phase \in {"heads", "loop"} \/ phase = "done"  BY DEF IInv, InvAt
<1>2. ASSUME phase \in {"heads", "loop"}
      PROVE  /\ \A k, m \in DOMAIN node.stack :
                   /\ Links(node.stack[k]) \subseteq Shown(node)
                   /\ k # m => Links(node.stack[k]) \cap Links(node.stack[m]) \subseteq
                                   {i \in Item : IsVia(node, i)}
             /\ \A q \in node.queue : Links(q.line) \subseteq Shown(node)
  <2>1. Fine(node) /\ Stock(node) /\ QueueOK(node, {}) /\ StackOK(node)
    BY <1>2 DEF IInv, InvAt, Running, Good, Fine
  <2>2. ASSUME NEW k \in DOMAIN node.stack, NEW j \in Links(node.stack[k])
        PROVE  Linking(node, node.stack[k], j)
    BY <2>1, <2>2, LinksOwned DEF Stock, StackOK
  <2>3. ASSUME NEW k \in DOMAIN node.stack, NEW m \in DOMAIN node.stack, k # m,
               NEW j \in Links(node.stack[k]), j \in Links(node.stack[m])
        PROVE  j \in Item /\ IsVia(node, j)
    <3>1. Linking(node, node.stack[k], j)  BY <2>2
    <3>2. \A t \in Track : j \notin node.items[t]  BY <2>1, <2>3, LinkedOnce
    <3> QED  BY <3>1, <3>2 DEF Linking, Item, IsVia
  <2>4. ASSUME NEW q \in node.queue PROVE Links(q.line) \subseteq Shown(node)
    <3>1. Waits(node, q, {})  BY <2>1 DEF QueueOK
    <3>2. CASE q.line.chain
      <4>1. Fits(node, q.line)  BY <3>1, <3>2 DEF Waits
      <4>2. PICK i \in node.items[q.line.track] :
               q.line.links = IF q.line.via = NoVia THEN <<i>> ELSE <<i, q.line.via>>
        BY <4>1 DEF Fits
      <4>3. i \in Shown(node)  BY <4>1 DEF Fits, Shown
      <4>4. CASE q.line.via = NoVia
        <5>1. Links(q.line) = {i}  BY <4>2, <4>4, LinksAre
        <5> QED  BY <4>3, <5>1
      <4>5. CASE q.line.via # NoVia
        <5>1. Links(q.line) = {i, q.line.via}  BY <4>2, <4>5, LinksAre
        <5>2. q.line.via \in Shown(node)  BY <4>1, <4>5 DEF Fits, Shown
        <5> QED  BY <4>3, <5>1, <5>2
      <4> QED  BY <4>4, <4>5
    <3>3. CASE ~q.line.chain
      <4>1. Links(q.line) = {}  BY <3>1, <3>3, LinksAre DEF Waits
      <4> QED  BY <4>1
    <3> QED  BY <3>2, <3>3
  <2>5. \A k \in DOMAIN node.stack : Links(node.stack[k]) \subseteq Shown(node)
    BY <2>2 DEF Linking
  <2> QED  BY <2>3, <2>4, <2>5
<1>3. ASSUME phase = "done" PROVE DOMAIN node.stack = {}
  BY <1>3 DEF IInv, InvAt, Over
<1> QED  BY <1>1, <1>2, <1>3 DEF StackStands

(* The invariant says that nothing is lost.                                *)
LEMMA InvLost ==
    ASSUME IInv
    PROVE  NothingLost
<1> SUFFICES ASSUME phase = "done", NEW e \in Track \cup Via
             PROVE  Cardinality(node.items[e]) =
                       IF e \in HeadTrack \cup HeadVias \cup node.gone THEN 0 ELSE 1
  BY DEF NothingLost
<1>1. Over(node) /\ e \in Elem  BY DEF IInv, InvAt, Elem
<1>2. CASE e \in HeadTrack \cup HeadVias \cup node.gone
  <2>1. node.items[e] = {}  BY <1>1, <1>2 DEF Over
  <2> QED  BY <1>2, <2>1, FS_EmptySet
<1>3. CASE e \notin HeadTrack \cup HeadVias \cup node.gone
  <2>1. PICK i : i \in node.items[e]  BY <1>1, <1>3 DEF Over
  <2>2. node.items[e] = {i}  BY <1>1, <2>1 DEF Over, OneEach
  <2>3. Cardinality({i}) = 1  BY FS_Singleton
  <2> QED  BY <1>3, <2>2, <2>3
<1> QED  BY <1>2, <1>3

(* The invariant says that the heads are reported.                         *)
LEMMA InvReported ==
    ASSUME IInv
    PROVE  HeadsReported
<1> SUFFICES ASSUME phase \in {"heads", "loop"}, NEW h \in DOMAIN node.heads,
                    node.heads[h] # 0, h \notin node.gone
             PROVE  \/ node.newest[node.heads[h]] = 0
                    \/ node.newest[node.heads[h]] \in node.items[h]
  BY DEF HeadsReported
<1>1. node \in Node /\ Stock(node)  BY DEF IInv, InvAt, Running, Good, Fine
<1>2. h \in HeadTrack
  <2>1. DOMAIN node.heads = 1..Len(node.heads) /\ Len(node.heads) \in Nat
        /\ Len(node.heads) <= NHeads
    BY <1>1, StockTypes DEF Stock, Headed
  <2> QED  BY <2>1, Places DEF HeadTrack
<1>3. PICK i : i \in node.items[h]  BY <1>1 DEF Stock, Present
<1> QED  BY <1>1, <1>2, <1>3 DEF Stock, Headed

(* Shove::run's line stack and optimizer queue: each line on the stack     *)
(* refers to items the branch still holds, no two to one track, and so     *)
(* does each line the optimizer finds in its queue, however handlers       *)
(* unwound, popped, replaced and pushed before.                            *)
THEOREM StackStandsHolds ==
    ASSUME ~ViaLines
    PROVE  Spec => []StackStands
<1>1. Spec => []IInv  BY RunStands
<1>2. IInv => StackStands  BY InvStands
<1> QED  BY <1>1, <1>2, PTL

(* Shove::run keeps every track and via of the board: when a run ends,     *)
(* what has not collapsed in a drag is on the branch once, and             *)
(* remove_heads has taken off the heads and nothing else.                  *)
THEOREM NothingLostHolds ==
    ASSUME ~ViaLines
    PROVE  Spec => []NothingLost
<1>1. Spec => []IInv  BY RunStands
<1>2. IInv => NothingLost  BY InvLost
<1> QED  BY <1>1, <1>2, PTL

(* replace_line and push_line_stack keep the root line index true: the     *)
(* entry of a head that is on the branch leads to the head's last shape,   *)
(* and to no other line.                                                   *)
THEOREM HeadsReportedHolds ==
    ASSUME ~ViaLines
    PROVE  Spec => []HeadsReported
<1>1. Spec => []IInv  BY RunStands
<1>2. IInv => HeadsReported  BY InvReported
<1> QED  BY <1>1, <1>2, PTL
=============================================================================
