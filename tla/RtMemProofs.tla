----------------------------- MODULE RtMemProofs -----------------------------
(***************************************************************************)
(* The heap stays a chain of blocks without gap or overlap, with all holes *)
(* joined, every allocation intact and exact statistics, for every size of *)
(* the heap and of the requests.                                           *)
(***************************************************************************)
EXTENDS RtMem, FiniteSetTheorems, WellFoundedInduction, TLAPS

\* A well-formed chain of headers: next leads to the block behind, and prev back.
\* ChainConsistent says less of prev: that it leads back from where next leads.
Chain(h, nx, pv) ==
    /\ h \subseteq Offsets /\ nx \in [Offsets -> Offsets] /\ pv \in [Offsets -> Offsets]
    /\ 0 \in h /\ End \in h /\ pv[0] = 0
    /\ \A b \in h \ {End} :
          /\ nx[b] \in h /\ nx[b] > b + Header
          /\ \A c \in h : c <= b \/ c >= nx[b]
          /\ nx[b] # End => pv[nx[b]] = b
    /\ \A b \in h \ {0, End} : pv[b] \in h /\ pv[b] < b /\ nx[pv[b]] = b

\* The headers after block b was cut at p: SplitNext and SplitPrev on any heap.
Cut(b, p, nx, pv, nx2, pv2) ==
    /\ nx2 = [nx EXCEPT ![b] = p, ![p] = nx[b]]
    /\ pv2 = IF nx[b] # End THEN [pv EXCEPT ![p] = b, ![nx[b]] = p]
                            ELSE [pv EXCEPT ![p] = b]

\* Types of the other variables; a block that is about to be freed is in use.
Types ==
    /\ used \subseteq heap /\ End \in used /\ moving \subseteq used \ {End}
    /\ lfree \in Offsets /\ used_mem \in Nat /\ asked \in [Offsets -> Nat]

Inv ==
    /\ Chain(heap, next, prev) /\ Types
    /\ HolesJoined /\ AllocationsIntact /\ StatsExact
    /\ used = {End} => lfree = 0

(***************************************************************************)
(* The constants as the provers need them.                                 *)
(***************************************************************************)
LEMMA Constants ==
    /\ Header \in Nat /\ Header > 0 /\ MinSize \in Nat /\ MinSize > 0
    /\ MemSize \in Nat /\ End \in Nat /\ End > Header
    /\ \A o \in Offsets : o \in Nat /\ o <= End
    /\ \A o \in Nat : o <= End => o \in Offsets
    /\ \A n \in Sizes : n \in Nat /\ n > 0 /\ Need(n) \in Nat /\ Need(n) >= n /\ Need(n) > 0
<1>1. /\ Header \in Nat /\ Header > 0 /\ MinSize \in Nat /\ MinSize > 0
      /\ MemSize \in Nat /\ MemSize > 0
  BY HeaderAssumption, MinSizeAssumption, MemSizeAssumption
<1>2. End \in Nat /\ End > Header
  BY <1>1 DEF End
<1>3. \A n \in Sizes : n \in Nat /\ n > 0 /\ Need(n) \in Nat /\ Need(n) >= n /\ Need(n) > 0
  BY <1>1, SizesAssumption DEF Need
<1> QED
  BY <1>1, <1>2, <1>3 DEF Offsets

(***************************************************************************)
(* A non-empty set of naturals has a least element, which Min chooses.     *)
(***************************************************************************)
LEMMA LeastNat ==
    ASSUME NEW S \in SUBSET Nat, S # {}
    PROVE  Min(S) \in S /\ \A y \in S : Min(S) <= y
<1>1. PICK R : R = OpToRel(<, Nat)
  OBVIOUS
<1>2. IsWellFoundedOn(R, Nat)
  BY <1>1, NatLessThanWellFounded
<1>3. \A x, y \in S : <<y, x>> \in R <=> y < x
  BY <1>1 DEF OpToRel
<1>4. PICK x \in S : \A y \in S : ~(<<y, x>> \in R)
  BY <1>2, WFMin, Zenon
<1>5. \A y \in S : ~(y < x)
  BY <1>3, <1>4, Zenon
<1>6. \A y \in S : x <= y
  BY <1>4, <1>5
<1> QED
  BY <1>4, <1>6 DEF Min

(***************************************************************************)
(* A new header in the middle of block b cuts it in two.                   *)
(***************************************************************************)
LEMMA SplitChain ==
    ASSUME NEW h, NEW nx, NEW pv, Chain(h, nx, pv), NEW b \in h \ {End},
           NEW p \in Nat, b + Header < p, p + Header < nx[b],
           NEW nx2, NEW pv2, Cut(b, p, nx, pv, nx2, pv2)
    PROVE  Chain(h \cup {p}, nx2, pv2) /\ p \notin h
<1> USE Constants
<1>1. PICK n : n = nx[b]
  OBVIOUS
<1>2. /\ h \subseteq Offsets /\ nx \in [Offsets -> Offsets] /\ pv \in [Offsets -> Offsets]
      /\ b \in Nat /\ n \in Nat /\ n <= End /\ n \in h /\ b < p /\ p < n /\ p \in Offsets
  BY <1>1 DEF Chain
<1>3. p \notin h
  BY <1>1, <1>2 DEF Chain
<1>4. \A c \in Offsets : /\ nx2[c] = IF c = p THEN n ELSE IF c = b THEN p ELSE nx[c]
                         /\ pv2[c] = IF c = p THEN b
                                     ELSE IF c = n /\ n # End THEN p ELSE pv[c]
  BY <1>1, <1>2 DEF Cut
<1>5. nx2 \in [Offsets -> Offsets] /\ pv2 \in [Offsets -> Offsets]
  BY <1>1, <1>2 DEF Cut
<1>6. ASSUME NEW c \in (h \cup {p}) \ {End}
      PROVE  /\ nx2[c] \in h \cup {p} /\ nx2[c] > c + Header
             /\ \A d \in h \cup {p} : d <= c \/ d >= nx2[c]
             /\ nx2[c] # End => pv2[nx2[c]] = c
  <2>1. \A d \in h : d <= b \/ d >= n
    BY <1>1 DEF Chain
  <2>2. CASE c = p
    BY <1>1, <1>2, <1>4, <2>1, <2>2
  <2>3. CASE c = b
    BY <1>1, <1>2, <1>3, <1>4, <2>1, <2>3
  <2>4. CASE c # p /\ c # b
    <3>1. /\ c \in h /\ c # End /\ c \in Nat /\ nx2[c] = nx[c] /\ nx[c] \in h
          /\ nx[c] \in Nat /\ nx[c] > c + Header
          /\ nx[c] # End => pv[nx[c]] = c
          /\ \A d \in h : d <= c \/ d >= nx[c]
      BY <1>2, <1>4, <2>4 DEF Chain
    <3>2. n # End => pv[n] = b
      BY <1>1 DEF Chain
    <3>3. nx2[c] # End => pv2[nx2[c]] = c
      BY <1>2, <1>3, <1>4, <2>4, <3>1, <3>2
    <3>4. p <= c \/ p >= nx[c]
      <4>1. (c <= b \/ c >= n) /\ (b <= c \/ b >= nx[c])
        BY <2>1, <3>1
      <4> QED
        BY <1>2, <2>4, <3>1, <4>1
    <3> QED
      BY <3>1, <3>3, <3>4
  <2> QED
    BY <2>2, <2>3, <2>4
<1>7. ASSUME NEW c \in (h \cup {p}) \ {0, End}
      PROVE  pv2[c] \in h \cup {p} /\ pv2[c] < c /\ nx2[pv2[c]] = c
  <2>1. CASE c = p
    BY <1>2, <1>4, <2>1
  <2>2. CASE c = n
    BY <1>2, <1>3, <1>4, <1>7, <2>2
  <2>3. CASE c # p /\ c # n
    <3>1. c \in h /\ pv[c] \in h /\ pv[c] < c /\ nx[pv[c]] = c
      BY <1>7, <2>3 DEF Chain
    <3>2. pv[c] # b /\ pv[c] # p /\ pv2[c] = pv[c]
      BY <1>1, <1>2, <1>3, <1>4, <2>3, <3>1
    <3> QED
      BY <1>2, <1>4, <3>1, <3>2
  <2> QED
    BY <2>1, <2>2, <2>3
<1>8. 0 \in h \cup {p} /\ End \in h \cup {p} /\ pv2[0] = 0
  BY <1>2, <1>4 DEF Chain
<1>9. h \cup {p} \subseteq Offsets
  BY <1>2
<1> HIDE Constants
<1> QED
  BY <1>3, <1>5, <1>6, <1>7, <1>8, <1>9 DEF Chain

(***************************************************************************)
(* The header behind block m is taken out: m reaches to the next one.      *)
(***************************************************************************)
LEMMA JoinChain ==
    ASSUME NEW h, NEW nx, NEW pv, Chain(h, nx, pv), NEW m \in h \ {End},
           NEW n, n = nx[m], n # End,
           NEW nx2, nx2 = [nx EXCEPT ![m] = nx[n], ![n] = 0],
           NEW pv2, pv2 = [pv EXCEPT ![nx[n]] = m, ![n] = 0]
    PROVE  Chain(h \ {n}, nx2, pv2)
<1> USE Constants
<1>1. PICK e : e = nx[n]
  OBVIOUS
<1>2. /\ h \subseteq Offsets /\ nx \in [Offsets -> Offsets] /\ pv \in [Offsets -> Offsets]
      /\ m \in Nat /\ n \in Nat /\ e \in Nat /\ n \in h /\ e \in h /\ m \in h
      /\ m + Header < n /\ n + Header < e /\ pv[n] = m /\ (e # End => pv[e] = n)
  BY <1>1 DEF Chain
<1>3. \A c \in Offsets : /\ nx2[c] = IF c = n THEN 0 ELSE IF c = m THEN e ELSE nx[c]
                         /\ pv2[c] = IF c = n THEN 0 ELSE IF c = e THEN m ELSE pv[c]
  BY <1>1, <1>2
<1>4. nx2 \in [Offsets -> Offsets] /\ pv2 \in [Offsets -> Offsets]
  BY <1>1, <1>2
<1>5. ASSUME NEW c \in (h \ {n}) \ {End}
      PROVE  /\ nx2[c] \in h \ {n} /\ nx2[c] > c + Header
             /\ \A d \in h \ {n} : d <= c \/ d >= nx2[c]
             /\ nx2[c] # End => pv2[nx2[c]] = c
  <2>1. CASE c = m
    <3>1. \A d \in h : (d <= m \/ d >= n) /\ (d <= n \/ d >= e) /\ d \in Nat
      BY <1>1, <1>2 DEF Chain
    <3> QED
      BY <1>2, <1>3, <2>1, <3>1
  <2>2. CASE c # m
    <3>1. /\ c \in h /\ c # End /\ c \in Nat /\ nx2[c] = nx[c] /\ nx[c] \in h
          /\ nx[c] \in Nat /\ nx[c] > c + Header
          /\ nx[c] # End => pv[nx[c]] = c
          /\ \A d \in h : d <= c \/ d >= nx[c]
      BY <1>2, <1>3, <1>5, <2>2 DEF Chain
    <3>2. nx[c] # n
      BY <1>2, <2>2, <3>1
    <3>3. nx[c] # End => nx[c] # e
      BY <1>2, <1>5, <3>1
    <3> QED
      BY <1>2, <1>3, <3>1, <3>2, <3>3
  <2> QED
    BY <2>1, <2>2
<1>6. ASSUME NEW c \in (h \ {n}) \ {0, End}
      PROVE  pv2[c] \in h \ {n} /\ pv2[c] < c /\ nx2[pv2[c]] = c
  <2>1. CASE c = e
    BY <1>2, <1>3, <2>1
  <2>2. CASE c # e
    <3>1. c \in h /\ pv[c] \in h /\ pv[c] < c /\ nx[pv[c]] = c
      BY <1>6, <2>2 DEF Chain
    <3>2. pv[c] # n /\ pv[c] # m /\ pv2[c] = pv[c]
      BY <1>1, <1>2, <1>3, <1>6, <2>2, <3>1
    <3> QED
      BY <1>2, <1>3, <3>1, <3>2
  <2> QED
    BY <2>1, <2>2
<1>7. 0 \in h \ {n} /\ End \in h \ {n} /\ pv2[0] = 0
  BY <1>2, <1>3 DEF Chain
<1> QED
  BY <1>2, <1>4, <1>5, <1>6, <1>7 DEF Chain

(***************************************************************************)
(* plug_holes on a free block mem, when all other holes are joined: the    *)
(* chain stays well formed, no two holes are left side by side, the blocks *)
(* in use keep their size and lfree leads to a hole that is still there.   *)
(***************************************************************************)
LEMMA PlugHoles ==
    ASSUME NEW mem, NEW h, NEW nx, NEW pv, NEW u, NEW lf,
           plug_holes(mem, h, nx, pv, u, lf),
           Chain(h, nx, pv), u \subseteq h, End \in u, mem \in h \ u,
           \A c \in h \ u : c # mem /\ nx[c] # mem => nx[c] \in u,
           lf \in h, lf \in u => lf = End
    PROVE  /\ Chain(heap', next', prev') /\ u \subseteq heap'
           /\ \A c \in heap' \ u : next'[c] \in u
           /\ \A c \in u : next'[c] = nx[c]
           /\ lfree' \in heap' /\ (lfree' \in u => lfree' = End)
           /\ lfree' = lf \/ lfree' <= mem
<1>1. PICK n : n = nx[mem]
  OBVIOUS
<1>2. PICK q : q = pv[mem]
  OBVIOUS
<1>4. PICK h1 : h1 = IF n \notin u /\ n # End THEN h \ {n} ELSE h
  OBVIOUS
<1>5. PICK nx1 : nx1 = IF n \notin u /\ n # End
                       THEN [nx EXCEPT ![mem] = nx[n], ![n] = 0] ELSE nx
  OBVIOUS
<1>6. PICK pv1 : pv1 = IF n \notin u /\ n # End
                       THEN [pv EXCEPT ![nx[n]] = mem, ![n] = 0] ELSE pv
  OBVIOUS
<1>7. PICK lf1 : lf1 = IF (n \notin u /\ n # End) /\ lf = n THEN mem ELSE lf
  OBVIOUS
<1>8. /\ heap' = IF q # mem /\ q \notin u THEN h1 \ {mem} ELSE h1
      /\ next' = IF q # mem /\ q \notin u THEN [nx1 EXCEPT ![q] = nx1[mem], ![mem] = 0] ELSE nx1
      /\ prev' = IF q # mem /\ q \notin u THEN [pv1 EXCEPT ![nx1[mem]] = q, ![mem] = 0] ELSE pv1
      /\ lfree' = IF (q # mem /\ q \notin u) /\ lf1 = mem THEN q ELSE lf1
  BY <1>1, <1>2, <1>4, <1>5, <1>6, <1>7 DEF plug_holes
<1>9. /\ h \subseteq Offsets /\ nx \in [Offsets -> Offsets] /\ pv \in [Offsets -> Offsets]
      /\ mem \in h \ {End} /\ mem \in Nat /\ n \in h /\ n \in Nat /\ mem < n
      /\ \A c \in h : c \in Nat
  BY <1>1, Constants DEF Chain
<1>10. /\ Chain(h1, nx1, pv1) /\ h1 \subseteq h /\ u \subseteq h1 /\ mem \in h1
       /\ nx1[mem] \in u /\ pv1[mem] = q
       /\ \A c \in h1 : c # mem => nx1[c] = nx[c]
       /\ lf1 \in h1 /\ (lf1 \in u => lf1 = End) /\ (lf1 = lf \/ lf1 = mem)
  <2>1. CASE n \notin u /\ n # End
    <3>1. PICK e : e = nx[n]
      OBVIOUS
    <3>2. /\ h1 = h \ {n} /\ nx1 = [nx EXCEPT ![mem] = e, ![n] = 0]
          /\ pv1 = [pv EXCEPT ![e] = mem, ![n] = 0] /\ lf1 = IF lf = n THEN mem ELSE lf
      BY <1>4, <1>5, <1>6, <1>7, <2>1, <3>1
    <3>3. Chain(h1, nx1, pv1)
      BY <1>1, <1>9, <2>1, <3>1, <3>2, JoinChain
    <3>4. e \in Offsets /\ e \in Nat /\ n < e /\ e # mem /\ e \in u
      <4>1. e \in h /\ e > n + Header
        BY <1>9, <2>1, <3>1 DEF Chain
      <4>2. e \in Offsets /\ e \in Nat /\ n < e /\ e # mem
        BY <1>9, <4>1, Constants
      <4> QED
        BY <1>9, <2>1, <3>1, <4>2
    <3>5. nx1[mem] = e /\ pv1[mem] = q /\ \A c \in h1 : c # mem => nx1[c] = nx[c]
      BY <1>2, <1>9, <3>2, <3>4
    <3> QED
      BY <1>9, <2>1, <3>2, <3>3, <3>4, <3>5
  <2>2. CASE ~(n \notin u /\ n # End)
    BY <1>1, <1>2, <1>4, <1>5, <1>6, <1>7, <1>9, <2>2
  <2> QED
    BY <2>1, <2>2
<1>11. \A c \in h1 \ u : nx1[c] = mem => c = q /\ q # mem
  BY <1>9, <1>10, Constants DEF Chain
<1>12. \A c \in h1 \ u : c # mem /\ c # q => nx1[c] \in u
  BY <1>10, <1>11
<1>13. CASE q # mem /\ q \notin u
  <2>1. heap' = h1 \ {mem} /\ lfree' = IF lf1 = mem THEN q ELSE lf1
    BY <1>8, <1>13
  <2>2. next' = [nx1 EXCEPT ![q] = nx1[mem], ![mem] = 0]
    BY <1>8, <1>13
  <2>3. prev' = [pv1 EXCEPT ![nx1[mem]] = q, ![mem] = 0]
    BY <1>8, <1>13
  <2>4. mem # 0
    BY <1>10, <1>13 DEF Chain
  <2>5. q \in h1 \ {End} /\ nx1[q] = mem /\ q < mem /\ q \in Nat
    <3>1. q \in h1 /\ nx1[q] = mem /\ q < mem
      BY <1>9, <1>10, <2>4 DEF Chain
    <3> QED
      BY <1>9, <1>10, <1>13, <3>1
  <2>6. Chain(heap', next', prev')
    BY <1>9, <1>10, <2>1, <2>2, <2>3, <2>5, JoinChain
  <2>7. /\ next'[q] = nx1[mem]
        /\ \A c \in h1 : c # q /\ c # mem => next'[c] = nx1[c]
    BY <1>10, <2>2, <2>5 DEF Chain
  <2>8. \A c \in heap' \ u : next'[c] \in u
    BY <1>10, <1>12, <2>1, <2>7
  <2>9. \A c \in u : next'[c] = nx[c]
    BY <1>10, <1>13, <2>7
  <2>10. /\ lfree' \in heap' /\ (lfree' \in u => lfree' = End)
         /\ lfree' = lf \/ lfree' <= mem
    BY <1>9, <1>10, <1>13, <2>1, <2>5
  <2> QED
    BY <1>10, <2>1, <2>6, <2>8, <2>9, <2>10
<1>14. CASE ~(q # mem /\ q \notin u)
  <2>1. heap' = h1 /\ next' = nx1 /\ prev' = pv1 /\ lfree' = lf1
    BY <1>8, <1>14
  <2>2. \A c \in h1 \ u : nx1[c] \in u
    BY <1>10, <1>11, <1>12, <1>14
  <2>3. lfree' = lf \/ lfree' <= mem
    BY <1>9, <1>10, <2>1
  <2> QED
    BY <1>9, <1>10, <2>1, <2>2, <2>3
<1> QED
  BY <1>13, <1>14

(***************************************************************************)
(* Counting units: a stretch that is added to a set of units, or taken off.*)
(***************************************************************************)
LEMMA CountStretch ==
    ASSUME NEW A, IsFiniteSet(A), NEW x \in Int, NEW y \in Int, x <= y,
           \A o \in x..y-1 : o \notin A
    PROVE  Cardinality(A \cup (x..y-1)) = Cardinality(A) + (y - x)
<1>1. IsFiniteSet(x..y-1) /\ Cardinality(x..y-1) = y - x
  <2>1. PICK z : z = y - 1
    OBVIOUS
  <2>2. z \in Int
    BY <2>1
  <2>3. IsFiniteSet(x..z) /\ Cardinality(x..z) = IF x > z THEN 0 ELSE z - x + 1
    BY <2>2, FS_Interval
  <2>4. y - x = IF x > z THEN 0 ELSE z - x + 1
    BY <2>1
  <2> QED
    BY <2>1, <2>3, <2>4
<1>2. A \cap (x..y-1) = {}
  OBVIOUS
<1>3. Cardinality(A \cap (x..y-1)) = 0
  BY <1>2, FS_EmptySet
<1>4. /\ Cardinality(A) \in Nat
      /\ Cardinality(A \cup (x..y-1)) =
            Cardinality(A) + Cardinality(x..y-1) - Cardinality(A \cap (x..y-1))
  BY <1>1, FS_Union, FS_CardinalityType
<1> QED
  BY <1>1, <1>3, <1>4

(***************************************************************************)
(* The units in use are finitely many.                                     *)
(***************************************************************************)
LEMMA UnitsFinite ==
    ASSUME NEW A \in SUBSET Offsets
    PROVE  IsFiniteSet(A) /\ Cardinality(A) \in Nat
<1>1. IsFiniteSet(Offsets)
  BY Constants, FS_Interval DEF Offsets
<1> QED
  BY <1>1, FS_Subset, FS_CardinalityType

(***************************************************************************)
(* The initial heap: one free block and heap_end.                          *)
(***************************************************************************)
LEMMA InitInv == Init => Inv
<1> SUFFICES ASSUME Init PROVE Inv
  OBVIOUS
<1> USE Constants DEF Init
<1>1. 0 \in Offsets /\ End \in Offsets /\ 0 # End /\ heap \subseteq Offsets
  OBVIOUS
<1>2. Chain(heap, next, prev)
  BY <1>1 DEF Chain
<1>3. Types
  BY <1>1 DEF Types
<1>4. HolesJoined /\ AllocationsIntact
  BY <1>1 DEF HolesJoined, AllocationsIntact
<1>5. InUse = {}
  BY DEF InUse
<1>6. StatsExact
  BY <1>5, FS_EmptySet DEF StatsExact
<1> QED
  BY <1>2, <1>3, <1>4, <1>6 DEF Inv

(***************************************************************************)
(* rt_malloc takes a block, whole or cut.                                  *)
(***************************************************************************)
LEMMA MallocInv ==
    ASSUME Inv, NEW size \in Sizes, rt_malloc(size), moving' \subseteq used \ {End}
    PROVE  Inv'
<1> USE DEF Inv
<1>1. PICK n : n = Need(size)
  OBVIOUS
<1>2. n \in Nat /\ n >= size /\ n > 0 /\ size \in Nat /\ size > 0
  BY <1>1, Constants
<1>3. PICK b : b = Min(Fits(n))
  OBVIOUS
<1>4. b \in heap \ used /\ Room(b) >= n
  <2>1. Fits(n) # {} /\ Fits(n) \in SUBSET Nat
    BY <1>1, Constants DEF rt_malloc, Fits, Chain
  <2>2. b \in Fits(n)
    BY <1>3, <2>1, LeastNat
  <2> QED
    BY <2>2 DEF Fits
<1>5. Allocate(b, n) /\ asked' = [asked EXCEPT ![b] = size]
  BY <1>1, <1>3 DEF rt_malloc
<1>6. PICK e : e = next[b]
  OBVIOUS
<1>7. /\ b \in Offsets /\ b \in Nat /\ b # End /\ e \in heap /\ e \in Nat /\ e \in used
      /\ e >= b + Header + n /\ \A c \in heap : c \in Nat /\ c \in Offsets
      /\ \A c \in heap : c <= b \/ c >= e
      /\ End \in used /\ used \subseteq heap /\ \A c \in heap \ {End} : next[c] \in Nat
  <2>1. heap \subseteq Offsets /\ End \in used /\ used \subseteq heap
    BY DEF Types, Chain
  <2>2. \A c \in heap : c \in Nat /\ c \in Offsets
    BY <2>1, Constants
  <2>3. \A c \in heap \ {End} : next[c] \in heap
    BY DEF Chain
  <2>4. b \in heap \ {End} /\ e \in used
    BY <1>4, <1>6, <2>1 DEF HolesJoined
  <2>5. \A c \in heap : c <= b \/ c >= e
    BY <1>6, <2>4 DEF Chain
  <2>6. e >= b + Header + n
    BY <1>2, <1>4, <1>6, <2>1, <2>2, <2>4, Constants DEF Room
  <2> QED
    BY <2>1, <2>2, <2>3, <2>4, <2>5, <2>6
<1>8. PICK p : p = b + Header + n
  OBVIOUS
<1>9. /\ Chain(heap', next', prev') /\ heap \subseteq heap'
      /\ next'[b] \in Nat /\ next'[b] >= b + Header + n /\ next'[b] <= e
      /\ \A c \in heap : c # b => next'[c] = next[c]
      /\ \A c \in heap' \ heap : next'[c] \in used
  <2>1. CASE Room(b) >= n + Header + MinSize
    <3>1. heap' = heap \cup {p} /\ next' = SplitNext(b, p) /\ prev' = SplitPrev(b, p)
      BY <1>5, <1>8, <2>1 DEF Allocate
    <3>2. p \in Nat /\ b + Header < p /\ p + Header < e
      BY <1>2, <1>6, <1>7, <1>8, <2>1, Constants DEF Room
    <3>3. Chain(heap', next', prev') /\ p \notin heap
      <4>1. Chain(heap, next, prev) /\ b \in heap \ {End} /\ p + Header < next[b]
        BY <1>4, <1>6, <1>7, <3>2
      <4>2. Cut(b, p, next, prev, next', prev')
        BY <3>1 DEF Cut, SplitNext, SplitPrev
      <4>3. Chain(heap \cup {p}, next', prev') /\ p \notin heap
        BY <3>2, <4>1, <4>2, SplitChain
      <4> QED
        BY <3>1, <4>3
    <3>4. next \in [Offsets -> Offsets] /\ p \in Offsets
      BY <1>7, <3>2, Constants DEF Chain
    <3>5. next'[b] = p /\ next'[p] = e /\ \A c \in heap : c # b => next'[c] = next[c]
      BY <1>6, <1>7, <3>1, <3>2, <3>3, <3>4, Constants DEF SplitNext
    <3> QED
      BY <1>7, <1>8, <3>1, <3>2, <3>3, <3>5, Constants
  <2>2. CASE ~(Room(b) >= n + Header + MinSize)
    <3>1. UNCHANGED <<heap, next, prev>>
      BY <1>5, <2>2 DEF Allocate
    <3> QED
      BY <1>6, <1>7, <3>1
  <2> QED
    BY <2>1, <2>2
<1>10. /\ used' = used \cup {b} /\ used_mem' = used_mem + (next'[b] - b)
       /\ lfree' = IF b = lfree THEN LowestFrom(b, heap', used') ELSE lfree
  BY <1>5 DEF Allocate
<1>11. lfree' \in heap' /\ (lfree' \in used' => lfree' = End)
  <2>1. CASE b = lfree
    <3>1. PICK S : S = {c \in heap' : c >= b /\ (c \notin used' \/ c = End)}
      OBVIOUS
    <3>2. lfree' = Min(S)
      BY <1>10, <2>1, <3>1 DEF LowestFrom
    <3>3. S \in SUBSET Nat
      BY <1>9, <3>1, Constants DEF Chain
    <3>4. End \in S
      BY <1>7, <1>9, <3>1, Constants
    <3>5. lfree' \in S
      BY <3>2, <3>3, <3>4, LeastNat
    <3> QED
      BY <3>1, <3>5
  <2>2. CASE b # lfree
    BY <1>9, <1>10, <2>2 DEF HolesJoined
  <2> QED
    BY <2>1, <2>2
<1>12. HolesJoined'
  <2>1. \A c \in heap' \ used' : next'[c] \in used'
    BY <1>9, <1>10 DEF HolesJoined
  <2> QED
    BY <1>11, <2>1 DEF HolesJoined
<1>13. Types'
  <2>1. used_mem' \in Nat
    <3>1. next'[b] - b \in Nat
      BY <1>2, <1>7, <1>9, Constants
    <3> QED
      BY <1>10, <3>1 DEF Types
  <2>2. asked' \in [Offsets -> Nat]
    BY <1>2, <1>5, <1>7 DEF Types
  <2>3. lfree' \in Offsets
    BY <1>9, <1>11 DEF Chain
  <2> QED
    BY <1>4, <1>9, <1>10, <2>1, <2>2, <2>3 DEF Types
<1>14. AllocationsIntact'
  <2>1. \A c \in Offsets : asked'[c] = IF c = b THEN size ELSE asked[c]
    BY <1>5 DEF Types
  <2>2. used' \ {End} = {c \in Offsets : asked'[c] # 0}
    <3>1. used' \ {End} = (used \ {End}) \cup {b}
      BY <1>7, <1>10
    <3>2. used \ {End} = {c \in Offsets : asked[c] # 0}
      BY DEF AllocationsIntact
    <3>3. size # 0
      BY <1>2
    <3> QED
      BY <1>7, <2>1, <3>1, <3>2, <3>3
  <2>3. ASSUME NEW c \in used' \ {End} PROVE next'[c] - (c + Header) >= asked'[c]
    <3>1. CASE c = b
      BY <1>2, <1>7, <1>9, <2>1, <3>1, Constants
    <3>2. CASE c # b
      <4>1. c \in used \ {End} /\ c \in heap /\ c \in Offsets
        BY <1>7, <1>10, <2>3, <3>2
      <4> QED
        BY <1>9, <2>1, <3>2, <4>1 DEF AllocationsIntact, Room
    <3> QED
      BY <3>1, <3>2
  <2> QED
    BY <2>2, <2>3 DEF AllocationsIntact, Room
<1>15. StatsExact'
  <2>1. PICK f : f = next'[b]
    OBVIOUS
  <2>2. f \in Nat /\ b <= f /\ f <= e /\ e <= End
    <3>1. e \in Offsets
      BY <1>7
    <3>2. e <= End
      BY <3>1, Constants
    <3> QED
      BY <1>2, <1>7, <1>9, <2>1, <3>2, Constants
  <2>3. InUse' = InUse \cup (b..f-1)
    <3>1. ASSUME NEW o \in InUse' PROVE o \in InUse \cup (b..f-1)
      <4>1. PICK c \in used' \ {End} : o \in Offsets /\ c <= o /\ o < next'[c]
        BY DEF InUse
      <4>2. CASE c = b
        BY <1>7, <2>1, <2>2, <4>1, <4>2, Constants
      <4>3. CASE c # b
        BY <1>7, <1>9, <1>10, <4>1, <4>3 DEF InUse
      <4> QED
        BY <4>2, <4>3
    <3>2. ASSUME NEW o \in InUse PROVE o \in InUse'
      <4>1. PICK c \in used \ {End} : o \in Offsets /\ c <= o /\ o < next[c]
        BY DEF InUse
      <4>2. c \in used' \ {End} /\ next'[c] = next[c]
        BY <1>4, <1>7, <1>9, <1>10, <4>1
      <4> QED
        BY <4>1, <4>2 DEF InUse
    <3>3. ASSUME NEW o \in b..f-1 PROVE o \in InUse'
      <4>1. o \in Offsets /\ b <= o /\ o < next'[b] /\ b \in used' \ {End}
        BY <1>7, <1>10, <2>1, <2>2, Constants
      <4> QED
        BY <4>1 DEF InUse
    <3> QED
      BY <3>1, <3>2, <3>3
  <2>4. \A o \in b..f-1 : o \notin InUse
    <3> SUFFICES ASSUME NEW o \in b..f-1, NEW c \in used \ {End}, c <= o, o < next[c]
                 PROVE  FALSE
      BY DEF InUse
    <3>1. /\ c \in heap \ {End} /\ c # b /\ c \in Nat /\ next[c] \in Nat
          /\ c <= b \/ c >= e
          /\ b <= c \/ b >= next[c]
      BY <1>4, <1>7 DEF Chain
    <3> QED
      BY <1>7, <2>2, <3>1
  <2>5. IsFiniteSet(InUse)
    BY UnitsFinite DEF InUse
  <2>6. Cardinality(InUse') = Cardinality(InUse) + (f - b)
    BY <1>7, <2>2, <2>3, <2>4, <2>5, CountStretch
  <2> QED
    BY <1>10, <2>1, <2>6 DEF StatsExact
<1>16. used' # {End}
  BY <1>7, <1>10
<1> QED
  BY <1>9, <1>12, <1>13, <1>14, <1>15, <1>16

(***************************************************************************)
(* rt_free, and the end of rt_realloc: a block in use becomes a hole that  *)
(* is joined with its neighbours.                                          *)
(***************************************************************************)
LEMMA ReleaseInv ==
    ASSUME Inv, NEW b \in used \ {End}, Release(b), moving' \subseteq used \ {b, End}
    PROVE  Inv'
<1> USE DEF Inv
<1>1. PICK u : u = used \ {b}
  OBVIOUS
<1>2. PICK lf : lf = IF b < lfree THEN b ELSE lfree
  OBVIOUS
<1>3. PICK n : n = next[b]
  OBVIOUS
<1>4. /\ plug_holes(b, heap, next, prev, u, lf) /\ used' = u
      /\ used_mem' = used_mem - (n - b) /\ asked' = [asked EXCEPT ![b] = 0]
  BY <1>1, <1>2, <1>3 DEF Release
<1>5. /\ heap \subseteq Offsets /\ used \subseteq heap /\ End \in used
      /\ asked \in [Offsets -> Nat] /\ used_mem \in Nat
      /\ \A c \in heap : c \in Nat /\ c \in Offsets /\ c <= End
  BY Constants DEF Types, Chain
<1>6. b \in heap /\ b \in heap \ u /\ b # End /\ b \in Nat /\ b \in Offsets /\ b <= End
  BY <1>1, <1>5
<1>7. n \in heap /\ n \in Nat /\ n > b + Header /\ n <= End
  <2>1. n \in heap /\ n > b + Header
    BY <1>3, <1>6 DEF Chain
  <2> QED
    BY <1>5, <2>1
<1>8. u \subseteq heap /\ End \in u
  BY <1>1, <1>5, <1>6
<1>9. \A c \in heap \ u : c # b /\ next[c] # b => next[c] \in u
  BY <1>1 DEF HolesJoined
<1>10. lfree \in heap /\ (lfree \in used => lfree = End)
  BY DEF HolesJoined
<1>11. lf \in heap /\ (lf \in u => lf = End)
  BY <1>1, <1>2, <1>6, <1>10
<1>12. lf <= b
  BY <1>2, <1>5, <1>6, <1>10
<1>13. Chain(heap, next, prev)
  OBVIOUS
<1>14. /\ Chain(heap', next', prev') /\ u \subseteq heap'
       /\ \A c \in heap' \ u : next'[c] \in u
       /\ \A c \in u : next'[c] = next[c]
       /\ lfree' \in heap' /\ (lfree' \in u => lfree' = End)
       /\ lfree' = lf \/ lfree' <= b
  BY <1>4, <1>6, <1>8, <1>9, <1>11, <1>13, PlugHoles
<1>15. HolesJoined'
  BY <1>4, <1>14 DEF HolesJoined
<1>16. b..n-1 \subseteq InUse
  <2> SUFFICES ASSUME NEW o \in b..n-1 PROVE o \in InUse
    OBVIOUS
  <2>1. o \in Offsets /\ b <= o /\ o < next[b]
    BY <1>3, <1>6, <1>7, Constants
  <2> QED
    BY <2>1 DEF InUse
<1>17. InUse = InUse' \cup (b..n-1)
  <2>1. ASSUME NEW o \in InUse PROVE o \in InUse' \cup (b..n-1)
    <3>1. PICK c \in used \ {End} : o \in Offsets /\ c <= o /\ o < next[c]
      BY DEF InUse
    <3>2. CASE c = b
      BY <1>3, <1>6, <1>7, <3>1, <3>2, Constants
    <3>3. CASE c # b
      <4>1. c \in used' \ {End} /\ next'[c] = next[c]
        BY <1>1, <1>4, <1>14, <3>3
      <4> QED
        BY <3>1, <4>1 DEF InUse
    <3> QED
      BY <3>2, <3>3
  <2>2. ASSUME NEW o \in InUse' PROVE o \in InUse
    <3>1. PICK c \in used' \ {End} : o \in Offsets /\ c <= o /\ o < next'[c]
      BY DEF InUse
    <3>2. c \in used \ {End} /\ next'[c] = next[c]
      BY <1>1, <1>4, <1>14
    <3> QED
      BY <3>1, <3>2 DEF InUse
  <2> QED
    BY <1>16, <2>1, <2>2
<1>18. \A o \in b..n-1 : o \notin InUse'
  <2> SUFFICES ASSUME NEW o \in b..n-1, NEW c \in used' \ {End}, c <= o, o < next'[c]
               PROVE  FALSE
    BY DEF InUse
  <2>1. c \in heap \ {End} /\ c # b /\ c \in Nat /\ next'[c] = next[c]
    BY <1>1, <1>4, <1>5, <1>14
  <2>2. (c <= b \/ c >= n) /\ (b <= c \/ b >= next[c]) /\ next[c] \in heap
    BY <1>3, <1>6, <2>1 DEF Chain
  <2>3. next[c] \in Nat
    BY <1>5, <2>2
  <2> QED
    BY <1>6, <1>7, <2>1, <2>2, <2>3
<1>19. InUse' \in SUBSET Offsets
  BY DEF InUse
<1>20. IsFiniteSet(InUse') /\ Cardinality(InUse') \in Nat
  BY <1>19, UnitsFinite
<1>21. Cardinality(InUse) = Cardinality(InUse') + (n - b)
  <2>1. b \in Int /\ n \in Int /\ b <= n
    BY <1>6, <1>7, Constants
  <2> QED
    BY <1>17, <1>18, <1>20, <2>1, CountStretch
<1>22. StatsExact' /\ used_mem' \in Nat
  <2>1. used_mem = Cardinality(InUse') + (n - b)
    BY <1>21 DEF StatsExact
  <2>2. used_mem' = Cardinality(InUse')
    BY <1>4, <1>6, <1>7, <1>20, <2>1
  <2> QED
    BY <1>20, <2>2 DEF StatsExact
<1>23. Types'
  <2>1. asked' \in [Offsets -> Nat]
    BY <1>4, <1>5
  <2>2. lfree' \in Offsets
    BY <1>14 DEF Chain
  <2>3. moving' \subseteq used' \ {End}
    BY <1>1, <1>4
  <2> QED
    BY <1>4, <1>8, <1>14, <1>22, <2>1, <2>2, <2>3 DEF Types
<1>24. AllocationsIntact'
  <2>1. \A c \in Offsets : asked'[c] = IF c = b THEN 0 ELSE asked[c]
    BY <1>4, <1>5
  <2>2. used \ {End} = {c \in Offsets : asked[c] # 0}
    BY DEF AllocationsIntact
  <2>3. used' \ {End} = {c \in Offsets : asked'[c] # 0}
    BY <1>1, <1>4, <2>1, <2>2
  <2>4. ASSUME NEW c \in used' \ {End} PROVE next'[c] - (c + Header) >= asked'[c]
    <3>1. c \in used \ {End} /\ c \in Offsets /\ c # b /\ next'[c] = next[c]
      BY <1>1, <1>4, <1>5, <1>14
    <3>2. next[c] - (c + Header) >= asked[c]
      BY <3>1 DEF AllocationsIntact, Room
    <3> QED
      BY <2>1, <3>1, <3>2
  <2> QED
    BY <2>3, <2>4 DEF AllocationsIntact, Room
<1>25. used' = {End} => lfree' = 0
  <2> SUFFICES ASSUME used' = {End}, lfree' # 0 PROVE FALSE
    OBVIOUS
  <2>1. PICK l : l = lfree'
    OBVIOUS
  <2>2. l \in heap' /\ l \in Nat
    BY <1>14, <2>1, Constants DEF Chain
  <2>3. l <= b
    BY <1>12, <1>14, <2>1
  <2>4. l # End
    BY <1>6, <2>2, <2>3, Constants
  <2>5. PICK q : q = prev'[l]
    OBVIOUS
  <2>6. q \in heap' /\ q < l /\ next'[q] = l
    BY <1>14, <2>1, <2>2, <2>4, <2>5 DEF Chain
  <2>7. q \in Nat /\ l <= End
    BY <1>14, <2>2, <2>6, Constants DEF Chain
  <2>8. q # End
    BY <2>2, <2>6, <2>7, Constants
  <2>9. q \in heap' \ u
    BY <1>4, <2>6, <2>8
  <2>10. next'[q] \in u
    BY <1>14, <2>9
  <2> QED
    BY <1>4, <2>4, <2>6, <2>10
<1> QED
  BY <1>14, <1>15, <1>22, <1>23, <1>24, <1>25

(***************************************************************************)
(* rt_realloc to a smaller size: the rest of the block becomes a hole.     *)
(***************************************************************************)
LEMMA ShrinkInv ==
    ASSUME Inv, NEW b \in used \ {End}, NEW size \in Sizes,
           size + Header + MinSize < Room(b), Shrink(b, size), moving' = moving
    PROVE  Inv'
<1> USE DEF Inv
<1>1. PICK p : p = b + Header + size
  OBVIOUS
<1>2. PICK n : n = next[b]
  OBVIOUS
<1>3. PICK h : h = heap \cup {p}
  OBVIOUS
<1>4. PICK nx : nx = SplitNext(b, p)
  OBVIOUS
<1>5. PICK pv : pv = SplitPrev(b, p)
  OBVIOUS
<1>6. /\ plug_holes(p, h, nx, pv, used, lfree) /\ used' = used
      /\ used_mem' = used_mem - (Room(b) - size) /\ asked' = [asked EXCEPT ![b] = size]
  BY <1>1, <1>3, <1>4, <1>5 DEF Shrink
<1>7. /\ heap \subseteq Offsets /\ used \subseteq heap /\ End \in used
      /\ asked \in [Offsets -> Nat] /\ used_mem \in Nat
      /\ next \in [Offsets -> Offsets]
      /\ \A c \in heap : c \in Nat /\ c \in Offsets /\ c <= End
  BY Constants DEF Types, Chain
<1>8. b \in heap /\ b # End /\ b \in Nat /\ b \in Offsets /\ b <= End
  BY <1>7
<1>9. n \in heap /\ n \in Nat /\ n <= End
  <2>1. n \in heap
    BY <1>2, <1>8 DEF Chain
  <2> QED
    BY <1>7, <2>1
<1>10. size \in Nat /\ size > 0
  BY Constants
<1>11. p \in Nat /\ b + Header < p /\ p + Header < n
  BY <1>1, <1>2, <1>8, <1>9, <1>10, Constants DEF Room
<1>12. Chain(h, nx, pv) /\ p \notin heap
  <2>1. Cut(b, p, next, prev, nx, pv)
    BY <1>4, <1>5 DEF Cut, SplitNext, SplitPrev
  <2>2. Chain(heap, next, prev) /\ b \in heap \ {End} /\ p + Header < next[b]
    BY <1>2, <1>8, <1>11
  <2>3. Chain(heap \cup {p}, nx, pv) /\ p \notin heap
    BY <1>11, <2>1, <2>2, SplitChain
  <2> QED
    BY <1>3, <2>3
<1>13. p \in Offsets /\ b < p /\ p < n
  BY <1>8, <1>9, <1>11, Constants
<1>14. nx[b] = p /\ nx[p] = n /\ \A c \in heap : c # b => nx[c] = next[c]
  BY <1>2, <1>4, <1>7, <1>8, <1>12, <1>13 DEF SplitNext
<1>15. used \subseteq h /\ p \in h \ used
  BY <1>3, <1>7, <1>12
<1>16. \A c \in h \ used : c # p /\ nx[c] # p => nx[c] \in used
  BY <1>3, <1>14 DEF HolesJoined
<1>17. lfree \in h /\ (lfree \in used => lfree = End)
  BY <1>3 DEF HolesJoined
<1>18. /\ Chain(heap', next', prev') /\ used \subseteq heap'
       /\ \A c \in heap' \ used : next'[c] \in used
       /\ \A c \in used : next'[c] = nx[c]
       /\ lfree' \in heap' /\ (lfree' \in used => lfree' = End)
  BY <1>6, <1>7, <1>12, <1>15, <1>16, <1>17, PlugHoles
<1>19. next'[b] = p /\ \A c \in used : c # b => next'[c] = next[c]
  BY <1>7, <1>14, <1>18
<1>20. HolesJoined'
  BY <1>6, <1>18 DEF HolesJoined
<1>21. InUse = InUse' \cup (p..n-1)
  <2>1. ASSUME NEW o \in InUse PROVE o \in InUse' \cup (p..n-1)
    <3>1. PICK c \in used \ {End} : o \in Offsets /\ c <= o /\ o < next[c]
      BY DEF InUse
    <3>2. CASE c = b /\ o < p
      BY <1>6, <1>19, <3>1, <3>2 DEF InUse
    <3>3. CASE c = b /\ ~(o < p)
      BY <1>2, <1>9, <1>11, <3>1, <3>3, Constants
    <3>4. CASE c # b
      BY <1>6, <1>19, <3>1, <3>4 DEF InUse
    <3> QED
      BY <3>2, <3>3, <3>4
  <2>2. ASSUME NEW o \in InUse' PROVE o \in InUse
    <3>1. PICK c \in used \ {End} : o \in Offsets /\ c <= o /\ o < next'[c]
      BY <1>6 DEF InUse
    <3>2. o < next[c]
      BY <1>2, <1>9, <1>13, <1>11, <1>19, <3>1, Constants
    <3> QED
      BY <3>1, <3>2 DEF InUse
  <2>3. ASSUME NEW o \in p..n-1 PROVE o \in InUse
    <3>1. o \in Offsets /\ b <= o /\ o < next[b]
      BY <1>2, <1>8, <1>9, <1>11, <1>13, Constants
    <3> QED
      BY <3>1 DEF InUse
  <2> QED
    BY <2>1, <2>2, <2>3
<1>22. \A o \in p..n-1 : o \notin InUse'
  <2> SUFFICES ASSUME NEW o \in p..n-1, NEW c \in used \ {End}, c <= o, o < next'[c]
               PROVE  FALSE
    BY <1>6 DEF InUse
  <2>1. c \in heap \ {End} /\ c \in Nat
    BY <1>7
  <2>2. (c <= b \/ c >= n) /\ (b <= c \/ b >= next[c]) /\ next[c] \in heap
    BY <1>2, <1>8, <2>1 DEF Chain
  <2>3. next[c] \in Nat
    BY <1>7, <2>2
  <2> QED
    BY <1>8, <1>9, <1>11, <1>13, <1>19, <2>1, <2>2, <2>3
<1>23. InUse' \in SUBSET Offsets
  BY DEF InUse
<1>24. IsFiniteSet(InUse') /\ Cardinality(InUse') \in Nat
  BY <1>23, UnitsFinite
<1>25. Cardinality(InUse) = Cardinality(InUse') + (n - p)
  <2>1. p \in Int /\ n \in Int /\ p <= n
    BY <1>9, <1>11, <1>13
  <2> QED
    BY <1>21, <1>22, <1>24, <2>1, CountStretch
<1>26. StatsExact' /\ used_mem' \in Nat
  <2>1. used_mem = Cardinality(InUse') + (n - p)
    BY <1>25 DEF StatsExact
  <2>2. Room(b) - size = n - p
    BY <1>1, <1>2, <1>8, <1>9, <1>10, Constants DEF Room
  <2>3. used_mem' = Cardinality(InUse')
    BY <1>6, <1>9, <1>11, <1>24, <2>1, <2>2
  <2> QED
    BY <1>24, <2>3 DEF StatsExact
<1>27. Types'
  <2>1. asked' \in [Offsets -> Nat]
    BY <1>6, <1>7, <1>10
  <2>2. lfree' \in Offsets
    BY <1>18 DEF Chain
  <2> QED
    BY <1>6, <1>18, <1>26, <2>1, <2>2 DEF Types
<1>28. AllocationsIntact'
  <2>1. \A c \in Offsets : asked'[c] = IF c = b THEN size ELSE asked[c]
    BY <1>6, <1>7
  <2>2. used \ {End} = {c \in Offsets : asked[c] # 0}
    BY DEF AllocationsIntact
  <2>3. size # 0
    BY <1>10
  <2>4. used' \ {End} = {c \in Offsets : asked'[c] # 0}
    BY <1>6, <1>8, <2>1, <2>2, <2>3
  <2>5. ASSUME NEW c \in used' \ {End} PROVE next'[c] - (c + Header) >= asked'[c]
    <3>1. c \in used \ {End} /\ c \in Offsets
      BY <1>6, <1>7
    <3>2. CASE c = b
      BY <1>1, <1>8, <1>10, <1>19, <2>1, <3>1, <3>2, Constants
    <3>3. CASE c # b
      <4>1. next[c] - (c + Header) >= asked[c]
        BY <3>1 DEF AllocationsIntact, Room
      <4> QED
        BY <1>19, <2>1, <3>1, <3>3, <4>1
    <3> QED
      BY <3>2, <3>3
  <2> QED
    BY <2>4, <2>5 DEF AllocationsIntact, Room
<1>29. used' # {End}
  BY <1>6
<1> QED
  BY <1>18, <1>20, <1>26, <1>27, <1>28, <1>29

(***************************************************************************)
(* Every step keeps the invariant.                                         *)
(***************************************************************************)
LEMMA NextInv == Inv /\ [Next]_vars => Inv'
<1> SUFFICES ASSUME Inv, [Next]_vars PROVE Inv'
  OBVIOUS
<1>1. moving \subseteq used \ {End} /\ used \ {End} = {c \in Offsets : asked[c] # 0}
  BY DEF Inv, Types, AllocationsIntact
<1>2. ASSUME NEW size \in Sizes, rt_malloc(size) /\ UNCHANGED moving PROVE Inv'
  BY <1>1, <1>2, MallocInv
<1>3. ASSUME NEW b \in Offsets, rt_free(b) PROVE Inv'
  <2>1. b \in used \ {End} /\ Release(b) /\ moving' \subseteq used \ {b, End}
    BY <1>1, <1>3 DEF rt_free
  <2> QED
    BY <2>1, ReleaseInv
<1>4. ASSUME NEW b \in Offsets, FreeMoved(b) PROVE Inv'
  <2>1. b \in used \ {End} /\ Release(b) /\ moving' \subseteq used \ {b, End}
    BY <1>1, <1>4 DEF FreeMoved
  <2> QED
    BY <2>1, ReleaseInv
<1>5. ASSUME NEW b \in Offsets, NEW size \in Sizes, rt_realloc(b, size) PROVE Inv'
  <2>1. b \in used \ {End}
    BY <1>1, <1>5 DEF rt_realloc
  <2>2. CASE size + Header + MinSize < Room(b) /\ Shrink(b, size) /\ UNCHANGED moving
    BY <2>1, <2>2, ShrinkInv
  <2>3. CASE rt_malloc(size) /\ moving' = moving \cup {b}
    <3>1. moving' \subseteq used \ {End}
      BY <1>1, <2>1, <2>3
    <3> QED
      BY <2>3, <3>1, MallocInv
  <2> QED
    BY <1>5, <2>2, <2>3 DEF rt_realloc
<1>6. CASE UNCHANGED vars
  BY <1>6 DEF vars, Inv, Chain, Types, HolesJoined, AllocationsIntact, StatsExact, Room, InUse
<1> QED
  BY <1>2, <1>3, <1>4, <1>5, <1>6 DEF Next

(***************************************************************************)
(* The invariant holds in every reachable state.                           *)
(***************************************************************************)
THEOREM Invariance == Spec => []Inv
<1> QED
  BY InitInv, NextInv, PTL DEF Spec

(***************************************************************************)
(* The blocks cover the heap without gap or overlap, whatever is allocated,*)
(* cut, moved and freed, for every size of the heap.                       *)
(***************************************************************************)
THEOREM ChainAlwaysConsistent == Spec => []ChainConsistent
<1>1. Inv => ChainConsistent
  BY DEF Inv, Chain, Types, ChainConsistent, TypeOK
<1> QED
  BY <1>1, Invariance, PTL

(***************************************************************************)
(* No two holes lie side by side and lfree leads to a hole or to heap_end. *)
(***************************************************************************)
THEOREM HolesAlwaysJoined == Spec => []HolesJoined
<1>1. Inv => HolesJoined
  BY DEF Inv
<1> QED
  BY <1>1, Invariance, PTL

(***************************************************************************)
(* A block keeps its room until its caller frees it, and nothing leaks.    *)
(***************************************************************************)
THEOREM AllocationsAlwaysIntact == Spec => []AllocationsIntact
<1>1. Inv => AllocationsIntact
  BY DEF Inv
<1> QED
  BY <1>1, Invariance, PTL

(***************************************************************************)
(* used_mem is the number of units in use.                                 *)
(***************************************************************************)
THEOREM StatsAlwaysExact == Spec => []StatsExact
<1>1. Inv => StatsExact
  BY DEF Inv
<1> QED
  BY <1>1, Invariance, PTL

(***************************************************************************)
(* When all blocks are free the heap is one block again: the first block   *)
(* is free, so the one behind it is in use, which only heap_end is.        *)
(***************************************************************************)
THEOREM NothingEverLost == Spec => []NothingLost
<1>1. Inv => NothingLost
  <2> SUFFICES ASSUME Inv, used = {End}
               PROVE  heap = {0, End} /\ next[0] = End /\ lfree = 0
    BY DEF NothingLost
  <2>1. 0 \in heap /\ End \in heap /\ 0 # End /\ lfree = 0
    BY Constants DEF Inv, Chain
  <2>2. next[0] = End
    BY <2>1 DEF Inv, HolesJoined
  <2>3. \A c \in heap : c <= 0 \/ c >= End
    BY <2>1, <2>2 DEF Inv, Chain
  <2>4. \A c \in heap : c \in Nat /\ c <= End
    BY Constants DEF Inv, Chain
  <2>5. \A c \in heap : c = 0 \/ c = End
    BY <2>3, <2>4, Constants
  <2> QED
    BY <2>1, <2>2, <2>5
<1> QED
  BY <1>1, Invariance, PTL

=============================================================================
