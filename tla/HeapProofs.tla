----------------------------- MODULE HeapProofs -----------------------------
(***************************************************************************)
(* Proofs about the kernel heap: for every page size, header size, number  *)
(* of pages and set of sizes, the tags tile the page runs, the memory of   *)
(* different callers is disjoint, the free lists are well formed, and free *)
(* merges completely.                                                      *)
(***************************************************************************)
EXTENDS HeapLemmas, FiniteSetTheorems

-----------------------------------------------------------------------------
(***************************************************************************)
(* Induction over an interval, with the set of the numbers a fact holds    *)
(* for in the place of a predicate.                                        *)
(***************************************************************************)
LEMMA LeastExists ==
    ASSUME NEW S \in SUBSET Nat, S # {}
    PROVE  \E s \in S : \A t \in S : s <= t
<1>1. PICK s \in S : \A t \in S : ~ (<<t, s>> \in OpToRel(<, Nat))
  BY NatLessThanWellFounded, WFMin, Zenon
<1>2. ASSUME NEW t \in S PROVE s <= t
  <2>1. ~ (<<t, s>> \in {p \in Nat \X Nat : p[1] < p[2]})
    BY <1>1, Zenon DEF OpToRel
  <2> QED
    BY <2>1
<1> QED
  BY <1>2, Zenon

\* A set that holds lo and, with every number below hi, the next, holds lo to hi.
LEMMA IntervalInduction ==
    ASSUME NEW lo \in Nat, NEW hi \in Nat, NEW P \in SUBSET (lo .. hi), lo \in P,
           \A k \in P : k < hi => k + 1 \in P
    PROVE  P = lo .. hi
<1> DEFINE Missing == (lo .. hi) \ P
<1>1. SUFFICES ASSUME Missing # {} PROVE FALSE
  BY Zenon
<1>2. Missing \in SUBSET Nat
  OBVIOUS
<1>3. PICK m \in Missing : \A t \in Missing : m <= t
  <2> HIDE DEF Missing
  <2> QED
    BY <1>1, <1>2, LeastExists, Zenon
<1>4. m \in lo .. hi /\ m \notin P /\ m # lo
  BY Zenon
<1>5. m - 1 \in lo .. hi /\ m - 1 < hi /\ (m - 1) + 1 = m /\ ~ (m <= m - 1)
  BY <1>4
<1>6. m - 1 \in P
  BY <1>3, <1>5, Zenon
<1> QED
  BY <1>4, <1>5, <1>6, Zenon

(***************************************************************************)
(* Every size has a list: the shift at which the loop of getexp breaks is  *)
(* the least one whose power exceeds the size.                             *)
(***************************************************************************)
LEMMA BucketType ==
    ASSUME NEW size
    PROVE  Bucket(size) \in Exponents
<1>1. CASE getexp(size) < MINEXP
  BY <1>1, ExponentFacts, Zenon DEF Bucket
<1>2. CASE ~ (getexp(size) < MINEXP) /\ size < 2^MINEXP
  <2>1. getexp(size) = -1
    BY <1>2, Zenon DEF getexp
  <2>2. -1 < MINEXP
    BY ConstantFacts
  <2> QED
    BY <1>2, <2>1, <2>2, Zenon
<1>3. CASE ~ (getexp(size) < MINEXP) /\ ~ (size < 2^MINEXP)
  <2> DEFINE Ends(n) == n = MAXEXP - 1 \/ size < 2^(n + 1)
             S == {n \in Exponents : Ends(n)}
  <2>1. S \in SUBSET Nat /\ S # {}
    BY ExponentFacts, Zenon
  <2>2. PICK n \in S : \A m \in S : n <= m
    <3> HIDE DEF S
    <3> QED
      BY <2>1, LeastExists, Zenon
  <2>3. n \in Exponents /\ Ends(n)
    BY Zenon
  <2>4. ~ (size < 2^n)
    <3>1. CASE n = MINEXP
      BY <1>3, <3>1, Zenon
    <3>2. CASE n # MINEXP
      <4>1. n - 1 \in Exponents /\ (n - 1) + 1 = n /\ ~ (n <= n - 1)
        BY <2>3, <3>2, ConstantFacts DEF Exponents
      <4>2. n - 1 \notin S
        BY <2>2, <4>1, Zenon
      <4> QED
        BY <4>1, <4>2, Zenon
    <3> QED
      BY <3>1, <3>2, Zenon
  <2>5. \E k \in Exponents : ~ (size < 2^k) /\ (k = MAXEXP - 1 \/ size < 2^(k + 1))
    BY <2>3, <2>4, Zenon
  <2>6. getexp(size) = CHOOSE k \in Exponents :
                           ~ (size < 2^k) /\ (k = MAXEXP - 1 \/ size < 2^(k + 1))
    BY <1>3, Zenon DEF getexp
  <2>7. getexp(size) \in Exponents
    BY <2>5, <2>6, Zenon
  <2> QED
    BY <1>3, <2>7, Zenon DEF Bucket
<1> QED
  BY <1>1, <1>2, <1>3, Zenon

\* The end of malloc on a sound heap, with a split or without.
LEMMA CarveOK ==
    ASSUME NEW ts, NEW ff, NEW rs, NEW H, HeapOK(ts, ff, rs, H), Merged(ts),
           NEW t \in H, NEW size \in Nat, Header + size <= ts[t].real_size,
           ~ IsFree(ts, ts[t].right)
    PROVE  \E new, fs :
               /\ Carve([tags |-> ts, first |-> ff], t, size) = [tags |-> new, first |-> fs]
               /\ Carved(ts, new, fs, rs, H, t, size)
<1>1. PICK h : h = [tags |-> ts, first |-> ff]
  BY Zenon
<1>2. PICK mid : mid = [ts EXCEPT ![t].size = size]
  BY Zenon
<1>3. h.tags = ts /\ [h EXCEPT !.tags[t].size = size] = [tags |-> mid, first |-> ff]
  BY <1>1, <1>2
<1>4. Carved(ts, mid, ff, rs, H, t, size) /\ Resized(ts, mid)
  BY <1>2, SizeRecorded, Zenon
<1>5. \A u \in DOMAIN ts : /\ mid[u].index = ts[u].index
                              /\ mid[u].right = ts[u].right /\ mid[u].left = ts[u].left
                              /\ mid[u].real_size = ts[u].real_size
  BY <1>4, Zenon DEF Resized
<1>6. CASE ~ Splittable(ts[t], size)
  <2>1. Carve(h, t, size) = [tags |-> mid, first |-> ff]
    BY <1>3, <1>6, Zenon DEF Carve
  <2> QED
    BY <1>1, <1>4, <2>1, Zenon
<1>7. CASE Splittable(ts[t], size)
  <2>1. Carve(h, t, size) = split_tag([tags |-> mid, first |-> ff], t)
    BY <1>3, <1>7, Zenon DEF Carve
  <2>2. /\ HeapOK(mid, ff, rs, H) /\ Merged(mid) /\ Keeps(ts, mid, H \ {t})
        /\ mid[t].size = size /\ t \in DOMAIN mid
        /\ \A e \in Exponents : WholeFree(mid, e) = WholeFree(ts, e)
    BY <1>4, Zenon DEF Carved
  <2>3. Shape(mid) /\ Runs(rs) /\ Tiles(mid, rs) /\ HeldBy(mid, H)
    BY <2>2, Zenon DEF HeapOK
  <2>4. t \in DOMAIN ts /\ H \subseteq DOMAIN mid /\ Shape(ts) /\ Tiles(ts, rs)
    BY <2>3, Zenon DEF HeapOK, HeldBy
  <2>5. mid[t].real_size - mid[t].size - 2 * Header > 0
    <3>1. ts[t].real_size - size - 2 * Header > 0
      BY <1>7, Zenon DEF Splittable
    <3> QED
      BY <1>5, <2>2, <2>4, <3>1, Zenon
  <2>6. ~ IsFree(mid, mid[t].right)
    <3>1. mid[t].right = ts[t].right /\ (ts[t].right # NULL => ts[t].right \in DOMAIN ts)
      BY <1>5, <2>4, FreeMeansListed
    <3> QED
      BY <1>5, <2>4, <3>1, Zenon DEF IsFree
  <2>7. PICK cut, n : Parted(mid, cut, t, n) /\ SplitInto(mid, ff, t, cut, n)
    BY <2>2, <2>3, <2>5, SplitFacts, Zenon
  <2>8. /\ HeapOK(cut, ff, rs, H \cup {n}) /\ Merged(cut)
        /\ n \notin H /\ ~ IsFree(cut, cut[n].left) /\ ~ IsFree(cut, cut[n].right)
        /\ ~ Whole(cut[n]) /\ cut[t].real_size = Header + mid[t].size
        /\ \A e \in Exponents : WholeFree(cut, e) = WholeFree(mid, e)
    <3>1. SplitOff(mid, cut, ff, rs, H, t, n)
      BY <2>2, <2>5, <2>6, <2>7, SplitOK, Zenon
    <3> QED
      BY <3>1, Zenon DEF SplitOff
  <2>9. PICK e : e = Bucket(cut[n].real_size - Header)
    BY Zenon
  <2>10. e \in Exponents
    BY <2>9, BucketType, Zenon
  <2>11. PICK K : K = H \cup {n}
    BY Zenon
  <2>12. n \in K /\ K \ {n} = H
    BY <2>8, <2>11
  <2>13. PICK new, fs :
            /\ insert_tag([tags |-> cut, first |-> ff], n, e) = [tags |-> new, first |-> fs]
            /\ HeapOK(new, fs, rs, K \ {n}) /\ Merged(new) /\ SameBlocks(cut, new)
            /\ \A k \in Exponents : WholeFree(new, k) =
                  WholeFree(cut, k) \cup {u \in {n} : k = e /\ Whole(cut[u])}
    <3>1. \E new, fs :
            /\ insert_tag([tags |-> cut, first |-> ff], n, e) = [tags |-> new, first |-> fs]
            /\ PutBack(cut, new, fs, rs, K \ {n}, n, e)
      BY <2>8, <2>10, <2>11, <2>12, InsertOK, Zenon
    <3> QED
      BY <3>1, Zenon DEF PutBack
  <2>14. Carve(h, t, size) = [tags |-> new, first |-> fs]
    BY <2>1, <2>7, <2>9, <2>13, Zenon DEF SplitInto
  <2>15. \A k \in Exponents : WholeFree(new, k) = WholeFree(ts, k)
    <3>1. ASSUME NEW k \in Exponents PROVE WholeFree(new, k) = WholeFree(cut, k)
      BY <2>8, <2>13, Zenon
    <3> QED
      BY <2>2, <2>8, <3>1, Zenon
  <2>16. ASSUME NEW u \in H \ {t}
         PROVE  /\ u \in DOMAIN new /\ new[u].size = ts[u].size
                /\ new[u].real_size = ts[u].real_size
    <3>1. u \in DOMAIN mid /\ mid[u].size = ts[u].size /\ mid[u].real_size = ts[u].real_size
      BY <2>2, Zenon DEF Keeps
    <3>2. u \in DOMAIN cut /\ cut[u].size = mid[u].size /\ cut[u].real_size = mid[u].real_size
      BY <2>7, <3>1, Zenon DEF Parted
    <3> QED
      BY <2>13, <3>1, <3>2, Zenon DEF SameBlocks
  <2>17. t \in DOMAIN new /\ new[t].size = size /\ Header + size <= new[t].real_size
    <3>1. t \in DOMAIN cut /\ cut[t].size = mid[t].size
      BY <2>2, <2>7, Zenon DEF Parted
    <3>2. t \in DOMAIN new /\ new[t].size = size /\ new[t].real_size = Header + size
      BY <2>2, <2>8, <2>13, <3>1, Zenon DEF SameBlocks
    <3> QED
      BY <3>2, ConstantFacts
  <2>18. Carved(ts, new, fs, rs, H, t, size)
    BY <2>12, <2>13, <2>15, <2>16, <2>17, Zenon DEF Carved, Keeps
  <2> QED
    BY <1>1, <2>14, <2>18, Zenon
<1> QED
  BY <1>6, <1>7, Zenon

-----------------------------------------------------------------------------
(***************************************************************************)
(* The search of malloc.  A list has no cycle, so the walk over it ends,   *)
(* and it ends at NULL or at a tag of the same list that is large enough.  *)
(***************************************************************************)
Walk(ts, size, f, t) ==
    f[t] = IF t = NULL \/ Fits(ts[t], size) THEN t ELSE f[ts[t].next]

IsWalk(ts, size, f) ==
    f = [t \in DOMAIN ts \cup {NULL} |->
            IF t = NULL \/ Fits(ts[t], size) THEN t ELSE f[ts[t].next]]

Found(ts, size, t, v) ==
    v # NULL => v \in DOMAIN ts /\ ts[v].index = ts[t].index /\ Fits(ts[v], size)

\* The recursion of the search has a solution: next leads to lower ranks.
LEMMA WalkExists ==
    ASSUME NEW ts, NEW ff, Shape(ts), Lists(ts, ff), NEW size
    PROVE  \E f : IsWalk(ts, size, f)
<1>1. PICK B, rank : Ranks(ts, B, rank)
  BY Zenon DEF Lists
<1>2. B \in Nat /\ 0 \in 0 .. B
  BY <1>1 DEF Ranks
<1>3. PICK D : D = DOMAIN ts \cup {NULL}
  BY Zenon
<1>4. ASSUME NEW t \in DOMAIN ts
      PROVE  /\ t # NULL /\ ts[t].next \in D /\ rank[t] \in 0 .. B
             /\ ts[t].next # NULL => ts[t].next \in DOMAIN ts /\ rank[ts[t].next] < rank[t]
  <2>1. ts[t].next \in D /\ t # NULL
    BY <1>3, TagFields, Zenon DEF Lists, Linked
  <2>2. rank[t] \in 0 .. B /\ (ts[t].next # NULL => rank[ts[t].next] < rank[t])
    BY <1>1, Zenon DEF Ranks
  <2> QED
    BY <1>3, <2>1, <2>2, Zenon
<1> DEFINE Upto(k, f) == \A t \in D : (t = NULL \/ rank[t] <= k) => Walk(ts, size, f, t)
           P == {k \in 0 .. B : \E f : f = [t \in D |-> f[t]] /\ Upto(k, f)}
<1>5. 0 \in P
  <2>1. PICK f : f = [t \in D |-> IF t = NULL \/ Fits(ts[t], size) THEN t ELSE NULL]
    BY Zenon
  <2>2. f = [t \in D |-> f[t]] /\ NULL \in D /\ f[NULL] = NULL
    BY <1>3, <2>1, Zenon
  <2>3. ASSUME NEW t \in D, t = NULL \/ rank[t] <= 0 PROVE Walk(ts, size, f, t)
    <3>1. CASE t = NULL
      BY <2>2, <3>1, Zenon DEF Walk
    <3>2. CASE t # NULL
      <4>1. t \in DOMAIN ts /\ rank[t] <= 0 /\ rank[t] \in 0 .. B
        BY <1>3, <1>4, <2>3, <3>2, Zenon
      <4>2. ts[t].next = NULL
        <5>1. SUFFICES ASSUME ts[t].next # NULL PROVE FALSE
          BY Zenon
        <5>2. ts[t].next \in DOMAIN ts /\ rank[ts[t].next] < rank[t]
          BY <1>4, <4>1, <5>1, Zenon
        <5>3. rank[ts[t].next] \in 0 .. B
          BY <1>4, <5>2, Zenon
        <5> QED
          BY <1>2, <4>1, <5>2, <5>3
      <4> QED
        BY <2>1, <2>2, <4>2, Zenon DEF Walk
    <3> QED
      BY <3>1, <3>2, Zenon
  <2> QED
    BY <1>2, <2>2, <2>3, Zenon
<1>6. ASSUME NEW k \in P, k < B PROVE k + 1 \in P
  <2>1. PICK f : f = [t \in D |-> f[t]] /\ Upto(k, f)
    BY Zenon
  <2>2. PICK g : g = [t \in D |-> IF t = NULL \/ Fits(ts[t], size) THEN t ELSE f[ts[t].next]]
    BY Zenon
  <2>3. g = [t \in D |-> g[t]] /\ NULL \in D
    BY <1>3, <2>2, Zenon
  <2>4. ASSUME NEW u \in D, u = NULL \/ rank[u] <= k PROVE g[u] = f[u]
    <3>1. f[u] = IF u = NULL \/ Fits(ts[u], size) THEN u ELSE f[ts[u].next]
      BY <2>1, <2>4, Zenon DEF Walk
    <3> QED
      BY <2>2, <3>1, Zenon
  <2>5. ASSUME NEW t \in D, t = NULL \/ rank[t] <= k + 1 PROVE Walk(ts, size, g, t)
    <3>1. CASE t = NULL
      BY <2>2, <2>3, <3>1, Zenon DEF Walk
    <3>2. CASE t # NULL
      <4>1. t \in DOMAIN ts /\ rank[t] <= k + 1 /\ ts[t].next \in D
        BY <1>3, <1>4, <2>5, <3>2, Zenon
      <4>2. ts[t].next # NULL => rank[ts[t].next] <= k
        <5>1. SUFFICES ASSUME ts[t].next # NULL PROVE rank[ts[t].next] <= k
          BY Zenon
        <5>2. ts[t].next \in DOMAIN ts /\ rank[ts[t].next] < rank[t] /\ rank[t] \in 0 .. B
          BY <1>4, <4>1, <5>1, Zenon
        <5>3. rank[ts[t].next] \in 0 .. B
          BY <1>4, <5>2, Zenon
        <5> QED
          BY <1>2, <4>1, <5>2, <5>3
      <4>3. g[ts[t].next] = f[ts[t].next]
        BY <2>4, <4>1, <4>2, Zenon
      <4> QED
        BY <2>2, <4>3, Zenon DEF Walk
    <3> QED
      BY <3>1, <3>2, Zenon
  <2>6. k + 1 \in 0 .. B
    BY <1>2, <1>6
  <2> QED
    BY <2>3, <2>5, <2>6, Zenon
<1>7. P \in SUBSET (0 .. B) /\ 0 \in Nat
  OBVIOUS
<1> HIDE DEF P
<1>8. P = 0 .. B
  BY <1>2, <1>5, <1>6, <1>7, IntervalInduction, Zenon
<1>9. B \in P
  BY <1>2, <1>8
<1> USE DEF P
<1>10. PICK f : f = [t \in D |-> f[t]] /\ Upto(B, f)
  BY <1>9, Zenon
<1>11. \A t \in D : t = NULL \/ rank[t] <= B
  <2>1. \A t \in DOMAIN ts : rank[t] <= B
    BY <1>2, <1>4
  <2> QED
    BY <1>3, <2>1, Zenon
<1>12. \A t \in D : f[t] = IF t = NULL \/ Fits(ts[t], size) THEN t ELSE f[ts[t].next]
  BY <1>10, <1>11, Zenon DEF Walk
<1>13. f = [t \in D |-> IF t = NULL \/ Fits(ts[t], size) THEN t ELSE f[ts[t].next]]
  BY <1>10, <1>12, Zenon
<1> QED
  BY <1>3, <1>13, Zenon DEF IsWalk

\* By the same ranks, the search stays in its list.
LEMMA WalkFinds ==
    ASSUME NEW ts, NEW ff, Shape(ts), Lists(ts, ff), NEW size, NEW f,
           \A t \in DOMAIN ts \cup {NULL} : Walk(ts, size, f, t),
           NEW t \in DOMAIN ts
    PROVE  Found(ts, size, t, f[t])
<1>1. PICK B, rank : Ranks(ts, B, rank)
  BY Zenon DEF Lists
<1>2. B \in Nat /\ 0 \in 0 .. B
  BY <1>1 DEF Ranks
<1>3. f[NULL] = NULL
  BY Zenon DEF Walk
<1>4. ASSUME NEW u \in DOMAIN ts
      PROVE  /\ rank[u] \in 0 .. B
             /\ ts[u].next # NULL => /\ ts[u].next \in DOMAIN ts /\ rank[ts[u].next] < rank[u]
                                     /\ ts[ts[u].next].index = ts[u].index
  <2>1. ts[u].next # NULL => ts[u].next \in DOMAIN ts /\ ts[ts[u].next].index = ts[u].index
    BY LinkFacts, Zenon DEF Placed
  <2>2. rank[u] \in 0 .. B /\ (ts[u].next # NULL => rank[ts[u].next] < rank[u])
    BY <1>1, Zenon DEF Ranks
  <2> QED
    BY <2>1, <2>2, Zenon
<1>5. ASSUME NEW u \in DOMAIN ts,
             ts[u].next # NULL => Found(ts, size, ts[u].next, f[ts[u].next])
      PROVE  Found(ts, size, u, f[u])
  <2>1. f[u] = IF u = NULL \/ Fits(ts[u], size) THEN u ELSE f[ts[u].next]
    BY Zenon DEF Walk
  <2>2. u # NULL
    BY TagFields, Zenon
  <2>3. CASE Fits(ts[u], size)
    <3>1. f[u] = u
      BY <2>1, <2>3, Zenon
    <3> QED
      BY <2>3, <3>1, Zenon DEF Found
  <2>4. CASE ~ Fits(ts[u], size)
    <3>1. f[u] = f[ts[u].next]
      BY <2>1, <2>2, <2>4, Zenon
    <3>2. CASE ts[u].next = NULL
      BY <1>3, <3>1, <3>2, Zenon DEF Found
    <3>3. CASE ts[u].next # NULL
      <4>1. Found(ts, size, ts[u].next, f[u]) /\ ts[ts[u].next].index = ts[u].index
        BY <1>4, <1>5, <3>1, <3>3, Zenon
      <4> QED
        BY <4>1, Zenon DEF Found
    <3> QED
      BY <3>2, <3>3, Zenon
  <2> QED
    BY <2>3, <2>4, Zenon
<1> DEFINE Upto(k) == \A u \in DOMAIN ts : rank[u] <= k => Found(ts, size, u, f[u])
           P == {k \in 0 .. B : Upto(k)}
<1>6. 0 \in P
  <2>1. ASSUME NEW u \in DOMAIN ts, rank[u] <= 0 PROVE ts[u].next = NULL
    <3>1. SUFFICES ASSUME ts[u].next # NULL PROVE FALSE
      BY Zenon
    <3>2. rank[ts[u].next] \in 0 .. B /\ rank[ts[u].next] < rank[u] /\ rank[u] \in 0 .. B
      BY <1>4, <3>1, Zenon
    <3> QED
      BY <1>2, <2>1, <3>2
  <2> QED
    BY <1>2, <1>5, <2>1, Zenon
<1>7. ASSUME NEW k \in P, k < B PROVE k + 1 \in P
  <2>1. k + 1 \in 0 .. B
    BY <1>2, <1>7
  <2>2. ASSUME NEW u \in DOMAIN ts, rank[u] <= k + 1, ts[u].next # NULL
        PROVE  Found(ts, size, ts[u].next, f[ts[u].next])
    <3>1. /\ ts[u].next \in DOMAIN ts /\ rank[ts[u].next] < rank[u]
          /\ rank[ts[u].next] \in 0 .. B /\ rank[u] \in 0 .. B
      BY <1>4, <2>2, Zenon
    <3>2. rank[ts[u].next] <= k
      BY <1>2, <2>2, <3>1
    <3> QED
      BY <3>1, <3>2, Zenon
  <2> QED
    BY <1>5, <2>1, <2>2, Zenon
<1>8. P \in SUBSET (0 .. B) /\ 0 \in Nat
  OBVIOUS
<1> HIDE DEF P
<1>9. P = 0 .. B
  BY <1>2, <1>6, <1>7, <1>8, IntervalInduction, Zenon
<1>10. rank[t] \in P /\ rank[t] <= rank[t]
  BY <1>4, <1>9
<1> USE DEF P
<1> QED
  BY <1>10, Zenon

\* What malloc's search returns.
LEMMA SearchFacts ==
    ASSUME NEW size, Shape(tags), Lists(tags, l_freePages)
    PROVE  Search(size) # NULL =>
               /\ Search(size) \in DOMAIN tags /\ tags[Search(size)].index = Bucket(size)
               /\ Fits(tags[Search(size)], size)
<1>1. \E f : IsWalk(tags, size, f)
  BY WalkExists, Zenon
<1>2. \E f : IsWalk(tags, size, f) /\ Search(size) = f[l_freePages[Bucket(size)]]
  BY <1>1, Zenon DEF Search, IsWalk
<1>3. PICK f : IsWalk(tags, size, f) /\ Search(size) = f[l_freePages[Bucket(size)]]
  BY <1>2, Zenon
<1>4. \A t \in DOMAIN tags \cup {NULL} : Walk(tags, size, f, t)
  BY <1>3, Zenon DEF Walk, IsWalk
<1>5. PICK a : a = l_freePages[Bucket(size)]
  BY Zenon
<1>6. a \in DOMAIN tags \cup {NULL} /\ (a # NULL => tags[a].index = Bucket(size))
  BY <1>5, BucketType, Zenon DEF Lists
<1>7. CASE a = NULL
  <2>1. f[a] = NULL
    BY <1>4, <1>7, Zenon DEF Walk
  <2> QED
    BY <1>3, <1>5, <2>1, Zenon
<1>8. CASE a # NULL
  <2>1. Found(tags, size, a, f[a])
    BY <1>4, <1>6, <1>8, WalkFinds, Zenon
  <2> QED
    BY <1>3, <1>5, <1>6, <1>8, <2>1, Zenon DEF Found
<1> QED
  BY <1>7, <1>8, Zenon

\* physical_allocate's grant is a run of pages that the heap does not own.
LEMMA FirstPageFacts ==
    ASSUME NEW n \in Nat, GrantablePages(n) # {}
    PROVE  /\ FirstPage(n) \in Nat /\ FirstPage(n) + n <= Pages
           /\ \A r \in runs : PageRun(FirstPage(n), n) \cap PageRun(r.page, r.count) = {}
<1>1. \A p \in 0 .. (Pages - n) : p \in Nat /\ p + n <= Pages
  BY ConstantFacts
<1>2. GrantablePages(n) \in SUBSET Nat
  BY <1>1, Zenon DEF GrantablePages
<1>3. \E page \in GrantablePages(n) : \A p \in GrantablePages(n) : page <= p
  BY <1>2, LeastExists, Zenon
<1>4. FirstPage(n) \in GrantablePages(n)
  BY <1>3, Zenon DEF FirstPage
<1> QED
  BY <1>1, <1>4, Zenon DEF GrantablePages

-----------------------------------------------------------------------------
(***************************************************************************)
(* l_completePages counts the wholly free runs of each list.               *)
(***************************************************************************)
Counted(ts, count) ==
    /\ count \in [Exponents -> Nat]
    /\ \A e \in Exponents : /\ count[e] = Cardinality(WholeFree(ts, e))
                            /\ count[e] <= MAXCOMPLETE

\* There are finitely many tags.
LEMMA WholeFreeFinite ==
    ASSUME NEW ts, Shape(ts), NEW e
    PROVE  IsFiniteSet(WholeFree(ts, e)) /\ Cardinality(WholeFree(ts, e)) \in Nat
<1>1. IsFiniteSet(Addresses)
  BY FS_Interval, ConstantFacts DEF Addresses
<1>2. WholeFree(ts, e) \subseteq Addresses
  BY Zenon DEF WholeFree, Shape
<1>3. IsFiniteSet(WholeFree(ts, e))
  BY <1>1, <1>2, FS_Subset, Zenon
<1> QED
  BY <1>3, FS_CardinalityType, Zenon

\* No wholly free run comes or goes: the counters stay right.
LEMMA CountedSame ==
    ASSUME NEW ts, NEW count, Counted(ts, count), NEW new,
           \A e \in Exponents : WholeFree(new, e) = WholeFree(ts, e)
    PROVE  Counted(new, count)
BY Zenon DEF Counted

\* A tag leaves list e: its counter goes down if the tag is a whole run.
LEMMA CountedLess ==
    ASSUME NEW ts, NEW count, Shape(ts), Counted(ts, count), NEW t \in DOMAIN ts,
           NEW e \in Exponents, ts[t].index = e,
           NEW new, \A k \in Exponents : WholeFree(new, k) = WholeFree(ts, k) \ {t},
           NEW less, less = [count EXCEPT ![e] = @ - (IF Whole(ts[t]) THEN 1 ELSE 0)]
    PROVE  Counted(new, less)
<1>1. count \in [Exponents -> Nat]
  BY Zenon DEF Counted
<1>2. ASSUME NEW k \in Exponents
      PROVE  /\ less[k] \in Nat /\ less[k] = Cardinality(WholeFree(new, k))
             /\ less[k] <= MAXCOMPLETE
  <2>1. PICK S : S = WholeFree(ts, k)
    BY Zenon
  <2>2. /\ IsFiniteSet(S) /\ Cardinality(S) \in Nat
        /\ count[k] = Cardinality(S) /\ count[k] <= MAXCOMPLETE
        /\ WholeFree(new, k) = S \ {t}
    BY <2>1, WholeFreeFinite, Zenon DEF Counted
  <2>3. t \in S <=> k = e /\ Whole(ts[t])
    BY <2>1, Zenon DEF WholeFree
  <2>4. CASE t \in S
    <3>1. IsFiniteSet(S \ {t}) /\ Cardinality(S \ {t}) = Cardinality(S) - 1
      BY <2>2, <2>4, FS_RemoveElement
    <3>2. Cardinality(S \ {t}) \in Nat
      BY <3>1, FS_CardinalityType, Zenon
    <3>3. less[k] = count[k] - 1
      BY <1>1, <2>3, <2>4
    <3> QED
      BY <2>2, <3>1, <3>2, <3>3, ConstantFacts
  <2>5. CASE t \notin S
    <3>1. S \ {t} = S
      BY <2>5, Zenon
    <3>2. less[k] = count[k]
      <4>1. CASE k = e
        <5>1. less[k] = count[k] - 0
          BY <1>1, <2>3, <2>5, <4>1
        <5>2. count[k] \in Nat
          BY <1>1, Zenon
        <5> QED
          BY <5>1, <5>2
      <4>2. CASE k # e
        BY <1>1, <4>2
      <4> QED
        BY <4>1, <4>2, Zenon
    <3> QED
      BY <2>2, <3>1, <3>2, Zenon
  <2> QED
    BY <2>4, <2>5, Zenon
<1>3. DOMAIN less = Exponents /\ less = [k \in Exponents |-> less[k]]
  BY <1>1, Zenon
<1>4. less \in [Exponents -> Nat]
  BY <1>2, <1>3, Zenon
<1> QED
  BY <1>2, <1>4, Zenon DEF Counted

\* A tag enters list e: its counter goes up if the tag is a whole run.
LEMMA CountedMore ==
    ASSUME NEW ts, NEW count, Shape(ts), Counted(ts, count), NEW t \in DOMAIN ts,
           NEW e \in Exponents, ts[t].index = -1, Whole(ts[t]) => count[e] # MAXCOMPLETE,
           NEW new, \A k \in Exponents : WholeFree(new, k) =
                        WholeFree(ts, k) \cup {u \in {t} : k = e /\ Whole(ts[u])},
           NEW more, more = [count EXCEPT ![e] = @ + (IF Whole(ts[t]) THEN 1 ELSE 0)]
    PROVE  Counted(new, more)
<1>1. count \in [Exponents -> Nat]
  BY Zenon DEF Counted
<1>2. ASSUME NEW k \in Exponents
      PROVE  /\ more[k] \in Nat /\ more[k] = Cardinality(WholeFree(new, k))
             /\ more[k] <= MAXCOMPLETE
  <2>1. PICK S : S = WholeFree(ts, k)
    BY Zenon
  <2>2. /\ IsFiniteSet(S) /\ Cardinality(S) \in Nat
        /\ count[k] = Cardinality(S) /\ count[k] <= MAXCOMPLETE /\ count[k] \in Nat
        /\ WholeFree(new, k) = S \cup {u \in {t} : k = e /\ Whole(ts[u])}
    BY <1>1, <2>1, WholeFreeFinite, Zenon DEF Counted
  <2>3. t \notin S
    <3>1. k # -1
      BY ExponentFacts
    <3> QED
      BY <2>1, <3>1, Zenon DEF WholeFree
  <2>4. CASE k = e /\ Whole(ts[t])
    <3>1. WholeFree(new, k) = S \cup {t}
      BY <2>2, <2>4, Zenon
    <3>2. Cardinality(S \cup {t}) = Cardinality(S) + 1
      BY <2>2, <2>3, FS_AddElement, Zenon
    <3>3. more[k] = count[k] + 1
      BY <1>1, <2>4
    <3>4. count[k] # MAXCOMPLETE
      BY <2>4, Zenon
    <3>5. more[k] = Cardinality(WholeFree(new, k))
      BY <2>2, <3>1, <3>2, <3>3, Zenon
    <3>6. \A c \in Nat : c <= MAXCOMPLETE /\ c # MAXCOMPLETE =>
                             c + 1 \in Nat /\ c + 1 <= MAXCOMPLETE
      BY ConstantFacts
    <3> QED
      BY <2>2, <3>3, <3>4, <3>5, <3>6, Zenon
  <2>5. CASE ~ (k = e /\ Whole(ts[t]))
    <3>1. WholeFree(new, k) = S
      BY <2>2, <2>5, Zenon
    <3>2. more[k] = count[k]
      <4>1. CASE k = e
        <5>1. more[k] = count[k] + 0
          BY <1>1, <2>5, <4>1
        <5> QED
          BY <2>2, <5>1
      <4>2. CASE k # e
        BY <1>1, <4>2
      <4> QED
        BY <4>1, <4>2, Zenon
    <3> QED
      BY <2>2, <3>1, <3>2, Zenon
  <2> QED
    BY <2>4, <2>5, Zenon
<1>3. DOMAIN more = Exponents /\ more = [k \in Exponents |-> more[k]]
  BY <1>1, Zenon
<1>4. more \in [Exponents -> Nat]
  BY <1>2, <1>3, Zenon
<1> QED
  BY <1>2, <1>4, Zenon DEF Counted

-----------------------------------------------------------------------------
(***************************************************************************)
(* What malloc and free do to the state of a sound heap: the blocks that   *)
(* other callers hold stay as they are.                                    *)
(***************************************************************************)
HeapSound == HeapOK(tags, l_freePages, runs, held) /\ Merged(tags) /\ Counted(tags, l_completePages)

\* The heap after a step that leaves callers with the tags of H.
Became(H) ==
    /\ HeapOK(tags', l_freePages', runs', H) /\ Merged(tags') /\ Counted(tags', l_completePages')

Granted(t, size) ==
    /\ Became(held \cup {t}) /\ t \notin held /\ Keeps(tags, tags', held)
    /\ tags'[t].size = size /\ Header + size <= tags'[t].real_size

\* malloc with a tag from a list.
LEMMA ReuseOK ==
    ASSUME HeapSound, NEW size \in Nat, NEW t, t # NULL, malloc_reuse(t, size)
    PROVE  Granted(t, size)
<1>1. /\ HeapOK(tags, l_freePages, runs, held) /\ Merged(tags)
      /\ Counted(tags, l_completePages)
      /\ Shape(tags) /\ Tiles(tags, runs) /\ Lists(tags, l_freePages) /\ HeldBy(tags, held)
  BY Zenon DEF HeapSound, HeapOK
<1>2. /\ Search(size) = t /\ runs' = runs
      /\ l_completePages' = [l_completePages EXCEPT ![Bucket(size)] =
                                @ - (IF Whole(tags[t]) THEN 1 ELSE 0)]
      /\ tags' = Carve(remove_tag(Heap0, t), t, size).tags
      /\ l_freePages' = Carve(remove_tag(Heap0, t), t, size).first
  BY Zenon DEF malloc_reuse, Install
<1>3. t \in DOMAIN tags /\ tags[t].index = Bucket(size) /\ Fits(tags[t], size)
  BY <1>1, <1>2, SearchFacts, Zenon
<1>4. Bucket(size) \in Exponents /\ tags[t].index # -1
  BY <1>3, BucketType, ExponentFacts, Zenon
<1>5. t \notin held
  BY <1>1, <1>3, <1>4, Zenon DEF HeldBy
<1>6. PICK mid, ff :
          /\ remove_tag([tags |-> tags, first |-> l_freePages], t) = [tags |-> mid, first |-> ff]
          /\ HeapOK(mid, ff, runs, held \cup {t}) /\ TakenOut(tags, mid, t)
  BY <1>1, <1>3, <1>4, RemoveOK, Zenon
<1>7. /\ DOMAIN mid = DOMAIN tags /\ mid[t].index = -1
      /\ \A u \in DOMAIN tags : /\ mid[u].size = tags[u].size
                                /\ mid[u].real_size = tags[u].real_size
                                /\ mid[u].left = tags[u].left /\ mid[u].right = tags[u].right
      /\ \A u \in DOMAIN tags \ {t} : mid[u].index = tags[u].index
      /\ \A e \in Exponents : WholeFree(mid, e) = WholeFree(tags, e) \ {t}
  BY <1>6, Zenon DEF TakenOut, SameBlocks
<1>8. ASSUME NEW u \in DOMAIN tags, tags[u].index # -1, tags[u].right # NULL
      PROVE  mid[tags[u].right].index = -1
  <2>1. tags[tags[u].right].index = -1
    BY <1>1, <1>8, Zenon DEF Merged
  <2>2. tags[u].right \in DOMAIN tags
    BY <1>1, <1>8, FreeMeansListed
  <2> QED
    BY <1>4, <1>7, <2>1, <2>2, Zenon
<1>9. Merged(mid)
  <2>1. ASSUME NEW u \in DOMAIN mid, mid[u].index # -1, mid[u].right # NULL
        PROVE  mid[mid[u].right].index = -1
    <3>1. u \in DOMAIN tags /\ u # t /\ tags[u].index # -1 /\ tags[u].right = mid[u].right
      BY <1>7, <2>1, Zenon
    <3> QED
      BY <1>8, <2>1, <3>1, Zenon
  <2> QED
    BY <2>1, Zenon DEF Merged
<1>10. ~ IsFree(mid, mid[t].right)
  <2>1. ~ (-1 >= 0)
    OBVIOUS
  <2>2. mid[t].right # NULL => mid[mid[t].right].index = -1
    BY <1>3, <1>4, <1>7, <1>8, Zenon
  <2> QED
    BY <2>1, <2>2, Zenon DEF IsFree
<1>11. Header + size <= mid[t].real_size
  <2>1. tags[t].real_size \in Nat
    BY <1>1, <1>3, TagFields, Zenon
  <2>2. Header + size <= tags[t].real_size
    BY <1>3, <2>1, ConstantFacts DEF Fits
  <2> QED
    BY <1>3, <1>7, <2>2, Zenon
<1>12. PICK H : H = held \cup {t}
  BY Zenon
<1>13. t \in H /\ H \ {t} = held /\ HeapOK(mid, ff, runs, H)
  BY <1>5, <1>6, <1>12, Zenon
<1>14. PICK new, fs :
          /\ Carve([tags |-> mid, first |-> ff], t, size) = [tags |-> new, first |-> fs]
          /\ Carved(mid, new, fs, runs, H, t, size)
  BY <1>9, <1>10, <1>11, <1>13, CarveOK, Zenon
<1>15. tags' = new /\ l_freePages' = fs
  <2>1. Carve(remove_tag(Heap0, t), t, size) = [tags |-> new, first |-> fs]
    BY <1>6, <1>14, Zenon DEF Heap0
  <2> QED
    BY <1>2, <2>1
<1>16. /\ HeapOK(new, fs, runs, H) /\ Merged(new) /\ Keeps(mid, new, held)
       /\ new[t].size = size /\ Header + size <= new[t].real_size
       /\ \A e \in Exponents : WholeFree(new, e) = WholeFree(mid, e)
  BY <1>13, <1>14, Zenon DEF Carved
<1>17. \A e \in Exponents : WholeFree(new, e) = WholeFree(tags, e) \ {t}
  BY <1>7, <1>16, Zenon
<1>18. Counted(new, l_completePages')
  BY <1>1, <1>2, <1>3, <1>4, <1>17, CountedLess, Zenon
<1>19. Keeps(tags, new, held)
  <2>1. held \subseteq DOMAIN tags
    BY <1>1, Zenon DEF HeldBy
  <2> QED
    BY <1>7, <1>16, <2>1, Zenon DEF Keeps
<1>20. Became(held \cup {t})
  BY <1>2, <1>12, <1>15, <1>16, <1>18, Zenon DEF Became
<1> QED
  BY <1>5, <1>15, <1>16, <1>19, <1>20, Zenon DEF Granted

\* malloc with new pages.
LEMMA FreshOK ==
    ASSUME HeapSound, NEW size \in Nat, NEW n, n = PagesFor(size), GrantablePages(n) # {},
           NEW t, t = FirstPage(n) * PageSize, malloc_fresh(t, size)
    PROVE  Granted(t, size)
<1>1. /\ HeapOK(tags, l_freePages, runs, held) /\ Merged(tags)
      /\ Counted(tags, l_completePages)
      /\ Shape(tags) /\ Runs(runs) /\ Tiles(tags, runs) /\ Lists(tags, l_freePages)
      /\ HeldBy(tags, held)
  BY Zenon DEF HeapSound, HeapOK
<1>2. PICK p : p = FirstPage(n)
  BY Zenon
<1>3. /\ n \in Nat /\ n >= PageCount /\ n * PageSize \in Nat
      /\ size + Header <= n * PageSize
  BY PagesForFacts, Zenon
<1>4. /\ p \in Nat /\ p + n <= Pages
      /\ \A r \in runs : PageRun(p, n) \cap PageRun(r.page, r.count) = {}
  BY <1>2, <1>3, FirstPageFacts, Zenon
<1>5. t = p * PageSize /\ t \div PageSize = p
  BY <1>2, <1>4, PageDivision
<1>6. PICK tag : tag = [size |-> size, real_size |-> n * PageSize,
                        index |-> -1, left |-> NULL, right |-> NULL,
                        next |-> NULL, prev |-> NULL]
  BY Zenon
<1>7. /\ tag \in Tag /\ tag.size = size /\ tag.real_size = n * PageSize /\ tag.index = -1
      /\ tag.left = NULL /\ tag.right = NULL /\ tag.next = NULL /\ tag.prev = NULL
  BY <1>3, <1>6 DEF Tag
<1>8. n * PageSize >= Header /\ Header + size <= n * PageSize
  BY <1>3, ConstantFacts
<1>9. PICK mid : mid = [a \in DOMAIN tags \cup {t} |-> IF a = t THEN tag ELSE tags[a]]
  BY Zenon
<1>10. PICK run : run = [page |-> p, count |-> n]
  BY Zenon
<1>11. PICK rs : rs = runs \cup {run}
  BY Zenon
<1>12. /\ t \in Addresses /\ t \notin DOMAIN tags
       /\ Runs(rs) /\ Shape(mid) /\ Tiles(mid, rs)
  <2>1. FreshRun(tags, mid, runs \cup {run}, t)
    BY <1>1, <1>3, <1>4, <1>5, <1>7, <1>8, <1>9, <1>10, TilesFresh, Zenon
  <2> QED
    BY <1>11, <2>1, Zenon DEF FreshRun
<1>13. /\ DOMAIN mid = DOMAIN tags \cup {t} /\ mid[t] = tag
       /\ \A u \in DOMAIN tags : mid[u] = tags[u]
  BY <1>9, <1>12, Zenon
<1>14. Lists(mid, l_freePages)
  <2>1. ASSUME NEW u \in DOMAIN mid, u \in DOMAIN tags
        PROVE  mid[u].index = tags[u].index /\ mid[u].next = tags[u].next
               /\ mid[u].prev = tags[u].prev
    BY <1>13, <2>1, Zenon
  <2>2. ASSUME NEW u \in DOMAIN mid, u \notin DOMAIN tags
        PROVE  mid[u].index = -1 /\ mid[u].next = NULL /\ mid[u].prev = NULL
    BY <1>7, <1>13, <2>2, Zenon
  <2>3. DOMAIN tags \subseteq DOMAIN mid
    BY <1>13, Zenon
  <2> QED
    BY <1>1, <2>1, <2>2, <2>3, ListsKept, Zenon
<1>15. PICK H : H = held \cup {t}
  BY Zenon
<1>16. t \notin held /\ t \in H /\ H \ {t} = held /\ held \subseteq DOMAIN tags
  BY <1>1, <1>12, <1>15, Zenon DEF HeldBy
<1>17. HeldBy(mid, H)
  BY <1>1, <1>7, <1>12, <1>13, <1>15, Zenon DEF HeldBy
<1>18. HeapOK(mid, l_freePages, rs, H)
  BY <1>12, <1>14, <1>17, Zenon DEF HeapOK
<1>19. Merged(mid)
  <2>1. ASSUME NEW u \in DOMAIN mid, mid[u].index # -1, mid[u].right # NULL
        PROVE  mid[mid[u].right].index = -1
    <3>1. u \in DOMAIN tags /\ mid[u] = tags[u]
      BY <1>7, <1>13, <2>1, Zenon
    <3>2. tags[tags[u].right].index = -1
      BY <1>1, <2>1, <3>1, Zenon DEF Merged
    <3>3. tags[u].right \in DOMAIN tags
      BY <1>1, <2>1, <3>1, FreeMeansListed
    <3> QED
      BY <1>13, <3>1, <3>2, <3>3, Zenon
  <2> QED
    BY <2>1, Zenon DEF Merged
<1>20. ~ IsFree(mid, mid[t].right) /\ Header + size <= mid[t].real_size
  BY <1>7, <1>8, <1>13, Zenon DEF IsFree
<1>21. PICK new, fs :
          /\ Carve([tags |-> mid, first |-> l_freePages], t, size) = [tags |-> new, first |-> fs]
          /\ Carved(mid, new, fs, rs, H, t, size)
  BY <1>16, <1>18, <1>19, <1>20, CarveOK, Zenon
<1>22. /\ runs' = rs /\ l_completePages' = l_completePages
       /\ tags' = new /\ l_freePages' = fs
  <2>1. PICK h : h = [tags |-> mid, first |-> l_freePages]
    BY Zenon
  <2>2. /\ runs' = runs \cup {[page |-> t \div PageSize, count |-> n]}
        /\ l_completePages' = l_completePages
        /\ Install(Carve(h, t, size))
    BY <1>6, <1>9, <2>1, Zenon DEF malloc_fresh
  <2>3. Carve(h, t, size) = [tags |-> new, first |-> fs]
    BY <1>21, <2>1, Zenon
  <2>4. tags' = Carve(h, t, size).tags /\ l_freePages' = Carve(h, t, size).first
    BY <2>2, Zenon DEF Install
  <2>5. tags' = new /\ l_freePages' = fs
    BY <2>3, <2>4
  <2> QED
    BY <1>5, <1>10, <1>11, <2>2, <2>5, Zenon
<1>23. /\ HeapOK(new, fs, rs, H) /\ Merged(new) /\ Keeps(mid, new, held)
       /\ new[t].size = size /\ Header + size <= new[t].real_size
       /\ \A e \in Exponents : WholeFree(new, e) = WholeFree(mid, e)
  BY <1>16, <1>21, Zenon DEF Carved
<1>24. ASSUME NEW e \in Exponents PROVE WholeFree(mid, e) = WholeFree(tags, e)
  <2>1. e # -1
    BY ExponentFacts
  <2>2. ASSUME NEW u PROVE u \in WholeFree(mid, e) <=> u \in WholeFree(tags, e)
    BY <1>7, <1>13, <2>1, Zenon DEF WholeFree
  <2> QED
    BY <2>2, Zenon
<1>25. \A e \in Exponents : WholeFree(new, e) = WholeFree(tags, e)
  BY <1>23, <1>24, Zenon
<1>26. Counted(new, l_completePages')
  BY <1>1, <1>22, <1>25, CountedSame, Zenon
<1>27. Keeps(tags, new, held)
  BY <1>13, <1>16, <1>23, Zenon DEF Keeps
<1>28. Became(held \cup {t})
  BY <1>15, <1>22, <1>23, <1>26, Zenon DEF Became
<1> QED
  BY <1>16, <1>22, <1>23, <1>27, <1>28, Zenon DEF Granted

\* Either way, malloc grants a block that nobody holds.
LEMMA GrantOK ==
    ASSUME HeapSound, NEW size \in Nat, ~ NoPages(size), NEW t, t = Target(size), Grant(t, size)
    PROVE  Granted(t, size)
<1>1. CASE Search(size) # NULL
  <2>1. t = Search(size)
    BY <1>1, Zenon DEF Target
  <2>2. malloc_reuse(t, size)
    BY <1>1, Zenon DEF Grant, malloc_fresh
  <2> QED
    BY <1>1, <2>1, <2>2, ReuseOK, Zenon
<1>2. CASE Search(size) = NULL
  <2>1. PICK n : n = PagesFor(size)
    BY Zenon
  <2>2. t = FirstPage(n) * PageSize /\ GrantablePages(n) # {} /\ n \in Nat
    BY <1>2, <2>1, PagesForFacts, Zenon DEF Target, NoPages
  <2>3. t # NULL
    <3>1. FirstPage(n) \in Nat
      BY <2>2, FirstPageFacts, Zenon
    <3> QED
      BY <2>2, <3>1, ConstantFacts DEF NULL
  <2>4. malloc_fresh(t, size)
    BY <1>2, <2>3, Zenon DEF Grant, malloc_reuse
  <2> QED
    BY <2>1, <2>2, <2>4, FreshOK, Zenon
<1> QED
  BY <1>1, <1>2, Zenon

\* free merges, and then lists the tag or gives its run back.
LEMMA ReleaseOK ==
    ASSUME HeapSound, NEW t0 \in held, Release(t0)
    PROVE  Became(held \ {t0}) /\ Keeps(tags, tags', held \ {t0})
<1>1. /\ HeapOK(tags, l_freePages, runs, held) /\ Merged(tags)
      /\ Counted(tags, l_completePages)
  BY Zenon DEF HeapSound
<1>2. PICK K : K = held \ {t0}
  BY Zenon
<1>3. PICK mid, mf, t :
          /\ MeltedTo(tags, l_freePages, t0, mid, mf, t)
          /\ LeftMerged(tags, mid, mf, runs, K, t)
  BY <1>1, <1>2, MeltLeftOK, Zenon
<1>4. PICK ts, ff :
          /\ AbsorbedTo(mid, mf, t, ts, ff)
          /\ LeftMerged(tags, ts, ff, runs, K, t) /\ ~ IsFree(ts, ts[t].right)
  BY <1>3, MeltRightOK, Zenon
<1>5. PICK left : left = MeltLeft(Heap0, t0)
  BY Zenon
<1>6. left.tag = t /\ left.heap = [tags |-> mid, first |-> mf]
  <2>1. left = [heap |-> [tags |-> mid, first |-> mf], tag |-> t]
    BY <1>3, <1>5, Zenon DEF Heap0, MeltedTo
  <2> QED
    BY <2>1
<1>7. PICK h : h = [tags |-> ts, first |-> ff]
  BY Zenon
<1>8. MeltRight(left.heap, left.tag) = h
  BY <1>4, <1>6, <1>7, Zenon DEF AbsorbedTo
<1>9. h.tags = ts /\ [h EXCEPT !.tags = Drop(ts, t)] = [tags |-> Drop(ts, t), first |-> ff]
  BY <1>7
<1>10. PICK index : index = Bucket(ts[t].real_size - Header)
  BY Zenon
<1>11. PICK whole : whole = (ts[t].real_size + PageSize - 1) \div PageSize
  BY Zenon
<1>12. PICK pages : pages = IF whole < PageCount THEN PageCount ELSE whole
  BY Zenon
<1> DEFINE Back == Whole(ts[t]) /\ l_completePages[index] = MAXCOMPLETE
<1>13. IF Back
       THEN /\ Install([h EXCEPT !.tags = Drop(h.tags, t)])
            /\ runs' = runs \ {[page |-> t \div PageSize, count |-> pages]}
            /\ UNCHANGED l_completePages
       ELSE /\ Install(insert_tag(h, t, index))
            /\ l_completePages' = [l_completePages EXCEPT ![index] =
                                      @ + (IF Whole(ts[t]) THEN 1 ELSE 0)]
            /\ UNCHANGED runs
  BY <1>5, <1>6, <1>8, <1>9, <1>10, <1>11, <1>12 DEF Release
<1>14. /\ HeapOK(ts, ff, runs, K \cup {t}) /\ Merged(ts) /\ t \notin K
       /\ ~ IsFree(ts, ts[t].left) /\ ~ IsFree(ts, ts[t].right) /\ Keeps(tags, ts, K)
       /\ \A e \in Exponents : WholeFree(ts, e) = WholeFree(tags, e)
  BY <1>4, Zenon DEF LeftMerged
<1>15. /\ Shape(ts) /\ Runs(runs) /\ Tiles(ts, runs) /\ Lists(ts, ff)
       /\ HeldBy(ts, K \cup {t}) /\ t \in DOMAIN ts /\ ts[t].index = -1
  BY <1>14, Zenon DEF HeapOK, HeldBy
<1>16. Counted(ts, l_completePages)
  BY <1>1, <1>14, CountedSame, Zenon
<1>17. CASE Back
  <2>1. PICK new : new = Drop(ts, t)
    BY Zenon
  <2>2. PICK r \in runs : /\ t = FirstByte(r) /\ t + ts[t].real_size = EndByte(r)
                          /\ t \div PageSize = r.page /\ whole = r.count
                          /\ r = [page |-> r.page, count |-> r.count]
    <3>1. \E r \in runs : Fills(ts, t, r)
      BY <1>15, <1>17, WholeFillsRun, Zenon
    <3> QED
      BY <1>11, <3>1, Zenon DEF Fills
  <2>3. pages = r.count
    <3>1. r.count \in Nat /\ r.count >= PageCount
      BY <1>15 DEF Runs
    <3> QED
      BY <1>12, <2>2, <3>1, ConstantFacts
  <2>4. runs' = runs \ {r} /\ l_completePages' = l_completePages
    BY <1>13, <1>17, <2>2, <2>3, Zenon
  <2>5. tags' = new /\ l_freePages' = ff
    <3>1. Install([tags |-> Drop(ts, t), first |-> ff])
      BY <1>9, <1>13, <1>17, Zenon
    <3> QED
      BY <2>1, <3>1 DEF Install
  <2>6. Runs(runs \ {r}) /\ Shape(new) /\ Tiles(new, runs \ {r})
    BY <1>15, <1>17, <2>1, <2>2, TilesDrop, Zenon
  <2>7. /\ DOMAIN new = DOMAIN ts \ {t}
        /\ \A u \in DOMAIN new : u \in DOMAIN ts /\ u # t /\ new[u] = ts[u]
    BY <2>1, Zenon DEF Drop
  <2>8. Lists(new, ff)
    <3>1. ASSUME NEW u \in DOMAIN new, u \in DOMAIN ts
          PROVE  /\ new[u].index = ts[u].index /\ new[u].next = ts[u].next
                 /\ new[u].prev = ts[u].prev
      BY <2>7, Zenon
    <3>2. DOMAIN new \subseteq DOMAIN ts
      BY <2>7, Zenon
    <3>3. ASSUME NEW u \in DOMAIN ts, u \notin DOMAIN new PROVE ts[u].index = -1
      BY <1>15, <2>7, <3>3, Zenon
    <3> QED
      BY <1>15, <3>1, <3>2, <3>3, ListsKept, Zenon
  <2>9. HeldBy(new, K)
    BY <1>14, <1>15, <2>7, Zenon DEF HeldBy
  <2>10. HeapOK(new, ff, runs \ {r}, K)
    BY <2>6, <2>8, <2>9, Zenon DEF HeapOK
  <2>11. Merged(new)
    <3>1. ASSUME NEW u \in DOMAIN new, new[u].index # -1, new[u].right # NULL
          PROVE  new[new[u].right].index = -1
      <4>1. u \in DOMAIN ts /\ u # t /\ new[u] = ts[u]
        BY <2>7, Zenon
      <4>2. ts[ts[u].right].index = -1
        BY <1>14, <3>1, <4>1, Zenon DEF Merged
      <4>3. ts[u].right \in DOMAIN ts /\ ts[ts[u].right].left = u
        BY <1>15, <3>1, <4>1, FreeMeansListed
      <4>4. ts[u].right # t
        <5>1. ts[t].left = NULL /\ u # NULL
          BY <1>15, <1>17, <4>1, TagFields, Zenon DEF Whole
        <5> QED
          BY <4>3, <5>1, Zenon
      <4> QED
        BY <2>7, <4>1, <4>2, <4>3, <4>4, Zenon
    <3> QED
      BY <3>1, Zenon DEF Merged
  <2>12. ASSUME NEW e \in Exponents PROVE WholeFree(new, e) = WholeFree(ts, e)
    <3>1. e # -1
      BY ExponentFacts
    <3>2. ASSUME NEW u PROVE u \in WholeFree(new, e) <=> u \in WholeFree(ts, e)
      BY <1>15, <2>7, <3>1, Zenon DEF WholeFree
    <3> QED
      BY <3>2, Zenon
  <2>13. Counted(new, l_completePages')
    BY <1>16, <2>4, <2>12, CountedSame, Zenon
  <2>14. Keeps(tags, new, K)
    BY <1>14, <2>7, Zenon DEF Keeps
  <2>15. Became(K)
    BY <2>4, <2>5, <2>10, <2>11, <2>13, Zenon DEF Became
  <2> QED
    BY <1>2, <2>5, <2>14, <2>15, Zenon
<1>18. CASE ~ Back
  <2>1. index \in Exponents
    BY <1>10, BucketType, Zenon
  <2>2. PICK H : H = K \cup {t}
    BY Zenon
  <2>3. t \in H /\ H \ {t} = K /\ HeapOK(ts, ff, runs, H)
    BY <1>14, <2>2, Zenon
  <2>4. PICK new, fs :
            /\ insert_tag([tags |-> ts, first |-> ff], t, index) = [tags |-> new, first |-> fs]
            /\ PutBack(ts, new, fs, runs, H \ {t}, t, index)
    BY <1>14, <2>1, <2>3, InsertOK, Zenon
  <2>5. /\ HeapOK(new, fs, runs, K) /\ Merged(new) /\ SameBlocks(ts, new)
        /\ \A k \in Exponents : WholeFree(new, k) =
              WholeFree(ts, k) \cup {u \in {t} : k = index /\ Whole(ts[u])}
    BY <2>3, <2>4, Zenon DEF PutBack
  <2>6. /\ runs' = runs
        /\ l_completePages' = [l_completePages EXCEPT ![index] =
                                  @ + (IF Whole(ts[t]) THEN 1 ELSE 0)]
        /\ Install(insert_tag(h, t, index))
    BY <1>13, <1>18, Zenon
  <2>7. tags' = new /\ l_freePages' = fs
    <3>1. Install([tags |-> new, first |-> fs])
      BY <1>7, <2>4, <2>6, Zenon
    <3> QED
      BY <3>1 DEF Install
  <2>8. Counted(new, l_completePages')
    <3>1. Whole(ts[t]) => l_completePages[index] # MAXCOMPLETE
      BY <1>18, Zenon
    <3> QED
      BY <1>15, <1>16, <2>1, <2>5, <2>6, <3>1, CountedMore, Zenon
  <2>9. Keeps(tags, new, K)
    <3>1. K \subseteq DOMAIN ts
      BY <1>15, Zenon DEF HeldBy
    <3> QED
      BY <1>14, <2>5, <3>1, Zenon DEF Keeps, SameBlocks
  <2>10. Became(K)
    BY <2>5, <2>6, <2>7, <2>8, Zenon DEF Became
  <2> QED
    BY <1>2, <2>7, <2>9, <2>10, Zenon
<1> QED
  BY <1>17, <1>18, Zenon

-----------------------------------------------------------------------------
(***************************************************************************)
(* The inductive invariant: the heap is sound, every block has room for    *)
(* the size that was asked for, and a realloc between its two critical     *)
(* sections holds both of its blocks.                                      *)
(***************************************************************************)
Room == \A t \in held : Header + tags[t].size <= tags[t].real_size

Pending ==
    /\ \A p \in pending :
          /\ p.from \in held /\ p.to \in held /\ p.from # p.to
          /\ p.len <= tags[p.from].size /\ p.len <= tags[p.to].size
    /\ \A p, q \in pending : p = q

HeapInv == HeapSound /\ Room /\ Pending /\ halted \in BOOLEAN

\* The heap is sound before the first malloc.
LEMMA InitInv == Init => HeapInv
<1> SUFFICES ASSUME Init PROVE HeapInv
  OBVIOUS
<1>1. /\ tags = [a \in {} |-> NULL] /\ l_freePages = [e \in Exponents |-> NULL]
      /\ l_completePages = [e \in Exponents |-> 0]
      /\ runs = {} /\ held = {} /\ pending = {} /\ halted = FALSE
  BY Zenon DEF Init
<1>2. DOMAIN tags = {} /\ tags \in [DOMAIN tags -> Tag]
  BY <1>1
<1>3. Shape(tags) /\ Runs(runs) /\ Tiles(tags, runs) /\ HeldBy(tags, held) /\ Merged(tags)
  BY <1>1, <1>2, Zenon DEF Shape, Runs, Tiles, HeldBy, Merged
<1>4. Lists(tags, l_freePages)
  <2>1. l_freePages \in [Exponents -> DOMAIN tags \cup {NULL}]
    BY <1>1, <1>2
  <2>2. Ranks(tags, 0, [a \in {} |-> 0])
    BY <1>2 DEF Ranks
  <2>3. \A e \in Exponents : l_freePages[e] = NULL
    BY <1>1, Zenon
  <2> QED
    BY <1>2, <2>1, <2>2, <2>3, Zenon DEF Lists
<1>5. Counted(tags, l_completePages)
  <2>1. \A e \in Exponents : WholeFree(tags, e) = {}
    BY <1>2, Zenon DEF WholeFree
  <2>2. Cardinality({}) = 0
    BY FS_EmptySet, Zenon
  <2>3. 0 \in Nat /\ 0 <= MAXCOMPLETE
    BY ConstantFacts
  <2>4. \A e \in Exponents : l_completePages[e] = 0
    BY <1>1, Zenon
  <2>5. l_completePages \in [Exponents -> Nat]
    BY <1>1
  <2> QED
    BY <2>1, <2>2, <2>3, <2>4, <2>5, Zenon DEF Counted
<1>6. HeapSound
  BY <1>3, <1>4, <1>5, Zenon DEF HeapSound, HeapOK
<1>7. Room /\ Pending /\ halted \in BOOLEAN
  BY <1>1, Zenon DEF Room, Pending
<1> QED
  BY <1>6, <1>7, Zenon DEF HeapInv

\* A block that is kept has its room still.
LEMMA RoomKept ==
    ASSUME Room, NEW K, K \subseteq held, Keeps(tags, tags', K)
    PROVE  \A u \in K : /\ tags'[u].size = tags[u].size
                        /\ Header + tags'[u].size <= tags'[u].real_size
BY Zenon DEF Room, Keeps

\* Became is soundness after the step.
LEMMA BecameSound ==
    ASSUME Became(held')
    PROVE  HeapSound'
BY Zenon DEF Became, HeapSound

\* malloc keeps every block's size and room.
LEMMA GrantKeepsRoom ==
    ASSUME Room, NEW t, NEW size, Granted(t, size), held' = held \cup {t}
    PROVE  HeapSound' /\ Room' /\ \A u \in held : tags'[u].size = tags[u].size
<1>1. /\ Became(held \cup {t}) /\ Keeps(tags, tags', held)
      /\ tags'[t].size = size /\ Header + size <= tags'[t].real_size
  BY Zenon DEF Granted
<1>2. HeapSound'
  BY <1>1, BecameSound, Zenon
<1>3. \A u \in held : /\ tags'[u].size = tags[u].size
                      /\ Header + tags'[u].size <= tags'[u].real_size
  BY <1>1, RoomKept, Zenon
<1>4. ASSUME NEW u \in held' PROVE Header + tags'[u].size <= tags'[u].real_size
  BY <1>1, <1>3, <1>4, Zenon
<1> QED
  BY <1>2, <1>3, <1>4, Zenon DEF Room

\* free keeps the size and room of the blocks that stay.
LEMMA ReleaseKeepsRoom ==
    ASSUME HeapSound, Room, NEW t \in held, Release(t), held' = held \ {t}
    PROVE  HeapSound' /\ Room' /\ \A u \in held' : tags'[u].size = tags[u].size
<1>1. Became(held') /\ Keeps(tags, tags', held')
  BY ReleaseOK, Zenon
<1>2. HeapSound'
  BY <1>1, BecameSound, Zenon
<1>3. \A u \in held' : /\ tags'[u].size = tags[u].size
                       /\ Header + tags'[u].size <= tags'[u].real_size
  BY <1>1, RoomKept, Zenon
<1> QED
  BY <1>2, <1>3, Zenon DEF Room

\* Every step of malloc, free and realloc keeps the invariant.
LEMMA NextInv == HeapInv /\ [Next]_vars => HeapInv'
<1> SUFFICES ASSUME HeapInv, [Next]_vars PROVE HeapInv'
  OBVIOUS
<1>1. HeapSound /\ Room /\ Pending /\ halted \in BOOLEAN
  BY Zenon DEF HeapInv
<1>2. \A size \in Sizes : size \in Nat
  BY ConstantFacts, Zenon
<1>3. ASSUME NEW size \in Sizes, malloc(size) PROVE HeapInv'
  <2>1. PICK t : t = Target(size)
    BY Zenon
  <2>2. /\ ~ NoPages(size) /\ Grant(t, size) /\ held' = held \cup {t}
        /\ pending' = pending /\ halted' = halted
    BY <1>3, <2>1, Zenon DEF malloc
  <2>3. Granted(t, size)
    BY <1>1, <1>2, <2>1, <2>2, GrantOK, Zenon
  <2>4. HeapSound' /\ Room' /\ \A u \in held : tags'[u].size = tags[u].size
    BY <1>1, <2>2, <2>3, GrantKeepsRoom, Zenon
  <2>5. ASSUME NEW p \in pending
        PROVE  /\ p.from \in held' /\ p.to \in held' /\ p.from # p.to
               /\ p.len <= tags'[p.from].size /\ p.len <= tags'[p.to].size
    BY <1>1, <2>2, <2>4, Zenon DEF Pending
  <2>6. Pending'
    BY <1>1, <2>2, <2>5, Zenon DEF Pending
  <2> QED
    BY <1>1, <2>2, <2>4, <2>6, Zenon DEF HeapInv
<1>4. ASSUME NEW size \in Sizes, malloc_halts(size) PROVE HeapInv'
  <2>1. /\ tags' = tags /\ l_freePages' = l_freePages /\ l_completePages' = l_completePages
        /\ runs' = runs /\ held' = held /\ pending' = pending /\ halted' = TRUE
    BY <1>4, Zenon DEF malloc_halts
  <2>2. HeapSound' /\ Room' /\ Pending'
    BY <1>1, <2>1, Zenon DEF HeapSound, Room, Pending
  <2> QED
    BY <2>1, <2>2, Zenon DEF HeapInv
<1>5. ASSUME NEW t \in held \ InRealloc, free(t) PROVE HeapInv'
  <2>1. Release(t) /\ held' = held \ {t} /\ pending' = pending /\ halted' = halted
    BY <1>5, Zenon DEF free
  <2>2. HeapSound' /\ Room' /\ \A u \in held' : tags'[u].size = tags[u].size
    BY <1>1, <2>1, ReleaseKeepsRoom, Zenon
  <2>3. ASSUME NEW p \in pending
        PROVE  /\ p.from \in held' /\ p.to \in held' /\ p.from # p.to
               /\ p.len <= tags'[p.from].size /\ p.len <= tags'[p.to].size
    <3>1. p.from # t /\ p.to # t
      BY Zenon DEF InRealloc
    <3>2. p.from \in held' /\ p.to \in held'
      BY <1>1, <2>1, <3>1, Zenon DEF Pending
    <3> QED
      BY <1>1, <2>2, <3>2, Zenon DEF Pending
  <2>4. Pending'
    BY <1>1, <2>1, <2>3, Zenon DEF Pending
  <2> QED
    BY <1>1, <2>1, <2>2, <2>4, Zenon DEF HeapInv
<1>6. ASSUME NEW t \in held, NEW size \in Sizes, realloc_begin(t, size) PROVE HeapInv'
  <2>1. PICK new : new = Target(size)
    BY Zenon
  <2>2. PICK p : p = [from |-> t, to |-> new, len |-> CopyLength(tags[t].size, size)]
    BY Zenon
  <2>3. /\ ~ NoPages(size) /\ Grant(new, size) /\ held' = held \cup {new}
        /\ pending' = {p} /\ halted' = halted
    BY <1>6, <2>1, <2>2, Zenon DEF realloc_begin
  <2>4. Granted(new, size)
    BY <1>1, <1>2, <2>1, <2>3, GrantOK, Zenon
  <2>5. HeapSound' /\ Room' /\ \A u \in held : tags'[u].size = tags[u].size
    BY <1>1, <2>3, <2>4, GrantKeepsRoom, Zenon
  <2>6. new \notin held /\ tags'[new].size = size
    BY <2>4, Zenon DEF Granted
  <2>7. p.from = t /\ p.to = new /\ p.len = CopyLength(tags[t].size, size)
    BY <2>2
  <2>8. tags[t].size \in Nat /\ tags'[t].size = tags[t].size
    <3>1. t \in DOMAIN tags /\ Shape(tags)
      BY <1>1, Zenon DEF HeapSound, HeapOK, HeldBy
    <3> QED
      BY <2>5, <3>1, TagFields, Zenon
  <2>9. p.len <= tags'[t].size /\ p.len <= tags'[new].size
    BY <1>2, <2>6, <2>7, <2>8 DEF CopyLength
  <2>10. Pending'
    BY <2>3, <2>6, <2>7, <2>9, Zenon DEF Pending
  <2> QED
    BY <1>1, <2>3, <2>5, <2>10, Zenon DEF HeapInv
<1>7. ASSUME NEW p \in pending, realloc_end(p) PROVE HeapInv'
  <2>1. /\ Release(p.from) /\ held' = held \ {p.from} /\ pending' = pending \ {p}
        /\ halted' = halted
    BY <1>7, Zenon DEF realloc_end
  <2>2. p.from \in held /\ pending' = {}
    BY <1>1, <2>1, Zenon DEF Pending
  <2>3. HeapSound' /\ Room'
    BY <1>1, <2>1, <2>2, ReleaseKeepsRoom, Zenon
  <2>4. Pending'
    BY <2>2, Zenon DEF Pending
  <2> QED
    BY <1>1, <2>1, <2>3, <2>4, Zenon DEF HeapInv
<1>8. CASE UNCHANGED vars
  <2>1. /\ tags' = tags /\ l_freePages' = l_freePages /\ l_completePages' = l_completePages
        /\ runs' = runs /\ held' = held /\ pending' = pending /\ halted' = halted
    BY <1>8, Zenon DEF vars
  <2> QED
    BY <1>1, <2>1, Zenon DEF HeapInv, HeapSound, Room, Pending
<1> QED
  BY <1>3, <1>4, <1>5, <1>6, <1>7, <1>8, Zenon DEF Next

\* The invariant holds in every reachable state.
LEMMA HeapStaysSound == Spec => []HeapInv
BY InitInv, NextInv, PTL DEF Spec

-----------------------------------------------------------------------------
(***************************************************************************)
(* What the invariant says of the properties of module Heap.               *)
(***************************************************************************)
LEMMA SoundTiles == HeapInv => TagsTileRuns
<1> SUFFICES ASSUME HeapInv PROVE TagsTileRuns
  OBVIOUS
<1>1. /\ Shape(tags) /\ Runs(runs) /\ Tiles(tags, runs) /\ Lists(tags, l_freePages)
      /\ HeldBy(tags, held) /\ Counted(tags, l_completePages) /\ halted \in BOOLEAN
  BY Zenon DEF HeapInv, HeapSound, HeapOK
<1>2. TypeOK
  <2>1. DOMAIN tags \subseteq Addresses /\ \A t \in DOMAIN tags : tags[t] \in Tag
    BY <1>1, Zenon DEF Shape
  <2>2. l_freePages \in [Exponents -> Addresses \cup {NULL}]
    <3>1. l_freePages \in [Exponents -> DOMAIN tags \cup {NULL}]
      BY <1>1, Zenon DEF Lists
    <3> QED
      BY <2>1, <3>1
  <2> QED
    BY <1>1, <2>1, <2>2, Zenon DEF TypeOK, Counted, Runs, HeldBy
<1>3. ASSUME NEW t \in DOMAIN tags
      PROVE  /\ tags[t].left = NULL => \E r \in runs : t = FirstByte(r)
             /\ tags[t].left # NULL => /\ tags[t].left \in DOMAIN tags
                                       /\ tags[tags[t].left].right = t
             /\ tags[t].right = NULL => \E r \in runs : t + tags[t].real_size = EndByte(r)
             /\ tags[t].right # NULL => /\ tags[t].right \in DOMAIN tags
                                        /\ tags[tags[t].right].left = t
                                        /\ tags[t].right = t + tags[t].real_size
  <2>1. Neighbours(tags, t) /\ \E r \in runs : Inside(tags, t, r)
    BY <1>1, Zenon DEF Tiles
  <2> QED
    BY <2>1, Zenon DEF Neighbours, Inside
<1>4. \A r \in runs : FirstByte(r) \in DOMAIN tags
  BY <1>1, Zenon DEF Tiles
<1> QED
  BY <1>2, <1>3, <1>4 DEF TagsTileRuns

\* Blocks are apart because tags are, and each has its room.
LEMMA SoundHeld == HeapInv => HeldMemoryDisjoint
<1> SUFFICES ASSUME HeapInv PROVE HeldMemoryDisjoint
  OBVIOUS
<1>1. /\ Shape(tags) /\ Tiles(tags, runs) /\ HeldBy(tags, held) /\ Room /\ Pending
  BY Zenon DEF HeapInv, HeapSound, HeapOK
<1>2. held \subseteq DOMAIN tags /\ \A t \in held : tags[t].index = -1
  BY <1>1, Zenon DEF HeldBy
<1>3. ASSUME NEW t \in DOMAIN tags
      PROVE  /\ t \in Nat /\ tags[t].size \in Nat /\ tags[t].real_size \in Nat
             /\ Header <= tags[t].real_size
             /\ \A u \in DOMAIN tags : t < u => t + tags[t].real_size <= u
             /\ \A u \in DOMAIN tags : u < t => u + tags[u].real_size <= t
  <2>1. t \in Nat /\ tags[t].size \in Nat /\ tags[t].real_size \in Nat
    BY <1>1, TagFields, Zenon
  <2>2. /\ tags[t].real_size >= Header
        /\ \A u \in DOMAIN tags : t < u => t + tags[t].real_size <= u
        /\ \A u \in DOMAIN tags : u < t => u + tags[u].real_size <= t
    BY <1>1, TileFacts, Zenon
  <2> QED
    BY <2>1, <2>2, ConstantFacts
<1>4. ASSUME NEW t \in held, NEW u \in DOMAIN tags
      PROVE  User(t) \cap (u .. (u + Header - 1)) = {}
  <2>1. /\ t \in Nat /\ tags[t].size \in Nat /\ tags[t].real_size \in Nat
        /\ u \in Nat /\ tags[u].real_size \in Nat
        /\ Header <= tags[u].real_size /\ Header + tags[t].size <= tags[t].real_size
        /\ t < u => t + tags[t].real_size <= u
        /\ u < t => u + tags[u].real_size <= t
    BY <1>1, <1>2, <1>3, Zenon DEF Room
  <2> QED
    BY <2>1, ConstantFacts DEF User
<1>5. ASSUME NEW t \in held, NEW u \in held, u # t
      PROVE  User(t) \cap User(u) = {}
  <2>1. /\ t \in Nat /\ tags[t].size \in Nat /\ tags[t].real_size \in Nat
        /\ u \in Nat /\ tags[u].size \in Nat /\ tags[u].real_size \in Nat
        /\ Header + tags[u].size <= tags[u].real_size
        /\ Header + tags[t].size <= tags[t].real_size
        /\ t < u => t + tags[t].real_size <= u
        /\ u < t => u + tags[u].real_size <= t
    BY <1>1, <1>2, <1>3, Zenon DEF Room
  <2> QED
    BY <1>5, <2>1, ConstantFacts DEF User
<1> QED
  BY <1>1, <1>2, <1>4, <1>5, Zenon DEF HeldMemoryDisjoint, Pending

\* The lists hold exactly the tags that nobody holds.
LEMMA SoundLists == HeapInv => ListsWellFormed
<1> SUFFICES ASSUME HeapInv PROVE ListsWellFormed
  OBVIOUS
<1>1. /\ Shape(tags) /\ Lists(tags, l_freePages) /\ HeldBy(tags, held)
  BY Zenon DEF HeapInv, HeapSound, HeapOK
<1>2. \A i \in Exponents \cup {-1} : i >= 0 <=> i # -1
  BY ExponentFacts
<1>3. ASSUME NEW t \in DOMAIN tags PROVE tags[t].index >= 0 <=> tags[t].index # -1
  BY <1>1, <1>2, TagFields, Zenon
<1>4. \A t \in DOMAIN tags : tags[t].index >= 0 <=> t \notin held
  BY <1>1, <1>3, Zenon DEF HeldBy
<1>5. ASSUME NEW e \in Exponents, l_freePages[e] # NULL
      PROVE  /\ l_freePages[e] \in DOMAIN tags
             /\ tags[l_freePages[e]].index = e /\ tags[l_freePages[e]].prev = NULL
  BY <1>1, <1>5, Zenon DEF Lists
<1>6. ASSUME NEW t \in DOMAIN tags
      PROVE  /\ {tags[t].next, tags[t].prev} \subseteq DOMAIN tags \cup {NULL}
             /\ tags[t].next # NULL => /\ tags[tags[t].next].prev = t
                                       /\ tags[tags[t].next].index = tags[t].index
             /\ tags[t].index >= 0 => IF tags[t].prev = NULL
                                      THEN l_freePages[tags[t].index] = t
                                      ELSE tags[tags[t].prev].next = t
             /\ tags[t].index = -1 => tags[t].next = NULL /\ tags[t].prev = NULL
  <2>1. Linked(tags, l_freePages, t)
    BY <1>1, Zenon DEF Lists
  <2> QED
    BY <1>3, <2>1, Zenon DEF Linked
<1> QED
  BY <1>4, <1>5, <1>6, Zenon DEF ListsWellFormed

\* Neighbours are merged and whole runs are counted.
LEMMA SoundCount == HeapInv => NoHoarding
<1> SUFFICES ASSUME HeapInv PROVE NoHoarding
  OBVIOUS
<1>1. /\ Shape(tags) /\ Tiles(tags, runs) /\ Merged(tags) /\ Counted(tags, l_completePages)
  BY Zenon DEF HeapInv, HeapSound, HeapOK
<1>2. ASSUME NEW t \in DOMAIN tags, IsFree(tags, t) PROVE ~ IsFree(tags, tags[t].right)
  <2>1. /\ IsFree(tags, t) <=> tags[t].index # -1
        /\ IsFree(tags, tags[t].right) <=>
              tags[t].right # NULL /\ tags[tags[t].right].index # -1
    BY <1>1, FreeMeansListed
  <2> QED
    BY <1>1, <1>2, <2>1, Zenon DEF Merged
<1>3. ASSUME NEW e \in Exponents
      PROVE  /\ l_completePages[e] =
                  Cardinality({t \in DOMAIN tags : tags[t].index = e /\ Whole(tags[t])})
             /\ l_completePages[e] <= MAXCOMPLETE
  BY <1>1, Zenon DEF Counted, WholeFree
<1> QED
  BY <1>2, <1>3, Zenon DEF NoHoarding

(***************************************************************************)
(* TagsTileRuns for every heap: insert_tag, split_tag, melt_left and       *)
(* absorb_right keep the boundary tags covering the page runs without gap  *)
(* or overlap, whatever malloc, free and realloc do.                       *)
(***************************************************************************)
THEOREM TagsAlwaysTile == Spec => []TagsTileRuns
BY HeapStaysSound, SoundTiles, PTL

(***************************************************************************)
(* HeldMemoryDisjoint for every heap: malloc hands out memory that no      *)
(* other caller has and no boundary tag lies in, and realloc copies within *)
(* its two blocks even when other calls come between its malloc and free.  *)
(***************************************************************************)
THEOREM HeldMemoryIsOwn == Spec => []HeldMemoryDisjoint
BY HeapStaysSound, SoundHeld, PTL

(***************************************************************************)
(* ListsWellFormed for every heap: index, next, prev and l_freePages agree *)
(* after every insert_tag and remove_tag, so that a tag is in a list       *)
(* exactly when no caller holds it.                                        *)
(***************************************************************************)
THEOREM ListsStayLinked == Spec => []ListsWellFormed
BY HeapStaysSound, SoundLists, PTL

(***************************************************************************)
(* NoHoarding for every heap: free leaves no two free neighbours, and      *)
(* l_completePages counts the wholly free runs, at most MAXCOMPLETE each.  *)
(***************************************************************************)
THEOREM HeapNeverHoards == Spec => []NoHoarding
BY HeapStaysSound, SoundCount, PTL
=============================================================================
