----------------------------- MODULE HeapLemmas -----------------------------
(***************************************************************************)
(* What the helpers of liballoc.cpp do to the boundary tags, for every     *)
(* page size, header size and number of pages: inserting, removing,        *)
(* joining and splitting tags keeps the tags tiling the page runs and the  *)
(* free lists well formed.                                                 *)
(***************************************************************************)
EXTENDS Heap, TLAPS

\* The constants and the sets built from them.
LEMMA ConstantFacts ==
    /\ PageSize \in Nat /\ PageSize > 0 /\ PageCount \in Nat /\ PageCount > 0
    /\ Header \in Nat /\ Header > 0 /\ MAXCOMPLETE \in Nat /\ MAXCOMPLETE > 0
    /\ Pages \in Nat /\ Pages > 0
    /\ MINEXP \in Nat /\ MAXEXP \in Nat /\ MINEXP < MAXEXP
    /\ Sizes \subseteq Nat
    /\ Pages * PageSize \in Nat
<1>1. PageSize \in Nat \ {0} /\ PageCount \in Nat \ {0} /\ Header \in Nat \ {0}
      /\ MAXCOMPLETE \in Nat \ {0} /\ Pages \in Nat \ {0}
  BY HeapAssumption, Zenon
<1>2. MINEXP \in Nat /\ MAXEXP \in Nat /\ MINEXP < MAXEXP /\ Sizes \subseteq Nat
  BY HeapAssumption, Zenon
<1>3. Pages * PageSize \in Nat
  BY <1>1
<1>4. \A n \in Nat \ {0} : n \in Nat /\ n > 0
  OBVIOUS
<1> QED
  BY <1>1, <1>2, <1>3, <1>4, Zenon

\* The exponents are small naturals, never the -1 of a tag in no list.
LEMMA ExponentFacts ==
    /\ \A e \in Exponents : e \in Nat /\ e # -1 /\ e >= 0
    /\ MINEXP \in Exponents /\ MAXEXP - 1 \in Exponents
BY ConstantFacts DEF Exponents

\* NULL is no address.
LEMMA AddressFacts ==
    /\ \A a \in Addresses : a \in Nat /\ a # NULL
    /\ \A a \in Nat : a < Pages * PageSize => a \in Addresses
    /\ NULL \in Int /\ NULL \notin Addresses
BY ConstantFacts DEF Addresses, NULL

-----------------------------------------------------------------------------
(***************************************************************************)
(* Page runs and the bytes they cover.                                     *)
(***************************************************************************)
Runs(rs) ==
    /\ rs \subseteq [page : Nat, count : Nat]
    /\ \A r \in rs : r.count >= PageCount /\ r.page + r.count <= Pages
    /\ \A r, s \in rs :
          r # s => r.page + r.count <= s.page \/ s.page + s.count <= r.page

\* Multiplication by the page size keeps the order.
LEMMA TimesMonotone ==
    ASSUME NEW a \in Nat, NEW b \in Nat, NEW c \in Nat, a <= b
    PROVE  a * c <= b * c
OBVIOUS

\* A run is a nonempty range of bytes inside the machine's memory.
LEMMA RunBytes ==
    ASSUME NEW rs, Runs(rs), NEW r \in rs
    PROVE  /\ r.page \in Nat /\ r.count \in Nat
           /\ FirstByte(r) \in Nat /\ EndByte(r) \in Nat
           /\ FirstByte(r) < EndByte(r) /\ EndByte(r) <= Pages * PageSize
           /\ EndByte(r) = FirstByte(r) + r.count * PageSize
<1>1. r.page \in Nat /\ r.count \in Nat /\ r.count >= PageCount /\ r.page + r.count <= Pages
  BY DEF Runs
<1>2. PICK p \in Nat : p = r.page
  BY <1>1, Zenon
<1>3. PICK c \in Nat : c = r.count
  BY <1>1, Zenon
<1>4. c > 0 /\ p + c <= Pages
  BY <1>1, <1>2, <1>3, ConstantFacts
<1>5. p * PageSize \in Nat /\ c * PageSize \in Nat /\ (p + c) * PageSize \in Nat
      /\ (p + c) * PageSize = p * PageSize + c * PageSize
  BY ConstantFacts
<1>6. c * PageSize > 0
  BY <1>4, ConstantFacts
<1>7. (p + c) * PageSize <= Pages * PageSize
  BY <1>4, TimesMonotone, ConstantFacts
<1>8. FirstByte(r) = p * PageSize /\ EndByte(r) = (p + c) * PageSize
  BY <1>2, <1>3, Zenon DEF FirstByte, EndByte
<1>9. \A a, b, d \in Nat : d = a + b /\ b > 0 => a < d
  OBVIOUS
<1> QED
  BY <1>1, <1>2, <1>3, <1>5, <1>6, <1>7, <1>8, <1>9, Zenon

\* Two runs share no byte.
LEMMA RunsApart ==
    ASSUME NEW rs, Runs(rs), NEW r \in rs, NEW s \in rs, r # s
    PROVE  EndByte(r) <= FirstByte(s) \/ EndByte(s) <= FirstByte(r)
<1>1. r.page \in Nat /\ r.count \in Nat /\ s.page \in Nat /\ s.count \in Nat
  BY RunBytes, Zenon
<1>2. r.page + r.count <= s.page \/ s.page + s.count <= r.page
  BY Zenon DEF Runs
<1>3. PICK p \in Nat, c \in Nat, q \in Nat, d \in Nat :
          p = r.page /\ c = r.count /\ q = s.page /\ d = s.count
  BY <1>1, Zenon
<1>4. p + c \in Nat /\ q + d \in Nat
  OBVIOUS
<1>5. (p + c) * PageSize <= q * PageSize \/ (q + d) * PageSize <= p * PageSize
  BY <1>2, <1>3, <1>4, TimesMonotone, ConstantFacts, Zenon
<1> QED
  BY <1>3, <1>5, Zenon DEF FirstByte, EndByte

\* A byte lies in one run only.
LEMMA OneRun ==
    ASSUME NEW rs, Runs(rs), NEW r \in rs, NEW s \in rs, NEW a \in Nat,
           FirstByte(r) <= a, a < EndByte(r), FirstByte(s) <= a, a < EndByte(s)
    PROVE  r = s
<1>1. FirstByte(r) \in Nat /\ EndByte(r) \in Nat /\ FirstByte(s) \in Nat /\ EndByte(s) \in Nat
  BY RunBytes, Zenon
<1>2. \A a1, b1, a2, b2 \in Nat :
          a1 <= a /\ a < b1 /\ a2 <= a /\ a < b2 => ~ (b1 <= a2 \/ b2 <= a1)
  OBVIOUS
<1> QED
  BY <1>1, <1>2, RunsApart, Zenon

\* Division by the page size undoes multiplication, and rounds up where asked to.
LEMMA PageDivision ==
    ASSUME NEW p \in Nat
    PROVE  /\ (p * PageSize) \div PageSize = p
           /\ (p * PageSize + PageSize - 1) \div PageSize = p
           /\ (p + PageSize - 1) \div PageSize \in Nat
           /\ p <= ((p + PageSize - 1) \div PageSize) * PageSize
<1>1. PageSize \in Nat \ {0}
  BY ConstantFacts
<1>2. (p * PageSize) \div PageSize = p
  BY <1>1
<1>3. (p * PageSize + PageSize - 1) \div PageSize = p
  BY <1>1
<1>4. (p + PageSize - 1) \div PageSize \in Nat
  BY <1>1
<1>5. p <= ((p + PageSize - 1) \div PageSize) * PageSize
  BY <1>1
<1> QED
  BY <1>2, <1>3, <1>4, <1>5, Zenon

\* malloc asks for enough pages: PagesFor, and free asks for as many back.
LEMMA PagesForFacts ==
    ASSUME NEW size \in Nat
    PROVE  /\ PagesFor(size) \in Nat /\ PagesFor(size) >= PageCount
           /\ PagesFor(size) * PageSize \in Nat
           /\ size + Header <= PagesFor(size) * PageSize
<1>1. PICK n \in Nat : n = (size + Header + PageSize - 1) \div PageSize
                       /\ size + Header <= n * PageSize
  <2>1. size + Header \in Nat
    BY ConstantFacts
  <2> QED
    BY <2>1, PageDivision, Zenon
<1>2. PagesFor(size) = IF n < PageCount THEN PageCount ELSE n
  BY <1>1, Zenon DEF PagesFor
<1>3. CASE n < PageCount
  <2>1. n * PageSize <= PageCount * PageSize
    BY <1>3, TimesMonotone, ConstantFacts
  <2>2. n * PageSize \in Nat /\ PageCount * PageSize \in Nat /\ size + Header \in Nat
    BY ConstantFacts
  <2>3. \A a, b, c \in Nat : a <= b /\ b <= c => a <= c
    OBVIOUS
  <2>4. size + Header <= PageCount * PageSize
    BY <1>1, <2>1, <2>2, <2>3, Zenon
  <2>5. PagesFor(size) = PageCount /\ PageCount >= PageCount
    BY <1>2, <1>3, ConstantFacts
  <2> QED
    BY <2>2, <2>4, <2>5, ConstantFacts, Zenon
<1>4. CASE ~ (n < PageCount)
  <2>1. PagesFor(size) = n
    BY <1>2, <1>4, Zenon
  <2>2. n >= PageCount /\ n * PageSize \in Nat
    BY <1>4, ConstantFacts
  <2> QED
    BY <1>1, <2>1, <2>2, Zenon
<1> QED
  BY <1>3, <1>4, Zenon

-----------------------------------------------------------------------------
(***************************************************************************)
(* The tags, as a function from addresses to boundary tags, and how they   *)
(* lie in the page runs.                                                   *)
(***************************************************************************)
Shape(ts) == ts \in [DOMAIN ts -> Tag] /\ DOMAIN ts \subseteq Addresses

\* Tag t lies in run r; it has no left neighbour exactly at the start of the run,
\* no right neighbour exactly at its end.
Inside(ts, t, r) ==
    /\ FirstByte(r) <= t /\ t + ts[t].real_size <= EndByte(r)
    /\ ts[t].left = NULL <=> t = FirstByte(r)
    /\ ts[t].right = NULL <=> t + ts[t].real_size = EndByte(r)

Neighbours(ts, t) ==
    /\ ts[t].left # NULL => ts[t].left \in DOMAIN ts /\ ts[ts[t].left].right = t
    /\ ts[t].right # NULL => /\ ts[t].right \in DOMAIN ts /\ ts[ts[t].right].left = t
                             /\ ts[t].right = t + ts[t].real_size

Tiles(ts, rs) ==
    /\ \A t \in DOMAIN ts : ts[t].real_size >= Header /\ \E r \in rs : Inside(ts, t, r)
    /\ \A t, u \in DOMAIN ts : t < u => t + ts[t].real_size <= u
    /\ \A t \in DOMAIN ts : Neighbours(ts, t)
    /\ \A r \in rs : FirstByte(r) \in DOMAIN ts

\* The types of a tag's fields.
LEMMA TagFields ==
    ASSUME NEW ts, Shape(ts), NEW t \in DOMAIN ts
    PROVE  /\ t \in Addresses /\ t \in Nat /\ t # NULL
           /\ ts[t] \in Tag
           /\ ts[t].size \in Nat /\ ts[t].real_size \in Nat
           /\ ts[t].index \in Exponents \cup {-1}
           /\ ts[t].left \in Addresses \cup {NULL} /\ ts[t].right \in Addresses \cup {NULL}
           /\ ts[t].next \in Addresses \cup {NULL} /\ ts[t].prev \in Addresses \cup {NULL}
<1>1. t \in Addresses /\ ts[t] \in Tag
  BY Zenon DEF Shape
<1>2. t \in Nat /\ t # NULL
  BY <1>1, AddressFacts, Zenon
<1> QED
  BY <1>1, <1>2 DEF Tag

\* Where two neighbouring tags lie.
LEMMA NeighbourFacts ==
    ASSUME NEW ts, NEW rs, Shape(ts), Tiles(ts, rs),
           NEW a \in DOMAIN ts, NEW b \in DOMAIN ts, ts[a].right = b
    PROVE  /\ ts[b].left = a /\ b = a + ts[a].real_size /\ a < b
           /\ ts[b].right # NULL =>
                 /\ ts[b].right \in DOMAIN ts /\ ts[ts[b].right].left = b
                 /\ ts[b].right = b + ts[b].real_size
                 /\ ts[b].right # a /\ ts[b].right # b
<1>1. /\ a \in Nat /\ b \in Nat /\ b # NULL
      /\ ts[a].real_size \in Nat /\ ts[b].real_size \in Nat
  BY TagFields, Zenon
<1>2. ts[a].real_size > 0 /\ ts[b].real_size > 0
  <2>1. ts[a].real_size >= Header /\ ts[b].real_size >= Header
    BY Zenon DEF Tiles
  <2>2. \A n \in Nat : n >= Header => n > 0
    BY ConstantFacts
  <2> QED
    BY <1>1, <2>1, <2>2, Zenon
<1>3. Neighbours(ts, a) /\ Neighbours(ts, b)
  BY Zenon DEF Tiles
<1>4. ts[b].left = a /\ b = a + ts[a].real_size
  BY <1>1, <1>3, Zenon DEF Neighbours
<1>5. a < b
  BY <1>1, <1>2, <1>4
<1>6. ASSUME ts[b].right # NULL
      PROVE  /\ ts[b].right \in DOMAIN ts /\ ts[ts[b].right].left = b
             /\ ts[b].right = b + ts[b].real_size
  BY <1>3, <1>6, Zenon DEF Neighbours
<1>7. ASSUME ts[b].right # NULL PROVE ts[b].right # a /\ ts[b].right # b
  <2>1. \A x, y, n \in Nat : x < y /\ n > 0 => y + n # x /\ y + n # y
    OBVIOUS
  <2> QED
    BY <1>1, <1>2, <1>5, <1>6, <1>7, <2>1, ZenonT(30)
<1> QED
  BY <1>4, <1>5, <1>6, <1>7, Zenon

\* What join does to the tags.
Joined(ts, new, a, b) ==
    /\ DOMAIN new = DOMAIN ts \ {b} /\ Shape(new) /\ a \in DOMAIN new
    /\ new[a].real_size = ts[a].real_size + ts[b].real_size
    /\ new[a].right = ts[b].right /\ new[a].left = ts[a].left
    /\ \A u \in DOMAIN new :
         /\ new[u].size = ts[u].size /\ new[u].index = ts[u].index
         /\ new[u].next = ts[u].next /\ new[u].prev = ts[u].prev
         /\ u # a => new[u].real_size = ts[u].real_size /\ new[u].right = ts[u].right
         /\ new[u].left = IF u = ts[b].right THEN a ELSE ts[u].left

\* join computes what Joined says.
LEMMA JoinFacts ==
    ASSUME NEW ts, NEW rs, Shape(ts), Tiles(ts, rs),
           NEW a \in DOMAIN ts, NEW b \in DOMAIN ts, ts[a].right = b
    PROVE  Joined(ts, join(ts, a, b), a, b)
<1>1. PICK c : c = ts[b].right
  BY Zenon
<1>2. PICK n : n = ts[a].real_size + ts[b].real_size
  BY Zenon
<1>3. /\ n \in Nat /\ c \in Addresses \cup {NULL} /\ a \in Addresses /\ a # NULL
      /\ ts[a].real_size \in Nat /\ ts[b].real_size \in Nat
  <2>1. ts[a].real_size \in Nat /\ ts[b].real_size \in Nat
    BY TagFields, Zenon
  <2> QED
    BY <1>1, <1>2, <2>1, TagFields
<1>4. a # b /\ (c # NULL => c \in DOMAIN ts /\ c # a /\ c # b)
  <2>1. a < b /\ a \in Nat /\ b \in Nat
    BY NeighbourFacts, TagFields
  <2>2. c # NULL => c \in DOMAIN ts /\ c # a /\ c # b
    BY ONLY <1>1, Shape(ts), Tiles(ts, rs), a \in DOMAIN ts, b \in DOMAIN ts,
            ts[a].right = b, NeighbourFacts
  <2> QED
    BY <2>1, <2>2
<1>5. PICK D : D = DOMAIN ts
  BY Zenon
<1>6. ts \in [D -> Tag] /\ D \subseteq Addresses /\ a \in D /\ b \in D
  BY <1>5, Zenon DEF Shape
<1>7. PICK g : g = [ts EXCEPT ![a].real_size = @ + ts[b].real_size, ![a].right = ts[b].right]
  BY Zenon
<1>8. /\ g \in [D -> Tag]
      /\ g[a].real_size = n /\ g[a].right = c /\ g[a].left = ts[a].left
      /\ g[a].size = ts[a].size /\ g[a].index = ts[a].index
      /\ g[a].next = ts[a].next /\ g[a].prev = ts[a].prev
      /\ \A u \in D : u # a => g[u] = ts[u]
  <2>1. PICK v : v = [ts[a] EXCEPT !.real_size = n, !.right = c]
    BY Zenon
  <2>2. ts[a] \in Tag
    BY <1>6, Zenon
  <2>3. /\ v \in Tag
        /\ v.real_size = n /\ v.right = c /\ v.left = ts[a].left
        /\ v.size = ts[a].size /\ v.index = ts[a].index
        /\ v.next = ts[a].next /\ v.prev = ts[a].prev
    BY <1>3, <2>1, <2>2, Zenon DEF Tag
  <2>4. g = [ts EXCEPT ![a] = v]
    BY <1>1, <1>2, <1>6, <1>7, <2>1, <2>2, Zenon DEF Tag
  <2>5. g \in [D -> Tag] /\ g[a] = v /\ \A u \in D : u # a => g[u] = ts[u]
    BY <1>6, <2>3, <2>4, Zenon
  <2> QED
    BY <2>3, <2>5, Zenon
<1>9. PICK w : w = Set(g, c, "left", a)
  BY Zenon
<1>10. /\ w \in [D -> Tag]
       /\ \A u \in D :
            /\ w[u].size = g[u].size /\ w[u].index = g[u].index
            /\ w[u].next = g[u].next /\ w[u].prev = g[u].prev
            /\ w[u].real_size = g[u].real_size /\ w[u].right = g[u].right
            /\ w[u].left = IF u = c THEN a ELSE g[u].left
  <2>1. CASE c = NULL
    <3>1. w = g
      BY <1>9, <2>1, Zenon DEF Set
    <3>2. \A u \in D : u # c
      BY <1>6, <2>1, AddressFacts, Zenon
    <3> QED
      BY <1>8, <3>1, <3>2, Zenon
  <2>2. CASE c # NULL
    <3>1. w = [g EXCEPT ![c]["left"] = a]
      BY <1>9, <2>2, Zenon DEF Set
    <3>2. c \in D
      BY <1>4, <1>5, <2>2, Zenon
    <3>3. w \in [D -> Tag]
      BY <1>3, <1>8, <3>1, <3>2 DEF Tag
    <3>4. \A u \in D : u # c => w[u] = g[u]
      BY <1>8, <3>1, <3>2
    <3>5. /\ w[c].size = g[c].size /\ w[c].index = g[c].index
          /\ w[c].next = g[c].next /\ w[c].prev = g[c].prev
          /\ w[c].real_size = g[c].real_size /\ w[c].right = g[c].right
          /\ w[c].left = a
      BY <1>8, <3>1, <3>2 DEF Tag
    <3> QED
      BY <3>3, <3>4, <3>5, Zenon
  <2> QED
    BY <2>1, <2>2, Zenon
<1>11. PICK new : new = join(ts, a, b)
  BY Zenon
<1>12. new = [u \in D \ {b} |-> w[u]]
  <2>1. DOMAIN w = D
    BY <1>10, Zenon
  <2> QED
    BY <1>1, <1>7, <1>9, <1>11, <2>1, Zenon DEF join, Drop
<1>13. DOMAIN new = D \ {b} /\ \A u \in D \ {b} : new[u] = w[u]
  BY <1>12, Zenon
<1>14. Shape(new)
  <2>1. DOMAIN new \subseteq Addresses
    BY <1>6, <1>13, Zenon
  <2>2. \A u \in DOMAIN new : new[u] \in Tag
    BY <1>10, <1>13, Zenon
  <2>3. new = [u \in DOMAIN new |-> new[u]]
    BY <1>12, <1>13, Zenon
  <2> QED
    BY <2>1, <2>2, <2>3, Zenon DEF Shape
<1>15. a \in D \ {b} /\ a # c
  BY <1>3, <1>4, <1>6, Zenon
<1>16. /\ new[a].real_size = n /\ new[a].right = c /\ new[a].left = ts[a].left
       /\ new[a].size = ts[a].size /\ new[a].index = ts[a].index
       /\ new[a].next = ts[a].next /\ new[a].prev = ts[a].prev
  <2>1. new[a] = w[a] /\ a \in D
    BY <1>13, <1>15, Zenon
  <2> QED
    BY <1>8, <1>10, <1>15, <2>1
<1>17. ASSUME NEW u \in D \ {b}, u # a
       PROVE  /\ new[u].size = ts[u].size /\ new[u].index = ts[u].index
              /\ new[u].next = ts[u].next /\ new[u].prev = ts[u].prev
              /\ new[u].real_size = ts[u].real_size /\ new[u].right = ts[u].right
              /\ new[u].left = IF u = c THEN a ELSE ts[u].left
  <2>1. new[u] = w[u] /\ u \in D /\ g[u] = ts[u]
    BY <1>8, <1>13, <1>17, Zenon
  <2> QED
    BY <1>10, <2>1
<1>18. /\ DOMAIN new = DOMAIN ts \ {b} /\ Shape(new) /\ a \in DOMAIN new
       /\ new[a].real_size = ts[a].real_size + ts[b].real_size
       /\ new[a].right = ts[b].right /\ new[a].left = ts[a].left
  BY <1>1, <1>2, <1>5, <1>13, <1>14, <1>15, <1>16, Zenon
<1>19. ASSUME NEW u \in DOMAIN new
       PROVE  /\ new[u].size = ts[u].size /\ new[u].index = ts[u].index
              /\ new[u].next = ts[u].next /\ new[u].prev = ts[u].prev
              /\ u # a => new[u].real_size = ts[u].real_size /\ new[u].right = ts[u].right
              /\ new[u].left = IF u = c THEN a ELSE ts[u].left
  BY <1>13, <1>15, <1>16, <1>17, Zenon
<1> QED
  BY <1>1, <1>11, <1>18, <1>19, ZenonT(30) DEF Joined

-----------------------------------------------------------------------------
(***************************************************************************)
(* The operations of the heap keep the tiling.                             *)
(***************************************************************************)
\* Two tags lie beside each other, and a tag is not empty.
LEMMA TileFacts ==
    ASSUME NEW ts, NEW rs, Shape(ts), Tiles(ts, rs), NEW t \in DOMAIN ts
    PROVE  /\ ts[t].real_size >= Header /\ ts[t].real_size > 0
           /\ Neighbours(ts, t)
           /\ \E r \in rs : Inside(ts, t, r)
           /\ \A u \in DOMAIN ts : t < u => t + ts[t].real_size <= u
           /\ \A u \in DOMAIN ts : u < t => u + ts[u].real_size <= t
<1>1. ts[t].real_size \in Nat
  BY TagFields, Zenon
<1>2. ts[t].real_size >= Header
  BY Zenon DEF Tiles
<1>3. ts[t].real_size > 0
  BY <1>1, <1>2, ConstantFacts
<1> QED
  BY <1>2, <1>3, Zenon DEF Tiles

\* The tiling depends on no other field.
LEMMA TilesKept ==
    ASSUME NEW ts, NEW rs, Tiles(ts, rs), NEW new, DOMAIN new = DOMAIN ts,
           \A u \in DOMAIN ts : /\ new[u].real_size = ts[u].real_size
                                /\ new[u].left = ts[u].left /\ new[u].right = ts[u].right
    PROVE  Tiles(new, rs)
<1>1. ASSUME NEW t \in DOMAIN ts
      PROVE  new[t].real_size >= Header /\ \E r \in rs : Inside(new, t, r)
  <2>1. ts[t].real_size >= Header
    BY Zenon DEF Tiles
  <2>2. PICK r \in rs : Inside(ts, t, r)
    BY Zenon DEF Tiles
  <2>3. Inside(new, t, r)
    BY <2>2 DEF Inside
  <2> QED
    BY <2>1, <2>3
<1>2. ASSUME NEW t \in DOMAIN ts, NEW u \in DOMAIN ts, t < u
      PROVE  t + new[t].real_size <= u
  <2>1. t + ts[t].real_size <= u
    BY <1>2, Zenon DEF Tiles
  <2> QED
    BY <2>1
<1>3. ASSUME NEW t \in DOMAIN ts PROVE Neighbours(new, t)
  <2>1. Neighbours(ts, t)
    BY Zenon DEF Tiles
  <2> QED
    BY <2>1 DEF Neighbours
<1>4. \A r \in rs : FirstByte(r) \in DOMAIN new
  BY Zenon DEF Tiles
<1> QED
  BY <1>1, <1>2, <1>3, <1>4, Zenon DEF Tiles

\* melt_left and absorb_right: two neighbours become one.
LEMMA TilesJoin ==
    ASSUME NEW ts, NEW rs, Shape(ts), Runs(rs), Tiles(ts, rs),
           NEW a \in DOMAIN ts, NEW b \in DOMAIN ts, ts[a].right = b
    PROVE  Tiles(join(ts, a, b), rs)
<1>1. PICK new : new = join(ts, a, b) /\ Joined(ts, new, a, b)
  BY JoinFacts, Zenon
<1>2. /\ DOMAIN new = DOMAIN ts \ {b} /\ a \in DOMAIN new
      /\ new[a].real_size = ts[a].real_size + ts[b].real_size
      /\ new[a].right = ts[b].right /\ new[a].left = ts[a].left
  BY <1>1, Zenon DEF Joined
<1>3. ASSUME NEW u \in DOMAIN new
      PROVE  /\ u # a => new[u].real_size = ts[u].real_size /\ new[u].right = ts[u].right
             /\ new[u].left = IF u = ts[b].right THEN a ELSE ts[u].left
  BY <1>1, Zenon DEF Joined
<1>4. /\ a \in Nat /\ b \in Nat /\ ts[a].real_size \in Nat /\ ts[b].real_size \in Nat
      /\ a # NULL /\ b # NULL
  BY TagFields, Zenon
<1>5. /\ ts[b].left = a /\ b = a + ts[a].real_size /\ a < b
      /\ ts[a].real_size > 0 /\ ts[b].real_size > 0
      /\ ts[a].real_size >= Header
  BY NeighbourFacts, TileFacts
<1>6. /\ \A u \in DOMAIN ts : b < u => b + ts[b].real_size <= u
      /\ \A u \in DOMAIN ts : u < a => u + ts[u].real_size <= a
      /\ \A u \in DOMAIN ts : a < u => b <= u
  BY <1>5, TileFacts, Zenon
<1>7. PICK r \in rs : Inside(ts, a, r)
  BY TileFacts, Zenon
<1>8. FirstByte(r) \in Nat /\ EndByte(r) \in Nat
  BY RunBytes, Zenon
<1>9. Inside(ts, b, r)
  <2>1. PICK s \in rs : Inside(ts, b, s)
    BY TileFacts, Zenon
  <2>2. FirstByte(s) \in Nat /\ EndByte(s) \in Nat
    BY RunBytes, Zenon
  <2>3. /\ FirstByte(r) <= a /\ a + ts[a].real_size <= EndByte(r)
        /\ a + ts[a].real_size # EndByte(r)
    BY <1>4, <1>7, Zenon DEF Inside
  <2>4. FirstByte(s) <= b /\ b + ts[b].real_size <= EndByte(s)
    BY <2>1, Zenon DEF Inside
  <2>5. FirstByte(r) <= b /\ b < EndByte(r) /\ b < EndByte(s)
    BY <1>4, <1>5, <1>8, <2>2, <2>3, <2>4
  <2>6. r = s
    BY <1>4, <2>4, <2>5, OneRun, Zenon
  <2> QED
    BY <2>1, <2>6, Zenon
<1>10. ASSUME NEW u \in DOMAIN new
       PROVE  new[u].real_size >= Header /\ \E s \in rs : Inside(new, u, s)
  <2>1. CASE u = a
    <3>1. new[a].real_size >= Header
      BY <1>2, <1>4, <1>5, ConstantFacts
    <3>2. a + new[a].real_size = b + ts[b].real_size
      BY <1>2, <1>4, <1>5
    <3>3. FirstByte(r) <= a /\ (new[a].left = NULL <=> a = FirstByte(r))
      BY <1>2, <1>7, Zenon DEF Inside
    <3>4. /\ b + ts[b].real_size <= EndByte(r)
          /\ ts[b].right = NULL <=> b + ts[b].real_size = EndByte(r)
      BY <1>9, Zenon DEF Inside
    <3>5. Inside(new, a, r)
      BY <1>2, <3>2, <3>3, <3>4, Zenon DEF Inside
    <3> QED
      BY <2>1, <3>1, <3>5, Zenon
  <2>2. CASE u # a
    <3>1. u \in DOMAIN ts /\ new[u].real_size = ts[u].real_size
          /\ new[u].right = ts[u].right
      BY <1>2, <1>3, <2>2, Zenon
    <3>2. ts[u].real_size >= Header
      BY <3>1, TileFacts, Zenon
    <3>3. PICK s \in rs : Inside(ts, u, s)
      BY <3>1, TileFacts, Zenon
    <3>4. new[u].left = NULL <=> ts[u].left = NULL
      <4>1. CASE u = ts[b].right
        <5>1. ts[u].left = b
          BY <1>4, <3>1, <4>1, NeighbourFacts, TagFields
        <5> QED
          BY <1>3, <1>4, <4>1, <5>1, Zenon
      <4>2. CASE u # ts[b].right
        BY <1>3, <4>2, Zenon
      <4> QED
        BY <4>1, <4>2, Zenon
    <3>5. Inside(new, u, s)
      BY <3>1, <3>3, <3>4 DEF Inside
    <3> QED
      BY <3>1, <3>2, <3>5
  <2> QED
    BY <2>1, <2>2, Zenon
<1>11. ASSUME NEW t \in DOMAIN new, NEW u \in DOMAIN new, t < u
       PROVE  t + new[t].real_size <= u
  <2>1. t \in DOMAIN ts /\ u \in DOMAIN ts /\ t \in Nat /\ u \in Nat /\ u # b
    BY <1>2, TagFields, Zenon
  <2>2. CASE t = a
    <3>1. b < u
      BY <1>4, <1>6, <1>11, <2>1, <2>2
    <3>2. b + ts[b].real_size <= u
      BY <1>6, <2>1, <3>1, Zenon
    <3>3. a + new[a].real_size = b + ts[b].real_size
      BY <1>2, <1>4, <1>5
    <3> QED
      BY <2>2, <3>2, <3>3, Zenon
  <2>3. CASE t # a
    BY <1>3, <1>11, <2>1, <2>3, TileFacts
  <2> QED
    BY <2>2, <2>3, Zenon
<1>12. ASSUME NEW u \in DOMAIN new PROVE Neighbours(new, u)
  <2>1. u \in DOMAIN ts /\ u # b /\ Neighbours(ts, u)
    BY <1>2, TileFacts, Zenon
  <2>2. ASSUME new[u].left # NULL
        PROVE  new[u].left \in DOMAIN new /\ new[new[u].left].right = u
    <3>1. CASE u = ts[b].right
      BY <1>2, <1>3, <3>1, Zenon
    <3>2. CASE u # ts[b].right
      <4>1. new[u].left = ts[u].left
        BY <1>3, <3>2, Zenon
      <4>2. PICK v : v = ts[u].left
        BY Zenon
      <4>3. v \in DOMAIN ts /\ ts[v].right = u
        BY <2>1, <2>2, <4>1, <4>2, Zenon DEF Neighbours
      <4>4. v # b /\ v # a
        BY <2>1, <3>2, <4>3, Zenon
      <4>5. v \in DOMAIN new /\ new[v].right = u
        BY <1>2, <1>3, <4>3, <4>4, Zenon
      <4> QED
        BY <4>1, <4>2, <4>5, Zenon
    <3> QED
      BY <3>1, <3>2, Zenon
  <2>3. ASSUME new[u].right # NULL
        PROVE  /\ new[u].right \in DOMAIN new /\ new[new[u].right].left = u
               /\ new[u].right = u + new[u].real_size
    <3>1. CASE u = a
      <4>1. PICK c : c = ts[b].right
        BY Zenon
      <4>2. /\ c \in DOMAIN ts /\ c # a /\ c # b /\ c = b + ts[b].real_size
        BY <1>2, <2>3, <3>1, <4>1, NeighbourFacts
      <4>3. c \in DOMAIN new /\ new[c].left = a
        BY <1>2, <1>3, <4>1, <4>2, Zenon
      <4>4. a + new[a].real_size = b + ts[b].real_size
        BY <1>2, <1>4, <1>5
      <4> QED
        BY <1>2, <3>1, <4>1, <4>2, <4>3, <4>4
    <3>2. CASE u # a
      <4>1. PICK v : v = ts[u].right
        BY Zenon
      <4>2. v = new[u].right /\ new[u].real_size = ts[u].real_size
        BY <1>3, <3>2, <4>1, Zenon
      <4>3. v \in DOMAIN ts /\ ts[v].left = u /\ v = u + ts[u].real_size
        BY <2>1, <2>3, <4>1, <4>2, Zenon DEF Neighbours
      <4>4. v # b
        BY <1>5, <3>2, <4>3, Zenon
      <4>5. v # ts[b].right
        <5>1. SUFFICES ASSUME v = ts[b].right PROVE FALSE
          BY Zenon
        <5>2. v # NULL
          BY <4>3, TagFields, Zenon
        <5>3. ts[v].left = b
          BY <5>1, <5>2, NeighbourFacts
        <5> QED
          BY <2>1, <4>3, <5>3, Zenon
      <4>6. v \in DOMAIN new /\ new[v].left = u
        BY <1>2, <1>3, <4>3, <4>4, <4>5
      <4> QED
        BY <4>2, <4>3, <4>6, Zenon
    <3> QED
      BY <3>1, <3>2, Zenon
  <2> QED
    BY <2>2, <2>3, Zenon DEF Neighbours
<1>13. ASSUME NEW s \in rs PROVE FirstByte(s) \in DOMAIN new
  <2>1. FirstByte(s) \in DOMAIN ts
    BY Zenon DEF Tiles
  <2>2. FirstByte(s) # b
    <3>1. SUFFICES ASSUME FirstByte(s) = b PROVE FALSE
      BY Zenon
    <3>2. FirstByte(s) \in Nat /\ EndByte(s) \in Nat /\ FirstByte(s) < EndByte(s)
      BY RunBytes, Zenon
    <3>3. FirstByte(r) <= b /\ b < EndByte(r)
      <4>1. FirstByte(r) <= b /\ b + ts[b].real_size <= EndByte(r)
        BY <1>9, Zenon DEF Inside
      <4> QED
        BY <1>4, <1>5, <1>8, <4>1
    <3>4. FirstByte(s) <= b /\ b < EndByte(s)
      BY <3>1, <3>2
    <3>5. r = s
      BY <1>4, <3>3, <3>4, OneRun, Zenon
    <3>6. ts[b].left = NULL
      BY <1>9, <3>1, <3>5, Zenon DEF Inside
    <3> QED
      BY <1>4, <1>5, <3>6, Zenon
  <2> QED
    BY <1>2, <2>1, <2>2, Zenon
<1>14. Tiles(new, rs)
  BY <1>10, <1>11, <1>12, <1>13, ZenonT(30) DEF Tiles
<1> QED
  BY <1>1, <1>14, Zenon

\* What split_tag does to the tags before it inserts the new one.
Parted(ts, new, t, n) ==
    /\ DOMAIN new = DOMAIN ts \cup {n} /\ Shape(new) /\ n \notin DOMAIN ts /\ n # NULL
    /\ n = t + Header + ts[t].size
    /\ new[n] = [size |-> 0, real_size |-> ts[t].real_size - Header - ts[t].size,
                 index |-> -1, left |-> t, right |-> ts[t].right,
                 next |-> NULL, prev |-> NULL]
    /\ new[t].right = n /\ new[t].real_size = Header + ts[t].size
    /\ \A u \in DOMAIN ts :
         /\ new[u].size = ts[u].size /\ new[u].index = ts[u].index
         /\ new[u].next = ts[u].next /\ new[u].prev = ts[u].prev
         /\ u # t => new[u].real_size = ts[u].real_size /\ new[u].right = ts[u].right
         /\ new[u].left = IF u = ts[t].right THEN n ELSE ts[u].left

SplitInto(ts, ff, t, new, n) ==
    split_tag([tags |-> ts, first |-> ff], t) =
        insert_tag([tags |-> new, first |-> ff], n, Bucket(new[n].real_size - Header))

\* The steps of split_tag: the new tag v at n is added, the tag behind it linked
\* to it, then the tag t.
SplitSteps(h, ts, t, tag, n, v, added, w, new) ==
    /\ h.tags = ts /\ tag = ts[t] /\ n = t + Header + tag.size
    /\ v = [size |-> 0, real_size |-> tag.real_size - Header - tag.size, index |-> -1,
            left |-> t, right |-> tag.right, next |-> NULL, prev |-> NULL]
    /\ added = [a \in DOMAIN ts \cup {n} |-> IF a = n THEN v ELSE ts[a]]
    /\ w = Set(added, tag.right, "left", n)
    /\ new = [w EXCEPT ![t].right = n, ![t].real_size = @ - v.real_size]

\* split_tag takes these steps and inserts the new tag.
LEMMA SplitValue ==
    ASSUME NEW h, NEW ts, NEW t, NEW tag, NEW n, NEW v, NEW added, NEW w, NEW new,
           SplitSteps(h, ts, t, tag, n, v, added, w, new)
    PROVE  split_tag(h, t) = insert_tag([h EXCEPT !.tags = new], n, Bucket(v.real_size - Header))
BY DEF split_tag, SplitSteps

\* split_tag parts a tag and inserts what it parted off.
LEMMA SplitFacts ==
    ASSUME NEW ts, NEW ff, NEW rs, Shape(ts), Runs(rs), Tiles(ts, rs), NEW t \in DOMAIN ts,
           ts[t].real_size - ts[t].size - 2 * Header > 0
    PROVE  \E new, n : Parted(ts, new, t, n) /\ SplitInto(ts, ff, t, new, n)
<1>1. PICK tag : tag = ts[t]
  BY Zenon
<1>2. PICK n : n = t + Header + tag.size
  BY Zenon
<1>3. PICK R : R = tag.real_size - Header - tag.size
  BY Zenon
<1>4. PICK c : c = tag.right
  BY Zenon
<1>5. /\ t \in Nat /\ t # NULL /\ t \in Addresses /\ tag \in Tag
      /\ tag.size \in Nat /\ tag.real_size \in Nat
      /\ c \in Addresses \cup {NULL}
  BY <1>1, <1>4, TagFields, Zenon
<1>6. n \in Nat /\ R \in Nat /\ t < n /\ n < t + tag.real_size
  BY <1>1, <1>2, <1>3, <1>5, ConstantFacts
<1>7. n \notin DOMAIN ts /\ n \in Addresses /\ n # NULL /\ n # t
  <2>1. PICK r \in rs : Inside(ts, t, r)
    BY TileFacts, Zenon
  <2>2. t + tag.real_size <= EndByte(r)
    BY <1>1, <2>1, Zenon DEF Inside
  <2>3. EndByte(r) \in Nat /\ EndByte(r) <= Pages * PageSize
    BY RunBytes, Zenon
  <2>4. n < Pages * PageSize
    BY <1>5, <1>6, <2>2, <2>3, ConstantFacts
  <2>5. n \in Addresses /\ n # NULL
    BY <1>6, <2>4, AddressFacts, Zenon
  <2>6. n \notin DOMAIN ts
    <3>1. SUFFICES ASSUME n \in DOMAIN ts PROVE FALSE
      BY Zenon
    <3>2. t + tag.real_size <= n
      BY <1>1, <1>6, <3>1, TileFacts, Zenon
    <3> QED
      BY <1>5, <1>6, <3>2
  <2> QED
    BY <2>5, <2>6, Zenon
<1>8. PICK v : v = [size |-> 0, real_size |-> R, index |-> -1, left |-> t, right |-> c,
                    next |-> NULL, prev |-> NULL]
  BY Zenon
<1>9. /\ v \in Tag /\ v.size = 0 /\ v.real_size = R /\ v.index = -1 /\ v.left = t
      /\ v.right = c /\ v.next = NULL /\ v.prev = NULL
  BY <1>5, <1>6, <1>8 DEF Tag
<1>10. PICK D : D = DOMAIN ts \cup {n}
  BY Zenon
<1>11. PICK added : added = [a \in D |-> IF a = n THEN v ELSE ts[a]]
  BY Zenon
<1>12. /\ added \in [D -> Tag] /\ added[n] = v
       /\ \A u \in DOMAIN ts : added[u] = ts[u] /\ u \in D /\ u # n
  <2>1. \A u \in DOMAIN ts : ts[u] \in Tag
    BY TagFields, Zenon
  <2> QED
    BY <1>7, <1>9, <1>10, <1>11, <2>1, Zenon
<1>13. c # NULL => c \in DOMAIN ts /\ c # t
  <2>1. Neighbours(ts, t) /\ ts[t].real_size > 0
    BY TileFacts, Zenon
  <2>2. ASSUME c # NULL PROVE c \in DOMAIN ts /\ c = t + tag.real_size
    BY <1>1, <1>4, <2>1, <2>2, Zenon DEF Neighbours
  <2>3. t + tag.real_size # t
    BY <1>1, <1>5, <2>1
  <2> QED
    BY <2>2, <2>3, Zenon
<1>14. PICK w : w = Set(added, c, "left", n)
  BY Zenon
<1>15. /\ w \in [D -> Tag] /\ w[n] = v /\ w[t] = tag
       /\ \A u \in DOMAIN ts :
            /\ w[u].size = ts[u].size /\ w[u].index = ts[u].index
            /\ w[u].next = ts[u].next /\ w[u].prev = ts[u].prev
            /\ w[u].real_size = ts[u].real_size /\ w[u].right = ts[u].right
            /\ w[u].left = IF u = c THEN n ELSE ts[u].left
  <2>1. CASE c = NULL
    <3>1. w = added
      BY <1>14, <2>1, Zenon DEF Set
    <3>2. \A u \in DOMAIN ts : u # c
      BY <2>1, TagFields, Zenon
    <3> QED
      BY <1>1, <1>12, <3>1, <3>2
  <2>2. CASE c # NULL
    <3>1. w = [added EXCEPT ![c]["left"] = n]
      BY <1>14, <2>2, Zenon DEF Set
    <3>2. c \in D /\ c # n /\ c \in DOMAIN ts /\ added[c] = ts[c]
      BY <1>12, <1>13, <2>2, Zenon
    <3>3. w \in [D -> Tag]
      BY <1>7, <1>12, <3>1, <3>2 DEF Tag
    <3>4. \A u \in D : u # c => w[u] = added[u]
      BY <1>12, <3>1, <3>2
    <3>5. ts[c] \in Tag
      BY <3>2, TagFields, Zenon
    <3>6. /\ w[c].size = ts[c].size /\ w[c].index = ts[c].index
          /\ w[c].next = ts[c].next /\ w[c].prev = ts[c].prev
          /\ w[c].real_size = ts[c].real_size /\ w[c].right = ts[c].right
          /\ w[c].left = n
      BY <1>12, <3>1, <3>2, <3>5 DEF Tag
    <3>7. w[n] = v
      BY <1>10, <1>12, <3>2, <3>4, Zenon
    <3>8. w[t] = tag
      BY <1>1, <1>12, <1>13, <2>2, <3>4, Zenon
    <3>9. ASSUME NEW u \in DOMAIN ts, u # c PROVE w[u] = ts[u]
      BY <1>12, <3>4, <3>9, Zenon
    <3> QED
      BY <3>3, <3>6, <3>7, <3>8, <3>9
  <2> QED
    BY <2>1, <2>2, Zenon
<1>16. PICK new : new = [w EXCEPT ![t].right = n, ![t].real_size = @ - v.real_size]
  BY Zenon
<1>17. PICK x : x = [tag EXCEPT !.right = n, !.real_size = Header + tag.size]
  BY Zenon
<1>18. /\ x \in Tag /\ x.right = n /\ x.real_size = Header + tag.size
       /\ x.size = tag.size /\ x.index = tag.index /\ x.left = tag.left
       /\ x.next = tag.next /\ x.prev = tag.prev
  <2>1. Header + tag.size \in Nat
    BY <1>5, ConstantFacts
  <2> QED
    BY <1>5, <1>7, <1>17, <2>1, Zenon DEF Tag
<1>19. new = [w EXCEPT ![t] = x]
  <2>1. tag.real_size - v.real_size = Header + tag.size
    BY <1>3, <1>5, <1>9, ConstantFacts
  <2>2. t \in D
    BY <1>10, Zenon
  <2> QED
    BY <1>5, <1>15, <1>16, <1>17, <2>1, <2>2, Zenon DEF Tag
<1>20. /\ new \in [D -> Tag] /\ new[t] = x /\ new[n] = v
       /\ \A u \in DOMAIN ts : u # t => new[u] = w[u]
  <2>1. t \in D /\ n \in D /\ DOMAIN ts \subseteq D
    BY <1>10, Zenon
  <2> QED
    BY <1>7, <1>15, <1>18, <1>19, <2>1, Zenon
<1>21. DOMAIN new = DOMAIN ts \cup {n} /\ Shape(new)
  <2>1. DOMAIN new = D
    BY <1>20, Zenon
  <2>2. D \subseteq Addresses
    BY <1>7, <1>10, Zenon DEF Shape
  <2> QED
    BY <1>10, <1>20, <2>1, <2>2, Zenon DEF Shape
<1>22. ASSUME NEW u \in DOMAIN ts
       PROVE  /\ new[u].size = ts[u].size /\ new[u].index = ts[u].index
              /\ new[u].next = ts[u].next /\ new[u].prev = ts[u].prev
              /\ u # t => new[u].real_size = ts[u].real_size /\ new[u].right = ts[u].right
              /\ new[u].left = IF u = c THEN n ELSE ts[u].left
  <2>1. CASE u = t
    <3>1. t # c
      BY <1>5, <1>13, Zenon
    <3> QED
      BY <1>1, <1>18, <1>20, <2>1, <3>1
  <2>2. CASE u # t
    BY <1>15, <1>20, <2>2
  <2> QED
    BY <2>1, <2>2, Zenon
<1>23. Parted(ts, new, t, n)
  BY <1>1, <1>2, <1>3, <1>4, <1>7, <1>8, <1>18, <1>20, <1>21, <1>22, Zenon DEF Parted
<1>24. split_tag([tags |-> ts, first |-> ff], t) =
           insert_tag([tags |-> new, first |-> ff], n, Bucket(new[n].real_size - Header))
  <2>1. PICK h : h = [tags |-> ts, first |-> ff]
    BY Zenon
  <2>2. h.tags = ts /\ [h EXCEPT !.tags = new] = [tags |-> new, first |-> ff]
    BY <2>1
  <2>3. split_tag(h, t) = insert_tag([h EXCEPT !.tags = new], n, Bucket(v.real_size - Header))
    <3>1. v = [size |-> 0, real_size |-> tag.real_size - Header - tag.size,
               index |-> -1, left |-> t, right |-> tag.right, next |-> NULL, prev |-> NULL]
      BY <1>3, <1>4, <1>8, Zenon
    <3>2. added = [a \in DOMAIN ts \cup {n} |-> IF a = n THEN v ELSE ts[a]]
      BY <1>10, <1>11, Zenon
    <3>3. w = Set(added, tag.right, "left", n)
      BY <1>4, <1>14, Zenon
    <3>4. SplitSteps(h, ts, t, tag, n, v, added, w, new)
      BY <1>1, <1>2, <1>16, <2>2, <3>1, <3>2, <3>3, Zenon DEF SplitSteps
    <3> QED
      BY <3>4, SplitValue
  <2> QED
    BY <1>20, <2>1, <2>2, <2>3, Zenon
<1> QED
  BY <1>23, <1>24, Zenon DEF SplitInto

\* split_tag: one tag becomes two neighbours.
LEMMA TilesSplit ==
    ASSUME NEW ts, NEW rs, Shape(ts), Runs(rs), Tiles(ts, rs), NEW t \in DOMAIN ts,
           ts[t].real_size - ts[t].size - 2 * Header > 0,
           NEW new, NEW n, Parted(ts, new, t, n)
    PROVE  Tiles(new, rs)
<1>1. PICK c : c = ts[t].right
  BY Zenon
<1>2. /\ DOMAIN new = DOMAIN ts \cup {n} /\ n \notin DOMAIN ts
      /\ n # NULL /\ n = t + Header + ts[t].size
      /\ new[t].right = n /\ new[t].real_size = Header + ts[t].size
  BY Zenon DEF Parted
<1>3. /\ new[n].real_size = ts[t].real_size - Header - ts[t].size
      /\ new[n].left = t /\ new[n].right = c
  BY <1>1 DEF Parted
<1>4. ASSUME NEW u \in DOMAIN ts
      PROVE  /\ u # t => new[u].real_size = ts[u].real_size /\ new[u].right = ts[u].right
             /\ new[u].left = IF u = c THEN n ELSE ts[u].left
  BY <1>1, Zenon DEF Parted
<1>5. t \in Nat /\ t # NULL /\ ts[t].size \in Nat /\ ts[t].real_size \in Nat
  BY TagFields, Zenon
<1>6. /\ n \in Nat /\ t < n /\ n + new[n].real_size = t + ts[t].real_size
      /\ t + new[t].real_size = n /\ new[n].real_size >= Header
      /\ new[t].real_size >= Header /\ n < t + ts[t].real_size
      /\ new[n].real_size \in Nat
  BY <1>2, <1>3, <1>5, ConstantFacts
<1>7. /\ Neighbours(ts, t)
      /\ \A u \in DOMAIN ts : t < u => t + ts[t].real_size <= u
      /\ \A u \in DOMAIN ts : u < t => u + ts[u].real_size <= t
  BY TileFacts, Zenon
<1>8. c # NULL => c \in DOMAIN ts /\ ts[c].left = t /\ c = t + ts[t].real_size /\ c # t
  <2>1. ASSUME c # NULL PROVE c \in DOMAIN ts /\ ts[c].left = t /\ c = t + ts[t].real_size
    BY <1>1, <1>7, <2>1, Zenon DEF Neighbours
  <2> QED
    BY <1>5, <1>6, <2>1
<1>9. PICK r \in rs : Inside(ts, t, r)
  BY TileFacts, Zenon
<1>10. FirstByte(r) \in Nat /\ EndByte(r) \in Nat
  BY RunBytes, Zenon
<1>11. /\ FirstByte(r) <= t /\ t + ts[t].real_size <= EndByte(r)
       /\ ts[t].left = NULL <=> t = FirstByte(r)
       /\ c = NULL <=> t + ts[t].real_size = EndByte(r)
  BY <1>1, <1>9, Zenon DEF Inside
<1>12. Inside(new, n, r)
  <2>1. FirstByte(r) <= n /\ n # FirstByte(r)
    BY <1>5, <1>6, <1>10, <1>11
  <2> QED
    BY <1>3, <1>5, <1>6, <1>11, <2>1 DEF Inside
<1>13. Inside(new, t, r)
  <2>1. t + new[t].real_size <= EndByte(r) /\ t + new[t].real_size # EndByte(r)
    BY <1>5, <1>6, <1>10, <1>11
  <2>2. new[t].left = ts[t].left
    BY <1>4, <1>5, <1>8, Zenon
  <2> QED
    BY <1>2, <1>11, <2>1, <2>2, Zenon DEF Inside
<1>14. ASSUME NEW u \in DOMAIN new
       PROVE  new[u].real_size >= Header /\ \E s \in rs : Inside(new, u, s)
  <2>1. CASE u = n
    BY <1>6, <1>12, <2>1, Zenon
  <2>2. CASE u = t
    BY <1>6, <1>13, <2>2, Zenon
  <2>3. CASE u # n /\ u # t
    <3>1. u \in DOMAIN ts
      BY <1>2, <2>3, Zenon
    <3>2. new[u].real_size = ts[u].real_size /\ new[u].right = ts[u].right
      BY <1>4, <2>3, <3>1, Zenon
    <3>3. new[u].left = NULL <=> ts[u].left = NULL
      <4>1. CASE u = c
        <5>1. c # NULL
          BY <3>1, <4>1, TagFields, Zenon
        <5> QED
          BY <1>2, <1>4, <1>5, <1>8, <3>1, <4>1, <5>1, Zenon
      <4>2. CASE u # c
        BY <1>4, <3>1, <4>2, Zenon
      <4> QED
        BY <4>1, <4>2, Zenon
    <3>4. ts[u].real_size >= Header
      BY <3>1, TileFacts, Zenon
    <3>5. PICK s \in rs : Inside(ts, u, s)
      BY <3>1, TileFacts, Zenon
    <3>6. Inside(new, u, s)
      BY <3>2, <3>3, <3>5 DEF Inside
    <3> QED
      BY <3>2, <3>4, <3>6
  <2> QED
    BY <2>1, <2>2, <2>3, Zenon
<1>15. ASSUME NEW a \in DOMAIN new, NEW b \in DOMAIN new, a < b
       PROVE  a + new[a].real_size <= b
  <2>1. \A u \in DOMAIN ts : u \in Nat /\ ts[u].real_size \in Nat
    BY TagFields, Zenon
  <2>2. a \in Nat /\ b \in Nat
    BY <1>2, <1>6, <2>1, Zenon
  <2>3. CASE a = t
    <3>1. CASE b = n
      BY <1>6, <2>3, <3>1
    <3>2. CASE b # n
      <4>1. t + ts[t].real_size <= b
        BY <1>2, <1>7, <1>15, <2>3, <3>2, Zenon
      <4> QED
        BY <1>5, <1>6, <2>2, <2>3, <4>1
    <3> QED
      BY <3>1, <3>2, Zenon
  <2>4. CASE a = n
    <3>1. b \in DOMAIN ts /\ t < b
      BY <1>2, <1>5, <1>6, <1>15, <2>2, <2>4
    <3>2. t + ts[t].real_size <= b
      BY <1>7, <3>1, Zenon
    <3> QED
      BY <1>6, <2>4, <3>2, Zenon
  <2>5. CASE a # t /\ a # n
    <3>1. a \in DOMAIN ts /\ new[a].real_size = ts[a].real_size
      BY <1>2, <1>4, <2>5, Zenon
    <3>2. CASE b # n
      <4>1. b \in DOMAIN ts
        BY <1>2, <3>2, Zenon
      <4>2. a + ts[a].real_size <= b
        BY <1>15, <3>1, <4>1, TileFacts, Zenon
      <4> QED
        BY <3>1, <4>2, Zenon
    <3>3. CASE b = n
      <4>1. a < t
        <5>1. SUFFICES ASSUME t < a PROVE FALSE
          BY <1>5, <2>2, <2>5
        <5>2. t + ts[t].real_size <= a
          BY <1>7, <3>1, <5>1, Zenon
        <5> QED
          BY <1>5, <1>6, <1>15, <2>2, <3>3, <5>2
      <4>2. a + ts[a].real_size <= t
        BY <1>7, <3>1, <4>1, Zenon
      <4>3. ts[a].real_size \in Nat
        BY <2>1, <3>1, Zenon
      <4> QED
        BY <1>5, <1>6, <2>2, <3>1, <3>3, <4>2, <4>3
    <3> QED
      BY <3>2, <3>3, Zenon
  <2> QED
    BY <2>3, <2>4, <2>5, Zenon
<1>16. ASSUME NEW u \in DOMAIN new PROVE Neighbours(new, u)
  <2>1. CASE u = n
    <3>1. t \in DOMAIN new /\ new[t].right = n
      BY <1>2, Zenon
    <3>2. ASSUME c # NULL
          PROVE  c \in DOMAIN new /\ new[c].left = n /\ c = n + new[n].real_size
      BY <1>2, <1>4, <1>6, <1>8, <3>2
    <3> QED
      BY <1>3, <2>1, <3>1, <3>2, Zenon DEF Neighbours
  <2>2. CASE u = t
    <3>1. new[t].left = ts[t].left
      BY <1>4, <1>5, <1>8, Zenon
    <3>2. ASSUME ts[t].left # NULL
          PROVE  ts[t].left \in DOMAIN new /\ new[ts[t].left].right = t
      <4>1. ts[t].left \in DOMAIN ts /\ ts[ts[t].left].right = t
        BY <1>7, <3>2, Zenon DEF Neighbours
      <4>2. ts[t].left # t
        <5>1. SUFFICES ASSUME ts[t].left = t PROVE FALSE
          BY Zenon
        <5>2. c = t
          BY <1>1, <4>1, <5>1, Zenon
        <5> QED
          BY <1>5, <1>8, <5>2, Zenon
      <4> QED
        BY <1>2, <1>4, <4>1, <4>2, Zenon
    <3> QED
      BY <1>2, <1>3, <1>6, <2>2, <3>1, <3>2, Zenon DEF Neighbours
  <2>3. CASE u # n /\ u # t
    <3>1. u \in DOMAIN ts /\ Neighbours(ts, u)
      BY <1>2, <2>3, TileFacts, Zenon
    <3>2. new[u].real_size = ts[u].real_size /\ new[u].right = ts[u].right
      BY <1>4, <2>3, <3>1, Zenon
    <3>3. ASSUME new[u].left # NULL
          PROVE  new[u].left \in DOMAIN new /\ new[new[u].left].right = u
      <4>1. CASE u = c
        BY <1>2, <1>3, <1>4, <3>1, <4>1, Zenon
      <4>2. CASE u # c
        <5>1. PICK v : v = ts[u].left
          BY Zenon
        <5>2. new[u].left = v
          BY <1>4, <3>1, <4>2, <5>1, Zenon
        <5>3. v \in DOMAIN ts /\ ts[v].right = u
          BY <3>1, <3>3, <5>1, <5>2, Zenon DEF Neighbours
        <5>4. v # t
          BY <1>1, <4>2, <5>3, Zenon
        <5> QED
          BY <1>2, <1>4, <5>2, <5>3, <5>4, Zenon
      <4> QED
        BY <4>1, <4>2, Zenon
    <3>4. ASSUME ts[u].right # NULL
          PROVE  /\ ts[u].right \in DOMAIN new /\ new[ts[u].right].left = u
                 /\ ts[u].right = u + ts[u].real_size
      <4>1. PICK v : v = ts[u].right
        BY Zenon
      <4>2. v \in DOMAIN ts /\ ts[v].left = u /\ v = u + ts[u].real_size
        BY <3>1, <3>4, <4>1, Zenon DEF Neighbours
      <4>3. v # c
        BY <1>8, <2>3, <3>4, <4>1, <4>2, Zenon
      <4> QED
        BY <1>2, <1>4, <4>1, <4>2, <4>3, Zenon
    <3> QED
      BY <3>2, <3>3, <3>4, Zenon DEF Neighbours
  <2> QED
    BY <2>1, <2>2, <2>3, Zenon
<1>17. \A s \in rs : FirstByte(s) \in DOMAIN new
  BY <1>2, Zenon DEF Tiles
<1> QED
  BY <1>14, <1>15, <1>16, <1>17, Zenon DEF Tiles

\* Two page runs with no page in common follow one another.
LEMMA PagesApart ==
    ASSUME NEW p \in Nat, NEW n \in Nat, NEW q \in Nat, NEW m \in Nat, n > 0, m > 0,
           PageRun(p, n) \cap PageRun(q, m) = {}
    PROVE  p + n <= q \/ q + m <= p
<1>1. SUFFICES ASSUME q < p + n, p < q + m PROVE FALSE
  OBVIOUS
<1>2. CASE p <= q
  <2>1. q \in p .. (p + n - 1) /\ q \in q .. (q + m - 1)
    BY <1>1, <1>2
  <2> QED
    BY <2>1, Zenon DEF PageRun
<1>3. CASE ~ (p <= q)
  <2>1. p \in p .. (p + n - 1) /\ p \in q .. (q + m - 1)
    BY <1>1, <1>3
  <2> QED
    BY <2>1, Zenon DEF PageRun
<1> QED
  BY <1>2, <1>3, Zenon

FreshRun(ts, new, rs, t) ==
    t \in Addresses /\ t \notin DOMAIN ts /\ Runs(rs) /\ Shape(new) /\ Tiles(new, rs)

\* malloc with new pages: a run is added, and one tag that fills it.
LEMMA TilesFresh ==
    ASSUME NEW ts, NEW rs, Shape(ts), Runs(rs), Tiles(ts, rs),
           NEW p \in Nat, NEW n \in Nat, n >= PageCount, p + n <= Pages,
           \A r \in rs : PageRun(p, n) \cap PageRun(r.page, r.count) = {},
           NEW t, t = p * PageSize, NEW tag \in Tag, tag.left = NULL, tag.right = NULL,
           tag.real_size = n * PageSize, n * PageSize >= Header,
           NEW new, new = [a \in DOMAIN ts \cup {t} |-> IF a = t THEN tag ELSE ts[a]],
           NEW run, run = [page |-> p, count |-> n]
    PROVE  FreshRun(ts, new, rs \cup {run}, t)
<1>1. n > 0
  BY ConstantFacts
<1>2. run \in [page : Nat, count : Nat] /\ run.page = p /\ run.count = n
  OBVIOUS
<1>3. ASSUME NEW r \in rs
      PROVE  /\ r.page \in Nat /\ r.count \in Nat
             /\ p + n <= r.page \/ r.page + r.count <= p
  <2>1. r.page \in Nat /\ r.count \in Nat
    BY RunBytes, Zenon
  <2>2. r.count > 0
    <3>1. r.count >= PageCount
      BY Zenon DEF Runs
    <3> QED
      BY <2>1, <3>1, ConstantFacts
  <2>3. PageRun(p, n) \cap PageRun(r.page, r.count) = {}
    BY Zenon
  <2> QED
    BY <1>1, <2>1, <2>2, <2>3, PagesApart, Zenon
<1>4. PICK rr : rr = rs \cup {run}
  BY Zenon
<1>5. Runs(rr)
  <2>1. rr \subseteq [page : Nat, count : Nat]
    BY <1>2, <1>4, Zenon DEF Runs
  <2>2. \A r \in rr : r.count >= PageCount /\ r.page + r.count <= Pages
    BY <1>2, <1>4, Zenon DEF Runs
  <2>3. ASSUME NEW r \in rr, NEW s \in rr, r # s
        PROVE  r.page + r.count <= s.page \/ s.page + s.count <= r.page
    <3>1. CASE r \in rs /\ s \in rs
      BY <2>3, <3>1, Zenon DEF Runs
    <3>2. CASE r = run /\ s \in rs
      BY <1>2, <1>3, <3>2, Zenon
    <3>3. CASE s = run /\ r \in rs
      BY <1>2, <1>3, <3>3, Zenon
    <3> QED
      BY <1>4, <2>3, <3>1, <3>2, <3>3, Zenon
  <2> QED
    BY <2>1, <2>2, <2>3, Zenon DEF Runs
<1>6. PICK e : e = t + n * PageSize
  BY Zenon
<1>7. /\ FirstByte(run) = t /\ EndByte(run) = e /\ t \in Nat /\ e \in Nat /\ t < e
      /\ e <= Pages * PageSize /\ n * PageSize \in Nat /\ run \in rr
  <2>1. run \in rr
    BY <1>4, Zenon
  <2>2. FirstByte(run) = t
    BY <1>2, Zenon DEF FirstByte
  <2>3. n * PageSize \in Nat
    BY ConstantFacts
  <2> QED
    BY <1>2, <1>5, <1>6, <2>1, <2>2, <2>3, RunBytes
<1>8. t \in Addresses /\ t # NULL
  <2>1. t < Pages * PageSize
    BY <1>7, ConstantFacts
  <2> QED
    BY <1>7, <2>1, AddressFacts, Zenon
<1>9. ASSUME NEW r \in rs
      PROVE  /\ FirstByte(r) \in Nat /\ EndByte(r) \in Nat
             /\ e <= FirstByte(r) \/ EndByte(r) <= t
  <2>1. r \in rr /\ r # run
    <3>1. r # run
      BY <1>1, <1>2, <1>3
    <3> QED
      BY <1>4, <3>1, Zenon
  <2>2. EndByte(run) <= FirstByte(r) \/ EndByte(r) <= FirstByte(run)
    BY <1>5, <1>7, <2>1, RunsApart, Zenon
  <2> QED
    BY <1>7, <2>2, RunBytes, Zenon
<1>10. ASSUME NEW u \in DOMAIN ts
       PROVE  /\ u \in Nat /\ ts[u].real_size \in Nat /\ ts[u].real_size > 0
              /\ e <= u \/ u + ts[u].real_size <= t
  <2>1. PICK r \in rs : Inside(ts, u, r)
    BY TileFacts, Zenon
  <2>2. FirstByte(r) <= u /\ u + ts[u].real_size <= EndByte(r)
    BY <2>1, Zenon DEF Inside
  <2>3. u \in Nat /\ ts[u].real_size \in Nat /\ ts[u].real_size > 0
    BY TagFields, TileFacts, Zenon
  <2> QED
    BY <1>7, <1>9, <2>2, <2>3
<1>11. t \notin DOMAIN ts
  BY <1>7, <1>10
<1>12. /\ DOMAIN new = DOMAIN ts \cup {t} /\ new[t] = tag
       /\ \A u \in DOMAIN ts : new[u] = ts[u] /\ u # t
  BY <1>11, Zenon
<1>13. Shape(new)
  <2>1. \A u \in DOMAIN ts : ts[u] \in Tag /\ u \in Addresses
    BY TagFields, Zenon
  <2>2. DOMAIN new \subseteq Addresses /\ \A u \in DOMAIN new : new[u] \in Tag
    BY <1>8, <1>12, <2>1, Zenon
  <2>3. new = [u \in DOMAIN new |-> new[u]]
    BY <1>12, Zenon
  <2> QED
    BY <2>2, <2>3, Zenon DEF Shape
<1>14. new[t].real_size = n * PageSize /\ new[t].left = NULL /\ new[t].right = NULL
  BY <1>12, Zenon
<1>15. ASSUME NEW u \in DOMAIN new
       PROVE  new[u].real_size >= Header /\ \E r \in rr : Inside(new, u, r)
  <2>1. CASE u = t
    <3>1. Inside(new, t, run)
      BY <1>6, <1>7, <1>14 DEF Inside
    <3> QED
      BY <1>7, <1>14, <2>1, <3>1, Zenon
  <2>2. CASE u # t
    <3>1. u \in DOMAIN ts /\ new[u] = ts[u]
      BY <1>12, <2>2, Zenon
    <3>2. PICK r \in rs : Inside(ts, u, r)
      BY <3>1, TileFacts, Zenon
    <3>3. Inside(new, u, r) /\ r \in rr
      BY <1>4, <3>1, <3>2, Zenon DEF Inside
    <3>4. ts[u].real_size >= Header
      BY <3>1, TileFacts, Zenon
    <3> QED
      BY <3>1, <3>3, <3>4, Zenon
  <2> QED
    BY <2>1, <2>2, Zenon
<1>16. ASSUME NEW a \in DOMAIN new, NEW b \in DOMAIN new, a < b
       PROVE  a + new[a].real_size <= b
  <2>1. CASE a = t /\ b # t
    <3>1. b \in DOMAIN ts
      BY <1>12, <2>1, Zenon
    <3>2. e <= b
      BY <1>7, <1>10, <1>16, <2>1, <3>1
    <3> QED
      BY <1>6, <1>14, <2>1, <3>2, Zenon
  <2>2. CASE a # t /\ b = t
    <3>1. a \in DOMAIN ts /\ new[a] = ts[a]
      BY <1>12, <2>2, Zenon
    <3>2. a + ts[a].real_size <= t
      BY <1>7, <1>10, <1>16, <2>2, <3>1
    <3> QED
      BY <2>2, <3>1, <3>2, Zenon
  <2>3. CASE a # t /\ b # t
    <3>1. a \in DOMAIN ts /\ b \in DOMAIN ts /\ new[a] = ts[a]
      BY <1>12, <2>3, Zenon
    <3>2. a + ts[a].real_size <= b
      BY <1>16, <3>1, TileFacts, Zenon
    <3> QED
      BY <3>1, <3>2, Zenon
  <2> QED
    BY <1>7, <1>16, <2>1, <2>2, <2>3
<1>17. ASSUME NEW u \in DOMAIN new PROVE Neighbours(new, u)
  <2>1. CASE u = t
    BY <1>14, <2>1, Zenon DEF Neighbours
  <2>2. CASE u # t
    <3>1. u \in DOMAIN ts /\ new[u] = ts[u] /\ Neighbours(ts, u)
      BY <1>12, <2>2, TileFacts, Zenon
    <3> QED
      BY <1>12, <3>1, Zenon DEF Neighbours
  <2> QED
    BY <2>1, <2>2, Zenon
<1>18. \A r \in rr : FirstByte(r) \in DOMAIN new
  BY <1>4, <1>7, <1>12, Zenon DEF Tiles
<1>19. Tiles(new, rr)
  BY <1>15, <1>16, <1>17, <1>18, Zenon DEF Tiles
<1> QED
  BY <1>4, <1>5, <1>8, <1>11, <1>13, <1>19, Zenon DEF FreshRun

Fills(ts, t, r) ==
    /\ t = FirstByte(r) /\ t + ts[t].real_size = EndByte(r)
    /\ t \div PageSize = r.page
    /\ (ts[t].real_size + PageSize - 1) \div PageSize = r.count
    /\ r = [page |-> r.page, count |-> r.count]

\* A tag with no neighbours fills its run.
LEMMA WholeFillsRun ==
    ASSUME NEW ts, NEW rs, Shape(ts), Runs(rs), Tiles(ts, rs), NEW t \in DOMAIN ts,
           Whole(ts[t])
    PROVE  \E r \in rs : Fills(ts, t, r)
<1>1. PICK r \in rs : Inside(ts, t, r)
  BY TileFacts, Zenon
<1>2. t = FirstByte(r) /\ t + ts[t].real_size = EndByte(r)
  BY <1>1, Zenon DEF Inside, Whole
<1>3. /\ r.page \in Nat /\ r.count \in Nat /\ FirstByte(r) \in Nat
      /\ EndByte(r) = FirstByte(r) + r.count * PageSize
  BY RunBytes, Zenon
<1>4. ts[t].real_size = r.count * PageSize
  <2>1. ts[t].real_size \in Nat
    BY TagFields, Zenon
  <2>2. r.count * PageSize \in Nat
    BY <1>3, ConstantFacts
  <2>3. \A a, b, c \in Nat : a + b = a + c => b = c
    OBVIOUS
  <2> QED
    BY <1>2, <1>3, <2>1, <2>2, <2>3, Zenon
<1>5. t \div PageSize = r.page
  BY <1>2, <1>3, PageDivision, Zenon DEF FirstByte
<1>6. (ts[t].real_size + PageSize - 1) \div PageSize = r.count
  BY <1>3, <1>4, PageDivision, Zenon
<1>7. r = [page |-> r.page, count |-> r.count]
  <2>1. r \in [page : Nat, count : Nat]
    BY Zenon DEF Runs
  <2> QED
    BY <2>1
<1> QED
  BY <1>2, <1>5, <1>6, <1>7, Zenon DEF Fills

\* free of a whole run: the tag goes, and its run with it.
LEMMA TilesDrop ==
    ASSUME NEW ts, NEW rs, Shape(ts), Runs(rs), Tiles(ts, rs), NEW t \in DOMAIN ts,
           NEW r \in rs, t = FirstByte(r), t + ts[t].real_size = EndByte(r), Whole(ts[t])
    PROVE  Runs(rs \ {r}) /\ Shape(Drop(ts, t)) /\ Tiles(Drop(ts, t), rs \ {r})
<1>1. Runs(rs \ {r})
  BY Zenon DEF Runs
<1>2. PICK new : new = Drop(ts, t)
  BY Zenon
<1>3. DOMAIN new = DOMAIN ts \ {t} /\ \A u \in DOMAIN new : new[u] = ts[u]
  BY <1>2, Zenon DEF Drop
<1>4. Shape(new)
  <2>1. \A u \in DOMAIN ts : ts[u] \in Tag /\ u \in Addresses
    BY TagFields, Zenon
  <2>2. DOMAIN new \subseteq Addresses /\ \A u \in DOMAIN new : new[u] \in Tag
    BY <1>3, <2>1, Zenon
  <2>3. new = [u \in DOMAIN new |-> new[u]]
    BY <1>2, <1>3, Zenon DEF Drop
  <2> QED
    BY <2>2, <2>3, Zenon DEF Shape
<1>5. /\ t \in Nat /\ t # NULL /\ ts[t].real_size \in Nat /\ ts[t].real_size > 0
      /\ ts[t].left = NULL /\ ts[t].right = NULL
  BY TagFields, TileFacts, Zenon DEF Whole
<1>6. ASSUME NEW u \in DOMAIN new
      PROVE  /\ u \in DOMAIN ts /\ new[u] = ts[u] /\ u # t
             /\ new[u].real_size >= Header /\ \E s \in rs \ {r} : Inside(new, u, s)
  <2>1. u \in DOMAIN ts /\ new[u] = ts[u] /\ u # t
    BY <1>3, Zenon
  <2>2. /\ u \in Nat /\ ts[u].real_size \in Nat
        /\ ts[u].real_size > 0 /\ ts[u].real_size >= Header
    BY <2>1, TagFields, TileFacts, Zenon
  <2>3. PICK s \in rs : Inside(ts, u, s)
    BY <2>1, TileFacts, Zenon
  <2>4. s # r
    <3>1. SUFFICES ASSUME s = r PROVE FALSE
      BY Zenon
    <3>2. t <= u /\ u + ts[u].real_size <= t + ts[t].real_size
      BY <2>3, <3>1, Zenon DEF Inside
    <3>3. t < u
      BY <1>5, <2>1, <2>2, <3>2
    <3>4. t + ts[t].real_size <= u
      BY <2>1, <3>3, TileFacts, Zenon
    <3> QED
      BY <1>5, <2>2, <3>2, <3>4
  <2>5. Inside(new, u, s)
    BY <2>1, <2>3, Zenon DEF Inside
  <2> QED
    BY <2>1, <2>2, <2>4, <2>5, Zenon
<1>7. ASSUME NEW a \in DOMAIN new, NEW b \in DOMAIN new, a < b
      PROVE  a + new[a].real_size <= b
  <2>1. a \in DOMAIN ts /\ b \in DOMAIN ts /\ new[a] = ts[a]
    BY <1>6, Zenon
  <2>2. a + ts[a].real_size <= b
    BY <1>7, <2>1, TileFacts, Zenon
  <2> QED
    BY <2>1, <2>2, Zenon
<1>8. ASSUME NEW u \in DOMAIN new PROVE Neighbours(new, u)
  <2>1. u \in DOMAIN ts /\ new[u] = ts[u] /\ u # t
    BY <1>6, Zenon
  <2>2. Neighbours(ts, u)
    BY <2>1, TileFacts, Zenon
  <2>3. u # NULL
    BY <2>1, TagFields, Zenon
  <2>4. ts[u].left # t /\ ts[u].right # t
    BY <1>5, <2>2, <2>3, Zenon DEF Neighbours
  <2> QED
    BY <1>3, <2>1, <2>2, <2>4, Zenon DEF Neighbours
<1>9. ASSUME NEW s \in rs \ {r} PROVE FirstByte(s) \in DOMAIN new
  <2>1. FirstByte(s) \in DOMAIN ts
    BY Zenon DEF Tiles
  <2>2. FirstByte(s) # t
    <3>1. /\ FirstByte(s) \in Nat /\ EndByte(s) \in Nat /\ FirstByte(s) < EndByte(s)
          /\ FirstByte(r) \in Nat /\ EndByte(r) \in Nat /\ FirstByte(r) < EndByte(r)
      BY RunBytes, Zenon
    <3>2. EndByte(r) <= FirstByte(s) \/ EndByte(s) <= FirstByte(r)
      BY RunsApart, Zenon
    <3> QED
      BY <3>1, <3>2
  <2> QED
    BY <1>3, <2>1, <2>2, Zenon
<1>10. Tiles(new, rs \ {r})
  BY <1>6, <1>7, <1>8, <1>9, Zenon DEF Tiles
<1> QED
  BY <1>1, <1>2, <1>4, <1>10, Zenon

-----------------------------------------------------------------------------
(***************************************************************************)
(* The free lists.  They have no cycle: some function ranks the tags so    *)
(* that next leads to a tag of lower rank.                                 *)
(***************************************************************************)
Linked(ts, ff, t) ==
    /\ ts[t].next \in DOMAIN ts \cup {NULL} /\ ts[t].prev \in DOMAIN ts \cup {NULL}
    /\ ts[t].next # NULL => /\ ts[ts[t].next].prev = t
                            /\ ts[ts[t].next].index = ts[t].index
    /\ ts[t].index # -1 => IF ts[t].prev = NULL THEN ff[ts[t].index] = t
                           ELSE ts[ts[t].prev].next = t
    /\ ts[t].index = -1 => ts[t].next = NULL /\ ts[t].prev = NULL

Ranks(ts, B, rank) ==
    /\ B \in Nat /\ rank \in [DOMAIN ts -> 0 .. B]
    /\ \A t \in DOMAIN ts : ts[t].next # NULL => rank[ts[t].next] < rank[t]

Lists(ts, ff) ==
    /\ ff \in [Exponents -> DOMAIN ts \cup {NULL}]
    /\ \A e \in Exponents : ff[e] # NULL => ts[ff[e]].index = e /\ ts[ff[e]].prev = NULL
    /\ \A t \in DOMAIN ts : Linked(ts, ff, t)
    /\ \E B, rank : Ranks(ts, B, rank)

\* The neighbours of a tag in its list.
Placed(ts, ff, t) ==
    /\ ts[t].next # NULL => /\ ts[t].next \in DOMAIN ts /\ ts[ts[t].next].prev = t
                            /\ ts[ts[t].next].index = ts[t].index
    /\ ts[t].prev # NULL => /\ ts[t].prev \in DOMAIN ts /\ ts[ts[t].prev].next = t
                            /\ ts[ts[t].prev].index = ts[t].index
    /\ ts[t].index # -1 /\ ts[t].prev = NULL => ff[ts[t].index] = t
    /\ ts[t].index = -1 => ts[t].next = NULL /\ ts[t].prev = NULL

\* What the lists say of one tag.
LEMMA LinkFacts ==
    ASSUME NEW ts, NEW ff, Shape(ts), Lists(ts, ff), NEW t \in DOMAIN ts
    PROVE  Placed(ts, ff, t)
<1>1. Linked(ts, ff, t) /\ t # NULL
  BY TagFields, Zenon DEF Lists
<1>2. ASSUME ts[t].prev # NULL
      PROVE  /\ ts[t].prev \in DOMAIN ts /\ ts[ts[t].prev].next = t
             /\ ts[ts[t].prev].index = ts[t].index
  <2>1. ts[t].prev \in DOMAIN ts /\ ts[ts[t].prev].next = t
    BY <1>1, <1>2 DEF Linked
  <2>2. Linked(ts, ff, ts[t].prev)
    BY <2>1, Zenon DEF Lists
  <2> QED
    BY <1>1, <2>1, <2>2 DEF Linked
<1>3. ASSUME ts[t].next # NULL
      PROVE  /\ ts[t].next \in DOMAIN ts /\ ts[ts[t].next].prev = t
             /\ ts[ts[t].next].index = ts[t].index
  BY <1>1, <1>3, Zenon DEF Linked
<1>4. /\ ts[t].index # -1 /\ ts[t].prev = NULL => ff[ts[t].index] = t
      /\ ts[t].index = -1 => ts[t].next = NULL /\ ts[t].prev = NULL
  BY <1>1, Zenon DEF Linked
<1> QED
  BY <1>2, <1>3, <1>4, Zenon DEF Placed

\* A tag that is in no list is not reached from any.
LEMMA NotReached ==
    ASSUME NEW ts, NEW ff, Shape(ts), Lists(ts, ff), NEW t \in DOMAIN ts, ts[t].index = -1
    PROVE  /\ \A u \in DOMAIN ts : ts[u].next # t /\ ts[u].prev # t
           /\ \A e \in Exponents : ff[e] # t
<1>1. t # NULL /\ ts[t].next = NULL /\ ts[t].prev = NULL
  <2>1. Placed(ts, ff, t)
    BY LinkFacts, Zenon
  <2> QED
    BY <2>1, TagFields, Zenon DEF Placed
<1>2. ASSUME NEW u \in DOMAIN ts PROVE ts[u].next # t /\ ts[u].prev # t
  <2>1. u # NULL /\ Placed(ts, ff, u)
    BY LinkFacts, TagFields, Zenon
  <2> QED
    BY <1>1, <2>1, Zenon DEF Placed
<1>3. ASSUME NEW e \in Exponents PROVE ff[e] # t
  <2>1. e # -1
    BY ExponentFacts, Zenon
  <2> QED
    BY <1>1, <2>1, Zenon DEF Lists
<1> QED
  BY <1>2, <1>3, Zenon

\* The lists depend on no other field, and tags that are in no list come and go.
LEMMA ListsKept ==
    ASSUME NEW ts, NEW ff, Shape(ts), Lists(ts, ff), NEW new,
           \A u \in DOMAIN new : u \in DOMAIN ts =>
               new[u].index = ts[u].index /\ new[u].next = ts[u].next /\ new[u].prev = ts[u].prev,
           \A u \in DOMAIN new : u \notin DOMAIN ts =>
               new[u].index = -1 /\ new[u].next = NULL /\ new[u].prev = NULL,
           \A u \in DOMAIN ts : u \notin DOMAIN new => ts[u].index = -1
    PROVE  Lists(new, ff)
<1>1. ASSUME NEW u \in DOMAIN ts
      PROVE  /\ ts[u].next # NULL => ts[u].next \in DOMAIN ts /\ ts[u].next \in DOMAIN new
             /\ ts[u].prev # NULL => ts[u].prev \in DOMAIN ts /\ ts[u].prev \in DOMAIN new
  <2>1. Placed(ts, ff, u)
    BY LinkFacts, Zenon
  <2>2. ASSUME ts[u].next # NULL PROVE ts[u].next \in DOMAIN ts /\ ts[u].next \in DOMAIN new
    <3>1. ts[u].next \in DOMAIN ts
      BY <2>1, <2>2, Zenon DEF Placed
    <3> QED
      BY <3>1, NotReached, Zenon
  <2>3. ASSUME ts[u].prev # NULL PROVE ts[u].prev \in DOMAIN ts /\ ts[u].prev \in DOMAIN new
    <3>1. ts[u].prev \in DOMAIN ts
      BY <2>1, <2>3, Zenon DEF Placed
    <3> QED
      BY <3>1, NotReached, Zenon
  <2> QED
    BY <2>2, <2>3, Zenon
<1>2. ASSUME NEW e \in Exponents, ff[e] # NULL
      PROVE  /\ ff[e] \in DOMAIN new /\ new[ff[e]].index = e /\ new[ff[e]].prev = NULL
  <2>1. ff[e] \in DOMAIN ts /\ ts[ff[e]].index = e /\ ts[ff[e]].prev = NULL
    BY <1>2, Zenon DEF Lists
  <2>2. ff[e] \in DOMAIN new
    BY <2>1, ExponentFacts, Zenon
  <2> QED
    BY <2>1, <2>2, Zenon
<1>3. ff \in [Exponents -> DOMAIN new \cup {NULL}]
  <2>1. ff \in [Exponents -> DOMAIN ts \cup {NULL}]
    BY Zenon DEF Lists
  <2>2. \A e \in Exponents : ff[e] \in DOMAIN new \cup {NULL}
    BY <1>2, Zenon
  <2> QED
    BY <2>1, <2>2, Zenon
<1>4. ASSUME NEW u \in DOMAIN new PROVE Linked(new, ff, u)
  <2>1. CASE u \in DOMAIN ts
    <3>1. /\ new[u].index = ts[u].index /\ new[u].next = ts[u].next
          /\ new[u].prev = ts[u].prev
      BY <2>1, Zenon
    <3>2. PICK x, y : x = ts[u].next /\ y = ts[u].prev
      BY Zenon
    <3>3. x \in DOMAIN new \cup {NULL} /\ y \in DOMAIN new \cup {NULL}
      BY <1>1, <2>1, <3>2, Zenon
    <3>4. Placed(ts, ff, u)
      BY <2>1, LinkFacts, Zenon
    <3>5. x # NULL => new[x].prev = u /\ new[x].index = ts[u].index
      BY <1>1, <2>1, <3>2, <3>4, Zenon DEF Placed
    <3>6. y # NULL => new[y].next = u
      BY <1>1, <2>1, <3>2, <3>4, Zenon DEF Placed
    <3>7. /\ ts[u].index # -1 /\ y = NULL => ff[ts[u].index] = u
          /\ ts[u].index = -1 => x = NULL /\ y = NULL
      BY <2>1, <3>2, <3>4, Zenon DEF Placed
    <3> QED
      BY <3>1, <3>2, <3>3, <3>5, <3>6, <3>7 DEF Linked
  <2>2. CASE u \notin DOMAIN ts
    <3>1. new[u].index = -1 /\ new[u].next = NULL /\ new[u].prev = NULL
      BY <2>2, Zenon
    <3> QED
      BY <3>1 DEF Linked
  <2> QED
    BY <2>1, <2>2, Zenon
<1>5. PICK B, rank : Ranks(ts, B, rank)
  BY Zenon DEF Lists
<1>6. PICK rk : rk = [u \in DOMAIN new |-> IF u \in DOMAIN ts THEN rank[u] ELSE 0]
  BY Zenon
<1>7. B \in Nat /\ \A u \in DOMAIN ts : rank[u] \in 0 .. B
  BY <1>5, Zenon DEF Ranks
<1>8. rk \in [DOMAIN new -> 0 .. B]
  <2>1. 0 \in 0 .. B
    BY <1>7
  <2> QED
    BY <1>6, <1>7, <2>1, Zenon
<1>9. ASSUME NEW u \in DOMAIN new, new[u].next # NULL PROVE rk[new[u].next] < rk[u]
  <2>1. u \in DOMAIN ts /\ new[u].next = ts[u].next
    BY <1>9, Zenon
  <2>2. rank[ts[u].next] < rank[u]
    BY <1>5, <1>9, <2>1, Zenon DEF Ranks
  <2>3. ts[u].next \in DOMAIN ts /\ ts[u].next \in DOMAIN new
    BY <1>1, <1>9, <2>1, Zenon
  <2> QED
    BY <1>6, <2>1, <2>2, <2>3, Zenon
<1>10. Ranks(new, B, rk)
  BY <1>7, <1>8, <1>9, Zenon DEF Ranks
<1>11. \A e \in Exponents : ff[e] # NULL => new[ff[e]].index = e /\ new[ff[e]].prev = NULL
  BY <1>2, Zenon
<1> QED
  BY <1>3, <1>4, <1>10, <1>11, Zenon DEF Lists

(***************************************************************************)
(* Writing one field.                                                      *)
(***************************************************************************)
SameBlocks(ts, new) ==
    /\ DOMAIN new = DOMAIN ts /\ Shape(new)
    /\ \A u \in DOMAIN ts :
         /\ new[u].size = ts[u].size /\ new[u].real_size = ts[u].real_size
         /\ new[u].left = ts[u].left /\ new[u].right = ts[u].right

\* Setting next changes that field of that tag only.
LEMMA SetNext ==
    ASSUME NEW ts, Shape(ts), NEW t \in DOMAIN ts \cup {NULL}, NEW v \in Addresses \cup {NULL}
    PROVE  /\ SameBlocks(ts, Set(ts, t, "next", v))
           /\ \A u \in DOMAIN ts : LET new == Set(ts, t, "next", v) IN
                /\ new[u].index = ts[u].index /\ new[u].prev = ts[u].prev
                /\ new[u].next = IF u = t THEN v ELSE ts[u].next
<1>1. PICK new : new = Set(ts, t, "next", v)
  BY Zenon
<1>2. PICK D : D = DOMAIN ts
  BY Zenon
<1>3. ts \in [D -> Tag] /\ D \subseteq Addresses /\ \A u \in D : u # NULL
  BY <1>2, TagFields, Zenon DEF Shape
<1>4. /\ new \in [D -> Tag]
      /\ \A u \in D :
           /\ new[u].size = ts[u].size /\ new[u].real_size = ts[u].real_size
           /\ new[u].left = ts[u].left /\ new[u].right = ts[u].right
           /\ new[u].index = ts[u].index /\ new[u].prev = ts[u].prev
           /\ new[u].next = IF u = t THEN v ELSE ts[u].next
  <2>1. CASE t = NULL
    <3>1. new = ts
      BY <1>1, <2>1, Zenon DEF Set
    <3> QED
      BY <1>3, <2>1, <3>1
  <2>2. CASE t # NULL
    <3>1. new = [ts EXCEPT ![t]["next"] = v] /\ t \in D
      BY <1>1, <1>2, <2>2, Zenon DEF Set
    <3>2. new \in [D -> Tag]
      BY <1>3, <3>1 DEF Tag
    <3>3. \A u \in D : u # t => new[u] = ts[u]
      BY <1>3, <3>1
    <3>4. /\ new[t].size = ts[t].size /\ new[t].real_size = ts[t].real_size
          /\ new[t].left = ts[t].left /\ new[t].right = ts[t].right
          /\ new[t].index = ts[t].index /\ new[t].prev = ts[t].prev
          /\ new[t].next = v
      BY <1>3, <3>1 DEF Tag
    <3> QED
      BY <3>2, <3>3, <3>4
  <2> QED
    BY <2>1, <2>2, Zenon
<1>5. DOMAIN new = DOMAIN ts /\ Shape(new)
  <2>1. DOMAIN new = D
    BY <1>4, Zenon
  <2> QED
    BY <1>2, <1>3, <1>4, <2>1, Zenon DEF Shape
<1>6. SameBlocks(ts, new)
  BY <1>2, <1>4, <1>5, Zenon DEF SameBlocks
<1> QED
  BY <1>1, <1>2, <1>4, <1>6, Zenon

\* Setting prev changes that field of that tag only.
LEMMA SetPrev ==
    ASSUME NEW ts, Shape(ts), NEW t \in DOMAIN ts \cup {NULL}, NEW v \in Addresses \cup {NULL}
    PROVE  /\ SameBlocks(ts, Set(ts, t, "prev", v))
           /\ \A u \in DOMAIN ts : LET new == Set(ts, t, "prev", v) IN
                /\ new[u].index = ts[u].index /\ new[u].next = ts[u].next
                /\ new[u].prev = IF u = t THEN v ELSE ts[u].prev
<1>1. PICK new : new = Set(ts, t, "prev", v)
  BY Zenon
<1>2. PICK D : D = DOMAIN ts
  BY Zenon
<1>3. ts \in [D -> Tag] /\ D \subseteq Addresses /\ \A u \in D : u # NULL
  BY <1>2, TagFields, Zenon DEF Shape
<1>4. /\ new \in [D -> Tag]
      /\ \A u \in D :
           /\ new[u].size = ts[u].size /\ new[u].real_size = ts[u].real_size
           /\ new[u].left = ts[u].left /\ new[u].right = ts[u].right
           /\ new[u].index = ts[u].index /\ new[u].next = ts[u].next
           /\ new[u].prev = IF u = t THEN v ELSE ts[u].prev
  <2>1. CASE t = NULL
    <3>1. new = ts
      BY <1>1, <2>1, Zenon DEF Set
    <3> QED
      BY <1>3, <2>1, <3>1
  <2>2. CASE t # NULL
    <3>1. new = [ts EXCEPT ![t]["prev"] = v] /\ t \in D
      BY <1>1, <1>2, <2>2, Zenon DEF Set
    <3>2. new \in [D -> Tag]
      BY <1>3, <3>1 DEF Tag
    <3>3. \A u \in D : u # t => new[u] = ts[u]
      BY <1>3, <3>1
    <3>4. /\ new[t].size = ts[t].size /\ new[t].real_size = ts[t].real_size
          /\ new[t].left = ts[t].left /\ new[t].right = ts[t].right
          /\ new[t].index = ts[t].index /\ new[t].next = ts[t].next
          /\ new[t].prev = v
      BY <1>3, <3>1 DEF Tag
    <3> QED
      BY <3>2, <3>3, <3>4
  <2> QED
    BY <2>1, <2>2, Zenon
<1>5. DOMAIN new = DOMAIN ts /\ Shape(new)
  <2>1. DOMAIN new = D
    BY <1>4, Zenon
  <2> QED
    BY <1>2, <1>3, <1>4, <2>1, Zenon DEF Shape
<1>6. SameBlocks(ts, new)
  BY <1>2, <1>4, <1>5, Zenon DEF SameBlocks
<1> QED
  BY <1>1, <1>2, <1>4, <1>6, Zenon

\* Setting index changes that field of that tag only.
LEMMA SetIndex ==
    ASSUME NEW ts, Shape(ts), NEW t \in DOMAIN ts \cup {NULL}, NEW v \in Exponents \cup {-1}
    PROVE  /\ SameBlocks(ts, Set(ts, t, "index", v))
           /\ \A u \in DOMAIN ts : LET new == Set(ts, t, "index", v) IN
                /\ new[u].next = ts[u].next /\ new[u].prev = ts[u].prev
                /\ new[u].index = IF u = t THEN v ELSE ts[u].index
<1>1. PICK new : new = Set(ts, t, "index", v)
  BY Zenon
<1>2. PICK D : D = DOMAIN ts
  BY Zenon
<1>3. ts \in [D -> Tag] /\ D \subseteq Addresses /\ \A u \in D : u # NULL
  BY <1>2, TagFields, Zenon DEF Shape
<1>4. /\ new \in [D -> Tag]
      /\ \A u \in D :
           /\ new[u].size = ts[u].size /\ new[u].real_size = ts[u].real_size
           /\ new[u].left = ts[u].left /\ new[u].right = ts[u].right
           /\ new[u].next = ts[u].next /\ new[u].prev = ts[u].prev
           /\ new[u].index = IF u = t THEN v ELSE ts[u].index
  <2>1. CASE t = NULL
    <3>1. new = ts
      BY <1>1, <2>1, Zenon DEF Set
    <3> QED
      BY <1>3, <2>1, <3>1
  <2>2. CASE t # NULL
    <3>1. new = [ts EXCEPT ![t]["index"] = v] /\ t \in D
      BY <1>1, <1>2, <2>2, Zenon DEF Set
    <3>2. new \in [D -> Tag]
      BY <1>3, <3>1 DEF Tag
    <3>3. \A u \in D : u # t => new[u] = ts[u]
      BY <1>3, <3>1
    <3>4. /\ new[t].size = ts[t].size /\ new[t].real_size = ts[t].real_size
          /\ new[t].left = ts[t].left /\ new[t].right = ts[t].right
          /\ new[t].next = ts[t].next /\ new[t].prev = ts[t].prev
          /\ new[t].index = v
      BY <1>3, <3>1 DEF Tag
    <3> QED
      BY <3>2, <3>3, <3>4
  <2> QED
    BY <2>1, <2>2, Zenon
<1>5. DOMAIN new = DOMAIN ts /\ Shape(new)
  <2>1. DOMAIN new = D
    BY <1>4, Zenon
  <2> QED
    BY <1>2, <1>3, <1>4, <2>1, Zenon DEF Shape
<1>6. SameBlocks(ts, new)
  BY <1>2, <1>4, <1>5, Zenon DEF SameBlocks
<1> QED
  BY <1>1, <1>2, <1>4, <1>6, Zenon

(***************************************************************************)
(* insert_tag puts a tag that is in no list in front of one.               *)
(***************************************************************************)
Inserted(ts, ff, new, t, e) ==
    /\ SameBlocks(ts, new)
    /\ \A u \in DOMAIN ts :
         /\ new[u].index = IF u = t THEN e ELSE ts[u].index
         /\ new[u].next = IF u = t THEN ff[e] ELSE ts[u].next
         /\ new[u].prev = IF u = ff[e] THEN t ELSE ts[u].prev

\* insert_tag computes what Inserted says.
LEMMA InsertFacts ==
    ASSUME NEW ts, NEW ff, Shape(ts), Lists(ts, ff), NEW t \in DOMAIN ts,
           ts[t].index = -1, NEW e \in Exponents
    PROVE  \E new :
               /\ insert_tag([tags |-> ts, first |-> ff], t, e) =
                     [tags |-> new, first |-> [ff EXCEPT ![e] = t]]
               /\ Inserted(ts, ff, new, t, e)
<1>1. PICK old : old = ff[e]
  BY Zenon
<1>2. old \in DOMAIN ts \cup {NULL} /\ old # t
  <2>1. old \in DOMAIN ts \cup {NULL}
    BY <1>1, Zenon DEF Lists
  <2> QED
    BY <1>1, <2>1, NotReached, Zenon
<1>3. t \in Addresses /\ t # NULL /\ \A u \in DOMAIN ts : u # NULL /\ u \in Addresses
  BY TagFields, Zenon
<1>4. ts[t].next = NULL
  BY LinkFacts, Zenon DEF Placed
<1>5. PICK a : a = Set(ts, old, "prev", t)
  BY Zenon
<1>6. /\ SameBlocks(ts, a)
      /\ \A u \in DOMAIN ts : /\ a[u].index = ts[u].index /\ a[u].next = ts[u].next
                              /\ a[u].prev = IF u = old THEN t ELSE ts[u].prev
  <2>1. t \in Addresses \cup {NULL}
    BY <1>3, Zenon
  <2> QED
    BY <1>2, <1>5, <2>1, SetPrev
<1>7. Shape(a) /\ DOMAIN a = DOMAIN ts
  BY <1>6, Zenon DEF SameBlocks
<1>8. PICK b : b = Set(a, t, "next", old)
  BY Zenon
<1>9. old \in Addresses \cup {NULL}
  BY <1>2, <1>3, Zenon
<1>10. /\ SameBlocks(a, b)
       /\ \A u \in DOMAIN ts : /\ b[u].index = a[u].index /\ b[u].prev = a[u].prev
                               /\ b[u].next = IF u = t THEN old ELSE a[u].next
  BY <1>7, <1>8, <1>9, SetNext
<1>11. PICK c : c = IF old = NULL THEN ts ELSE b
  BY Zenon
<1>12. /\ SameBlocks(ts, c)
       /\ \A u \in DOMAIN ts : /\ c[u].index = ts[u].index
                               /\ c[u].next = IF u = t THEN old ELSE ts[u].next
                               /\ c[u].prev = IF u = old THEN t ELSE ts[u].prev
  <2>1. CASE old = NULL
    <3>1. c = ts
      BY <1>11, <2>1, Zenon
    <3>2. SameBlocks(ts, ts)
      BY Zenon DEF SameBlocks
    <3> QED
      BY <1>3, <1>4, <2>1, <3>1, <3>2
  <2>2. CASE old # NULL
    <3>1. c = b
      BY <1>11, <2>2, Zenon
    <3>2. SameBlocks(ts, b)
      BY <1>6, <1>10, Zenon DEF SameBlocks
    <3> QED
      BY <1>6, <1>10, <3>1, <3>2
  <2> QED
    BY <2>1, <2>2, Zenon
<1>13. Shape(c) /\ DOMAIN c = DOMAIN ts
  BY <1>12, Zenon DEF SameBlocks
<1>14. PICK new : new = Set(c, t, "index", e)
  BY Zenon
<1>15. /\ SameBlocks(c, new)
       /\ \A u \in DOMAIN ts : /\ new[u].next = c[u].next /\ new[u].prev = c[u].prev
                               /\ new[u].index = IF u = t THEN e ELSE c[u].index
  BY <1>13, <1>14, SetIndex
<1>16. SameBlocks(ts, new)
  BY <1>12, <1>15, ZenonT(30) DEF SameBlocks
<1>17. PICK h : h = [tags |-> ts, first |-> ff]
  BY Zenon
<1>18. h.tags = ts /\ h.first = ff
  BY <1>17
<1>19. insert_tag(h, t, e) = [tags |-> new, first |-> [ff EXCEPT ![e] = t]]
  BY <1>1, <1>5, <1>8, <1>11, <1>14, <1>18, Zenon DEF insert_tag
<1>20. ASSUME NEW u \in DOMAIN ts
       PROVE  /\ new[u].index = IF u = t THEN e ELSE ts[u].index
              /\ new[u].next = IF u = t THEN ff[e] ELSE ts[u].next
              /\ new[u].prev = IF u = ff[e] THEN t ELSE ts[u].prev
  BY <1>1, <1>12, <1>15
<1>21. Inserted(ts, ff, new, t, e)
  BY <1>16, <1>20, Zenon DEF Inserted
<1> QED
  BY <1>17, <1>19, <1>21, Zenon

\* insert_tag keeps the lists in order.
LEMMA ListsInsert ==
    ASSUME NEW ts, NEW ff, Shape(ts), Lists(ts, ff), NEW t \in DOMAIN ts,
           ts[t].index = -1, NEW e \in Exponents, NEW new, Inserted(ts, ff, new, t, e)
    PROVE  Lists(new, [ff EXCEPT ![e] = t])
<1>1. PICK old : old = ff[e]
  BY Zenon
<1>2. PICK fs : fs = [ff EXCEPT ![e] = t]
  BY Zenon
<1>3. DOMAIN new = DOMAIN ts
  BY Zenon DEF Inserted, SameBlocks
<1>4. ff \in [Exponents -> DOMAIN ts \cup {NULL}]
  BY Zenon DEF Lists
<1>5. /\ fs \in [Exponents -> DOMAIN ts \cup {NULL}] /\ fs[e] = t
      /\ \A i \in Exponents : i # e => fs[i] = ff[i]
  BY <1>2, <1>4, Zenon
<1>6. t # NULL /\ e # -1 /\ \A u \in DOMAIN ts : u # NULL
  BY TagFields, ExponentFacts, Zenon
<1>7. /\ \A u \in DOMAIN ts : ts[u].next # t /\ ts[u].prev # t
      /\ \A i \in Exponents : ff[i] # t
  BY NotReached
<1>8. ts[t].next = NULL /\ ts[t].prev = NULL
  BY LinkFacts, Zenon DEF Placed
<1>9. old # NULL => old \in DOMAIN ts /\ ts[old].index = e /\ ts[old].prev = NULL
  BY <1>1, <1>4, Zenon DEF Lists
<1>10. old # t
  BY <1>1, <1>7, Zenon
<1>11. /\ new[t].index = e /\ new[t].next = old /\ new[t].prev = NULL
  BY <1>1, <1>8, <1>10 DEF Inserted
<1>12. ASSUME NEW u \in DOMAIN ts, u # t
       PROVE  /\ new[u].index = ts[u].index /\ new[u].next = ts[u].next
              /\ new[u].prev = IF u = old THEN t ELSE ts[u].prev
  BY <1>1, <1>12 DEF Inserted
<1>13. ASSUME NEW i \in Exponents, fs[i] # NULL
       PROVE  new[fs[i]].index = i /\ new[fs[i]].prev = NULL
  <2>1. CASE i = e
    BY <1>5, <1>11, <2>1, Zenon
  <2>2. CASE i # e
    <3>1. PICK y : y = ff[i]
      BY Zenon
    <3>2. fs[i] = y /\ y # NULL /\ y # t
      BY <1>5, <1>7, <1>13, <2>2, <3>1, Zenon
    <3>3. y \in DOMAIN ts /\ ts[y].index = i /\ ts[y].prev = NULL
      BY <1>4, <3>1, <3>2 DEF Lists
    <3>4. y # old
      BY <1>9, <2>2, <3>2, <3>3, Zenon
    <3> QED
      BY <1>12, <3>2, <3>3, <3>4
  <2> QED
    BY <2>1, <2>2, Zenon
<1>14. ASSUME NEW u \in DOMAIN ts PROVE Linked(new, fs, u)
  <2>1. CASE u = t
    <3>1. ASSUME old # NULL PROVE old \in DOMAIN new /\ new[old].prev = t /\ new[old].index = e
      BY <1>3, <1>9, <1>10, <1>12, <3>1
    <3> QED
      BY <1>5, <1>6, <1>11, <2>1, <3>1 DEF Linked
  <2>2. CASE u # t
    <3>1. Placed(ts, ff, u)
      BY LinkFacts, Zenon
    <3>2. PICK x, y : x = ts[u].next /\ y = ts[u].prev
      BY Zenon
    <3>3. x # t /\ y # t
      BY <1>7, <3>2, Zenon
    <3>4. new[u].index = ts[u].index /\ new[u].next = x
      BY <1>12, <2>2, <3>2, Zenon
    <3>5. ASSUME x # NULL PROVE x \in DOMAIN new /\ new[x].prev = u /\ new[x].index = ts[u].index
      <4>1. x \in DOMAIN ts /\ ts[x].prev = u /\ ts[x].index = ts[u].index
        BY <3>1, <3>2, <3>5, Zenon DEF Placed
      <4>2. x # old
        BY <1>6, <1>9, <3>5, <4>1, Zenon
      <4> QED
        BY <1>3, <1>12, <3>3, <4>1, <4>2
    <3>6. CASE u = old
      <4>1. new[u].prev = t /\ new[t].next = u /\ t \in DOMAIN new /\ new[u].index # -1
        BY <1>3, <1>6, <1>9, <1>11, <1>12, <2>2, <3>4, <3>6
      <4> QED
        BY <1>6, <3>4, <3>5, <4>1 DEF Linked
    <3>7. CASE u # old
      <4>1. new[u].prev = y
        BY <1>12, <2>2, <3>2, <3>7, Zenon
      <4>2. ASSUME y # NULL PROVE y \in DOMAIN new /\ new[y].next = u
        <5>1. y \in DOMAIN ts /\ ts[y].next = u
          BY <3>1, <3>2, <4>2, Zenon DEF Placed
        <5> QED
          BY <1>3, <1>12, <3>3, <5>1, Zenon
      <4>3. ASSUME ts[u].index # -1, y = NULL PROVE fs[ts[u].index] = u
        <5>1. ff[ts[u].index] = u
          BY <3>1, <3>2, <4>3, Zenon DEF Placed
        <5>3. ts[u].index \in Exponents
          BY <4>3, TagFields
        <5>2. ts[u].index # e
          BY <1>1, <3>7, <5>1, Zenon
        <5> QED
          BY <1>5, <5>1, <5>2, <5>3, Zenon
      <4>4. ts[u].index = -1 => x = NULL /\ y = NULL
        BY <3>1, <3>2, Zenon DEF Placed
      <4> QED
        BY <3>4, <3>5, <4>1, <4>2, <4>3, <4>4 DEF Linked
    <3> QED
      BY <3>6, <3>7, Zenon
  <2> QED
    BY <2>1, <2>2, Zenon
<1>15. PICK B, rank : Ranks(ts, B, rank)
  BY Zenon DEF Lists
<1>16. B \in Nat /\ \A u \in DOMAIN ts : rank[u] \in 0 .. B
  BY <1>15, Zenon DEF Ranks
<1>17. PICK rk : rk = [u \in DOMAIN ts |-> IF u = t THEN B + 1 ELSE rank[u]]
  BY Zenon
<1>18. B + 1 \in Nat /\ rk \in [DOMAIN new -> 0 .. (B + 1)]
  <2>1. B + 1 \in 0 .. (B + 1) /\ \A n \in 0 .. B : n \in 0 .. (B + 1) /\ n < B + 1
    BY <1>16
  <2>2. B + 1 \in Nat
    BY <1>16
  <2> QED
    BY <1>3, <1>16, <1>17, <2>1, <2>2, Zenon
<1>19. ASSUME NEW u \in DOMAIN ts, new[u].next # NULL PROVE rk[new[u].next] < rk[u]
  <2>1. CASE u = t
    <3>1. old \in DOMAIN ts /\ old # t /\ new[u].next = old
      BY <1>9, <1>10, <1>11, <1>19, <2>1, Zenon
    <3>2. rk[old] = rank[old] /\ rk[t] = B + 1
      BY <1>17, <3>1, Zenon
    <3>3. rank[old] \in 0 .. B
      BY <1>16, <3>1, Zenon
    <3>4. \A n \in 0 .. B : n < B + 1
      BY <1>16
    <3> QED
      BY <2>1, <3>1, <3>2, <3>3, <3>4, Zenon
  <2>2. CASE u # t
    <3>1. PICK x : x = ts[u].next
      BY Zenon
    <3>2. new[u].next = x /\ x # NULL /\ x # t
      BY <1>7, <1>12, <1>19, <2>2, <3>1, Zenon
    <3>3. x \in DOMAIN ts
      BY <3>1, <3>2, LinkFacts, Zenon DEF Placed
    <3>4. rank[x] < rank[u]
      BY <1>15, <3>1, <3>2, Zenon DEF Ranks
    <3> QED
      BY <1>17, <2>2, <3>2, <3>3, <3>4, Zenon
  <2> QED
    BY <2>1, <2>2, Zenon
<1>20. Ranks(new, B + 1, rk)
  BY <1>3, <1>18, <1>19, Zenon DEF Ranks
<1>21. Lists(new, fs)
  BY <1>3, <1>5, <1>13, <1>14, <1>20, Zenon DEF Lists
<1> QED
  BY <1>2, <1>21, Zenon

(***************************************************************************)
(* remove_tag takes a tag out of its list.                                 *)
(***************************************************************************)
Unlinked(ts, new, t) ==
    /\ SameBlocks(ts, new)
    /\ new[t].index = -1 /\ new[t].next = NULL /\ new[t].prev = NULL
    /\ \A u \in DOMAIN ts \ {t} :
         /\ new[u].index = ts[u].index
         /\ new[u].next = IF u = ts[t].prev THEN ts[t].next ELSE ts[u].next
         /\ new[u].prev = IF u = ts[t].next THEN ts[t].prev ELSE ts[u].prev

NewFirst(ts, ff, t) ==
    IF ff[ts[t].index] = t THEN [ff EXCEPT ![ts[t].index] = ts[t].next] ELSE ff

\* remove_tag computes what Unlinked and NewFirst say.
LEMMA RemoveFacts ==
    ASSUME NEW ts, NEW ff, Shape(ts), Lists(ts, ff), NEW t \in DOMAIN ts
    PROVE  \E new :
               /\ remove_tag([tags |-> ts, first |-> ff], t) =
                     [tags |-> new, first |-> NewFirst(ts, ff, t)]
               /\ Unlinked(ts, new, t)
<1>1. PICK x, y : x = ts[t].next /\ y = ts[t].prev
  BY Zenon
<1>2. Placed(ts, ff, t)
  BY LinkFacts, Zenon
<1>3. x \in DOMAIN ts \cup {NULL} /\ y \in DOMAIN ts \cup {NULL}
  BY <1>1, <1>2, Zenon DEF Placed
<1>4. x \in Addresses \cup {NULL} /\ y \in Addresses \cup {NULL}
  BY <1>1, TagFields
<1>5. PICK a : a = Set(ts, y, "next", x)
  BY Zenon
<1>6. /\ SameBlocks(ts, a)
      /\ \A u \in DOMAIN ts : /\ a[u].index = ts[u].index /\ a[u].prev = ts[u].prev
                              /\ a[u].next = IF u = y THEN x ELSE ts[u].next
  BY <1>3, <1>4, <1>5, SetNext
<1>7. Shape(a) /\ DOMAIN a = DOMAIN ts
  BY <1>6, Zenon DEF SameBlocks
<1>8. PICK b : b = Set(a, x, "prev", y)
  BY Zenon
<1>9. /\ SameBlocks(a, b)
      /\ \A u \in DOMAIN ts : /\ b[u].index = a[u].index /\ b[u].next = a[u].next
                              /\ b[u].prev = IF u = x THEN y ELSE a[u].prev
  BY <1>3, <1>4, <1>7, <1>8, SetPrev
<1>10. SameBlocks(ts, b)
  BY <1>6, <1>9, Zenon DEF SameBlocks
<1>11. PICK new : new = [b EXCEPT ![t].next = NULL, ![t].prev = NULL, ![t].index = -1]
  BY Zenon
<1>12. PICK D : D = DOMAIN ts
  BY Zenon
<1>13. b \in [D -> Tag] /\ D \subseteq Addresses /\ t \in D
  BY <1>10, <1>12, Zenon DEF SameBlocks, Shape
<1>14. PICK v : v = [b[t] EXCEPT !.next = NULL, !.prev = NULL, !.index = -1]
  BY Zenon
<1>15. /\ v \in Tag /\ v.next = NULL /\ v.prev = NULL /\ v.index = -1
       /\ v.size = b[t].size /\ v.real_size = b[t].real_size
       /\ v.left = b[t].left /\ v.right = b[t].right
  <2>1. b[t] \in Tag
    BY <1>13, Zenon
  <2> QED
    BY <1>14, <2>1, Zenon DEF Tag
<1>16. new = [b EXCEPT ![t] = v]
  BY <1>11, <1>13, <1>14, Zenon DEF Tag
<1>17. new \in [D -> Tag] /\ new[t] = v /\ \A u \in D : u # t => new[u] = b[u]
  BY <1>13, <1>15, <1>16, Zenon
<1>18. DOMAIN new = DOMAIN ts /\ Shape(new)
  <2>1. DOMAIN new = D
    BY <1>17, Zenon
  <2> QED
    BY <1>12, <1>13, <1>17, <2>1, Zenon DEF Shape
<1>19. ASSUME NEW u \in DOMAIN ts
       PROVE  /\ new[u].size = ts[u].size /\ new[u].real_size = ts[u].real_size
              /\ new[u].left = ts[u].left /\ new[u].right = ts[u].right
  <2>1. /\ b[u].size = ts[u].size /\ b[u].real_size = ts[u].real_size
        /\ b[u].left = ts[u].left /\ b[u].right = ts[u].right
    BY <1>10, Zenon DEF SameBlocks
  <2> QED
    BY <1>12, <1>15, <1>17, <2>1
<1>20. ASSUME NEW u \in DOMAIN ts \ {t}
       PROVE  /\ new[u].index = ts[u].index
              /\ new[u].next = IF u = y THEN x ELSE ts[u].next
              /\ new[u].prev = IF u = x THEN y ELSE ts[u].prev
  <2>1. new[u] = b[u] /\ u \in DOMAIN ts
    BY <1>12, <1>17, Zenon
  <2> QED
    BY <1>6, <1>9, <2>1
<1>21. SameBlocks(ts, new)
  BY <1>18, <1>19, Zenon DEF SameBlocks
<1>22. new[t].index = -1 /\ new[t].next = NULL /\ new[t].prev = NULL
  BY <1>15, <1>17, Zenon
<1>23. Unlinked(ts, new, t)
  BY <1>1, <1>20, <1>21, <1>22, Zenon DEF Unlinked
<1>24. remove_tag([tags |-> ts, first |-> ff], t) =
           [tags |-> new, first |-> NewFirst(ts, ff, t)]
  <2>1. PICK h : h = [tags |-> ts, first |-> ff]
    BY Zenon
  <2>2. h.tags = ts /\ h.first = ff
    BY <2>1
  <2>3. remove_tag(h, t) = [tags |-> new, first |-> NewFirst(ts, ff, t)]
    BY <1>1, <1>5, <1>8, <1>11, <2>2, Zenon DEF remove_tag, NewFirst
  <2> QED
    BY <2>1, <2>3, Zenon
<1> QED
  BY <1>23, <1>24, Zenon

\* remove_tag keeps the lists in order.
LEMMA ListsRemove ==
    ASSUME NEW ts, NEW ff, Shape(ts), Lists(ts, ff), NEW t \in DOMAIN ts,
           ts[t].index # -1, NEW new, Unlinked(ts, new, t)
    PROVE  Lists(new, NewFirst(ts, ff, t))
<1>1. PICK x, y, i : x = ts[t].next /\ y = ts[t].prev /\ i = ts[t].index
  BY Zenon
<1>2. PICK fs : fs = NewFirst(ts, ff, t)
  BY Zenon
<1>3. DOMAIN new = DOMAIN ts
  BY Zenon DEF Unlinked, SameBlocks
<1>4. /\ new[t].index = -1 /\ new[t].next = NULL /\ new[t].prev = NULL
  BY Zenon DEF Unlinked
<1>5. ASSUME NEW u \in DOMAIN ts, u # t
      PROVE  /\ new[u].index = ts[u].index
             /\ new[u].next = IF u = y THEN x ELSE ts[u].next
             /\ new[u].prev = IF u = x THEN y ELSE ts[u].prev
  BY <1>1, <1>5 DEF Unlinked
<1>6. ff \in [Exponents -> DOMAIN ts \cup {NULL}]
  BY Zenon DEF Lists
<1>7. /\ i \in Exponents /\ i # -1 /\ t # NULL /\ \A u \in DOMAIN ts : u # NULL
  BY <1>1, TagFields, ExponentFacts
<1>8. Placed(ts, ff, t)
  BY LinkFacts, Zenon
<1>9. /\ x # NULL => x \in DOMAIN ts /\ ts[x].prev = t /\ ts[x].index = i
      /\ y # NULL => y \in DOMAIN ts /\ ts[y].next = t /\ ts[y].index = i
      /\ y = NULL => ff[i] = t
  BY <1>1, <1>7, <1>8, Zenon DEF Placed
<1>10. PICK B, rank : Ranks(ts, B, rank)
  BY Zenon DEF Lists
<1>11. B \in Nat /\ \A u \in DOMAIN ts : rank[u] \in 0 .. B
  BY <1>10, Zenon DEF Ranks
<1>12. \A u \in DOMAIN ts : ts[u].next # NULL => rank[ts[u].next] < rank[u]
  BY <1>10, Zenon DEF Ranks
<1>13. x # t /\ y # t
  <2>1. ~ (rank[t] < rank[t])
    BY <1>11
  <2> QED
    BY <1>1, <1>7, <1>9, <1>12, <2>1, Zenon
<1>14. fs = IF ff[i] = t THEN [ff EXCEPT ![i] = x] ELSE ff
  BY <1>1, <1>2, Zenon DEF NewFirst
<1>15. /\ fs \in [Exponents -> DOMAIN ts \cup {NULL}]
       /\ \A k \in Exponents : k # i => fs[k] = ff[k]
       /\ ff[i] = t => fs[i] = x
       /\ ff[i] # t => fs[i] = ff[i]
  <2>1. x \in DOMAIN ts \cup {NULL}
    BY <1>9, Zenon
  <2>2. CASE ff[i] = t
    <3>1. fs = [ff EXCEPT ![i] = x]
      BY <1>14, <2>2, Zenon
    <3> QED
      BY <1>6, <1>7, <2>1, <2>2, <3>1, Zenon
  <2>3. CASE ff[i] # t
    <3>1. fs = ff
      BY <1>14, <2>3, Zenon
    <3> QED
      BY <1>6, <2>3, <3>1, Zenon
  <2> QED
    BY <2>2, <2>3, Zenon
<1>16. ASSUME NEW k \in Exponents, ff[k] # NULL
       PROVE  ff[k] \in DOMAIN ts /\ ts[ff[k]].index = k /\ ts[ff[k]].prev = NULL
  BY <1>6, <1>16 DEF Lists
<1>17. ASSUME NEW k \in Exponents, fs[k] # NULL
       PROVE  new[fs[k]].index = k /\ new[fs[k]].prev = NULL
  <2>1. CASE k = i /\ ff[i] = t
    <3>1. fs[k] = x /\ x # NULL
      BY <1>15, <1>17, <2>1, Zenon
    <3>2. y = NULL
      BY <1>1, <1>7, <1>16, <2>1, Zenon
    <3> QED
      BY <1>5, <1>9, <1>13, <2>1, <3>1, <3>2
  <2>2. CASE k # i \/ ff[i] # t
    <3>1. PICK z : z = ff[k]
      BY Zenon
    <3>2. fs[k] = z
      BY <1>15, <2>2, <3>1, Zenon
    <3>3. z \in DOMAIN ts /\ ts[z].index = k /\ ts[z].prev = NULL
      BY <1>16, <1>17, <3>1, <3>2, Zenon
    <3>4. z # t
      BY <1>1, <2>2, <3>1, <3>3, Zenon
    <3>5. z # x
      BY <1>7, <1>9, <3>3, Zenon
    <3> QED
      BY <1>5, <3>2, <3>3, <3>4, <3>5
  <2> QED
    BY <2>1, <2>2, Zenon
<1>18. ASSUME NEW u \in DOMAIN ts PROVE Linked(new, fs, u)
  <2>1. CASE u = t
    BY <1>4, <2>1 DEF Linked
  <2>2. CASE u # t
    <3>1. Placed(ts, ff, u) /\ u # NULL
      BY <1>7, LinkFacts, Zenon
    <3>2. PICK nx, pv : nx = new[u].next /\ pv = new[u].prev
      BY Zenon
    <3>3. new[u].index = ts[u].index
      BY <1>5, <2>2, Zenon
    <3>4. ASSUME nx # NULL
          PROVE  nx \in DOMAIN new /\ new[nx].prev = u /\ new[nx].index = ts[u].index
      <4>1. CASE u = y
        <5>1. nx = x /\ x \in DOMAIN ts
          BY <1>5, <1>9, <2>2, <3>2, <3>4, <4>1, Zenon
        <5>2. new[x].prev = y /\ new[x].index = ts[x].index
          BY <1>5, <1>13, <5>1, Zenon
        <5>3. ts[x].index = i /\ ts[u].index = i
          BY <1>7, <1>9, <3>1, <4>1, <5>1, Zenon
        <5> QED
          BY <1>3, <4>1, <5>1, <5>2, <5>3, Zenon
      <4>2. CASE u # y
        <5>1. nx = ts[u].next
          BY <1>5, <2>2, <3>2, <4>2, Zenon
        <5>2. nx \in DOMAIN ts /\ ts[nx].prev = u /\ ts[nx].index = ts[u].index
          BY <3>1, <3>4, <5>1, Zenon DEF Placed
        <5>3. nx # t /\ nx # x
          BY <1>1, <1>7, <1>9, <2>2, <4>2, <5>2, Zenon
        <5> QED
          BY <1>3, <1>5, <5>2, <5>3
      <4> QED
        BY <4>1, <4>2, Zenon
    <3>5. ASSUME pv # NULL PROVE pv \in DOMAIN new /\ new[pv].next = u
      <4>1. CASE u = x
        <5>1. pv = y /\ y \in DOMAIN ts
          BY <1>5, <1>9, <2>2, <3>2, <3>5, <4>1, Zenon
        <5> QED
          BY <1>3, <1>5, <1>13, <4>1, <5>1, Zenon
      <4>2. CASE u # x
        <5>1. pv = ts[u].prev
          BY <1>5, <2>2, <3>2, <4>2, Zenon
        <5>2. pv \in DOMAIN ts /\ ts[pv].next = u
          BY <3>1, <3>5, <5>1, Zenon DEF Placed
        <5>3. pv # t /\ pv # y
          BY <1>1, <1>7, <1>9, <2>2, <4>2, <5>2, Zenon
        <5> QED
          BY <1>3, <1>5, <5>2, <5>3
      <4> QED
        BY <4>1, <4>2, Zenon
    <3>6. ASSUME ts[u].index # -1, pv = NULL PROVE fs[ts[u].index] = u
      <4>1. CASE u = x
        <5>1. y = NULL /\ ts[u].index = i
          BY <1>5, <1>9, <2>2, <3>1, <3>2, <3>6, <4>1, Zenon
        <5> QED
          BY <1>9, <1>15, <4>1, <5>1, Zenon
      <4>2. CASE u # x
        <5>1. ts[u].prev = NULL
          BY <1>5, <2>2, <3>2, <3>6, <4>2, Zenon
        <5>2. ff[ts[u].index] = u
          BY <3>1, <3>6, <5>1, Zenon DEF Placed
        <5>3. ts[u].index \in Exponents
          BY <3>6, TagFields
        <5> QED
          BY <1>15, <2>2, <5>2, <5>3, Zenon
      <4> QED
        BY <4>1, <4>2, Zenon
    <3>7. ASSUME ts[u].index = -1 PROVE nx = NULL /\ pv = NULL
      <4>1. ts[u].next = NULL /\ ts[u].prev = NULL
        BY <3>1, <3>7, Zenon DEF Placed
      <4>2. u # y /\ u # x
        BY <1>7, <1>9, <3>1, <3>7, Zenon
      <4> QED
        BY <1>5, <2>2, <3>2, <4>1, <4>2
    <3> QED
      BY <3>2, <3>3, <3>4, <3>5, <3>6, <3>7 DEF Linked
  <2> QED
    BY <2>1, <2>2, Zenon
<1>19. ASSUME NEW u \in DOMAIN ts, new[u].next # NULL PROVE rank[new[u].next] < rank[u]
  <2>1. u # t
    BY <1>4, <1>19, Zenon
  <2>2. CASE u = y
    <3>1. new[u].next = x /\ x # NULL /\ x \in DOMAIN ts
      BY <1>5, <1>9, <1>19, <2>1, <2>2, Zenon
    <3>2. ts[u].next = t
      BY <1>7, <1>9, <2>2, Zenon
    <3>3. rank[x] < rank[t] /\ rank[t] < rank[u]
      BY <1>1, <1>7, <1>12, <3>1, <3>2, Zenon
    <3>4. \A a, b, c \in 0 .. B : a < b /\ b < c => a < c
      BY <1>11
    <3> QED
      BY <1>11, <3>1, <3>3, <3>4, Zenon
  <2>3. CASE u # y
    <3>1. new[u].next = ts[u].next
      BY <1>5, <2>1, <2>3, Zenon
    <3> QED
      BY <1>12, <1>19, <3>1, Zenon
  <2> QED
    BY <2>2, <2>3, Zenon
<1>20. Ranks(new, B, rank)
  <2>1. rank \in [DOMAIN ts -> 0 .. B]
    BY <1>10, Zenon DEF Ranks
  <2> QED
    BY <1>3, <1>11, <1>19, <2>1, Zenon DEF Ranks
<1>21. Lists(new, fs)
  BY <1>3, <1>15, <1>17, <1>18, <1>20, Zenon DEF Lists
<1> QED
  BY <1>2, <1>21, Zenon

-----------------------------------------------------------------------------
(***************************************************************************)
(* The heap as a whole: tags ts, list heads ff, runs rs, and the set H of  *)
(* the tags that are in no list.                                           *)
(***************************************************************************)
HeldBy(ts, H) ==
    H \subseteq DOMAIN ts /\ \A u \in DOMAIN ts : ts[u].index = -1 <=> u \in H

HeapOK(ts, ff, rs, H) ==
    Shape(ts) /\ Runs(rs) /\ Tiles(ts, rs) /\ Lists(ts, ff) /\ HeldBy(ts, H)

\* No two neighbours are free.
Merged(ts) ==
    \A t \in DOMAIN ts :
        ts[t].index # -1 /\ ts[t].right # NULL => ts[ts[t].right].index = -1

WholeFree(ts, e) == {t \in DOMAIN ts : ts[t].index = e /\ Whole(ts[t])}

\* The blocks of the tags in K are still there, as large as they were.
Keeps(ts, new, K) ==
    \A u \in K : /\ u \in DOMAIN new /\ new[u].size = ts[u].size
                 /\ new[u].real_size = ts[u].real_size

\* IsFree in terms of the index, and the neighbours of a tag.
LEMMA FreeMeansListed ==
    ASSUME NEW ts, NEW rs, Shape(ts), Tiles(ts, rs), NEW t \in DOMAIN ts
    PROVE  /\ IsFree(ts, t) <=> ts[t].index # -1
           /\ IsFree(ts, ts[t].left) <=> ts[t].left # NULL /\ ts[ts[t].left].index # -1
           /\ IsFree(ts, ts[t].right) <=> ts[t].right # NULL /\ ts[ts[t].right].index # -1
           /\ ts[t].left # NULL => ts[t].left \in DOMAIN ts /\ ts[ts[t].left].right = t
           /\ ts[t].right # NULL => ts[t].right \in DOMAIN ts /\ ts[ts[t].right].left = t
<1>1. \A i \in Exponents \cup {-1} : i >= 0 <=> i # -1
  BY ExponentFacts
<1>2. ASSUME NEW u \in DOMAIN ts PROVE u # NULL /\ (ts[u].index >= 0 <=> ts[u].index # -1)
  BY <1>1, TagFields, Zenon
<1>3. Neighbours(ts, t)
  BY TileFacts, Zenon
<1>4. ASSUME ts[t].left # NULL PROVE ts[t].left \in DOMAIN ts /\ ts[ts[t].left].right = t
  BY <1>3, <1>4, Zenon DEF Neighbours
<1>5. ASSUME ts[t].right # NULL PROVE ts[t].right \in DOMAIN ts /\ ts[ts[t].right].left = t
  BY <1>3, <1>5, Zenon DEF Neighbours
<1>6. IsFree(ts, t) <=> ts[t].index # -1
  BY <1>2, Zenon DEF IsFree
<1>7. IsFree(ts, ts[t].left) <=> ts[t].left # NULL /\ ts[ts[t].left].index # -1
  BY <1>2, <1>4, Zenon DEF IsFree
<1>8. IsFree(ts, ts[t].right) <=> ts[t].right # NULL /\ ts[ts[t].right].index # -1
  BY <1>2, <1>5, Zenon DEF IsFree
<1> QED
  BY <1>4, <1>5, <1>6, <1>7, <1>8, Zenon

\* remove_tag on a sound heap.
TakenOut(ts, new, t) ==
    /\ SameBlocks(ts, new) /\ new[t].index = -1
    /\ \A u \in DOMAIN ts \ {t} : new[u].index = ts[u].index
    /\ \A e \in Exponents : WholeFree(new, e) = WholeFree(ts, e) \ {t}

\* remove_tag on a sound heap: tag t belongs to no list any more.
LEMMA RemoveOK ==
    ASSUME NEW ts, NEW ff, NEW rs, NEW H, HeapOK(ts, ff, rs, H),
           NEW t \in DOMAIN ts, ts[t].index # -1
    PROVE  \E new, fs :
               /\ remove_tag([tags |-> ts, first |-> ff], t) = [tags |-> new, first |-> fs]
               /\ HeapOK(new, fs, rs, H \cup {t}) /\ TakenOut(ts, new, t)
<1>1. /\ Shape(ts) /\ Runs(rs) /\ Tiles(ts, rs) /\ Lists(ts, ff) /\ HeldBy(ts, H)
  BY Zenon DEF HeapOK
<1>2. PICK new : /\ remove_tag([tags |-> ts, first |-> ff], t) =
                       [tags |-> new, first |-> NewFirst(ts, ff, t)]
                 /\ Unlinked(ts, new, t)
  BY <1>1, RemoveFacts, Zenon
<1>3. PICK fs : fs = NewFirst(ts, ff, t)
  BY Zenon
<1>4. Lists(new, fs)
  BY <1>1, <1>2, <1>3, ListsRemove, Zenon
<1>5. /\ SameBlocks(ts, new) /\ new[t].index = -1
      /\ \A u \in DOMAIN ts \ {t} : new[u].index = ts[u].index
  BY <1>2, Zenon DEF Unlinked
<1>6. /\ DOMAIN new = DOMAIN ts /\ Shape(new)
      /\ \A u \in DOMAIN ts : /\ new[u].real_size = ts[u].real_size
                              /\ new[u].left = ts[u].left /\ new[u].right = ts[u].right
  BY <1>5, Zenon DEF SameBlocks
<1>7. Tiles(new, rs)
  BY <1>1, <1>6, TilesKept, Zenon
<1>8. HeldBy(new, H \cup {t})
  BY <1>1, <1>5, <1>6, Zenon DEF HeldBy
<1>9. ASSUME NEW e \in Exponents PROVE WholeFree(new, e) = WholeFree(ts, e) \ {t}
  <2>1. e # -1
    BY ExponentFacts, Zenon
  <2>2. ASSUME NEW u \in DOMAIN ts PROVE Whole(new[u]) <=> Whole(ts[u])
    BY <1>6, Zenon DEF Whole
  <2> QED
    BY <1>5, <1>6, <2>1, <2>2, Zenon DEF WholeFree
<1>10. HeapOK(new, fs, rs, H \cup {t})
  BY <1>1, <1>4, <1>6, <1>7, <1>8, Zenon DEF HeapOK
<1>11. TakenOut(ts, new, t)
  BY <1>5, <1>9, Zenon DEF TakenOut
<1> QED
  BY <1>2, <1>3, <1>10, <1>11, Zenon

\* Tag t went into list e: K is what callers still hold.
PutBack(ts, new, fs, rs, K, t, e) ==
    /\ HeapOK(new, fs, rs, K) /\ Merged(new) /\ SameBlocks(ts, new)
    /\ \A k \in Exponents :
          WholeFree(new, k) = WholeFree(ts, k) \cup {u \in {t} : k = e /\ Whole(ts[u])}

\* insert_tag on a sound heap.
LEMMA InsertOK ==
    ASSUME NEW ts, NEW ff, NEW rs, NEW H, HeapOK(ts, ff, rs, H), Merged(ts),
           NEW t \in H, NEW e \in Exponents,
           ~ IsFree(ts, ts[t].left), ~ IsFree(ts, ts[t].right)
    PROVE  \E new, fs :
               /\ insert_tag([tags |-> ts, first |-> ff], t, e) = [tags |-> new, first |-> fs]
               /\ PutBack(ts, new, fs, rs, H \ {t}, t, e)
<1>1. /\ Shape(ts) /\ Runs(rs) /\ Tiles(ts, rs) /\ Lists(ts, ff) /\ HeldBy(ts, H)
  BY Zenon DEF HeapOK
<1>2. t \in DOMAIN ts /\ ts[t].index = -1
  BY <1>1, Zenon DEF HeldBy
<1>3. PICK new : /\ insert_tag([tags |-> ts, first |-> ff], t, e) =
                       [tags |-> new, first |-> [ff EXCEPT ![e] = t]]
                 /\ Inserted(ts, ff, new, t, e)
  BY <1>1, <1>2, InsertFacts, Zenon
<1>4. PICK fs : fs = [ff EXCEPT ![e] = t]
  BY Zenon
<1>5. Lists(new, fs)
  BY <1>1, <1>2, <1>3, <1>4, ListsInsert, Zenon
<1>6. /\ DOMAIN new = DOMAIN ts /\ Shape(new)
      /\ \A u \in DOMAIN ts : /\ new[u].real_size = ts[u].real_size
                              /\ new[u].left = ts[u].left /\ new[u].right = ts[u].right
  BY <1>3, Zenon DEF Inserted, SameBlocks
<1>7. Tiles(new, rs)
  BY <1>1, <1>6, TilesKept, Zenon
<1>8. new[t].index = e /\ e # -1 /\ \A u \in DOMAIN ts : u # t => new[u].index = ts[u].index
  BY <1>2, <1>3, ExponentFacts DEF Inserted
<1>9. HeldBy(new, H \ {t})
  BY <1>1, <1>6, <1>8, Zenon DEF HeldBy
<1>10. ASSUME NEW u \in DOMAIN new, new[u].index # -1, new[u].right # NULL
       PROVE  new[new[u].right].index = -1
  <2>1. PICK v : v = ts[u].right
    BY Zenon
  <2>2. new[u].right = v /\ v # NULL /\ v \in DOMAIN ts /\ ts[v].left = u
    BY <1>1, <1>6, <1>10, <2>1, FreeMeansListed
  <2>3. CASE u = t
    <3>1. v # t
      <4>1. ts[t].real_size > 0 /\ ts[t].real_size \in Nat /\ t \in Nat
        BY <1>1, <1>2, TileFacts, TagFields, Zenon
      <4>2. v = t + ts[t].real_size
        <5>1. Neighbours(ts, t)
          BY <1>1, <1>2, TileFacts, Zenon
        <5> QED
          BY <2>1, <2>2, <2>3, <5>1, Zenon DEF Neighbours
      <4> QED
        BY <4>1, <4>2
    <3>2. ts[v].index = -1
      BY <1>1, <1>2, <2>1, <2>2, <2>3, FreeMeansListed
    <3> QED
      BY <1>8, <2>2, <3>1, <3>2, Zenon
  <2>4. CASE u # t
    <3>1. ts[u].index # -1
      BY <1>6, <1>8, <1>10, <2>4, Zenon
    <3>2. ts[v].index = -1
      BY <1>6, <2>1, <2>2, <3>1, Zenon DEF Merged
    <3>3. v # t
      <4>1. SUFFICES ASSUME v = t PROVE FALSE
        BY Zenon
      <4>2. ts[t].left = u /\ u # NULL
        BY <1>1, <1>6, <2>2, <4>1, TagFields, Zenon
      <4> QED
        BY <1>1, <1>2, <3>1, <4>2, FreeMeansListed, Zenon
    <3> QED
      BY <1>8, <2>2, <3>2, <3>3, Zenon
  <2> QED
    BY <2>3, <2>4, Zenon
<1>11. Merged(new)
  BY <1>10, Zenon DEF Merged
<1>12. ASSUME NEW k \in Exponents
       PROVE  WholeFree(new, k) = WholeFree(ts, k) \cup {u \in {t} : k = e /\ Whole(ts[u])}
  <2>1. ASSUME NEW u \in DOMAIN ts PROVE Whole(new[u]) <=> Whole(ts[u])
    BY <1>6, Zenon DEF Whole
  <2>2. k # -1
    BY ExponentFacts, Zenon
  <2>3. t \notin WholeFree(ts, k)
    BY <1>2, <2>2, Zenon DEF WholeFree
  <2>4. ASSUME NEW u
        PROVE  u \in WholeFree(new, k) <=>
                  u \in WholeFree(ts, k) \/ (u = t /\ k = e /\ Whole(ts[t]))
    <3>1. CASE u = t
      BY <1>2, <1>6, <1>8, <2>1, <2>3, <3>1, Zenon DEF WholeFree
    <3>2. CASE u # t
      BY <1>6, <1>8, <2>1, <3>2, Zenon DEF WholeFree
    <3> QED
      BY <3>1, <3>2, Zenon
  <2> QED
    BY <2>4
<1>13. HeapOK(new, fs, rs, H \ {t})
  BY <1>1, <1>5, <1>6, <1>7, <1>9, Zenon DEF HeapOK
<1>14. SameBlocks(ts, new)
  BY <1>3, <1>4, Zenon DEF Inserted
<1>15. PutBack(ts, new, fs, rs, H \ {t}, t, e)
  BY <1>11, <1>12, <1>13, <1>14, Zenon DEF PutBack
<1> QED
  BY <1>3, <1>4, <1>15, Zenon

\* join on a sound heap: b is in no list.
LEMMA JoinOK ==
    ASSUME NEW ts, NEW ff, NEW rs, NEW H, HeapOK(ts, ff, rs, H),
           NEW a \in DOMAIN ts, NEW b \in H, ts[a].right = b
    PROVE  LET new == join(ts, a, b) IN
           /\ HeapOK(new, ff, rs, H \ {b}) /\ Joined(ts, new, a, b)
           /\ \A e \in Exponents : /\ WholeFree(new, e) \ {a} = WholeFree(ts, e)
                                   /\ a \notin WholeFree(ts, e)
<1>1. /\ Shape(ts) /\ Runs(rs) /\ Tiles(ts, rs) /\ Lists(ts, ff) /\ HeldBy(ts, H)
  BY Zenon DEF HeapOK
<1>2. b \in DOMAIN ts /\ ts[b].index = -1 /\ b # NULL
  BY <1>1, TagFields, Zenon DEF HeldBy
<1>3. PICK new : new = join(ts, a, b)
  BY Zenon
<1>4. Joined(ts, new, a, b)
  BY <1>1, <1>2, <1>3, JoinFacts, Zenon
<1>5. Tiles(new, rs)
  BY <1>1, <1>2, <1>3, TilesJoin, Zenon
<1>6. /\ DOMAIN new = DOMAIN ts \ {b} /\ Shape(new)
      /\ \A u \in DOMAIN new : /\ new[u].index = ts[u].index /\ new[u].next = ts[u].next
                               /\ new[u].prev = ts[u].prev
  BY <1>4, Zenon DEF Joined
<1>7. Lists(new, ff)
  BY <1>1, <1>2, <1>6, ListsKept, Zenon
<1>8. HeldBy(new, H \ {b})
  BY <1>1, <1>6, Zenon DEF HeldBy
<1>9. HeapOK(new, ff, rs, H \ {b})
  BY <1>1, <1>5, <1>6, <1>7, <1>8, Zenon DEF HeapOK
<1>10. ASSUME NEW e \in Exponents
       PROVE  WholeFree(new, e) \ {a} = WholeFree(ts, e) /\ a \notin WholeFree(ts, e)
  <2>1. e # -1
    BY ExponentFacts, Zenon
  <2>2. a \notin WholeFree(ts, e)
    BY <1>2, Zenon DEF WholeFree, Whole
  <2>3. b \notin WholeFree(ts, e)
    BY <1>2, <2>1, Zenon DEF WholeFree
  <2>4. ASSUME NEW u \in DOMAIN new, u # a PROVE Whole(new[u]) <=> Whole(ts[u])
    <3>1. /\ new[u].right = ts[u].right
          /\ new[u].left = IF u = ts[b].right THEN a ELSE ts[u].left
      BY <1>4, <2>4, Zenon DEF Joined
    <3>2. CASE u = ts[b].right
      <4>1. u # NULL /\ a # NULL
        BY <1>1, <1>6, TagFields, Zenon
      <4>2. ts[u].left = b
        BY <1>1, <1>2, <3>2, <4>1, FreeMeansListed, Zenon
      <4> QED
        BY <1>2, <3>1, <3>2, <4>1, <4>2, Zenon DEF Whole
    <3>3. CASE u # ts[b].right
      BY <3>1, <3>3, Zenon DEF Whole
    <3> QED
      BY <3>2, <3>3, Zenon
  <2>5. ASSUME NEW u PROVE u \in WholeFree(new, e) /\ u # a <=> u \in WholeFree(ts, e)
    <3>1. CASE u = a \/ u = b
      BY <1>6, <2>2, <2>3, <3>1, Zenon DEF WholeFree
    <3>2. CASE u # a /\ u # b
      BY <1>6, <2>4, <3>2, Zenon DEF WholeFree
    <3> QED
      BY <3>1, <3>2, Zenon
  <2> QED
    BY <2>2, <2>5, Zenon
<1> QED
  BY <1>3, <1>4, <1>9, <1>10, Zenon

(***************************************************************************)
(* While free merges: t is the merged tag, in no list and with no free     *)
(* left neighbour; the tags in K, which callers hold, are untouched.       *)
(***************************************************************************)
LeftMerged(ts, new, fs, rs, K, t) ==
    /\ HeapOK(new, fs, rs, K \cup {t}) /\ Merged(new) /\ t \notin K
    /\ ~ IsFree(new, new[t].left)
    /\ Keeps(ts, new, K)
    /\ \A e \in Exponents : WholeFree(new, e) = WholeFree(ts, e)

\* melt_left on a sound heap: tag t goes into its free left neighbour.
LEMMA MeltOK ==
    ASSUME NEW ts, NEW ff, NEW rs, NEW H, HeapOK(ts, ff, rs, H), Merged(ts),
           NEW t \in H, NEW a, a = ts[t].left, IsFree(ts, a)
    PROVE  \E new, fs :
               /\ melt_left([tags |-> ts, first |-> ff], t) = [tags |-> new, first |-> fs]
               /\ LeftMerged(ts, new, fs, rs, H \ {t}, a)
<1>1. Shape(ts) /\ Tiles(ts, rs) /\ HeldBy(ts, H)
  BY Zenon DEF HeapOK
<1>2. t \in DOMAIN ts /\ ts[t].index = -1 /\ t # NULL
  BY <1>1, TagFields, Zenon DEF HeldBy
<1>3. a # NULL /\ a \in DOMAIN ts /\ ts[a].right = t /\ ts[a].index # -1 /\ a \notin H /\ a # t
  <2>1. a # NULL /\ a \in DOMAIN ts /\ ts[a].right = t /\ ts[a].index # -1
    BY <1>1, <1>2, FreeMeansListed
  <2> QED
    BY <1>1, <1>2, <2>1, Zenon DEF HeldBy
<1>4. PICK mid : mid = join(ts, a, t)
  BY Zenon
<1>5. /\ HeapOK(mid, ff, rs, H \ {t}) /\ Joined(ts, mid, a, t)
      /\ \A e \in Exponents : /\ WholeFree(mid, e) \ {a} = WholeFree(ts, e)
                              /\ a \notin WholeFree(ts, e)
  BY <1>3, <1>4, JoinOK
<1>6. /\ DOMAIN mid = DOMAIN ts \ {t} /\ a \in DOMAIN mid
      /\ mid[a].left = ts[a].left /\ mid[a].right = ts[t].right
  BY <1>5, Zenon DEF Joined
<1>7. ASSUME NEW u \in DOMAIN mid
      PROVE  /\ mid[u].size = ts[u].size /\ mid[u].index = ts[u].index
             /\ u # a => mid[u].real_size = ts[u].real_size /\ mid[u].right = ts[u].right
  BY <1>5, Zenon DEF Joined
<1>8. mid[a].index # -1
  BY <1>3, <1>6, <1>7, Zenon
<1>9. PICK new, fs :
          /\ remove_tag([tags |-> mid, first |-> ff], a) = [tags |-> new, first |-> fs]
          /\ HeapOK(new, fs, rs, (H \ {t}) \cup {a}) /\ SameBlocks(mid, new)
          /\ new[a].index = -1
          /\ \A u \in DOMAIN mid \ {a} : new[u].index = mid[u].index
          /\ \A e \in Exponents : WholeFree(new, e) = WholeFree(mid, e) \ {a}
  <2>1. \E new, fs :
            /\ remove_tag([tags |-> mid, first |-> ff], a) = [tags |-> new, first |-> fs]
            /\ HeapOK(new, fs, rs, (H \ {t}) \cup {a}) /\ TakenOut(mid, new, a)
    BY <1>5, <1>6, <1>8, RemoveOK, Zenon
  <2> QED
    BY <2>1, Zenon DEF TakenOut
<1>10. /\ DOMAIN new = DOMAIN ts \ {t}
       /\ \A u \in DOMAIN mid : /\ new[u].size = mid[u].size /\ new[u].left = mid[u].left
                                /\ new[u].real_size = mid[u].real_size
                                /\ new[u].right = mid[u].right
  BY <1>6, <1>9, Zenon DEF SameBlocks
<1>11. melt_left([tags |-> ts, first |-> ff], t) = [tags |-> new, first |-> fs]
  <2>1. PICK h : h = [tags |-> ts, first |-> ff]
    BY Zenon
  <2>2. h.tags = ts /\ [h EXCEPT !.tags = mid] = [tags |-> mid, first |-> ff]
    BY <2>1
  <2>3. melt_left(h, t) = remove_tag([h EXCEPT !.tags = mid], a)
    BY <1>4, <2>2, Zenon DEF melt_left
  <2> QED
    BY <1>9, <2>1, <2>2, <2>3, Zenon
<1>12. ASSUME NEW u \in DOMAIN new, new[u].index # -1, new[u].right # NULL
       PROVE  new[new[u].right].index = -1
  <2>1. u # a /\ u \in DOMAIN ts /\ u \in DOMAIN mid /\ u # t
    BY <1>6, <1>9, <1>10, <1>12, Zenon
  <2>2. ts[u].index # -1 /\ new[u].right = ts[u].right
    BY <1>7, <1>9, <1>10, <1>12, <2>1, Zenon
  <2>3. PICK v : v = ts[u].right
    BY Zenon
  <2>4. v \in DOMAIN ts /\ ts[v].left = u /\ ts[v].index = -1
    <3>1. ts[v].index = -1
      BY <1>12, <2>1, <2>2, <2>3, Zenon DEF Merged
    <3> QED
      BY <1>1, <1>12, <2>1, <2>2, <2>3, <3>1, FreeMeansListed
  <2>5. v # t /\ v # a
    BY <1>3, <2>1, <2>4, Zenon
  <2>6. v \in DOMAIN mid
    BY <1>6, <2>4, <2>5, Zenon
  <2>7. new[v].index = ts[v].index
    BY <1>7, <1>9, <2>5, <2>6, Zenon
  <2> QED
    BY <2>2, <2>3, <2>4, <2>7, Zenon
<1>13. Merged(new)
  BY <1>12, Zenon DEF Merged
<1>14. ~ IsFree(new, new[a].left)
  <2>1. PICK v : v = ts[a].left
    BY Zenon
  <2>2. new[a].left = v
    BY <1>6, <1>10, <2>1, Zenon
  <2>3. CASE v = NULL
    BY <2>2, <2>3, Zenon DEF IsFree
  <2>4. CASE v # NULL
    <3>1. v \in DOMAIN ts /\ ts[v].right = a
      BY <1>1, <1>3, <2>1, <2>4, FreeMeansListed, Zenon
    <3>2. ts[v].index = -1
      BY <1>3, <3>1, Zenon DEF Merged
    <3>3. v # t /\ v # a
      BY <1>1, <1>2, <1>3, <3>1, <3>2, TagFields, NeighbourFacts
    <3>4. v \in DOMAIN mid /\ new[v].index = -1
      BY <1>6, <1>7, <1>9, <3>1, <3>2, <3>3, Zenon
    <3>5. ~ (-1 >= 0)
      OBVIOUS
    <3> QED
      BY <2>2, <3>4, <3>5, Zenon DEF IsFree
  <2> QED
    BY <2>3, <2>4, Zenon
<1>15. Keeps(ts, new, H \ {t})
  <2>1. ASSUME NEW u \in H \ {t}
        PROVE  /\ u \in DOMAIN new /\ new[u].size = ts[u].size
               /\ new[u].real_size = ts[u].real_size
    <3>1. u \in DOMAIN mid /\ u # a
      BY <1>1, <1>3, <1>6, Zenon DEF HeldBy
    <3> QED
      BY <1>6, <1>7, <1>10, <3>1, Zenon
  <2> QED
    BY <2>1, Zenon DEF Keeps
<1>16. \A e \in Exponents : WholeFree(new, e) = WholeFree(ts, e)
  BY <1>5, <1>9, Zenon
<1>17. LeftMerged(ts, new, fs, rs, H \ {t}, a)
  BY <1>3, <1>9, <1>13, <1>14, <1>15, <1>16, Zenon DEF LeftMerged
<1> QED
  BY <1>11, <1>17, Zenon

\* absorb_right on a sound heap: tag t takes in its free right neighbour.
LEMMA AbsorbOK ==
    ASSUME NEW ts, NEW ff, NEW rs, NEW H, HeapOK(ts, ff, rs, H), Merged(ts),
           NEW t \in H, IsFree(ts, ts[t].right), ~ IsFree(ts, ts[t].left)
    PROVE  \E new, fs :
               /\ absorb_right([tags |-> ts, first |-> ff], t) = [tags |-> new, first |-> fs]
               /\ LeftMerged(ts, new, fs, rs, H \ {t}, t) /\ ~ IsFree(new, new[t].right)
<1>1. Shape(ts) /\ Tiles(ts, rs) /\ HeldBy(ts, H)
  BY Zenon DEF HeapOK
<1>2. t \in DOMAIN ts /\ ts[t].index = -1 /\ t # NULL
  BY <1>1, TagFields, Zenon DEF HeldBy
<1>3. PICK b : b = ts[t].right
  BY Zenon
<1>4. /\ b # NULL /\ b \in DOMAIN ts /\ ts[b].left = t /\ ts[b].index # -1
      /\ b \notin H /\ b # t
  <2>1. b # NULL /\ b \in DOMAIN ts /\ ts[b].left = t /\ ts[b].index # -1
    BY <1>1, <1>2, <1>3, FreeMeansListed
  <2> QED
    BY <1>1, <1>2, <2>1, Zenon DEF HeldBy
<1>5. PICK mid, fs :
          /\ remove_tag([tags |-> ts, first |-> ff], b) = [tags |-> mid, first |-> fs]
          /\ HeapOK(mid, fs, rs, H \cup {b}) /\ SameBlocks(ts, mid)
          /\ mid[b].index = -1
          /\ \A u \in DOMAIN ts \ {b} : mid[u].index = ts[u].index
          /\ \A e \in Exponents : WholeFree(mid, e) = WholeFree(ts, e) \ {b}
  <2>1. \E mid, fs :
            /\ remove_tag([tags |-> ts, first |-> ff], b) = [tags |-> mid, first |-> fs]
            /\ HeapOK(mid, fs, rs, H \cup {b}) /\ TakenOut(ts, mid, b)
    BY <1>4, RemoveOK, Zenon
  <2> QED
    BY <2>1, Zenon DEF TakenOut
<1>6. /\ DOMAIN mid = DOMAIN ts
      /\ \A u \in DOMAIN ts : /\ mid[u].size = ts[u].size /\ mid[u].left = ts[u].left
                              /\ mid[u].real_size = ts[u].real_size
                              /\ mid[u].right = ts[u].right
  BY <1>5, Zenon DEF SameBlocks
<1>7. PICK new : new = join(mid, t, b)
  BY Zenon
<1>8. /\ HeapOK(new, fs, rs, (H \cup {b}) \ {b}) /\ Joined(mid, new, t, b)
      /\ \A e \in Exponents : /\ WholeFree(new, e) \ {t} = WholeFree(mid, e)
                              /\ t \notin WholeFree(mid, e)
  <2>1. t \in DOMAIN mid /\ b \in H \cup {b} /\ mid[t].right = b
    BY <1>2, <1>3, <1>6, Zenon
  <2> QED
    BY <1>5, <1>7, <2>1, JoinOK
<1>9. (H \cup {b}) \ {b} = H
  BY <1>4, Zenon
<1>10. HeapOK(new, fs, rs, H)
  BY <1>8, <1>9, Zenon
<1>11. absorb_right([tags |-> ts, first |-> ff], t) = [tags |-> new, first |-> fs]
  <2>1. PICK h : h = [tags |-> ts, first |-> ff]
    BY Zenon
  <2>2. h.tags = ts
    BY <2>1
  <2>3. PICK cut : cut = [tags |-> mid, first |-> fs]
    BY Zenon
  <2>4. cut.tags = mid /\ [cut EXCEPT !.tags = new] = [tags |-> new, first |-> fs]
    BY <2>3
  <2>5. remove_tag(h, b) = cut
    BY <1>5, <2>1, <2>3, Zenon
  <2>6. absorb_right(h, t) = [cut EXCEPT !.tags = new]
    BY <1>3, <1>7, <2>2, <2>4, <2>5, Zenon DEF absorb_right
  <2> QED
    BY <2>1, <2>4, <2>6, Zenon
<1>12. /\ DOMAIN new = DOMAIN ts \ {b} /\ t \in DOMAIN new
       /\ new[t].right = ts[b].right /\ new[t].left = ts[t].left
  <2>1. /\ DOMAIN new = DOMAIN mid \ {b} /\ t \in DOMAIN new
        /\ new[t].right = mid[b].right /\ new[t].left = mid[t].left
    BY <1>8, Zenon DEF Joined
  <2> QED
    BY <1>2, <1>4, <1>6, <2>1, Zenon
<1>13. ASSUME NEW u \in DOMAIN new
       PROVE  /\ u \in DOMAIN ts /\ u # b
              /\ new[u].size = ts[u].size /\ new[u].index = ts[u].index
              /\ u # t => new[u].real_size = ts[u].real_size /\ new[u].right = ts[u].right
  <2>1. u \in DOMAIN ts /\ u # b
    BY <1>12, Zenon
  <2>2. /\ new[u].size = mid[u].size /\ new[u].index = mid[u].index
        /\ u # t => new[u].real_size = mid[u].real_size /\ new[u].right = mid[u].right
    BY <1>8, Zenon DEF Joined
  <2> QED
    BY <1>5, <1>6, <2>1, <2>2, Zenon
<1>14. ASSUME NEW u \in DOMAIN new, new[u].index # -1, new[u].right # NULL
       PROVE  new[new[u].right].index = -1
  <2>1. u # t /\ u \in DOMAIN ts /\ u # b
    BY <1>2, <1>13, <1>14, Zenon
  <2>2. ts[u].index # -1 /\ new[u].right = ts[u].right
    BY <1>13, <1>14, <2>1, Zenon
  <2>3. PICK v : v = ts[u].right
    BY Zenon
  <2>4. v \in DOMAIN ts /\ ts[v].left = u /\ ts[v].index = -1
    <3>1. ts[v].index = -1
      BY <1>14, <2>1, <2>2, <2>3, Zenon DEF Merged
    <3> QED
      BY <1>1, <1>14, <2>1, <2>2, <2>3, <3>1, FreeMeansListed, Zenon
  <2>5. v # b
    BY <1>4, <2>4, Zenon
  <2> QED
    BY <1>12, <1>13, <2>2, <2>3, <2>4, <2>5, Zenon
<1>15. Merged(new)
  BY <1>14, Zenon DEF Merged
<1>16. ~ (-1 >= 0)
  OBVIOUS
<1>17. ~ IsFree(new, new[t].right)
  <2>1. PICK v : v = ts[b].right
    BY Zenon
  <2>2. CASE v = NULL
    BY <1>12, <2>1, <2>2, Zenon DEF IsFree
  <2>3. CASE v # NULL
    <3>1. v \in DOMAIN ts /\ ts[v].left = b /\ ts[v].index = -1
      <4>1. ts[v].index = -1
        BY <1>4, <2>1, <2>3, Zenon DEF Merged
      <4> QED
        BY <1>1, <1>4, <2>1, <2>3, <4>1, FreeMeansListed
    <3>2. v # b
      BY <1>4, <3>1, Zenon
    <3>3. new[v].index = -1
      BY <1>12, <1>13, <3>1, <3>2, Zenon
    <3> QED
      BY <1>12, <1>16, <2>1, <3>3, Zenon DEF IsFree
  <2> QED
    BY <2>2, <2>3, Zenon
<1>18. ~ IsFree(new, new[t].left)
  <2>1. PICK v : v = ts[t].left
    BY Zenon
  <2>2. CASE v = NULL
    BY <1>12, <2>1, <2>2, Zenon DEF IsFree
  <2>3. CASE v # NULL
    <3>1. v \in DOMAIN ts /\ ts[v].right = t /\ ts[v].index = -1
      BY <1>1, <1>2, <2>1, <2>3, FreeMeansListed
    <3>2. v # b
      BY <1>4, <3>1, Zenon
    <3>3. new[v].index = -1
      BY <1>12, <1>13, <3>1, <3>2, Zenon
    <3> QED
      BY <1>12, <1>16, <2>1, <3>3, Zenon DEF IsFree
  <2> QED
    BY <2>2, <2>3, Zenon
<1>19. Keeps(ts, new, H \ {t})
  <2>1. ASSUME NEW u \in H \ {t}
        PROVE  /\ u \in DOMAIN new /\ new[u].size = ts[u].size
               /\ new[u].real_size = ts[u].real_size
    <3>1. u \in DOMAIN new /\ u # t
      BY <1>1, <1>4, <1>12, Zenon DEF HeldBy
    <3> QED
      BY <1>13, <3>1, Zenon
  <2> QED
    BY <2>1, Zenon DEF Keeps
<1>20. ASSUME NEW e \in Exponents PROVE WholeFree(new, e) = WholeFree(ts, e)
  <2>1. b \notin WholeFree(ts, e)
    BY <1>2, <1>4, Zenon DEF WholeFree, Whole
  <2>2. t \notin WholeFree(new, e)
    <3>1. e # -1
      BY ExponentFacts, Zenon
    <3> QED
      BY <1>2, <1>12, <1>13, <3>1, Zenon DEF WholeFree
  <2> QED
    <3>1. WholeFree(new, e) = WholeFree(mid, e)
      BY <1>8, <2>2
    <3>2. WholeFree(mid, e) = WholeFree(ts, e)
      BY <1>5, <2>1
    <3> QED
      BY <3>1, <3>2, Zenon
<1>21. (H \ {t}) \cup {t} = H
  BY Zenon
<1>22. LeftMerged(ts, new, fs, rs, H \ {t}, t)
  BY <1>10, <1>11, <1>15, <1>17, <1>18, <1>19, <1>20, <1>21, Zenon DEF LeftMerged
<1> QED
  BY <1>10, <1>11, <1>15, <1>17, <1>18, <1>19, <1>22, Zenon

(***************************************************************************)
(* The loops of free.  No two neighbours are free, so each loop merges at  *)
(* most one neighbour, and the bound MaxMerges is never what ends it.      *)
(***************************************************************************)
LeftStep(now) ==
    LET left == now.heap.tags[now.tag].left
    IN  IF IsFree(now.heap.tags, left)
        THEN [heap |-> melt_left(now.heap, now.tag), tag |-> left]
        ELSE now

RightStep(now, t) ==
    IF IsFree(now.tags, now.tags[t].right) THEN absorb_right(now, t) ELSE now

\* The loop to the left when it merges at most once.
LEMMA MeltLeftValue ==
    ASSUME NEW h, NEW t, NEW a, a = [heap |-> h, tag |-> t],
           NEW b, b = LeftStep(a), LeftStep(b) = b
    PROVE  MeltLeft(h, t) = b
<1> DEFINE Is(f) == f = [n \in 0 .. MaxMerges |-> IF n = 0 THEN [heap |-> h, tag |-> t]
                                                  ELSE LeftStep(f[n - 1])]
<1>1. \A n \in 0 .. MaxMerges : n = 0 \/ (n - 1 \in 0 .. MaxMerges /\ n # 0)
  BY DEF MaxMerges
<1>2. \E f : Is(f)
  <2>1. PICK f : f = [n \in 0 .. MaxMerges |-> IF n = 0 THEN a ELSE b]
    BY Zenon
  <2>2. ASSUME NEW n \in 0 .. MaxMerges
        PROVE  f[n] = IF n = 0 THEN [heap |-> h, tag |-> t] ELSE LeftStep(f[n - 1])
    <3>1. CASE n = 0
      BY <2>1, <3>1, Zenon
    <3>2. CASE n # 0
      <4>1. f[n] = b /\ (f[n - 1] = a \/ f[n - 1] = b)
        BY <1>1, <2>1, <3>2, Zenon
      <4> QED
        BY <3>2, <4>1, Zenon
    <3> QED
      BY <3>1, <3>2, Zenon
  <2>3. f = [n \in 0 .. MaxMerges |-> f[n]]
    BY <2>1, Zenon
  <2>4. Is(f)
    BY <2>2, <2>3, Zenon
  <2> QED
    BY <2>4, Zenon
<1>3. \E f : Is(f) /\ MeltLeft(h, t) = f[MaxMerges]
  BY <1>2, Zenon DEF MeltLeft, LeftStep
<1>4. PICK f : Is(f) /\ MeltLeft(h, t) = f[MaxMerges]
  BY <1>3, Zenon
<1>5. \A n \in 0 .. MaxMerges : f[n] = IF n = 0 THEN a ELSE LeftStep(f[n - 1])
  BY <1>4, Zenon
<1>6. /\ 0 \in 0 .. MaxMerges /\ 1 \in 0 .. MaxMerges /\ 2 \in 0 .. MaxMerges
      /\ 3 \in 0 .. MaxMerges /\ 1 - 1 = 0 /\ 2 - 1 = 1 /\ 3 - 1 = 2
      /\ 1 # 0 /\ 2 # 0 /\ 3 # 0 /\ MaxMerges = 3
  BY DEF MaxMerges
<1> HIDE DEF Is
<1>7. f[0] = a
  BY <1>5, <1>6, Zenon
<1>8. f[1] = b
  BY <1>5, <1>6, <1>7, Zenon
<1>9. f[2] = b
  BY <1>5, <1>6, <1>8, Zenon
<1>10. f[3] = b
  BY <1>5, <1>6, <1>9, Zenon
<1> QED
  BY <1>4, <1>6, <1>10, Zenon

\* The loop to the right when it merges at most once.
LEMMA MeltRightValue ==
    ASSUME NEW h, NEW t, NEW b, b = RightStep(h, t), RightStep(b, t) = b
    PROVE  MeltRight(h, t) = b
<1> DEFINE Is(f) == f = [n \in 0 .. MaxMerges |-> IF n = 0 THEN h ELSE RightStep(f[n - 1], t)]
<1>1. \A n \in 0 .. MaxMerges : n = 0 \/ (n - 1 \in 0 .. MaxMerges /\ n # 0)
  BY DEF MaxMerges
<1>2. \E f : Is(f)
  <2>1. PICK f : f = [n \in 0 .. MaxMerges |-> IF n = 0 THEN h ELSE b]
    BY Zenon
  <2>2. ASSUME NEW n \in 0 .. MaxMerges
        PROVE  f[n] = IF n = 0 THEN h ELSE RightStep(f[n - 1], t)
    <3>1. CASE n = 0
      BY <2>1, <3>1, Zenon
    <3>2. CASE n # 0
      <4>1. f[n] = b /\ (f[n - 1] = h \/ f[n - 1] = b)
        BY <1>1, <2>1, <3>2, Zenon
      <4> QED
        BY <3>2, <4>1, Zenon
    <3> QED
      BY <3>1, <3>2, Zenon
  <2>3. f = [n \in 0 .. MaxMerges |-> f[n]]
    BY <2>1, Zenon
  <2>4. Is(f)
    BY <2>2, <2>3, Zenon
  <2> QED
    BY <2>4, Zenon
<1>3. \E f : Is(f) /\ MeltRight(h, t) = f[MaxMerges]
  BY <1>2, Zenon DEF MeltRight, RightStep
<1>4. PICK f : Is(f) /\ MeltRight(h, t) = f[MaxMerges]
  BY <1>3, Zenon
<1>5. \A n \in 0 .. MaxMerges : f[n] = IF n = 0 THEN h ELSE RightStep(f[n - 1], t)
  BY <1>4, Zenon
<1>6. /\ 0 \in 0 .. MaxMerges /\ 1 \in 0 .. MaxMerges /\ 2 \in 0 .. MaxMerges
      /\ 3 \in 0 .. MaxMerges /\ 1 - 1 = 0 /\ 2 - 1 = 1 /\ 3 - 1 = 2
      /\ 1 # 0 /\ 2 # 0 /\ 3 # 0 /\ MaxMerges = 3
  BY DEF MaxMerges
<1> HIDE DEF Is
<1>7. f[0] = h
  BY <1>5, <1>6, Zenon
<1>8. f[1] = b
  BY <1>5, <1>6, <1>7, Zenon
<1>9. f[2] = b
  BY <1>5, <1>6, <1>8, Zenon
<1>10. f[3] = b
  BY <1>5, <1>6, <1>9, Zenon
<1> QED
  BY <1>4, <1>6, <1>10, Zenon

MeltedTo(ts, ff, t, new, fs, a) ==
    MeltLeft([tags |-> ts, first |-> ff], t) =
        [heap |-> [tags |-> new, first |-> fs], tag |-> a]

\* The loop to the left on a sound heap.
LEMMA MeltLeftOK ==
    ASSUME NEW ts, NEW ff, NEW rs, NEW H, HeapOK(ts, ff, rs, H), Merged(ts), NEW t \in H
    PROVE  \E new, fs, a :
               /\ MeltedTo(ts, ff, t, new, fs, a)
               /\ LeftMerged(ts, new, fs, rs, H \ {t}, a)
<1>1. PICK h : h = [tags |-> ts, first |-> ff]
  BY Zenon
<1>2. PICK now : now = [heap |-> h, tag |-> t]
  BY Zenon
<1>3. h.tags = ts /\ now.heap = h /\ now.tag = t
  BY <1>1, <1>2
<1>4. CASE IsFree(ts, ts[t].left)
  <2>1. PICK a : a = ts[t].left
    BY Zenon
  <2>2. PICK new, fs :
            /\ melt_left([tags |-> ts, first |-> ff], t) = [tags |-> new, first |-> fs]
            /\ LeftMerged(ts, new, fs, rs, H \ {t}, a)
    BY <1>4, <2>1, MeltOK, Zenon
  <2>3. PICK g : g = [tags |-> new, first |-> fs]
    BY Zenon
  <2>4. PICK b : b = [heap |-> g, tag |-> a]
    BY Zenon
  <2>5. g.tags = new /\ b.heap = g /\ b.tag = a
    BY <2>3, <2>4
  <2>6. b = LeftStep(now)
    BY <1>1, <1>3, <1>4, <2>1, <2>2, <2>3, <2>4, Zenon DEF LeftStep
  <2>7. LeftStep(b) = b
    BY <2>2, <2>5, Zenon DEF LeftStep, LeftMerged
  <2>8. MeltLeft(h, t) = b
    BY <1>2, <2>6, <2>7, MeltLeftValue, Zenon
  <2> QED
    BY <1>1, <2>2, <2>3, <2>4, <2>8, Zenon DEF MeltedTo
<1>5. CASE ~ IsFree(ts, ts[t].left)
  <2>1. LeftStep(now) = now
    BY <1>3, <1>5, Zenon DEF LeftStep
  <2>2. MeltLeft(h, t) = now
    BY <1>2, <2>1, MeltLeftValue, Zenon
  <2>3. (H \ {t}) \cup {t} = H
    BY Zenon
  <2>4. H \subseteq DOMAIN ts
    BY Zenon DEF HeapOK, HeldBy
  <2>5. Keeps(ts, ts, H \ {t})
    BY <2>4, Zenon DEF Keeps
  <2>6. LeftMerged(ts, ts, ff, rs, H \ {t}, t)
    BY <1>5, <2>3, <2>5, Zenon DEF LeftMerged
  <2> QED
    BY <1>1, <1>2, <2>2, <2>6, Zenon DEF MeltedTo
<1> QED
  BY <1>4, <1>5, Zenon

AbsorbedTo(ts, ff, t, new, fs) ==
    MeltRight([tags |-> ts, first |-> ff], t) = [tags |-> new, first |-> fs]

\* The loop to the right, after the one to the left.
LEMMA MeltRightOK ==
    ASSUME NEW old, NEW ts, NEW ff, NEW rs, NEW K, NEW t, LeftMerged(old, ts, ff, rs, K, t)
    PROVE  \E new, fs :
               /\ AbsorbedTo(ts, ff, t, new, fs)
               /\ LeftMerged(old, new, fs, rs, K, t) /\ ~ IsFree(new, new[t].right)
<1>1. PICK h : h = [tags |-> ts, first |-> ff]
  BY Zenon
<1>2. h.tags = ts
  BY <1>1
<1>3. /\ HeapOK(ts, ff, rs, K \cup {t}) /\ Merged(ts) /\ t \notin K
      /\ ~ IsFree(ts, ts[t].left) /\ Keeps(old, ts, K)
      /\ \A e \in Exponents : WholeFree(ts, e) = WholeFree(old, e)
  BY Zenon DEF LeftMerged
<1>4. CASE IsFree(ts, ts[t].right)
  <2>1. PICK H : H = K \cup {t}
    BY Zenon
  <2>2. H \ {t} = K /\ t \in H /\ HeapOK(ts, ff, rs, H)
    BY <1>3, <2>1
  <2>3. PICK new, fs :
            /\ absorb_right([tags |-> ts, first |-> ff], t) = [tags |-> new, first |-> fs]
            /\ LeftMerged(ts, new, fs, rs, K, t) /\ ~ IsFree(new, new[t].right)
    BY <1>3, <1>4, <2>2, AbsorbOK, Zenon
  <2>4. PICK g : g = [tags |-> new, first |-> fs]
    BY Zenon
  <2>5. g.tags = new
    BY <2>4
  <2>6. g = RightStep(h, t) /\ RightStep(g, t) = g
    BY <1>1, <1>2, <1>4, <2>3, <2>4, <2>5, Zenon DEF RightStep
  <2>7. MeltRight(h, t) = g
    BY <2>6, MeltRightValue, Zenon
  <2>8. Keeps(ts, new, K) /\ \A e \in Exponents : WholeFree(new, e) = WholeFree(ts, e)
    BY <2>3, Zenon DEF LeftMerged
  <2>9. Keeps(old, new, K)
    BY <1>3, <2>8, Zenon DEF Keeps
  <2>10. \A e \in Exponents : WholeFree(new, e) = WholeFree(old, e)
    BY <1>3, <2>8, Zenon
  <2>11. LeftMerged(old, new, fs, rs, K, t)
    BY <2>3, <2>9, <2>10, Zenon DEF LeftMerged
  <2> QED
    BY <1>1, <2>3, <2>4, <2>7, <2>11, Zenon DEF AbsorbedTo
<1>5. CASE ~ IsFree(ts, ts[t].right)
  <2>1. RightStep(h, t) = h
    BY <1>2, <1>5, Zenon DEF RightStep
  <2>2. MeltRight(h, t) = h
    BY <2>1, MeltRightValue, Zenon
  <2> QED
    BY <1>1, <1>5, <2>2, Zenon DEF AbsorbedTo
<1> QED
  BY <1>4, <1>5, Zenon

(***************************************************************************)
(* The end of malloc.  The tag keeps room for the size asked for, and what *)
(* it gives up is a free tag of its own, which is never a whole run.       *)
(***************************************************************************)
Carved(ts, new, fs, rs, H, t, size) ==
    /\ HeapOK(new, fs, rs, H) /\ Merged(new)
    /\ Keeps(ts, new, H \ {t})
    /\ t \in DOMAIN new /\ new[t].size = size /\ Header + size <= new[t].real_size
    /\ \A e \in Exponents : WholeFree(new, e) = WholeFree(ts, e)

Resized(ts, new) ==
    \A u \in DOMAIN ts : /\ new[u].index = ts[u].index
                         /\ new[u].right = ts[u].right /\ new[u].left = ts[u].left
                         /\ new[u].real_size = ts[u].real_size

\* malloc writes the size it was asked for into the tag.
LEMMA SizeRecorded ==
    ASSUME NEW ts, NEW ff, NEW rs, NEW H, HeapOK(ts, ff, rs, H), Merged(ts),
           NEW t \in H, NEW size \in Nat, Header + size <= ts[t].real_size,
           NEW new, new = [ts EXCEPT ![t].size = size]
    PROVE  /\ Carved(ts, new, ff, rs, H, t, size)
           /\ Resized(ts, new)
<1>1. Shape(ts) /\ Runs(rs) /\ Tiles(ts, rs) /\ Lists(ts, ff) /\ HeldBy(ts, H)
  BY Zenon DEF HeapOK
<1>2. t \in DOMAIN ts /\ H \subseteq DOMAIN ts
  BY <1>1, Zenon DEF HeldBy
<1>3. DOMAIN new = DOMAIN ts
  BY <1>2
<1>4. ASSUME NEW u \in DOMAIN ts
      PROVE  /\ new[u] \in Tag
             /\ new[u].real_size = ts[u].real_size /\ new[u].index = ts[u].index
             /\ new[u].left = ts[u].left /\ new[u].right = ts[u].right
             /\ new[u].next = ts[u].next /\ new[u].prev = ts[u].prev
             /\ u # t => new[u].size = ts[u].size
             /\ u = t => new[u].size = size
  <2>1. ts[u] \in Tag
    BY <1>1, TagFields, Zenon
  <2>2. CASE u = t
    <3>1. new[u] = [ts[u] EXCEPT !.size = size]
      BY <1>2, <2>2
    <3> QED
      BY <2>1, <2>2, <3>1 DEF Tag
  <2>3. CASE u # t
    <3>1. new[u] = ts[u]
      BY <1>2, <2>3
    <3> QED
      BY <2>1, <2>3, <3>1, Zenon
  <2> QED
    BY <2>2, <2>3, Zenon
<1>5. Shape(new)
  <2>1. new \in [DOMAIN new -> Tag]
    <3>1. new = [u \in DOMAIN new |-> new[u]]
      BY <1>2, Zenon
    <3> QED
      BY <1>3, <1>4, <3>1, Zenon
  <2> QED
    BY <1>1, <1>3, <2>1, Zenon DEF Shape
<1>6. Tiles(new, rs)
  BY <1>1, <1>3, <1>4, TilesKept, Zenon
<1>7. Lists(new, ff)
  BY <1>1, <1>3, <1>4, ListsKept, Zenon
<1>8. HeldBy(new, H)
  BY <1>1, <1>3, <1>4, ZenonT(30) DEF HeldBy
<1>9. HeapOK(new, ff, rs, H)
  BY <1>1, <1>5, <1>6, <1>7, <1>8, Zenon DEF HeapOK
<1>10. ASSUME NEW u \in DOMAIN new, new[u].index # -1, new[u].right # NULL
       PROVE  new[new[u].right].index = -1
  <2>1. ts[u].index # -1 /\ ts[u].right # NULL /\ new[u].right = ts[u].right
    BY <1>3, <1>4, <1>10, Zenon
  <2>2. ts[ts[u].right].index = -1
    BY <1>3, <2>1, Zenon DEF Merged
  <2>3. ts[u].right \in DOMAIN ts
    BY <1>1, <1>3, <2>1, FreeMeansListed
  <2>4. new[ts[u].right].index = ts[ts[u].right].index
    BY <1>4, <2>3, Zenon
  <2> QED
    BY <2>1, <2>2, <2>4, Zenon
<1>11. Merged(new)
  BY <1>10, Zenon DEF Merged
<1>12. Keeps(ts, new, H \ {t})
  BY <1>2, <1>3, <1>4, Zenon DEF Keeps
<1>13. t \in DOMAIN new /\ new[t].size = size /\ Header + size <= new[t].real_size
  BY <1>2, <1>3, <1>4, Zenon
<1>14. \A e \in Exponents : WholeFree(new, e) = WholeFree(ts, e)
  BY <1>3, <1>4, Zenon DEF WholeFree, Whole
<1> QED
  BY <1>4, <1>9, <1>11, <1>12, <1>13, <1>14, Zenon DEF Carved, Resized

SplitOff(ts, new, ff, rs, H, t, n) ==
    /\ HeapOK(new, ff, rs, H \cup {n}) /\ Merged(new)
    /\ n \notin H /\ ~ IsFree(new, new[n].left) /\ ~ IsFree(new, new[n].right)
    /\ ~ Whole(new[n]) /\ new[t].real_size = Header + ts[t].size
    /\ \A e \in Exponents : WholeFree(new, e) = WholeFree(ts, e)

\* A tag that was just split off is held by nobody and in no list yet.
LEMMA SplitOK ==
    ASSUME NEW ts, NEW ff, NEW rs, NEW H, HeapOK(ts, ff, rs, H), Merged(ts),
           NEW t \in H, ~ IsFree(ts, ts[t].right),
           ts[t].real_size - ts[t].size - 2 * Header > 0,
           NEW new, NEW n, Parted(ts, new, t, n)
    PROVE  SplitOff(ts, new, ff, rs, H, t, n)
<1>1. Shape(ts) /\ Runs(rs) /\ Tiles(ts, rs) /\ Lists(ts, ff) /\ HeldBy(ts, H)
  BY Zenon DEF HeapOK
<1>2. t \in DOMAIN ts /\ H \subseteq DOMAIN ts /\ ts[t].index = -1 /\ t # NULL
  BY <1>1, TagFields, Zenon DEF HeldBy
<1>3. /\ DOMAIN new = DOMAIN ts \cup {n} /\ Shape(new) /\ n \notin DOMAIN ts /\ n # NULL
      /\ new[n] = [size |-> 0, real_size |-> ts[t].real_size - Header - ts[t].size,
                   index |-> -1, left |-> t, right |-> ts[t].right,
                   next |-> NULL, prev |-> NULL]
      /\ new[t].right = n /\ new[t].real_size = Header + ts[t].size
  BY Zenon DEF Parted
<1>4. /\ new[n].index = -1 /\ new[n].left = t /\ new[n].right = ts[t].right
      /\ new[n].next = NULL /\ new[n].prev = NULL
  BY <1>3
<1>5. ASSUME NEW u \in DOMAIN ts
      PROVE  /\ new[u].index = ts[u].index
             /\ new[u].next = ts[u].next /\ new[u].prev = ts[u].prev
             /\ u # t => new[u].right = ts[u].right
             /\ u # ts[t].right => new[u].left = ts[u].left
             /\ u = ts[t].right => new[u].left = n
  BY DEF Parted
<1>6. Tiles(new, rs)
  BY <1>1, <1>2, TilesSplit, Zenon
<1>7. Lists(new, ff)
  <2>1. \A u \in DOMAIN new : u \in DOMAIN ts =>
            new[u].index = ts[u].index /\ new[u].next = ts[u].next /\ new[u].prev = ts[u].prev
    BY <1>5, Zenon
  <2>2. \A u \in DOMAIN new : u \notin DOMAIN ts =>
            new[u].index = -1 /\ new[u].next = NULL /\ new[u].prev = NULL
    BY <1>3, <1>4, Zenon
  <2>3. \A u \in DOMAIN ts : u \notin DOMAIN new => ts[u].index = -1
    BY <1>3, Zenon
  <2> QED
    BY <1>1, <2>1, <2>2, <2>3, ListsKept, Zenon
<1>8. HeldBy(new, H \cup {n})
  <2>1. ASSUME NEW u \in DOMAIN new PROVE new[u].index = -1 <=> u \in H \cup {n}
    <3>1. CASE u = n
      BY <1>4, <3>1, Zenon
    <3>2. CASE u # n
      <4>1. u \in DOMAIN ts
        BY <1>3, <3>2, Zenon
      <4>2. new[u].index = ts[u].index
        BY <1>5, <4>1, Zenon
      <4>3. ts[u].index = -1 <=> u \in H
        BY <1>1, <4>1, Zenon DEF HeldBy
      <4> QED
        BY <3>2, <4>2, <4>3, Zenon
    <3> QED
      BY <3>1, <3>2, Zenon
  <2>2. H \cup {n} \subseteq DOMAIN new
    BY <1>1, <1>3, Zenon DEF HeldBy
  <2> QED
    BY <2>1, <2>2, Zenon DEF HeldBy
<1>9. HeapOK(new, ff, rs, H \cup {n})
  BY <1>1, <1>3, <1>6, <1>7, <1>8, Zenon DEF HeapOK
<1>10. ts[t].right # NULL => ts[t].right \in DOMAIN ts /\ ts[ts[t].right].index = -1
  BY <1>1, <1>2, FreeMeansListed, Zenon
<1>11. ASSUME NEW u \in DOMAIN new, new[u].index # -1, new[u].right # NULL
       PROVE  new[new[u].right].index = -1
  <2>1. u \in DOMAIN ts /\ u # t
    BY <1>2, <1>3, <1>4, <1>5, <1>11, Zenon
  <2>2. ts[u].index # -1 /\ new[u].right = ts[u].right
    BY <1>5, <1>11, <2>1, Zenon
  <2>3. ts[ts[u].right].index = -1
    BY <1>11, <2>1, <2>2, Zenon DEF Merged
  <2>4. ts[u].right \in DOMAIN ts
    BY <1>1, <1>11, <2>1, <2>2, FreeMeansListed, Zenon
  <2> QED
    BY <1>5, <2>2, <2>3, <2>4, Zenon
<1>12. Merged(new)
  BY <1>11, Zenon DEF Merged
<1>13. ~ (-1 >= 0)
  OBVIOUS
<1>14. ~ IsFree(new, new[n].left)
  BY <1>2, <1>4, <1>5, <1>13 DEF IsFree
<1>15. ~ IsFree(new, new[n].right)
  BY <1>4, <1>5, <1>10, <1>13, Zenon DEF IsFree
<1>16. ~ Whole(new[n])
  BY <1>2, <1>4, Zenon DEF Whole
<1>17. ASSUME NEW e \in Exponents PROVE WholeFree(new, e) = WholeFree(ts, e)
  <2>1. e # -1
    BY ExponentFacts
  <2>2. ASSUME NEW u \in DOMAIN ts, ts[u].index = e
        PROVE  Whole(new[u]) <=> Whole(ts[u])
    <3>1. u # t /\ u # ts[t].right
      <4>1. u # t
        BY <1>2, <2>1, <2>2, Zenon
      <4>2. u # NULL
        BY <1>1, TagFields, Zenon
      <4> QED
        BY <1>10, <2>1, <2>2, <4>1, <4>2, Zenon
    <3> QED
      BY <1>5, <3>1, Zenon DEF Whole
  <2>3. ASSUME NEW u PROVE u \in WholeFree(new, e) <=> u \in WholeFree(ts, e)
    BY <1>3, <1>4, <1>5, <2>1, <2>2, Zenon DEF WholeFree
  <2> QED
    BY <2>3, Zenon
<1> QED
  BY <1>1, <1>2, <1>3, <1>9, <1>12, <1>14, <1>15, <1>16, <1>17, Zenon DEF SplitOff
=============================================================================
