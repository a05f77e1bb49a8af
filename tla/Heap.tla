-------------------------------- MODULE Heap --------------------------------
(***************************************************************************)
(* The kernel heap, memory/liballoc.cpp: boundary tags inside runs of      *)
(* pages, one doubly linked list of free tags per power of two, splitting  *)
(* on malloc and merging on free.  malloc and free run under liballoc_lock *)
(* and are atomic here (module HeapLock is about the lock); realloc is the *)
(* two critical sections it consists of.  Pages come from the allocator of *)
(* module PhysMem, which grants the first run that is free.                *)
(***************************************************************************)
EXTENDS Integers, FiniteSets

CONSTANTS PageSize,     \* l_pageSize
          PageCount,    \* l_pageCount, pages requested at least
          Header,       \* sizeof(struct boundary_tag)
          MINEXP, MAXEXP, MAXCOMPLETE,
          Pages,        \* bound: pages the machine has
          Sizes         \* bound: sizes callers ask for

ASSUME HeapAssumption ==
    /\ {PageSize, PageCount, Header, MAXCOMPLETE, Pages} \subseteq Nat \ {0}
    /\ MINEXP \in Nat /\ MAXEXP \in Nat /\ MINEXP < MAXEXP
    /\ Sizes \subseteq Nat

NULL == -1

Exponents == MINEXP .. (MAXEXP - 1)

VARIABLES tags,             \* address -> struct boundary_tag, for every tag
          l_freePages,      \* exponent -> first tag of its list
          l_completePages,  \* exponent -> number of wholly free runs in its list
          runs,             \* page runs taken from the page allocator
          held,             \* tags whose memory a caller holds
          pending,          \* reallocs between their malloc and their free
          halted            \* physical_allocate found no pages

vars == <<tags, l_freePages, l_completePages, runs, held, pending, halted>>

Heap0 == [tags |-> tags, first |-> l_freePages]

(***************************************************************************)
(* getexp: the n with 2^n <= size < 2^(n+1), -1 below the quantum.         *)
(***************************************************************************)
getexp(size) ==
    IF size < 2^MINEXP THEN -1
    ELSE CHOOSE n \in Exponents :
             ~ (size < 2^n) /\ (n = MAXEXP - 1 \/ size < 2^(n + 1))

Bucket(size) == IF getexp(size) < MINEXP THEN MINEXP ELSE getexp(size)

Set(ts, t, field, value) ==
    IF t = NULL THEN ts ELSE [ts EXCEPT ![t][field] = value]

insert_tag(h, t, index) ==
    LET old == h.first[index]
        linked == IF old = NULL THEN h.tags
                  ELSE Set(Set(h.tags, old, "prev", t), t, "next", old)
    IN  [tags  |-> Set(linked, t, "index", index),
         first |-> [h.first EXCEPT ![index] = t]]

\* Planted bug: the tag behind the removed one keeps pointing back at it.
remove_tag_one_way(h, t) ==
    LET tag == h.tags[t]
    IN  [tags  |-> [Set(h.tags, tag.prev, "next", tag.next)
                       EXCEPT ![t].next = NULL, ![t].prev = NULL, ![t].index = -1],
         first |-> IF h.first[tag.index] = t
                   THEN [h.first EXCEPT ![tag.index] = tag.next] ELSE h.first]

remove_tag(h, t) ==
    LET tag == h.tags[t]
        unlinked == Set(Set(h.tags, tag.prev, "next", tag.next),
                        tag.next, "prev", tag.prev)
    IN  [tags  |-> [unlinked EXCEPT ![t].next = NULL, ![t].prev = NULL,
                                    ![t].index = -1],
         first |-> IF h.first[tag.index] = t
                   THEN [h.first EXCEPT ![tag.index] = tag.next] ELSE h.first]

Drop(ts, t) == [a \in DOMAIN ts \ {t} |-> ts[a]]

(***************************************************************************)
(* Merging a tag with its right neighbour: the body of melt_left and, after *)
(* its remove_tag, of absorb_right.                                        *)
(***************************************************************************)
\* Planted bug: the tag behind the merged ones keeps its old neighbour.
join_stale(ts, left, right) ==
    Drop([ts EXCEPT ![left].real_size = @ + ts[right].real_size,
                    ![left].right = ts[right].right], right)

join(ts, left, right) ==
    LET grown == [ts EXCEPT ![left].real_size = @ + ts[right].real_size,
                            ![left].right = ts[right].right]
    IN  Drop(Set(grown, ts[right].right, "left", left), right)

IsFree(ts, t) == t # NULL /\ ts[t].index >= 0

melt_left(h, t) ==
    LET left == h.tags[t].left
    IN  remove_tag([h EXCEPT !.tags = join(h.tags, left, t)], left)

absorb_right(h, t) ==
    LET right == h.tags[t].right
        cut   == remove_tag(h, right)
    IN  [cut EXCEPT !.tags = join(cut.tags, t, right)]

\* Planted bug: the new tag overlaps the end of the caller's memory.
split_tag_short(h, t) ==
    LET tag     == h.tags[t]
        new     == t + tag.size
        new_tag == [size |-> 0, real_size |-> tag.real_size - tag.size,
                    index |-> -1, left |-> t, right |-> tag.right,
                    next |-> NULL, prev |-> NULL]
        added   == [a \in DOMAIN h.tags \cup {new} |->
                       IF a = new THEN new_tag ELSE h.tags[a]]
        linked  == [Set(added, tag.right, "left", new)
                       EXCEPT ![t].right = new,
                              ![t].real_size = @ - new_tag.real_size]
    IN  insert_tag([h EXCEPT !.tags = linked], new,
                   Bucket(new_tag.real_size - Header))

split_tag(h, t) ==
    LET tag     == h.tags[t]
        new     == t + Header + tag.size
        new_tag == [size |-> 0, real_size |-> tag.real_size - Header - tag.size,
                    index |-> -1, left |-> t, right |-> tag.right,
                    next |-> NULL, prev |-> NULL]
        added   == [a \in DOMAIN h.tags \cup {new} |->
                       IF a = new THEN new_tag ELSE h.tags[a]]
        linked  == [Set(added, tag.right, "left", new)
                       EXCEPT ![t].right = new,
                              ![t].real_size = @ - new_tag.real_size]
    IN  insert_tag([h EXCEPT !.tags = linked], new,
                   Bucket(new_tag.real_size - Header))

Fits(tag, size) == tag.real_size - Header >= size + Header

(***************************************************************************)
(* The search of malloc: the first tag of the list that is large enough.   *)
(***************************************************************************)
Search(size) ==
    LET walk[t \in DOMAIN tags \cup {NULL}] ==
            IF t = NULL \/ Fits(tags[t], size) THEN t ELSE walk[tags[t].next]
    IN  walk[l_freePages[Bucket(size)]]

PagesFor(size) ==
    LET pages == (size + Header + PageSize - 1) \div PageSize
    IN  IF pages < PageCount THEN PageCount ELSE pages

PageRun(page, n) == page .. (page + n - 1)

GrantablePages(n) ==
    {page \in 0 .. (Pages - n) :
        \A r \in runs : PageRun(page, n) \cap PageRun(r.page, r.count) = {}}

FirstPage(n) ==
    CHOOSE page \in GrantablePages(n) : \A p \in GrantablePages(n) : page <= p

(***************************************************************************)
(* The end of malloc: record the size, and split off what is left if it    *)
(* can hold a tag and a quantum.                                           *)
(***************************************************************************)
Splittable(tag, size) ==
    LET remainder == tag.real_size - size - 2 * Header
    IN  remainder > 0 /\ getexp(remainder) >= 0

Carve(h, t, size) ==
    LET sized == [h EXCEPT !.tags[t].size = size]
    IN  IF Splittable(h.tags[t], size) THEN split_tag(sized, t) ELSE sized

Install(h) == tags' = h.tags /\ l_freePages' = h.first

Whole(tag) == tag.left = NULL /\ tag.right = NULL

\* Planted bug: taking a whole run from its list does not uncount it.
malloc_reuse_uncounted(t, size) ==
    /\ Search(size) = t
    /\ UNCHANGED l_completePages
    /\ Install(Carve(remove_tag(Heap0, t), t, size))
    /\ UNCHANGED runs

malloc_reuse(t, size) ==
    /\ Search(size) = t
    /\ l_completePages' = [l_completePages EXCEPT ![Bucket(size)] =
                              @ - (IF Whole(tags[t]) THEN 1 ELSE 0)]
    /\ Install(Carve(remove_tag(Heap0, t), t, size))
    /\ UNCHANGED runs

malloc_fresh(t, size) ==
    /\ Search(size) = NULL
    /\ LET tag  == [size |-> size, real_size |-> PagesFor(size) * PageSize,
                    index |-> -1, left |-> NULL, right |-> NULL,
                    next |-> NULL, prev |-> NULL]
           h    == [tags  |-> [a \in DOMAIN tags \cup {t} |->
                                  IF a = t THEN tag ELSE tags[a]],
                    first |-> l_freePages]
       IN  /\ runs' = runs \cup {[page |-> t \div PageSize, count |-> PagesFor(size)]}
           /\ Install(Carve(h, t, size))
    /\ UNCHANGED l_completePages

NoPages(size) == Search(size) = NULL /\ GrantablePages(PagesFor(size)) = {}

Target(size) ==
    IF Search(size) # NULL THEN Search(size) ELSE FirstPage(PagesFor(size)) * PageSize

Grant(t, size) == malloc_reuse(t, size) \/ malloc_fresh(t, size)

Addresses == 0 .. (Pages * PageSize - 1)

malloc(size) ==
    /\ ~ halted
    /\ ~ NoPages(size)
    /\ LET t == Target(size)
       IN  Grant(t, size) /\ held' = held \cup {t}
    /\ UNCHANGED <<pending, halted>>

(***************************************************************************)
(* physical_allocate halts the machine when it has no pages left.          *)
(***************************************************************************)
malloc_halts(size) ==
    /\ ~ halted
    /\ NoPages(size)
    /\ halted' = TRUE
    /\ UNCHANGED <<tags, l_freePages, l_completePages, runs, held, pending>>

(***************************************************************************)
(* free: merge to the left and to the right while the neighbour is free,   *)
(* then give a whole run back if MAXCOMPLETE of its size stand by already. *)
(* The loops end after MaxMerges neighbours at the latest.                 *)
(***************************************************************************)
MaxMerges == 3

MeltLeft(h0, t0) ==
    LET melt[n \in 0 .. MaxMerges] ==
            IF n = 0 THEN [heap |-> h0, tag |-> t0]
            ELSE LET now  == melt[n - 1]
                     left == now.heap.tags[now.tag].left
                 IN  IF IsFree(now.heap.tags, left)
                     THEN [heap |-> melt_left(now.heap, now.tag), tag |-> left]
                     ELSE now
    IN  melt[MaxMerges]

MeltRight(h0, t0) ==
    LET melt[n \in 0 .. MaxMerges] ==
            IF n = 0 THEN h0
            ELSE LET now == melt[n - 1]
                 IN  IF IsFree(now.tags, now.tags[t0].right)
                     THEN absorb_right(now, t0) ELSE now
    IN  melt[MaxMerges]

Release(t0) ==
    LET left  == MeltLeft(Heap0, t0)
        t     == left.tag
        h     == MeltRight(left.heap, t)
        tag   == h.tags[t]
        index == Bucket(tag.real_size - Header)
        whole == (tag.real_size + PageSize - 1) \div PageSize
        pages == IF whole < PageCount THEN PageCount ELSE whole
    IN  IF Whole(tag) /\ l_completePages[index] = MAXCOMPLETE
        THEN /\ Install([h EXCEPT !.tags = Drop(h.tags, t)])
             /\ runs' = runs \ {[page |-> t \div PageSize, count |-> pages]}
             /\ UNCHANGED l_completePages
        ELSE /\ Install(insert_tag(h, t, index))
             /\ l_completePages' = [l_completePages EXCEPT ![index] =
                                       @ + (IF Whole(tag) THEN 1 ELSE 0)]
             /\ UNCHANGED runs

InRealloc == {p.from : p \in pending} \cup {p.to : p \in pending}

free(t) ==
    /\ ~ halted
    /\ Release(t)
    /\ held' = held \ {t}
    /\ UNCHANGED <<pending, halted>>

(***************************************************************************)
(* realloc reads the old size and allocates; later it copies and frees the *)
(* old block.  Other contexts use the heap in between.                     *)
(***************************************************************************)
CopyLength(old, size) == IF old > size THEN size ELSE old

realloc_begin(t, size) ==
    /\ ~ halted
    /\ size # 0
    /\ pending = {}
    /\ ~ NoPages(size)
    /\ LET new == Target(size)
       IN  /\ Grant(new, size)
           /\ held' = held \cup {new}
           /\ pending' = {[from |-> t, to |-> new, len |-> CopyLength(tags[t].size, size)]}
    /\ UNCHANGED halted

realloc_end(p) ==
    /\ ~ halted
    /\ Release(p.from)
    /\ held' = held \ {p.from}
    /\ pending' = pending \ {p}
    /\ UNCHANGED halted

Init ==
    /\ tags = [a \in {} |-> NULL]
    /\ l_freePages = [e \in Exponents |-> NULL]
    /\ l_completePages = [e \in Exponents |-> 0]
    /\ runs = {}
    /\ held = {}
    /\ pending = {}
    /\ halted = FALSE

Next ==
    \/ \E size \in Sizes : malloc(size)
    \/ \E size \in Sizes : malloc_halts(size)
    \/ \E t \in held \ InRealloc : free(t)
    \/ \E t \in held, size \in Sizes : realloc_begin(t, size)
    \/ \E p \in pending : realloc_end(p)

Spec == Init /\ [][Next]_vars

-----------------------------------------------------------------------------
(***************************************************************************)
(* Types of the heap's state (struct boundary_tag in liballoc.h).          *)
(***************************************************************************)
Tag == [size : Nat, real_size : Nat, index : Exponents \cup {-1},
        left : Addresses \cup {NULL}, right : Addresses \cup {NULL},
        next : Addresses \cup {NULL}, prev : Addresses \cup {NULL}]

TypeOK ==
    /\ DOMAIN tags \subseteq Addresses
    /\ \A t \in DOMAIN tags : tags[t] \in Tag
    /\ l_freePages \in [Exponents -> Addresses \cup {NULL}]
    /\ l_completePages \in [Exponents -> Nat]
    /\ runs \subseteq [page : Nat, count : Nat]
    /\ held \subseteq DOMAIN tags
    /\ halted \in BOOLEAN

FirstByte(r) == r.page * PageSize
EndByte(r)   == (r.page + r.count) * PageSize

(***************************************************************************)
(* The tags tile the page runs: every tag begins where its left neighbour  *)
(* ends, the first at the start of a run and the last up to its end.       *)
(***************************************************************************)
TagsTileRuns ==
    /\ TypeOK
    /\ \A t \in DOMAIN tags : LET tag == tags[t] IN
        /\ IF tag.left = NULL THEN \E r \in runs : t = FirstByte(r)
           ELSE tag.left \in DOMAIN tags /\ tags[tag.left].right = t
        /\ IF tag.right = NULL THEN \E r \in runs : t + tag.real_size = EndByte(r)
           ELSE /\ tag.right \in DOMAIN tags /\ tags[tag.right].left = t
                /\ tag.right = t + tag.real_size
    /\ \A r \in runs : FirstByte(r) \in DOMAIN tags

(***************************************************************************)
(* A caller's memory is never the memory of another caller, and never      *)
(* covers a boundary tag; realloc copies no more than either block holds,  *)
(* whatever other contexts did between its two critical sections.          *)
(***************************************************************************)
User(t) == (t + Header) .. (t + Header + tags[t].size - 1)

HeldMemoryDisjoint ==
    /\ \A t \in held, u \in DOMAIN tags :
        /\ tags[t].index = -1
        /\ User(t) \cap (u .. (u + Header - 1)) = {}
        /\ u \in held /\ u # t => User(t) \cap User(u) = {}
    /\ \A p \in pending :
        /\ p.from \in held /\ p.to \in held /\ p.from # p.to
        /\ p.len <= tags[p.from].size /\ p.len <= tags[p.to].size

(***************************************************************************)
(* Each free list is doubly linked, and holds exactly the free tags whose  *)
(* index names it: remove_tag relies on index, next and prev agreeing.     *)
(***************************************************************************)
ListsWellFormed ==
    /\ \A t \in DOMAIN tags : tags[t].index >= 0 <=> t \notin held
    /\ \A e \in Exponents : l_freePages[e] # NULL =>
          /\ l_freePages[e] \in DOMAIN tags
          /\ tags[l_freePages[e]].index = e /\ tags[l_freePages[e]].prev = NULL
    /\ \A t \in DOMAIN tags : LET tag == tags[t] IN
        /\ {tag.next, tag.prev} \subseteq DOMAIN tags \cup {NULL}
        /\ tag.next # NULL => tags[tag.next].prev = t /\ tags[tag.next].index = tag.index
        /\ tag.index >= 0 => IF tag.prev = NULL THEN l_freePages[tag.index] = t
                             ELSE tags[tag.prev].next = t
        /\ tag.index = -1 => tag.next = NULL /\ tag.prev = NULL

(***************************************************************************)
(* The heap does not hoard: free merges completely, so two neighbours are  *)
(* never both free, and l_completePages counts the wholly free runs of     *)
(* each list, of which at most MAXCOMPLETE stand by.                       *)
(***************************************************************************)
NoHoarding ==
    /\ \A t \in DOMAIN tags : IsFree(tags, t) => ~ IsFree(tags, tags[t].right)
    /\ \A e \in Exponents :
        /\ l_completePages[e] =
              Cardinality({t \in DOMAIN tags : tags[t].index = e /\ Whole(tags[t])})
        /\ l_completePages[e] <= MAXCOMPLETE

(***************************************************************************)
(* "Find one big enough" ... "No page found. Make one." (liballoc.cpp:325, *)
(* 343): malloc takes new pages only when no free tag is big enough.       *)
(***************************************************************************)
FreshOnlyIfNothingFits ==
    [][\A r \in runs' \ runs, t \in DOMAIN tags :
          IsFree(tags, t) => ~ Fits(tags[t], tags'[FirstByte(r)].size)]_vars
=============================================================================
