------------------------------- MODULE Malloc -------------------------------
(***************************************************************************)
(* The mspaces of malloc.c, built with -DMSPACES -DONLY_MSPACES            *)
(* -DHAVE_MMAP=1 (Makefile:36): no locks, no footers, no MORECORE, 8-byte  *)
(* alignment, corruption checks that abort.  They hold all memory of the   *)
(* tool: sStaticSpace (create_mspace_with_base) and model_snapshot_space   *)
(* (create_mspace), used through mspace_malloc, calloc, realloc and free.  *)
(*                                                                         *)
(* A space is one record s.  Addresses and sizes are bytes.  s.head has an *)
(* entry for each address where a chunk header stands; the stale words     *)
(* inside a chunk are not kept.  s.foot has the prev_foot words that the   *)
(* allocator wrote and no user block covers.  A doubly linked bin is the   *)
(* sequence of its chunks in fd order.  Operators return the next record,  *)
(* or the set of possible outcomes where the system is asked for memory.   *)
(***************************************************************************)
EXTENDS Integers, Sequences, SequencesExt, FiniteSetsExt, TLC

CONSTANTS
    SizeT,           \* 2^bits of size_t
    Granularity,     \* mparams.granularity
    PageSize,        \* mparams.page_size
    MmapThreshold,   \* mparams.mmap_threshold
    TrimThreshold,   \* mparams.trim_threshold
    ReleaseRate,     \* MAX_RELEASE_CHECK_RATE
    HalfMask,        \* the 0xffff of mspace_calloc, plus one
    MstateSize,      \* pad_request(sizeof(struct malloc_state))
    AddrEnd,         \* the address space is PageSize .. AddrEnd - 1
    Capacity,        \* the bytes given to create_mspace_with_base
    Requests,        \* the sizes the program asks malloc for
    Resizes,         \* and realloc
    CallocRequests,  \* the pairs <<n, size>> it passes to calloc
    Preludes,        \* sequences of sizes allocated and freed beforehand
    MaxLive          \* bound on the blocks it holds at a time

ASSUME SizesAssumption ==
    /\ {SizeT, Granularity, PageSize, MstateSize, AddrEnd, HalfMask} \subseteq Nat \ {0}
    /\ Granularity % PageSize = 0 /\ PageSize % 8 = 0 /\ MstateSize % 8 = 0
    /\ HalfMask * HalfMask <= SizeT /\ AddrEnd <= SizeT

MIN_CHUNK_SIZE == 32
CHUNK_OVERHEAD == 8
MMAP_FOOT_PAD == 32
MIN_REQUEST == MIN_CHUNK_SIZE - CHUNK_OVERHEAD - 1
MAX_REQUEST == SizeT - 4 * MIN_CHUNK_SIZE
MAX_SIZE_T == SizeT - 1
TREEBIN_SHIFT == 8
NTREEBINS == 32
MAX_SMALL_REQUEST == 255 - 7 - CHUNK_OVERHEAD

Wrap(x) == x % SizeT
AlignUp(x, a) == ((x + a - 1) \div a) * a

pad_request(req) == (Wrap(req + CHUNK_OVERHEAD + 7) \div 8) * 8

request2size(req) == IF req < MIN_REQUEST THEN MIN_CHUNK_SIZE ELSE pad_request(req)

SegmentRecord == pad_request(32)
TOP_FOOT_SIZE == SegmentRecord + MIN_CHUNK_SIZE
SYS_ALLOC_PADDING == TOP_FOOT_SIZE + 8

chunk2mem(p) == p + 16
mem2chunk(mem) == mem - 16

is_small(sz) == sz \div 8 < 32
small_index(sz) == sz \div 8

FloorLog2(x) == CHOOSE k \in 0..30 : 2^k <= x /\ x < 2^(k + 1)

compute_tree_index(sz) ==
    LET X == sz \div 2^TREEBIN_SHIFT
        K == FloorLog2(X)
    IN CASE X = 0 -> 0
         [] X > 65535 -> NTREEBINS - 1
         [] OTHER -> 2 * K + ((sz \div 2^(K + TREEBIN_SHIFT - 1)) % 2)

\* The bit of sz that selects the child at the given depth of bin i:
\* sz << leftshift_for_tree_index(i), shifted once more per level.
TreeBit(sz, i, depth) ==
    LET b == (i \div 2) + TREEBIN_SHIFT - 2 - depth
    IN IF b < 0 THEN 0 ELSE (sz \div 2^b) % 2

(***************************************************************************)
(* Head and foot words.                                                    *)
(***************************************************************************)
\* F applied to the value of e, which is computed once.
With(e, F(_)) == CHOOSE y \in {F(x) : x \in {e}} : TRUE

Without(f, S) == [a \in DOMAIN f \ S |-> f[a]]

SetHead(s, p, sz, c, pi) ==
    [s EXCEPT !.head = (p :> [size |-> sz, cinuse |-> c, pinuse |-> pi]) @@ @]

FENCEPOST == [size |-> 8, cinuse |-> TRUE, pinuse |-> TRUE]

chunksize(s, p) == s.head[p].size
is_mmapped(s, p) == ~s.head[p].cinuse /\ ~s.head[p].pinuse
is_inuse(s, p) == s.head[p].cinuse \/ ~s.head[p].pinuse

\* The headers strictly inside a chunk that has just grown are forgotten.
Absorb(s, S) == [s EXCEPT !.head = Without(@, S), !.foot = Without(@, S)]

\* head |= PINUSE_BIT; the foot below it now belongs to the user's block.
OrPinuse(s, n) ==
    [s EXCEPT !.head = IF n \in DOMAIN @ THEN [@ EXCEPT ![n].pinuse = TRUE]
                       ELSE (n :> [size |-> 0, cinuse |-> FALSE, pinuse |-> TRUE]) @@ @,
              !.foot = Without(@, {n})]

set_inuse(s, p, sz) == OrPinuse(SetHead(s, p, sz, TRUE, s.head[p].pinuse), p + sz)

set_inuse_and_pinuse(s, p, sz) == OrPinuse(SetHead(s, p, sz, TRUE, TRUE), p + sz)

set_size_and_pinuse_of_inuse_chunk(s, p, sz) == SetHead(s, p, sz, TRUE, TRUE)

set_size_and_pinuse_of_free_chunk(s, p, sz) ==
    [SetHead(s, p, sz, FALSE, TRUE) EXCEPT !.foot = ((p + sz) :> sz) @@ @]

set_free_with_pinuse(s, p, sz, n) ==
    set_size_and_pinuse_of_free_chunk([s EXCEPT !.head[n].pinuse = FALSE], p, sz)

(***************************************************************************)
(* Small bins.                                                             *)
(***************************************************************************)
insert_small_chunk(s, p, sz) ==
    LET I == small_index(sz)
        rest == IF I \in s.smallmap THEN s.smallbins[I] ELSE <<>>
    IN [s EXCEPT !.smallmap = @ \cup {I}, !.smallbins = (I :> (<<p>> \o rest)) @@ @]

unlink_small_chunk(s, p, sz) ==
    LET I == small_index(sz)
    IN IF s.smallbins[I] = <<p>>
       THEN [s EXCEPT !.smallmap = @ \ {I}, !.smallbins = Without(@, {I})]
       ELSE [s EXCEPT !.smallbins[I] = SelectSeq(@, LAMBDA q : q # p)]

replace_dv(s, p, sz) ==
    LET t == IF s.dvsize = 0 THEN s ELSE insert_small_chunk(s, s.dv, s.dvsize)
    IN [t EXCEPT !.dvsize = sz, !.dv = p]

(***************************************************************************)
(* Tree bins.  s.node[t] is a chunk that stands in a tree (parent # 0);    *)
(* its ring is t followed, in fd order, by the chunks chained to it.  The  *)
(* parent of a root is the address of its bin, here -1 - index.            *)
(***************************************************************************)
TreeBinAddr(i) == -1 - i

RECURSIVE InsertBelow(_, _, _, _, _)
InsertBelow(s, t, x, sz, depth) ==
    LET b == TreeBit(sz, s.node[t].index, depth) + 1
        c == s.node[t].child[b]
    IN IF chunksize(s, t) = sz
       THEN [s EXCEPT !.node[t].ring = <<t, x>> \o Tail(@)]
       ELSE IF c # 0 THEN InsertBelow(s, c, x, sz, depth + 1)
       ELSE [s EXCEPT !.node = (x :> [child |-> <<0, 0>>, parent |-> t,
                                      index |-> s.node[t].index, ring |-> <<x>>])
                               @@ [@ EXCEPT ![t].child[b] = x]]

insert_large_chunk(s, x, sz) ==
    LET I == compute_tree_index(sz)
    IN IF I \in s.treemap THEN InsertBelow(s, s.treebins[I], x, sz, 0)
       ELSE [s EXCEPT !.treemap = @ \cup {I}, !.treebins = (I :> x) @@ @,
                      !.node = (x :> [child |-> <<0, 0>>, parent |-> TreeBinAddr(I),
                                      index |-> I, ring |-> <<x>>]) @@ @]

\* The replacement of a tree node: the leaf reached by preferring child[1].
RECURSIVE RightmostLeaf(_, _)
RightmostLeaf(s, r) ==
    LET c == s.node[r].child
    IN IF c[2] # 0 THEN RightmostLeaf(s, c[2])
       ELSE IF c[1] # 0 THEN RightmostLeaf(s, c[1]) ELSE r

ReplaceChild(c, x, r) == IF c[1] = x THEN <<r, c[2]>> ELSE <<c[1], r>>

\* R (0: none) takes the place of node x, whose record is X, in the tree nd.
TakePlace(nd, x, X, R, ring) ==
    LET child == nd[x].child
        Moved(t) == IF t \in {child[1], child[2]} THEN [nd[t] EXCEPT !.parent = R]
                    ELSE IF t = X.parent THEN [nd[t] EXCEPT !.child = ReplaceChild(@, x, R)]
                    ELSE nd[t]
    IN [t \in (DOMAIN nd \cup {R}) \ {x, 0} |->
          IF t = R THEN [child |-> child, parent |-> X.parent, index |-> X.index, ring |-> ring]
          ELSE Moved(t)]

UnlinkNode(s, x, X, R, ring) ==
    LET root == s.treebins[X.index] = x
        \* *RP = 0: a replacing leaf leaves its parent, which may be x itself
        nd == IF R \in DOMAIN s.node
              THEN [s.node EXCEPT ![s.node[R].parent].child = ReplaceChild(@, R, 0)] ELSE s.node
    IN [s EXCEPT !.node = TakePlace(nd, x, X, R, ring),
                 !.treemap = IF root /\ R = 0 THEN @ \ {X.index} ELSE @,
                 !.treebins = IF ~root THEN @ ELSE IF R = 0 THEN Without(@, {X.index})
                              ELSE [@ EXCEPT ![X.index] = R]]

unlink_large_chunk(s, x) ==
    IF x \notin DOMAIN s.node
    THEN LET owner == CHOOSE t \in DOMAIN s.node : Contains(s.node[t].ring, x)
         IN [s EXCEPT !.node[owner].ring = SelectSeq(@, LAMBDA q : q # x)]
    ELSE LET X == s.node[x]
             leaf == RightmostLeaf(s, x)
             n == Len(X.ring)
         IN IF n > 1 THEN UnlinkNode(s, x, X, X.ring[n], <<X.ring[n]>> \o SubSeq(X.ring, 2, n - 1))
            ELSE IF leaf = x THEN UnlinkNode(s, x, X, 0, <<>>)
            ELSE UnlinkNode(s, x, X, leaf, s.node[leaf].ring)

insert_chunk(s, p, sz) ==
    IF is_small(sz) THEN insert_small_chunk(s, p, sz) ELSE insert_large_chunk(s, p, sz)

unlink_chunk(s, p, sz) ==
    IF is_small(sz) THEN unlink_small_chunk(s, p, sz) ELSE unlink_large_chunk(s, p)

(***************************************************************************)
(* Segments and the system.  s.seg is the list headed by m->seg; "at" is   *)
(* where the record of a segment is stored, for the first one inside the   *)
(* malloc_state.  s.mapped are the pages the system has granted.           *)
(***************************************************************************)
Pages(base, size) == {(base \div PageSize) + i : i \in 0..(size \div PageSize) - 1}

\* External: mmap may fail, or return any unused page-aligned region.
MmapBases(s, size) ==
    {0} \cup {b \in {PageSize * i : i \in 1..(AddrEnd \div PageSize) - 1} :
                b + size <= AddrEnd /\ Pages(b, size) \cap s.mapped = {}}

InSegment(g, a) == a >= g.base /\ a < g.base + g.size

segment_holding(s, a) == SelectInSeq(s.seg, LAMBDA g : InSegment(g, a))

has_segment_link(s, g) == \E i \in DOMAIN s.seg : InSegment(g, s.seg[i].at)

init_top(s, p, psize) ==
    [SetHead(SetHead(s, p, psize, FALSE, TRUE), p + psize, TOP_FOOT_SIZE, FALSE, FALSE)
        EXCEPT !.top = p, !.topsize = psize, !.trim_check = TrimThreshold]

Obtained(s, base, size) ==
    [s EXCEPT !.footprint = @ + size, !.max_footprint = Max({@, s.footprint + size}),
              !.mapped = @ \cup Pages(base, size)]

Outcome(s, mem) == [s |-> s, mem |-> mem]

\* Mutant: least_addr is not lowered.
DirectChunkHigh(s, mm, mmsize) ==
    LET psize == mmsize - MMAP_FOOT_PAD
        t == SetHead(s, mm, psize, FALSE, FALSE)
    IN [t EXCEPT !.head = ((mm + psize) :> FENCEPOST) @@ @, !.foot = (mm :> 0) @@ @]

\* The mmapped chunk at region base mm, trailed by a fencepost.
DirectChunk(s, mm, mmsize) ==
    LET psize == mmsize - MMAP_FOOT_PAD
        t == SetHead(s, mm, psize, FALSE, FALSE)
    IN [t EXCEPT !.head = ((mm + psize) :> FENCEPOST) @@ @, !.foot = (mm :> 0) @@ @,
                 !.least_addr = Min({@, mm})]

mmap_alloc(s, nb) ==
    LET mmsize == Wrap(AlignUp(nb + 48 + 7, PageSize))
    IN {IF mm = 0 \/ mmsize <= nb THEN Outcome(s, 0)
        ELSE Outcome(Obtained(DirectChunk(s, mm, mmsize), mm, mmsize), chunk2mem(mm))
          : mm \in MmapBases(s, mmsize)}

\* External: mremap fails, moves the region or resizes it in place.
MremapBases(s, base, size, newsize) ==
    MmapBases(s, newsize)
    \cup {b \in {base} : base + newsize <= AddrEnd
                         /\ (Pages(base, newsize) \ Pages(base, size)) \cap s.mapped = {}}

mmap_resize(s, oldp, nb) ==
    LET oldsize == chunksize(s, oldp)
        oldmmsize == oldsize + MMAP_FOOT_PAD
        newmmsize == AlignUp(nb + 48 + 7, PageSize)
        gone == [Absorb(s, {oldp, oldp + oldsize}) EXCEPT !.mapped = @ \ Pages(oldp, oldmmsize),
                                                          !.footprint = @ - oldmmsize]
    IN IF is_small(nb) THEN {Outcome(s, 0)}
       ELSE IF oldsize >= nb + 8 /\ oldsize - nb <= 2 * Granularity THEN {Outcome(s, oldp)}
       ELSE {IF cp = 0 THEN Outcome(s, 0)
             ELSE Outcome(Obtained(DirectChunk(gone, cp, newmmsize), cp, newmmsize), cp)
               : cp \in MremapBases(s, oldp, oldmmsize, newmmsize)}

prepend_alloc(s, newbase, oldbase, nb) ==
    LET p == newbase
        q == p + nb
        qsize == oldbase - p - nb
        t == set_size_and_pinuse_of_inuse_chunk(s, p, nb)
        nsize == chunksize(s, oldbase)
        grown == Absorb(unlink_chunk(t, oldbase, nsize), {oldbase})
        r == CASE oldbase = s.top ->
                    SetHead([Absorb(t, {oldbase}) EXCEPT !.top = q, !.topsize = @ + qsize],
                            q, s.topsize + qsize, FALSE, TRUE)
               [] oldbase = s.dv ->
                    set_size_and_pinuse_of_free_chunk(
                        [Absorb(t, {oldbase}) EXCEPT !.dv = q, !.dvsize = @ + qsize],
                        q, s.dvsize + qsize)
               [] oldbase \notin {s.top, s.dv} /\ ~is_inuse(s, oldbase) ->
                    insert_chunk(set_free_with_pinuse(grown, q, qsize + nsize, oldbase + nsize),
                                 q, qsize + nsize)
               [] OTHER -> insert_chunk(set_free_with_pinuse(t, q, qsize, oldbase), q, qsize)
    IN Outcome(r, chunk2mem(p))

add_segment(s, tbase, tsize) ==
    LET old_top == s.top
        oldsp == segment_holding(s, old_top)
        old_end == s.seg[oldsp].base + s.seg[oldsp].size
        asp == old_end - TOP_FOOT_SIZE
        csp == IF asp < old_top + MIN_CHUNK_SIZE THEN old_top ELSE asp
        fences == {a \in csp + SegmentRecord .. old_end - 16 : a % 8 = 0}
        s1 == init_top(Absorb(s, {old_top, old_top + s.topsize}), tbase, tsize - TOP_FOOT_SIZE)
        s2 == set_size_and_pinuse_of_inuse_chunk(s1, csp, SegmentRecord)
        s3 == [s2 EXCEPT !.head = [a \in fences |-> FENCEPOST] @@ @,
                         !.seg = <<[base |-> tbase, size |-> tsize, mmapped |-> TRUE,
                                    extern |-> FALSE, at |-> Head(@).at],
                                   [Head(@) EXCEPT !.at = chunk2mem(csp)]>> \o Tail(@)]
    IN IF csp = old_top THEN s3
       ELSE insert_chunk(set_free_with_pinuse(s3, old_top, csp - old_top, csp),
                         old_top, csp - old_top)

\* Split nb bytes off the low end of top.
AllocateFromTop(s, nb) ==
    LET p == s.top
        r == SetHead([s EXCEPT !.top = p + nb, !.topsize = @ - nb],
                     p + nb, s.topsize - nb, FALSE, TRUE)
    IN Outcome(set_size_and_pinuse_of_inuse_chunk(r, p, nb), chunk2mem(p))

\* The space tbase .. tbase + tsize has been mapped: append, prepend or add.
UseRegion(s0, tbase, tsize, nb) ==
    LET s == Obtained(s0, tbase, tsize)
        above == SelectInSeq(s.seg, LAMBDA g : tbase = g.base + g.size)
        below == SelectInSeq(s.seg, LAMBDA g : g.base = tbase + tsize)
        low == [s EXCEPT !.least_addr = Min({@, tbase})]
        Mergeable(i) == i # 0 /\ ~s.seg[i].extern /\ s.seg[i].mmapped
        Finish(t) == IF nb < t.topsize THEN AllocateFromTop(t, nb) ELSE Outcome(t, 0)
    IN IF Mergeable(above) /\ InSegment(s.seg[above], s.top)
       THEN Finish(init_top(Absorb([s EXCEPT !.seg[above].size = @ + tsize],
                                   {s.top + s.topsize}), s.top, s.topsize + tsize))
       ELSE IF Mergeable(below)
       THEN prepend_alloc([low EXCEPT !.seg[below].base = tbase, !.seg[below].size = @ + tsize],
                          tbase, s.seg[below].base, nb)
       ELSE Finish(add_segment(low, tbase, tsize))

sys_alloc(s, nb) ==
    LET direct == IF nb >= MmapThreshold /\ s.topsize # 0 THEN mmap_alloc(s, nb)
                  ELSE {Outcome(s, 0)}
        asize == Wrap(AlignUp(nb + SYS_ALLOC_PADDING, Granularity))
        segment == IF asize <= nb THEN {Outcome(s, 0)}
                   ELSE {IF b = 0 THEN Outcome(s, 0) ELSE UseRegion(s, b, asize, nb)
                           : b \in MmapBases(s, asize)}
    IN {r \in direct : r.mem # 0} \cup (IF \E r \in direct : r.mem = 0 THEN segment ELSE {})

(***************************************************************************)
(* Giving memory back.  munmap may fail; the code then keeps the region.   *)
(***************************************************************************)

Unmapped(s, base, size) ==
    [s EXCEPT !.footprint = @ - size, !.mapped = @ \ Pages(base, size)]

\* The headers between two addresses disappear with the region.
Forget(s, base, size) == Absorb(s, {a \in DOMAIN s.head : a >= base /\ a < base + size})

\* The walk of release_unused_segments from the i-th record of the list on.
RECURSIVE ReleaseFrom(_, _)
ReleaseFrom(s, i) ==
    LET g == s.seg[i]
        p == g.base
        Unlinked == IF p = s.dv THEN [s EXCEPT !.dv = 0, !.dvsize = 0] ELSE unlink_large_chunk(s, p)
        Released(t) == Forget([Unmapped(t, g.base, g.size) EXCEPT !.seg = Remove(@, g)],
                              g.base, g.size)
    IN IF i > Len(s.seg) THEN {s}
       ELSE IF /\ g.mmapped /\ ~g.extern
               /\ ~is_inuse(s, p)
               /\ p + chunksize(s, p) >= g.base + g.size - TOP_FOOT_SIZE
       THEN UNION {ReleaseFrom(Released(t), i)
                   \cup ReleaseFrom(insert_large_chunk(t, p, chunksize(s, p)), i + 1)
                     : t \in {Unlinked}}
       ELSE ReleaseFrom(s, i + 1)

release_unused_segments(s) ==
    {[r EXCEPT !.release_checks = Max({ReleaseRate, Len(s.seg) - 1})] : r \in ReleaseFrom(s, 2)}

sys_trim(s) ==
    LET pad == TOP_FOOT_SIZE
        extra == (((s.topsize - pad + Granularity - 1) \div Granularity) - 1) * Granularity
        i == segment_holding(s, s.top)
        g == s.seg[i]
        shrunk == init_top(Absorb([Unmapped(s, g.base + g.size - extra, extra)
                                      EXCEPT !.seg[i].size = @ - extra],
                                  {s.top + s.topsize}), s.top, s.topsize - extra)
        topped == IF s.topsize > pad /\ ~g.extern /\ g.mmapped /\ g.size >= extra
                     /\ ~has_segment_link(s, g) /\ extra > 0
                  THEN {s, shrunk} ELSE {s}
        Disabled(r) == IF r.footprint = s.footprint /\ r.topsize > r.trim_check
                       THEN [r EXCEPT !.trim_check = MAX_SIZE_T] ELSE r
    IN {Disabled(r) : r \in UNION {release_unused_segments(t) : t \in topped}}

\* Consolidate a chunk with its free neighbours and bin it.  The second
\* component tells where it went, for what mspace_free does afterwards.
ConsolidateBack(s, c, csize) ==
    LET prevsize == s.foot[c]
        p == c - prevsize
    IN IF s.head[c].pinuse THEN [s |-> s, p |-> c, size |-> csize]
       ELSE [s |-> Absorb(IF p = s.dv THEN s ELSE unlink_chunk(s, p, prevsize), {c}),
             p |-> p, size |-> prevsize + csize]

InsertFree(s, p, psize) ==
    <<insert_chunk(s, p, psize), IF is_small(psize) THEN "small" ELSE "tree">>

\* Mutant: the chunk that is merged stays in its bin.
MergeNextLinked(s, p, psize, next, nsize) ==
    set_size_and_pinuse_of_free_chunk(Absorb(s, {next}), p, psize + nsize)

MergeNext(s, p, psize, next, nsize) ==
    set_size_and_pinuse_of_free_chunk(Absorb(unlink_chunk(s, next, nsize), {next}),
                                      p, psize + nsize)

ConsolidateForward(s, p, psize, next) ==
    LET all == psize + chunksize(s, next)
    IN CASE s.head[next].cinuse /\ p = s.dv ->
              <<[set_free_with_pinuse(s, p, psize, next) EXCEPT !.dvsize = psize], "dv">>
         [] s.head[next].cinuse /\ p # s.dv ->
              InsertFree(set_free_with_pinuse(s, p, psize, next), p, psize)
         [] ~s.head[next].cinuse /\ next = s.top ->
              <<[SetHead(Absorb(s, {next}), p, all, FALSE, TRUE)
                   EXCEPT !.top = p, !.topsize = all,
                          !.dv = IF p = @ THEN 0 ELSE @,
                          !.dvsize = IF p = s.dv THEN 0 ELSE @], "top">>
         [] ~s.head[next].cinuse /\ next = s.dv ->
              <<[set_size_and_pinuse_of_free_chunk(Absorb(s, {next}), p, all)
                   EXCEPT !.dv = p, !.dvsize = all], "dv">>
         [] OTHER ->
              With(MergeNext(s, p, psize, next, chunksize(s, next)),
                   LAMBDA u : IF p = s.dv THEN <<[u EXCEPT !.dvsize = all], "dv">>
                              ELSE InsertFree(u, p, all))

dispose_chunk(s, c, csize) ==
    With(ConsolidateBack(s, c, csize),
         LAMBDA b : ConsolidateForward(b.s, b.p, b.size, c + csize))

(***************************************************************************)
(* Searching the trees.                                                    *)
(***************************************************************************)
leftmost_child(s, t) == IF s.node[t].child[1] # 0 THEN s.node[t].child[1] ELSE s.node[t].child[2]

Better(s, nb, t, best) ==
    LET trem == Wrap(chunksize(s, t) - nb)
    IN IF trem < best.rsize THEN [v |-> t, rsize |-> trem] ELSE best

\* Walk down the path of nb; "rst" is the deepest right subtree not taken.
RECURSIVE WalkDown(_, _, _, _, _, _)
WalkDown(s, nb, t, depth, best, rst) ==
    LET b == Better(s, nb, t, best)
        rt == s.node[t].child[2]
        n == s.node[t].child[TreeBit(nb, compute_tree_index(nb), depth) + 1]
        r == IF rt # 0 /\ rt # n THEN rt ELSE rst
    IN IF b.rsize = 0 THEN [best |-> b, t |-> 0]
       ELSE IF n = 0 THEN [best |-> b, t |-> r]
       ELSE WalkDown(s, nb, n, depth + 1, b, r)

RECURSIVE SmallestOf(_, _, _, _)
SmallestOf(s, nb, t, best) ==
    IF t = 0 THEN best ELSE SmallestOf(s, nb, leftmost_child(s, t), Better(s, nb, t, best))

\* Mutant: only the path of nb is searched, or else the first of a later bin.
LargeFitPath(s, nb) ==
    LET idx == compute_tree_index(nb)
        none == [v |-> 0, rsize |-> Wrap(-nb)]
        later == {i \in s.treemap : i > idx}
        w == IF idx \in s.treemap THEN WalkDown(s, nb, s.treebins[idx], 0, none, 0).best ELSE none
    IN IF w.v = 0 /\ later # {} THEN SmallestOf(s, nb, s.treebins[Min(later)], w) ELSE w

\* The chunk tmalloc_large settles on before it compares it with dv.
LargeFit(s, nb) ==
    LET idx == compute_tree_index(nb)
        none == [v |-> 0, rsize |-> Wrap(-nb)]
        w == IF idx \in s.treemap THEN WalkDown(s, nb, s.treebins[idx], 0, none, 0)
             ELSE [best |-> none, t |-> 0]
        later == {i \in s.treemap : i > idx}
        t == IF w.t = 0 /\ w.best.v = 0 /\ later # {} THEN s.treebins[Min(later)] ELSE w.t
    IN SmallestOf(s, nb, t, w.best)

\* Take tree chunk f.v for a request of nb bytes, and split it when enough is left
TakeTree(s, f, nb) ==
    LET u == unlink_large_chunk(s, f.v)
    IN IF f.rsize < MIN_CHUNK_SIZE THEN set_inuse_and_pinuse(u, f.v, f.rsize + nb)
       ELSE set_size_and_pinuse_of_free_chunk(
                set_size_and_pinuse_of_inuse_chunk(u, f.v, nb), f.v + nb, f.rsize)

tmalloc_large(s, nb) ==
    With(LargeFit(s, nb),
         LAMBDA f : LET u == TakeTree(s, f, nb)
                    IN IF f.v # 0 /\ f.rsize < Wrap(s.dvsize - nb)
                       THEN Outcome(IF f.rsize < MIN_CHUNK_SIZE THEN u ELSE insert_chunk(u, f.v + nb, f.rsize),
                                    chunk2mem(f.v))
                       ELSE Outcome(s, 0))

SmallFit(s, nb) ==
    LET t == s.treebins[Min(s.treemap)]
    IN SmallestOf(s, nb, leftmost_child(s, t), [v |-> t, rsize |-> chunksize(s, t) - nb])

tmalloc_small(s, nb) ==
    LET f == SmallFit(s, nb)
        u == TakeTree(s, f, nb)
    IN Outcome(IF f.rsize < MIN_CHUNK_SIZE THEN u ELSE replace_dv(u, f.v + nb, f.rsize), chunk2mem(f.v))

(***************************************************************************)
(* The exported operations.                                                *)
(***************************************************************************)
\* The first chunk of the smallest nonempty small bin that fits nb, or of
\* the next one; what is left becomes the designated victim.
SmallBinFit(s, nb, i) ==
    LET p == Head(s.smallbins[i])
        u == unlink_small_chunk(s, p, 8 * i)
        rsize == 8 * i - nb
    IN Outcome(IF i <= small_index(nb) + 1 \/ rsize < MIN_CHUNK_SIZE
               THEN set_inuse_and_pinuse(u, p, 8 * i)
               ELSE replace_dv(set_size_and_pinuse_of_free_chunk(
                                 set_size_and_pinuse_of_inuse_chunk(u, p, nb), p + nb, rsize),
                               p + nb, rsize),
               chunk2mem(p))

AllocateFromDv(s, nb) ==
    LET p == s.dv
        rsize == s.dvsize - nb
    IN Outcome(IF rsize >= MIN_CHUNK_SIZE
               THEN set_size_and_pinuse_of_inuse_chunk(
                      set_size_and_pinuse_of_free_chunk(
                        [s EXCEPT !.dv = p + nb, !.dvsize = rsize], p + nb, rsize), p, nb)
               ELSE set_inuse_and_pinuse([s EXCEPT !.dv = 0, !.dvsize = 0], p, s.dvsize),
               chunk2mem(p))

\* Requests that no bin served: the designated victim, top or the system.
AllocateElsewhere(s, nb) ==
    IF nb <= s.dvsize THEN {AllocateFromDv(s, nb)}
    ELSE IF nb < s.topsize THEN {AllocateFromTop(s, nb)}
    ELSE sys_alloc(s, nb)

SmallRequest(s, nb) ==
    LET idx == small_index(nb)
        exact == s.smallmap \cap {idx, idx + 1}
        fits == {i \in s.smallmap : i >= idx}
    IN CASE exact # {} \/ (nb > s.dvsize /\ fits # {}) -> {SmallBinFit(s, nb, Min(fits))}
         [] nb > s.dvsize /\ fits = {} /\ s.treemap # {} -> {tmalloc_small(s, nb)}
         [] OTHER -> AllocateElsewhere(s, nb)

LargeRequest(s, nb) ==
    UNION {IF o.mem # 0 THEN {o} ELSE AllocateElsewhere(s, nb)
             : o \in {IF s.treemap # {} THEN tmalloc_large(s, nb) ELSE Outcome(s, 0)}}

mspace_malloc(s, bytes) ==
    CASE bytes <= MAX_SMALL_REQUEST -> SmallRequest(s, request2size(bytes))
      [] bytes >= MAX_REQUEST -> AllocateElsewhere(s, MAX_SIZE_T)
      [] OTHER -> LargeRequest(s, pad_request(bytes))

Aborted(s) == [s EXCEPT !.aborted = TRUE]

\* What follows the return of a chunk d[1] to the bin or to top, d[2].
AfterFree(t, where) ==
    CASE where = "top" /\ t.topsize > t.trim_check -> sys_trim(t)
      [] where = "tree" /\ t.release_checks = 1 ->
           release_unused_segments([t EXCEPT !.release_checks = 0])
      [] where = "tree" /\ t.release_checks # 1 -> {[t EXCEPT !.release_checks = @ - 1]}
      [] OTHER -> {t}

mspace_free(s, mem) ==
    LET p == mem2chunk(mem)
        psize == chunksize(s, p)
        next == p + psize
    IN IF ~(p >= s.least_addr /\ is_inuse(s, p)) THEN {Aborted(s)}
       ELSE IF is_mmapped(s, p)
       THEN {s, Unmapped(Absorb(s, {p, next}), p - s.foot[p], psize + s.foot[p] + MMAP_FOOT_PAD)}
       ELSE IF \/ ~s.head[p].pinuse /\ p - s.foot[p] < s.least_addr
               \/ ~s.head[next].pinuse
       THEN {Aborted(s)}
       ELSE UNION {AfterFree(d[1], d[2]) : d \in {dispose_chunk(s, p, psize)}}

\* Mutant: no overflow check.
CallocRequestWrapped(n, size) == Wrap(n * size)

\* The request of mspace_calloc: the product, or one that must fail.
CallocRequest(n, size) ==
    LET req == Wrap(n * size)
    IN IF n = 0 THEN 0
       ELSE IF (n >= HalfMask \/ size >= HalfMask) /\ req \div n # size THEN MAX_SIZE_T
       ELSE req

mspace_calloc(s, n, size) == mspace_malloc(s, CallocRequest(n, size))

\* p keeps nb of its total bytes, the rest is disposed of.
SplitOff(s, p, nb, total) ==
    Outcome(IF total - nb < MIN_CHUNK_SIZE THEN set_inuse(s, p, total)
            ELSE dispose_chunk(set_inuse(set_inuse(s, p, nb), p + nb, total - nb),
                               p + nb, total - nb)[1], p)

ExtendIntoTop(s, p, nb, total) ==
    LET u == set_inuse(Absorb(s, {s.top}), p, nb)
    IN Outcome(SetHead([u EXCEPT !.top = p + nb, !.topsize = total - nb],
                       p + nb, total - nb, FALSE, TRUE), p)

ExtendIntoDv(s, p, nb, total) ==
    LET dsize == total - nb
    IN Outcome(IF dsize >= MIN_CHUNK_SIZE
               THEN set_free_with_pinuse([set_inuse(Absorb(s, {s.dv}), p, nb)
                                            EXCEPT !.dv = p + nb, !.dvsize = dsize],
                                         p + nb, dsize, p + total)
               ELSE set_inuse([Absorb(s, {s.dv}) EXCEPT !.dv = 0, !.dvsize = 0], p, total), p)

\* Grow or shrink chunk p in place, or return 0.
try_realloc_chunk(s, p, nb) ==
    LET oldsize == chunksize(s, p)
        next == p + oldsize
        total == oldsize + chunksize(s, next)
    IN IF ~(p >= s.least_addr /\ is_inuse(s, p) /\ s.head[next].pinuse)
       THEN {Outcome(Aborted(s), 0)}
       ELSE IF is_mmapped(s, p) THEN mmap_resize(s, p, nb)
       ELSE {IF oldsize >= nb
             THEN IF oldsize - nb >= MIN_CHUNK_SIZE THEN SplitOff(s, p, nb, oldsize)
                  ELSE Outcome(s, p)
             ELSE CASE next = s.top /\ total > nb -> ExtendIntoTop(s, p, nb, total)
                    [] next = s.dv /\ total >= nb -> ExtendIntoDv(s, p, nb, total)
                    [] next \notin {s.top, s.dv} /\ ~s.head[next].cinuse /\ total >= nb ->
                         SplitOff(Absorb(unlink_chunk(s, next, total - oldsize), {next}),
                                  p, nb, total)
                    [] OTHER -> Outcome(s, 0)}

\* mspace_realloc of a non-null block: resize in place, or move the block.
mspace_realloc(s, oldmem, bytes) ==
    IF bytes >= MAX_REQUEST THEN {Outcome(s, 0)}
    ELSE UNION {
        IF r.mem # 0 THEN {Outcome(r.s, chunk2mem(r.mem))}
        ELSE UNION {IF a.mem = 0 THEN {a}
                    ELSE {Outcome(f, a.mem) : f \in mspace_free(a.s, oldmem)}
                      : a \in mspace_malloc(r.s, bytes)}
          : r \in try_realloc_chunk(s, mem2chunk(oldmem), request2size(bytes))}

init_user_mstate(tbase, tsize, extern) ==
    LET zero == [head |-> (tbase :> [size |-> MstateSize, cinuse |-> TRUE, pinuse |-> TRUE]),
                 foot |-> [a \in {} |-> 0],
                 smallmap |-> {}, smallbins |-> [i \in {} |-> <<>>],
                 treemap |-> {}, treebins |-> [i \in {} |-> 0], node |-> [a \in {} |-> 0],
                 dv |-> 0, dvsize |-> 0, top |-> 0, topsize |-> 0,
                 seg |-> <<[base |-> tbase, size |-> tsize, mmapped |-> ~extern,
                            extern |-> extern, at |-> chunk2mem(tbase)]>>,
                 least_addr |-> tbase, footprint |-> tsize, max_footprint |-> tsize,
                 trim_check |-> 0, release_checks |-> ReleaseRate,
                 mapped |-> Pages(tbase, tsize), aborted |-> FALSE]
        mn == tbase + MstateSize
    IN init_top(zero, mn, tbase + tsize - mn - TOP_FOOT_SIZE)

create_mspace(tbase, capacity) ==
    init_user_mstate(tbase, AlignUp(IF capacity = 0 THEN Granularity
                                    ELSE capacity + TOP_FOOT_SIZE + MstateSize, Granularity), FALSE)

create_mspace_with_base(base, capacity) == init_user_mstate(base, capacity, TRUE)

(***************************************************************************)
(* A space and the program that uses it.  live maps the blocks the program *)
(* holds to the bytes it asked for (for calloc, the true product).  The    *)
(* program frees and resizes only blocks it holds.                         *)
(***************************************************************************)
VARIABLES space, live

vars == <<space, live>>

\* Blocks of the given sizes, each followed by a minimal one; then those
\* blocks are freed, so that the minimal ones separate the free chunks.
RECURSIVE Fill(_, _, _)
Fill(s, held, sizes) ==
    IF sizes = <<>> THEN [s |-> s, held |-> held]
    ELSE LET a == CHOOSE o \in mspace_malloc(s, Head(sizes)) : TRUE
             b == CHOOSE o \in mspace_malloc(a.s, MIN_REQUEST) : TRUE
         IN Fill(b.s, Append(held, <<a.mem, b.mem>>), Tail(sizes))

RECURSIVE FreeAll(_, _)
FreeAll(s, held) ==
    IF held = <<>> THEN s
    ELSE FreeAll(CHOOSE f \in mspace_free(s, Head(held)[1]) : TRUE, Tail(held))

Init ==
    \/ /\ space \in {create_mspace(2 * PageSize, 0), create_mspace_with_base(PageSize, Granularity)}
       /\ live = [m \in {} |-> 0]
    \/ \E sizes \in Preludes :
         \E f \in {Fill(create_mspace_with_base(PageSize, Capacity), <<>>, sizes)} :
            /\ space = FreeAll(f.s, f.held)
            /\ live = [m \in {f.held[i][2] : i \in DOMAIN f.held} |-> MIN_REQUEST]

Hold(m, n, old) == IF m = 0 THEN live ELSE (m :> n) @@ Without(live, old)

Malloc(n) ==
    /\ Cardinality(DOMAIN live) < MaxLive
    /\ \E o \in mspace_malloc(space, n) : space' = o.s /\ live' = Hold(o.mem, n, {})

Calloc(n, size) ==
    /\ Cardinality(DOMAIN live) < MaxLive
    /\ \E o \in mspace_calloc(space, n, size) : space' = o.s /\ live' = Hold(o.mem, n * size, {})

Realloc(m, n) ==
    \E o \in mspace_realloc(space, m, n) : space' = o.s /\ live' = Hold(o.mem, n, {m})

Free(m) ==
    /\ space' \in mspace_free(space, m)
    /\ live' = Without(live, {m})

Next ==
    \/ \E n \in Requests : Malloc(n)
    \/ \E r \in CallocRequests : Calloc(r[1], r[2])
    \/ \E m \in DOMAIN live, n \in Resizes : Realloc(m, n)
    \/ \E m \in DOMAIN live : Free(m)

Spec == Init /\ [][Next]_vars

(***************************************************************************)
(* Properties.                                                             *)
(***************************************************************************)
HeadsOf(g) == {a \in DOMAIN space.head : InSegment(g, a)}
SegmentHeads == UNION {HeadsOf(space.seg[i]) : i \in DOMAIN space.seg}
IsFence(a) == space.head[a] = FENCEPOST
TopFoot == space.top + space.topsize
FreeChunks == {a \in SegmentHeads : ~space.head[a].cinuse} \ {space.top, TopFoot}
InTrees == UNION {ToSet(space.node[t].ring) : t \in DOMAIN space.node}
Binned ==
    UNION {ToSet(space.smallbins[i]) : i \in space.smallmap} \cup InTrees
    \cup (IF space.dvsize = 0 THEN {} ELSE {space.dv})

RECURSIVE Below(_)
Below(t) == IF t = 0 THEN {} ELSE {t} \cup UNION {Below(space.node[t].child[b]) : b \in 1..2}

RECURSIVE Depth(_)
Depth(t) == IF space.node[t].parent < 0 THEN 0 ELSE 1 + Depth(space.node[t].parent)

\* The chunks of a segment tile it, their boundary tags agree with their
\* neighbours and no two free chunks touch (do_check_any_chunk, free_chunk).
SegmentTiled(g) ==
    LET H == HeadsOf(g)
        end == g.base + g.size
    IN /\ g.base \in H /\ space.head[g.base].pinuse
       /\ \A a \in H :
            LET c == space.head[a]
                next == a + c.size
            IN /\ \A b \in H : b > a => b >= next
               /\ next \in H \/ (IsFence(a) /\ next = end - 8) \/ (a = TopFoot /\ next = end)
               /\ next \in H /\ a # TopFoot => space.head[next].pinuse = c.cinuse
               /\ a \in FreeChunks =>
                    /\ c.pinuse /\ space.head[next].cinuse
                    /\ space.foot[next] = c.size

\* Every tree is the trie of the sizes of its chunks (do_check_tree).
TreesSorted ==
    \A t \in DOMAIN space.node :
        LET N == space.node[t]
            i == N.index
            Bit(u) == TreeBit(chunksize(space, u), i, Depth(t))
        IN /\ i = compute_tree_index(chunksize(space, t))
           /\ \A j \in DOMAIN N.ring : chunksize(space, N.ring[j]) = chunksize(space, t)
           /\ IF N.parent < 0 THEN space.treebins[-1 - N.parent] = t /\ i = -1 - N.parent
              ELSE \E b \in 1..2 : space.node[N.parent].child[b] = t
           /\ \A b \in 1..2 : \A u \in Below(N.child[b]) :
                /\ Bit(u) = b - 1
                /\ chunksize(space, u) # chunksize(space, t)

\* m->footprint is the memory the space holds from the system, through every
\* append, prepend, trim, release, direct mapping, resize and failed unmap.
FootprintExact ==
    /\ space.footprint = PageSize * Cardinality(space.mapped)
    /\ space.max_footprint >= space.footprint

\* do_check_malloc_state holds after every operation, whatever mmap, mremap
\* and munmap answered: the segments are tiled by chunks with consistent
\* tags, the bins, dv and top together hold exactly the free chunks, each in
\* the bin of its size, the tree bins are tries, and the footprint is right.
HeapWellFormed ==
    /\ FootprintExact
    /\ \A i \in DOMAIN space.seg : SegmentTiled(space.seg[i])
    /\ space.top \in HeadsOf(Head(space.seg))
    /\ space.head[space.top] = [size |-> space.topsize, cinuse |-> FALSE, pinuse |-> TRUE]
    /\ Binned = FreeChunks
    /\ \A i \in space.smallmap : \A k \in DOMAIN space.smallbins[i] :
          chunksize(space, space.smallbins[i][k]) = 8 * i
    /\ space.dvsize # 0 => /\ chunksize(space, space.dv) = space.dvsize
                           /\ space.dv \notin InTrees
    /\ DOMAIN space.treebins = space.treemap
    /\ TreesSorted

\* The bytes of a block that its user may write: up to the head word of the
\* next chunk, for a directly mapped chunk up to its own end.
PayloadEnd(m) ==
    LET p == mem2chunk(m)
    IN p + chunksize(space, p) + (IF is_mmapped(space, p) THEN 0 ELSE 8)

\* A block handed out by malloc, calloc or realloc lies in memory the system
\* granted, is at least as long as the request (for calloc, the product
\* computed without overflow), and shares no byte with another block held,
\* with the malloc_state or with a segment record.
BlocksDisjoint ==
    LET Own(m) == m..(PayloadEnd(m) - 1)
    IN \A m \in DOMAIN live :
         /\ mem2chunk(m) \in DOMAIN space.head
         /\ is_inuse(space, mem2chunk(m))
         /\ PayloadEnd(m) - m >= live[m]
         /\ {m \div PageSize, (PayloadEnd(m) - 1) \div PageSize} \subseteq space.mapped
         /\ \A o \in DOMAIN live : o > m => o >= PayloadEnd(m)
         /\ \A i \in DOMAIN space.seg : space.seg[i].at \notin Own(m)

\* tmalloc_large finds the smallest binned tree chunk that fits a request
\* ("Find the smallest available binned chunk that fits"): walking one path of the trie,
\* and the deepest right subtree left behind, misses no better chunk.
BestFit ==
    \A nb \in {8 * i : i \in 32..46} :
        LET sizes == {chunksize(space, t) : t \in InTrees}
            fits == {z \in sizes : z >= nb}
            f == LargeFit(space, nb)
        IN IF fits = {} THEN f.v = 0 ELSE f.v # 0 /\ chunksize(space, f.v) = Min(fits)

\* No legal sequence of calls reaches CORRUPTION_ERROR_ACTION or
\* USAGE_ERROR_ACTION, which abort the tool.
NeverAborts == ~space.aborted
====
