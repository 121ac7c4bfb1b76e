------------------------------ MODULE MemPool ------------------------------
(***************************************************************************)
(* The allocator of mem/mem.c: first fit from a list of holes in address   *)
(* order, with every freed block merged with the holes on either side of   *)
(* it.  What runs under the pool's lock is one action; mem_realloc and     *)
(* mem_truncate, which work outside of it as well, are two.                *)
(*                                                                         *)
(* Memory is the headers in it: hsize and magic are defined at the         *)
(* addresses where a header starts, a header that a merge absorbs is gone. *)
(***************************************************************************)
EXTENDS Integers, FiniteSetsExt, SequencesExt

CONSTANTS
    Users,      \* the callers
    Chunks,     \* the memory mem_init is given: records [start, stop], the
                \* highest first, as its comment asks (mem.c:398-399)
    Ptr,        \* SIZEOF_POINTER
    Hdr,        \* sizeof (mheader_t)
    Requests    \* the sizes that callers ask for

ASSUME PoolConstants ==
    /\ Ptr \in Nat \ {0} /\ Hdr \in Nat \ {0} /\ Hdr % Ptr = 0
    /\ Requests \subseteq Nat
    /\ Chunks \in Seq([start : Nat, stop : Nat])
    /\ \A i \in DOMAIN Chunks :
          /\ Chunks[i].stop - Chunks[i].start >= Hdr + Ptr
          /\ Chunks[i].start % Ptr = 0 /\ Chunks[i].stop % Ptr = 0
          /\ i > 1 => Chunks[i].stop < Chunks[i - 1].start

VARIABLES
    chunks,     \* how many chunks mem_init has taken
    free_list,  \* the holes, as their addresses, from m->free_list along NEXT
    free_size,  \* m->free_size
    hsize,      \* h->size
    magic,      \* h->magic: "hole" or "block"
    owner,      \* the task that each block was given to
    doing,      \* of each task, the call it is in the middle of
    answer      \* of the last call, with what it was asked for

poolVars == <<chunks, free_list, free_size, hsize, magic, owner, doing, answer>>

Headers == DOMAIN hsize
Blocks  == {h \in Headers : magic[h] = "block"}
Idle    == [call |-> "none"]

\* What a call comes back with.
NoAnswer      == [is |-> "none"]
Granted(n, a) == [is |-> "block", asked |-> n, at |-> a]
Refusal(n)    == [is |-> "no_memory", asked |-> n]
Kept(n, a)    == [is |-> "cut", asked |-> n, at |-> a]

\* Block b is t's to use: no call of t is at work on it.
Owns(t, b) == b \in Blocks /\ owner[b] = t /\ doing[t] = Idle

\* Functions with some addresses more, or less.
Without(f, S)    == [h \in DOMAIN f \ S |-> f[h]]
Given(f, h, v)   == [a \in DOMAIN f \cup {h} |-> IF a = h THEN v ELSE f[a]]

Aligned(n) == ((n + Ptr - 1) \div Ptr) * Ptr

\* What a request takes with its header: at least a link, for when it is freed.
Required(n) == Aligned((IF n < Ptr THEN Ptr ELSE n) + Hdr)

\* Fault: the rest may be too short for the link of a hole.
SplitsTight(size, required) == size >= required + Hdr

\* A block is split only if the rest can be a hole.
Splits(size, required) == size >= required + Hdr + 2 * Ptr

PoolInit ==
    /\ chunks = 0
    /\ free_list = <<>> /\ free_size = 0
    /\ hsize = <<>> /\ magic = <<>> /\ owner = <<>>
    /\ doing = [t \in Users |-> Idle]
    /\ answer = NoAnswer

MemInit ==
    /\ chunks < Len(Chunks)
    /\ LET c == Chunks[chunks + 1]
       IN  /\ hsize' = Given(hsize, c.start, c.stop - c.start)
           /\ magic' = Given(magic, c.start, "hole")
           /\ free_list' = <<c.start>> \o free_list
           /\ free_size' = free_size + (c.stop - c.start)
    /\ chunks' = chunks + 1
    /\ answer' = NoAnswer
    /\ UNCHANGED <<owner, doing>>

-----------------------------------------------------------------------------
\* Fault: the header is not counted.
FittingLoose(required) ==
    {i \in DOMAIN free_list : hsize[free_list[i]] >= required - Hdr}

\* The holes that are large enough.
Fitting(required) ==
    {i \in DOMAIN free_list : hsize[free_list[i]] >= required}

\* The locked part of mem_alloc_dirty for a hole that was found.
Take(t, n) ==
    LET required == Required(n)
        i == Min(Fitting(required))
        h == free_list[i]
        new == h + required
    IN  /\ IF Splits(hsize[h], required)
           THEN /\ hsize' = Given(Given(hsize, h, required), new, hsize[h] - required)
                /\ magic' = Given(Given(magic, h, "block"), new, "hole")
                /\ free_list' = [free_list EXCEPT ![i] = new]
                /\ free_size' = free_size - required
           ELSE /\ magic' = Given(magic, h, "block")
                /\ free_list' = RemoveAt(free_list, i)
                /\ free_size' = free_size - hsize[h]
                /\ UNCHANGED hsize
        /\ owner' = Given(owner, h, t)
        /\ answer' = Granted(n, h)

Refused(n) ==
    /\ answer' = Refusal(n)
    /\ UNCHANGED <<free_list, free_size, hsize, magic, owner>>

\* mem_alloc and mem_alloc_dirty.
MemAlloc(t, n) ==
    /\ doing[t] = Idle
    /\ IF Fitting(Required(n)) # {} THEN Take(t, n) ELSE Refused(n)
    /\ UNCHANGED <<chunks, doing>>

-----------------------------------------------------------------------------
\* Where the walk of make_hole_locked ends: at the first hole above the new
\* one, at the hole that ends where the new one starts, or past the list.
Neighbour(new) ==
    Min({i \in DOMAIN free_list :
            \/ free_list[i] > new
            \/ free_list[i] + hsize[free_list[i]] = new} \cup {Len(free_list) + 1})

\* Fault: the next hole is merged, but stays on the list.
InsertedTwice(hs, new, i) ==
    LET h == free_list[i]
    IN  /\ free_list' = InsertAt(free_list, i, new)
        /\ IF new + hs[new] = h
           THEN /\ hsize' = Without(Given(hs, new, hs[new] + hs[h]), {h})
                /\ magic' = Without(Given(magic, new, "hole"), {h})
           ELSE /\ hsize' = hs
                /\ magic' = Given(magic, new, "hole")

\* "Insert the new hole before the old one", merged with it if they touch.
Inserted(hs, new, i) ==
    LET h == free_list[i]
    IN  IF new + hs[new] = h
        THEN /\ free_list' = [free_list EXCEPT ![i] = new]
             /\ hsize' = Without(Given(hs, new, hs[new] + hs[h]), {h})
             /\ magic' = Without(Given(magic, new, "hole"), {h})
        ELSE /\ free_list' = InsertAt(free_list, i, new)
             /\ hsize' = hs
             /\ magic' = Given(magic, new, "hole")

\* Fault: the hole that grew down to the next one is not merged with it.
AppendedOnce(hs, new, i) ==
    /\ hsize' = Without(Given(hs, free_list[i], hs[free_list[i]] + hs[new]), {new})
    /\ magic' = Without(magic, {new})
    /\ UNCHANGED free_list

\* "Append the new hole at the end of the old one", and the next one to both
\* if it starts where they end.
Appended(hs, new, i) ==
    LET h == free_list[i]
        size == hs[h] + hs[new]
    IN  IF i < Len(free_list) /\ h + size = free_list[i + 1]
        THEN /\ free_list' = RemoveAt(free_list, i + 1)
             /\ hsize' = Without(Given(hs, h, size + hs[free_list[i + 1]]),
                                 {new, free_list[i + 1]})
             /\ magic' = Without(magic, {new, free_list[i + 1]})
        ELSE /\ hsize' = Without(Given(hs, h, size), {new})
             /\ magic' = Without(magic, {new})
             /\ UNCHANGED free_list

\* Fault: the size of the hole is counted after the merge.
CountedMerged(new, size) == hsize'[free_list'[Min({Neighbour(new), Len(free_list')})]]

\* What make_hole_locked adds to m->free_size.
Counted(new, size) == size

\* make_hole_locked of the header at new, in memory where sizes are hs.
MakeHole(hs, new) ==
    LET i == Neighbour(new)
    IN  /\ IF i > Len(free_list)
           THEN /\ free_list' = Append(free_list, new)
                /\ hsize' = hs
                /\ magic' = Given(magic, new, "hole")
           ELSE IF free_list[i] > new
                THEN Inserted(hs, new, i)
                ELSE Appended(hs, new, i)
        /\ free_size' = free_size + Counted(new, hs[new])

MemFree(t, b) ==
    /\ Owns(t, b)
    /\ MakeHole(hsize, b)
    /\ owner' = Without(owner, {b})
    /\ answer' = NoAnswer
    /\ UNCHANGED <<chunks, doing>>

-----------------------------------------------------------------------------
\* mem_realloc up to the end of its mem_alloc.  A block that is large enough
\* is returned as it is: nothing happens.
MemRealloc(t, b, n) ==
    /\ Owns(t, b)
    /\ hsize[b] - Hdr < n
    /\ IF Fitting(Required(n)) # {}
       THEN /\ doing' = [doing EXCEPT ![t] =
                            [call |-> "realloc", old |-> b,
                             new |-> free_list[Min(Fitting(Required(n)))]]]
            /\ Take(t, n)
       ELSE /\ doing' = [doing EXCEPT ![t] = [call |-> "realloc_failed", old |-> b]]
            /\ Refused(n)
    /\ UNCHANGED chunks

\* ... and the mem_make_hole after the copy, or after the failure: the old
\* block is freed in both cases.
MemReallocDone(t) ==
    /\ doing[t].call \in {"realloc", "realloc_failed"}
    /\ MakeHole(hsize, doing[t].old)
    /\ owner' = Without(owner, {doing[t].old})
    /\ doing' = [doing EXCEPT ![t] = Idle]
    /\ answer' = NoAnswer
    /\ UNCHANGED chunks

\* mem_truncate tests the size before it takes the lock ...
MemTruncate(t, b, n) ==
    /\ Owns(t, b)
    /\ Splits(hsize[b], Required(n))
    /\ doing' = [doing EXCEPT ![t] = [call |-> "truncate", old |-> b, keep |-> n]]
    /\ answer' = NoAnswer
    /\ UNCHANGED <<chunks, free_list, free_size, hsize, magic, owner>>

\* The headers after the split of a block: the rest is a header of its own.
Cut(b, size) == Given(Given(hsize, b, size), b + size, hsize[b] - size)

\* ... and makes a hole of the rest under the lock.
MemTruncateDone(t) ==
    /\ doing[t].call = "truncate"
    /\ LET b == doing[t].old
           size == Required(doing[t].keep)
       IN  MakeHole(Cut(b, size), b + size)
    /\ doing' = [doing EXCEPT ![t] = Idle]
    /\ answer' = Kept(doing[t].keep, doing[t].old)
    /\ UNCHANGED <<chunks, owner>>

PoolNext ==
    \/ MemInit
    \/ \E t \in Users :
          \/ MemReallocDone(t)
          \/ MemTruncateDone(t)
          \/ \E n \in Requests : MemAlloc(t, n)
          \/ \E b \in Blocks :
                \/ MemFree(t, b)
                \/ \E n \in Requests : MemRealloc(t, b, n) \/ MemTruncate(t, b, n)

PoolSpec == PoolInit /\ [][PoolNext]_poolVars
-----------------------------------------------------------------------------
\* Type correctness: the list and the magics speak of headers, every block has
\* an owner, and a task in the middle of a call still owns what it works on.
PoolTypeOK ==
    /\ chunks \in 0 .. Len(Chunks)
    /\ free_list \in Seq(Headers) /\ free_size \in Nat
    /\ hsize \in [Headers -> Nat]
    /\ magic \in [Headers -> {"hole", "block"}]
    /\ owner \in [Blocks -> Users]
    /\ answer.is \in {"none", "block", "no_memory", "cut"}
    /\ \A t \in Users : doing[t] # Idle => doing[t].old \in Blocks /\ owner[doing[t].old] = t

Extent(h) == h .. h + hsize[h] - 1
Memory == UNION {Chunks[i].start .. Chunks[i].stop - 1 : i \in 1 .. chunks}

\* Blocks and holes tile the memory of the pool: no byte belongs to two of
\* them and none is lost, whatever was split, freed, merged and truncated.
\* The free list holds every hole once, in address order, and no two holes
\* touch (the comments at mem.c:105, 176-180); each has room for its header and
\* its link; the magics agree with the list, so that none of the tests of
\* MEM_DEBUG halts the system; and free_size is what mem_available promises.
PoolIsSound ==
    /\ UNION {Extent(h) : h \in Headers} = Memory
    /\ \A g, h \in Headers : g # h => Extent(g) \cap Extent(h) = {}
    /\ {free_list[i] : i \in DOMAIN free_list} = {h \in Headers : magic[h] = "hole"}
    /\ \A i \in 1 .. Len(free_list) - 1 :
          free_list[i] + hsize[free_list[i]] < free_list[i + 1]
    /\ \A h \in Headers : hsize[h] >= Hdr + Ptr
    /\ free_size = Cardinality(UNION {Extent(h) : h \in Headers \ Blocks})

\* What a call found out before it let go of the lock is still true when it
\* uses it: the memcpy of mem_realloc stays within the new block, which is not
\* the old one, and what mem_truncate is about to cut off can be a hole.
UnlockedWorkIsSafe ==
    \A t \in Users :
        /\ doing[t].call = "realloc" =>
              /\ doing[t].new \in Blocks /\ owner[doing[t].new] = t
              /\ doing[t].new # doing[t].old
              /\ hsize[doing[t].old] < hsize[doing[t].new]
        /\ doing[t].call = "truncate" =>
              Splits(hsize[doing[t].old], Required(doing[t].keep))

\* The pool keeps the allocator's promise: a block is free memory as long as
\* its caller asked for, and above all, a request is refused only when there is
\* no stretch of free memory of its length.
APool == INSTANCE Allocator WITH
            Need <- Required,
            memory <- Memory,
            used <- {[at |-> b, len |-> hsize[b]] : b \in Blocks}

ImplementsAllocator == APool!Spec
=============================================================================
