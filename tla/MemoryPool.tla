------------------------------ MODULE MemoryPool ------------------------------
(***************************************************************************)
(* src/memory_pool.cpp: slabs of equal blocks for three size classes, the  *)
(* system's allocator for what is larger, and the statistics.              *)
(*                                                                         *)
(* Every call holds mutex_ from beginning to end, so it is one step.  An   *)
(* address is a pair: the allocation it belongs to (a slab, or a block of  *)
(* malloc) and the index of the block in it.  Callers give blocks back     *)
(* once and with the size they asked for, and Clear comes when no block of *)
(* a slab is out; blocks from malloc may be.                               *)
(***************************************************************************)
EXTENDS Integers, Sequences, FiniteSets, FiniteSetsExt, Functions

CONSTANTS Limit,         \* size class -> largest size it serves
          BlockCount,    \* size class -> blocks of a slab
          Sizes,         \* size arguments
          MaxBases,      \* bound: allocations from the system
          SizeT          \* size_t arithmetic is modulo SizeT

SlabClasses == {"SMALL", "MEDIUM", "LARGE"}

ASSUME MemoryAssumption ==
  /\ Limit \in [SlabClasses -> Nat] /\ BlockCount \in [SlabClasses -> Nat \ {0}]
  /\ Sizes \subseteq Nat /\ MaxBases \in Nat /\ SizeT \in Nat \ {0}

VARIABLES
  slabs_,    \* size class -> sequence of slabs
  stats_,
  live,      \* blocks that callers hold: address and size
  forgotten, \* history: blocks from malloc that were out at the last Clear
  bases      \* allocations made so far, to name the next one

memoryVars == <<slabs_, stats_, live, forgotten, bases>>

ZeroStats == [total_allocated_bytes |-> 0, total_freed_bytes |-> 0,
              current_used_bytes |-> 0, slab_count |-> 0,
              free_blocks |-> 0, allocated_blocks |-> 0]

Slab == [base : Nat, used : Seq(BOOLEAN), free_count : Nat]
Block == [base : Nat, index : Nat, size : Nat]

MemoryPoolTypeOK ==
  /\ slabs_ \in [SlabClasses -> Seq(Slab)]
  /\ stats_ \in [total_allocated_bytes : 0 .. SizeT - 1, total_freed_bytes : 0 .. SizeT - 1,
                 current_used_bytes : 0 .. SizeT - 1, slab_count : Nat,
                 free_blocks : Nat, allocated_blocks : 0 .. SizeT - 1]
  /\ live \subseteq Block
  /\ forgotten \subseteq Block
  /\ bases \in 0 .. MaxBases

MemoryPoolInit ==
  /\ slabs_ = [c \in SlabClasses |-> <<>>]
  /\ stats_ = ZeroStats
  /\ live = {}
  /\ forgotten = {}
  /\ bases = 0
-------------------------------------------------------------------------------
GetSizeClass(size) ==
  IF size <= Limit["SMALL"] THEN "SMALL"
  ELSE IF size <= Limit["MEDIUM"] THEN "MEDIUM"
  ELSE IF size <= Limit["LARGE"] THEN "LARGE"
  ELSE "HUGE"

\* The constructor of Slab, at a fresh address.
NewSlab(c) == [base |-> bases + 1,
               used |-> [n \in 1 .. BlockCount[c] |-> FALSE],
               free_count |-> BlockCount[c]]

\* Slab::AllocateBlock on a slab with a free block: its first one.
FirstFree(slab) == CHOOSE n \in DOMAIN slab.used :
                     ~slab.used[n] /\ \A m \in 1 .. n - 1 : slab.used[m]

AllocateBlock(slab) == [slab EXCEPT !.used[FirstFree(slab)] = TRUE, !.free_count = @ - 1]

SlabContains(slab, block) == slab.base = block.base

\* Mutant: free_count is not brought up to date.
DeallocateBlockUncounted(slab, block) == [slab EXCEPT !.used[block.index] = FALSE]

\* Slab::DeallocateBlock on a block that is in use.
DeallocateBlock(slab, block) ==
  [slab EXCEPT !.used[block.index] = FALSE, !.free_count = @ + 1]

\* What an allocation of size bytes adds to the statistics.
CountAllocated(stats, size) ==
  [stats EXCEPT !.total_allocated_bytes = (@ + size) % SizeT,
                !.current_used_bytes = (@ + size) % SizeT,
                !.allocated_blocks = (@ + 1) % SizeT]

CountFreed(stats, size) ==
  [stats EXCEPT !.total_freed_bytes = (@ + size) % SizeT,
                !.current_used_bytes = (@ - size) % SizeT,
                !.allocated_blocks = (@ - 1) % SizeT]

\* CreateSlab and its part of the statistics.
CreateSlab(stats, c) ==
  [stats EXCEPT !.slab_count = @ + 1, !.free_blocks = @ + BlockCount[c]]

\* The first slab of the class that has a free block, or 0.
SlabWithRoom(c) ==
  LET room == {n \in DOMAIN slabs_[c] : slabs_[c][n].free_count > 0}
  IN  IF room = {} THEN 0 ELSE Min(room)

\* The block of slab number n goes to the caller.
TakeFrom(c, slab_list, n, stats, size) ==
  /\ slabs_' = [slabs_ EXCEPT ![c] = [slab_list EXCEPT ![n] = AllocateBlock(@)]]
  /\ live' = live \cup {[base |-> slab_list[n].base, index |-> FirstFree(slab_list[n]),
                         size |-> size]}
  /\ stats_' = [CountAllocated(stats, size) EXCEPT !.free_blocks = @ - 1]

\* Allocate, for a size that a slab serves.
AllocateSmall(size) ==
  /\ size # 0
  /\ GetSizeClass(size) # "HUGE"
  /\ LET c == GetSizeClass(size)
         n == SlabWithRoom(c)
     IN  IF n # 0
         THEN TakeFrom(c, slabs_[c], n, stats_, size) /\ UNCHANGED bases
         ELSE /\ bases < MaxBases
              /\ bases' = bases + 1
              /\ TakeFrom(c, Append(slabs_[c], NewSlab(c)), Len(slabs_[c]) + 1,
                          CreateSlab(stats_, c), size)
  /\ UNCHANGED forgotten

\* Allocate, for a size that goes to malloc.
AllocateHuge(size) ==
  /\ GetSizeClass(size) = "HUGE"
  /\ bases < MaxBases
  /\ bases' = bases + 1
  /\ live' = live \cup {[base |-> bases + 1, index |-> 1, size |-> size]}
  /\ stats_' = CountAllocated(stats_, size)
  /\ UNCHANGED <<slabs_, forgotten>>

\* Allocate(0) and an allocation that the system refuses return nullptr.
AllocateFails(size) ==
  /\ \/ size = 0
     \/ GetSizeClass(size) = "HUGE"
     \/ GetSizeClass(size) # "HUGE" /\ SlabWithRoom(GetSizeClass(size)) = 0
  /\ UNCHANGED memoryVars

\* Deallocate of a block that its caller holds: FindSlabContaining looks
\* through all slabs of all classes.
Deallocate(block) ==
  /\ block \in live
  /\ live' = live \ {block}
  /\ IF GetSizeClass(block.size) = "HUGE"
     THEN stats_' = CountFreed(stats_, block.size) /\ UNCHANGED slabs_
     ELSE \E c \in SlabClasses : \E n \in DOMAIN slabs_[c] :
            /\ SlabContains(slabs_[c][n], block)
            /\ slabs_' = [slabs_ EXCEPT ![c][n] = DeallocateBlock(@, block)]
            /\ stats_' = [CountFreed(stats_, block.size) EXCEPT !.free_blocks = @ + 1]
  /\ UNCHANGED <<forgotten, bases>>

\* Clear gives the slabs back and starts the statistics anew.
Clear ==
  /\ \A b \in live : GetSizeClass(b.size) = "HUGE"
  /\ slabs_' = [c \in SlabClasses |-> <<>>]
  /\ stats_' = ZeroStats
  /\ forgotten' = live
  /\ UNCHANGED <<live, bases>>

MemoryPoolNext ==
  \/ \E size \in Sizes : AllocateSmall(size) \/ AllocateHuge(size) \/ AllocateFails(size)
  \/ \E block \in live : Deallocate(block)
  \/ Clear

MemoryPoolSpec == MemoryPoolInit /\ [][MemoryPoolNext]_memoryVars
-------------------------------------------------------------------------------
Slabs == UNION {Range(slabs_[c]) : c \in SlabClasses}

\* The places of a slab that are not in use.
Free(slab) == {slab.base} \X {k \in DOMAIN slab.used : ~slab.used[k]}

\* The sizes of blocks added up: the number of their bytes.
BytesOf(blocks) == Cardinality(UNION {{b} \X (1 .. b.size) : b \in blocks})

\* No address is handed out twice and none is lost: the blocks of a slab that
\* are marked used are the blocks callers hold, large enough for what they
\* asked for, and the counts that decide where Allocate looks agree with them.
BlocksHandedOutOnce ==
  /\ \A b, d \in live : b.base = d.base /\ b.index = d.index => b = d
  /\ \A c \in SlabClasses : \A n \in DOMAIN slabs_[c] :
       LET slab == slabs_[c][n]
           out == {b \in live : SlabContains(slab, b)}
       IN  /\ {b.index : b \in out} = {k \in DOMAIN slab.used : slab.used[k]}
           /\ slab.free_count = BlockCount[c] - Cardinality(out)
           /\ \A b \in out : b.size <= Limit[c]
  /\ stats_.free_blocks = Cardinality(UNION {Free(slab) : slab \in Slabs})
  /\ stats_.slab_count = Len(slabs_["SMALL"]) + Len(slabs_["MEDIUM"]) + Len(slabs_["LARGE"])

\* The statistics tell what callers hold, modulo the width of size_t and but
\* for blocks from malloc that were out at the last Clear.
StatsTellUsage ==
  /\ (stats_.current_used_bytes + BytesOf(forgotten)) % SizeT = BytesOf(live) % SizeT
  /\ (stats_.allocated_blocks + Cardinality(forgotten)) % SizeT = Cardinality(live) % SizeT

\* What the pool and its callers believe about memory agrees, after any calls
\* of Allocate, Deallocate and Clear.
MemoryConsistent == MemoryPoolTypeOK /\ BlocksHandedOutOnce /\ StatsTellUsage
===============================================================================
