------------------------------ MODULE MemPool -------------------------------
(***************************************************************************)
(* The pool every connection and the cycle allocate from: src/core/vs_mem.c*)
(*                                                                         *)
(* A pool is a list of blocks of one size; the first begins with the       *)
(* header of the pool, the others with a shorter one.  Small requests are  *)
(* cut from the first block, from `current' on, that has room; large ones  *)
(* go to malloc(), and a cell that remembers each is itself cut from the   *)
(* blocks.  Memory inside blocks comes back only by reset or destruction.  *)
(***************************************************************************)
EXTENDS Integers, Sequences, FiniteSets

CONSTANTS
    PoolSize,      \* bytes of a block
    PoolHeader,    \* sizeof(vs_pool_t), in the first block
    BlockHeader,   \* sizeof(vs_pool_data_t), in the others
    CellSize,      \* sizeof(vs_pool_large_t)
    MaxSmall,      \* VS_MAX_ALLOC_FROM_POOL
    FailedMax,     \* how often a block may fail (4) before it is passed over
    LargeScan,     \* how many cells are looked at for a free one (5)
    SizeMod,       \* a size_t counts modulo this (2^64)
    Addresses,     \* what malloc() may return for large requests
    NULL,
    Sizes,         \* the sizes requested
    MaxBlocks,     \* bound: blocks of the pool
    MaxCells,      \* bound: cells for large requests
    MaxReused,     \* bound: cells used again
    MaxFailures    \* bound: failing calls of malloc()

ASSUME SizeAssumption ==
    /\ PoolSize \in Nat /\ PoolHeader \in Nat /\ BlockHeader \in Nat
    /\ BlockHeader <= PoolHeader /\ PoolHeader <= PoolSize
    /\ CellSize \in Nat \ {0} /\ MaxSmall \in Nat /\ Sizes \subseteq Nat
    /\ CellSize <= MaxSmall /\ CellSize <= PoolSize - PoolHeader
ASSUME LimitAssumption ==
    FailedMax \in Nat /\ LargeScan \in Nat /\ SizeMod \in Nat \ {0} /\ NULL \notin Addresses
ASSUME BoundAssumption == {MaxBlocks, MaxCells, MaxReused, MaxFailures} \subseteq Nat

VARIABLES
    blocks,      \* the blocks: where d.last is, and d.failed; <<>>: no pool
    current,     \* the block pool->current points to
    larges,      \* alloc of the cells of pool->large, first to last
    block_nums, large_nums,
    areas,       \* what is in use inside the blocks
    heap,        \* the large requests malloc() has served and free() not taken back
    failures,    \* how often malloc() may still fail
    atReset,     \* history: blocks when the pool was created or last reset
    reused       \* history: cells that got a second large request

vars == <<blocks, current, larges, block_nums, large_nums, areas, heap, failures,
          atReset, reused>>

Header(b) == IF b = 1 THEN PoolHeader ELSE BlockHeader
MaxOf     == IF PoolSize - PoolHeader < MaxSmall THEN PoolSize - PoolHeader ELSE MaxSmall

Areas == [block : Nat \ {0}, from : Nat, to : Nat]

TypeOK ==
    /\ blocks \in Seq([last : Nat, failed : Nat])
    /\ current \in 0 .. Len(blocks)
    /\ larges \in Seq(Addresses \cup {NULL})
    /\ block_nums \in Nat /\ large_nums \in 0 .. SizeMod - 1
    /\ areas \subseteq Areas
    /\ heap \subseteq Addresses
    /\ failures \in Nat /\ atReset \in Nat /\ reused \in Nat

Empty ==
    /\ blocks = <<>> /\ current = 0 /\ larges = <<>> /\ areas = {}
    /\ block_nums = 0 /\ large_nums = 0
    /\ atReset = 0 /\ reused = 0

Init == Empty /\ heap = {} /\ failures = MaxFailures

-----------------------------------------------------------------------------
(* vs_create_pool(); without memory the caller gets NULL.                  *)
Create ==
    /\ blocks = <<>>
    /\ blocks' = <<[last |-> PoolHeader, failed |-> 0]>>
    /\ current' = 1 /\ larges' = <<>> /\ areas' = {}
    /\ block_nums' = 1 /\ large_nums' = 0
    /\ atReset' = 1 /\ reused' = 0
    /\ UNCHANGED <<heap, failures>>

MallocFails ==
    /\ failures > 0 /\ failures' = failures - 1
    /\ UNCHANGED <<blocks, current, larges, block_nums, large_nums, areas, heap,
                   atReset, reused>>

CreateFails == blocks = <<>> /\ MallocFails

Candidates == {b \in DOMAIN blocks : b >= current}
HasRoom(b, n) == PoolSize - blocks[b].last >= n
NoRoom(n)  == blocks # <<>> /\ \A b \in Candidates : ~HasRoom(b, n)

(* vs_palloc_small(): the first block from current on that has room.       *)
CutFrom(b, n) ==
    /\ HasRoom(b, n) /\ \A d \in Candidates : d < b => ~HasRoom(d, n)
    /\ blocks' = [blocks EXCEPT ![b].last = @ + n]
    /\ areas' = areas \cup {[block |-> b, from |-> blocks[b].last,
                             to |-> blocks[b].last + n]}
    /\ UNCHANGED <<current, block_nums>>

(* Blocks that vs_palloc_block() passes on its way to the last one; those  *)
(* that failed too often move current behind them.                         *)
Passed == Candidates \ {Len(blocks)}
GiveUp == {b \in Passed : blocks[b].failed > FailedMax}

(* Mutant: the block is added and nobody looks whether it failed.          *)
CutFromNew_Keeps(n) ==
    /\ NoRoom(n) /\ Len(blocks) < MaxBlocks
    /\ blocks' = Append([b \in DOMAIN blocks |->
                            IF b \in Passed THEN [blocks[b] EXCEPT !.failed = @ + 1]
                            ELSE blocks[b]],
                        [last |-> BlockHeader + n, failed |-> 0])
    /\ areas' = areas \cup {[block |-> Len(blocks) + 1, from |-> BlockHeader,
                             to |-> BlockHeader + n]}
    /\ UNCHANGED current
    /\ block_nums' = block_nums + 1

(* Mutant: last is set before the pointer has moved behind the header.     *)
CutFromNew_LastFirst(n) ==
    /\ NoRoom(n) /\ Len(blocks) < MaxBlocks
    /\ blocks' = Append([b \in DOMAIN blocks |->
                            IF b \in Passed THEN [blocks[b] EXCEPT !.failed = @ + 1]
                            ELSE blocks[b]],
                        [last |-> n, failed |-> 0])
    /\ areas' = areas \cup {[block |-> Len(blocks) + 1, from |-> BlockHeader,
                             to |-> BlockHeader + n]}
    /\ \/ GiveUp = {} /\ UNCHANGED current
       \/ \E b \in GiveUp : (\A d \in GiveUp : d <= b) /\ current' = b + 1
    /\ block_nums' = block_nums + 1

(* vs_palloc_block(): a new block at the end.                              *)
CutFromNew(n) ==
    /\ NoRoom(n) /\ Len(blocks) < MaxBlocks
    /\ blocks' = Append([b \in DOMAIN blocks |->
                            IF b \in Passed THEN [blocks[b] EXCEPT !.failed = @ + 1]
                            ELSE blocks[b]],
                        [last |-> BlockHeader + n, failed |-> 0])
    /\ areas' = areas \cup {[block |-> Len(blocks) + 1, from |-> BlockHeader,
                             to |-> BlockHeader + n]}
    /\ \/ GiveUp = {} /\ UNCHANGED current
       \/ \E b \in GiveUp : (\A d \in GiveUp : d <= b) /\ current' = b + 1
    /\ block_nums' = block_nums + 1

Small(n) == (\E b \in Candidates : CutFrom(b, n)) \/ CutFromNew(n)

(* vs_palloc() of a size that fits a block (0 gives NULL).                 *)
Palloc(n) ==
    /\ 0 < n /\ n <= MaxOf
    /\ Small(n)
    /\ UNCHANGED <<larges, large_nums, heap, failures, atReset, reused>>

PallocFails(n) == 0 < n /\ n <= MaxOf /\ NoRoom(n) /\ MallocFails

-----------------------------------------------------------------------------
(* vs_palloc_large() puts the new address into a free cell among the first *)
(* ones, without counting it ...                                           *)
FreeCells == {i \in DOMAIN larges : i <= LargeScan /\ larges[i] = NULL}

Reuse(p) ==
    /\ reused < MaxReused
    /\ p \in Addresses \ heap
    /\ \E i \in FreeCells :
          /\ \A j \in FreeCells : i <= j
          /\ larges' = [larges EXCEPT ![i] = p]
    /\ heap' = heap \cup {p}
    /\ reused' = reused + 1
    /\ UNCHANGED <<blocks, current, block_nums, large_nums, areas, failures, atReset>>

(* ... or into a new cell at the head of the list.                         *)
NewCell(p) ==
    /\ blocks # <<>> /\ FreeCells = {} /\ Len(larges) < MaxCells
    /\ p \in Addresses \ heap
    /\ Small(CellSize)
    /\ larges' = <<p>> \o larges
    /\ heap' = heap \cup {p}
    /\ large_nums' = (large_nums + 1) % SizeMod
    /\ UNCHANGED <<failures, atReset, reused>>

(* Mutant: the address is not given back when there is no cell for it.     *)
LargeFails_Keeps(p) ==
    /\ blocks # <<>> /\ p \in Addresses \ heap
    /\ FreeCells = {} /\ NoRoom(CellSize)
    /\ failures > 0 /\ failures' = failures - 1
    /\ heap' = heap \cup {p}
    /\ UNCHANGED <<blocks, current, larges, block_nums, large_nums, areas, atReset, reused>>

(* One of the two calls of malloc() fails, and what the first one returned *)
(* is given back.                                                          *)
LargeFails(p) == blocks # <<>> /\ p \in Addresses \ heap /\ MallocFails

Held(p) == p # NULL /\ \E i \in DOMAIN larges : larges[i] = p

(* Mutant: large_nums is an int, as the extern of vs_mem.h has it.         *)
Pfree_Int(p) ==
    /\ Held(p)
    /\ larges' = [i \in DOMAIN larges |-> IF larges[i] = p THEN NULL ELSE larges[i]]
    /\ heap' = heap \ {p}
    /\ large_nums' = large_nums - 1
    /\ UNCHANGED <<blocks, current, block_nums, areas, failures, atReset, reused>>

(* vs_pfree() of a large request; of anything else it does nothing, save   *)
(* for NULL, which it would find in a free cell.  (It has no caller yet.)  *)
Pfree(p) ==
    /\ Held(p)
    /\ larges' = [i \in DOMAIN larges |-> IF larges[i] = p THEN NULL ELSE larges[i]]
    /\ heap' = heap \ {p}
    /\ large_nums' = (large_nums - 1) % SizeMod
    /\ UNCHANGED <<blocks, current, block_nums, areas, failures, atReset, reused>>

Live == {i \in DOMAIN larges : larges[i] # NULL}

(* vs_reset_pool() keeps the blocks, whose headers differ (no caller yet). *)
Reset ==
    /\ blocks # <<>>
    /\ blocks' = [b \in DOMAIN blocks |-> [last |-> Header(b), failed |-> 0]]
    /\ current' = 1 /\ larges' = <<>> /\ areas' = {}
    /\ heap' = heap \ {larges[i] : i \in Live}
    /\ large_nums' = (large_nums - Cardinality(Live)) % SizeMod
    /\ atReset' = Len(blocks)
    /\ UNCHANGED <<block_nums, failures, reused>>

(* vs_destroy_pool() (nobody registers a cleanup handler).                 *)
Destroy ==
    /\ blocks # <<>>
    /\ blocks' = <<>> /\ current' = 0 /\ larges' = <<>> /\ areas' = {}
    /\ block_nums' = 0 /\ large_nums' = 0 /\ atReset' = 0 /\ reused' = 0
    /\ heap' = heap \ {larges[i] : i \in Live}
    /\ UNCHANGED failures

-----------------------------------------------------------------------------
Next ==
    \/ Create \/ CreateFails \/ Reset \/ Destroy
    \/ \E n \in Sizes : Palloc(n) \/ PallocFails(n)
    \/ \E p \in Addresses : Reuse(p) \/ NewCell(p) \/ LargeFails(p) \/ Pfree(p)

Spec == Init /\ [][Next]_vars

-----------------------------------------------------------------------------
(* Safety                                                                  *)

(***************************************************************************)
(* What the pool has handed out, and the cells it keeps for itself, lie    *)
(* inside one block behind its header and never overlap, and nothing was   *)
(* cut twice: through resets that rewind blocks with two kinds of headers. *)
(***************************************************************************)
AreasDisjoint ==
    /\ \A a \in areas :
          /\ a.block \in DOMAIN blocks /\ Header(a.block) <= a.from
          /\ a.to <= blocks[a.block].last /\ blocks[a.block].last <= PoolSize
    /\ \A a, b \in areas :
          a # b /\ a.block = b.block => a.to <= b.from \/ b.to <= a.from

(***************************************************************************)
(* Every large request that was not given back is in exactly one cell: it  *)
(* can be freed once, and destruction leaks nothing, whatever failed.      *)
(* block_nums counts the blocks; large_nums counts the large requests only *)
(* until a cell is used again, then it falls behind, and below 0 (which    *)
(* takes a caller of vs_pfree(); the program has none yet).                *)
(***************************************************************************)
HeapAccounted ==
    /\ heap = {larges[i] : i \in Live}
    /\ \A i, j \in Live : larges[i] = larges[j] => i = j
    /\ block_nums = Len(blocks)
    /\ large_nums = (Cardinality(heap) - reused) % SizeMod

(***************************************************************************)
(* A small request looks at a bounded number of blocks, however many the   *)
(* pool has got: the ones kept by the last reset, and FailedMax + 2 (full  *)
(* blocks are passed over once they have failed often enough).             *)
(***************************************************************************)
ScanBounded == Cardinality(Candidates) <= atReset + FailedMax + 2
=============================================================================
