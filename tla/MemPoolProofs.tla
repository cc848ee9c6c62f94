--------------------------- MODULE MemPoolProofs ----------------------------
(***************************************************************************)
(* Proofs about MemPool, for every size of blocks, headers and requests:   *)
(* what is handed out never overlaps, large requests are held by exactly   *)
(* one cell, and the search for room stays bounded.                        *)
(***************************************************************************)
EXTENDS MemPool, FiniteSetTheorems, SequenceTheorems, TLAPS

(* The part of the invariant about the blocks.                             *)
BlocksTyped ==
    /\ blocks \in Seq([last : Nat, failed : Nat]) /\ current \in 0 .. Len(blocks)
    /\ areas \subseteq Areas /\ block_nums = Len(blocks) /\ atReset \in Nat

(* A pool has a block, and current points to one.                          *)
PoolShape ==
    /\ blocks = <<>> => current = 0 /\ areas = {} /\ atReset = 0
    /\ blocks # <<>> => current \in DOMAIN blocks /\ atReset \in DOMAIN blocks

LastInBlock ==
    \A b \in DOMAIN blocks : Header(b) <= blocks[b].last /\ blocks[b].last <= PoolSize

(* A block from current on has failed once for each block that was added   *)
(* behind it, bar the one that made it fail to be the last, and never      *)
(* oftener than it may.                                                    *)
FailuresCounted ==
    \A b \in Candidates :
       /\ b < atReset => blocks[b].failed = Len(blocks) - atReset
       /\ b >= atReset /\ b < Len(blocks) => blocks[b].failed = Len(blocks) - b - 1
       /\ b = Len(blocks) => blocks[b].failed = 0
       /\ blocks[b].failed <= FailedMax + 1

BlocksInv == BlocksTyped /\ PoolShape /\ LastInBlock /\ AreasDisjoint /\ FailuresCounted

(* The part about large requests.                                          *)
LargeInv ==
    /\ larges \in Seq(Addresses \cup {NULL})
    /\ heap \subseteq Addresses /\ IsFiniteSet(heap)
    /\ blocks = <<>> => larges = <<>>
    /\ reused \in Nat /\ failures \in Nat
    /\ large_nums \in 0 .. SizeMod - 1
    /\ HeapAccounted

(* The inductive invariant.                                                *)
PoolInv == BlocksInv /\ LargeInv

-----------------------------------------------------------------------------
(* Counting modulo SizeMod                                                 *)

LEMMA ModUnique ==
  ASSUME NEW m \in Nat \ {0}, NEW q \in Int, NEW r \in 0 .. m - 1, NEW x \in Int, x = q * m + r
  PROVE  x % m = r
OBVIOUS

LEMMA ModSplit ==
  ASSUME NEW m \in Nat \ {0}, NEW x \in Int
  PROVE  \E q \in Int, r \in 0 .. m - 1 : x = q * m + r /\ x % m = r
<1>1. x = (x \div m) * m + (x % m)  OBVIOUS
<1>2. x % m \in 0 .. m - 1 /\ x \div m \in Int  OBVIOUS
<1> QED  BY <1>1, <1>2

LEMMA ModAdd ==
  ASSUME NEW m \in Nat \ {0}, NEW x \in Int, NEW y \in Int
  PROVE  ((x % m) + y) % m = (x + y) % m
<1>1. PICK q \in Int, r \in 0 .. m - 1 : x = q * m + r /\ x % m = r  BY ModSplit
<1>2. r + y \in Int /\ x + y \in Int  OBVIOUS
<1>3. PICK p \in Int, s \in 0 .. m - 1 : r + y = p * m + s /\ (r + y) % m = s
  BY <1>2, ModSplit
<1>4. x + y = (q + p) * m + s /\ q + p \in Int  BY <1>1, <1>3
<1>5. PICK k \in Int : x + y = k * m + s  BY <1>4
<1>6. \A z \in Int : z = k * m + s => z % m = s
  <2> TAKE z \in Int
  <2> HAVE z = k * m + s
  <2> QED  BY ModUnique
<1>7. (x + y) % m = s  BY <1>2, <1>5, <1>6
<1> QED  BY <1>1, <1>3, <1>7

-----------------------------------------------------------------------------
(* What a block is after one was added: as before, except that each passed *)
(* one has failed once more.                                               *)
LEMMA BlockAdded ==
  ASSUME BlocksTyped, NEW n \in Nat, CutFromNew(n)
  PROVE  /\ blocks' \in Seq([last : Nat, failed : Nat])
         /\ Len(blocks') = Len(blocks) + 1 /\ DOMAIN blocks' = 1 .. Len(blocks) + 1
         /\ \A b \in DOMAIN blocks :
               /\ blocks'[b].last = blocks[b].last
               /\ blocks'[b].failed = IF b \in Passed THEN blocks[b].failed + 1
                                      ELSE blocks[b].failed
         /\ blocks'[Len(blocks) + 1] = [last |-> BlockHeader + n, failed |-> 0]
<1> DEFINE old == [b \in DOMAIN blocks |->
                      IF b \in Passed THEN [blocks[b] EXCEPT !.failed = @ + 1] ELSE blocks[b]]
           new == [last |-> BlockHeader + n, failed |-> 0]
           B   == [last : Nat, failed : Nat]
<1>1. DOMAIN blocks = 1 .. Len(blocks) /\ Len(blocks) \in Nat /\ \A b \in DOMAIN blocks : blocks[b] \in B
  BY LenProperties, ElementOfSeq DEF BlocksTyped
<1>2. \A b \in DOMAIN blocks : old[b] \in B  BY <1>1
<1>3. old \in Seq(B) /\ Len(old) = Len(blocks)  BY <1>1, <1>2, IsASeq
<1>4. new \in B  BY SizeAssumption
<1>5. blocks' = Append(old, new)  BY DEF CutFromNew
<1> HIDE DEF new
<1>6. \A b \in DOMAIN blocks :
         /\ old[b].last = blocks[b].last
         /\ old[b].failed = IF b \in Passed THEN blocks[b].failed + 1 ELSE blocks[b].failed
  BY <1>1
<1> HIDE DEF old, B
<1>7. /\ blocks' \in Seq(B) /\ Len(blocks') = Len(blocks) + 1
      /\ \A b \in 1 .. Len(blocks) : blocks'[b] = old[b]
      /\ blocks'[Len(blocks) + 1] = new
  BY <1>3, <1>4, <1>5, AppendProperties
<1>8. DOMAIN blocks' = 1 .. Len(blocks) + 1  BY <1>7, <1>1, LenProperties
<1> QED  BY <1>1, <1>6, <1>7, <1>8 DEF B, new

(* A request that fits an empty block keeps the blocks in order.           *)
LEMMA SmallKeeps ==
  ASSUME BlocksInv, NEW n \in Nat \ {0}, n <= PoolSize - PoolHeader, Small(n), atReset' = atReset
  PROVE  BlocksInv'
<1>t. BlocksTyped /\ PoolShape /\ LastInBlock /\ AreasDisjoint /\ FailuresCounted
  BY DEF BlocksInv
<1>0. /\ DOMAIN blocks = 1 .. Len(blocks) /\ Len(blocks) \in Nat
      /\ \A b \in DOMAIN blocks : blocks[b] \in [last : Nat, failed : Nat]
  BY <1>t, LenProperties, ElementOfSeq DEF BlocksTyped
<1>h. /\ PoolSize \in Nat /\ PoolHeader \in Nat /\ BlockHeader \in Nat
      /\ PoolHeader <= PoolSize /\ BlockHeader <= PoolHeader
      /\ \A b \in Int : Header(b) \in Nat /\ BlockHeader <= Header(b) /\ Header(b) <= PoolHeader
      /\ \A b \in Int : b # 1 => Header(b) = BlockHeader
  BY SizeAssumption DEF Header
<1>l. \A b \in DOMAIN blocks : blocks[b].last \in Nat /\ blocks[b].failed \in Nat
  BY <1>0
<1>1. ASSUME NEW b \in Candidates, CutFrom(b, n) PROVE BlocksInv'
  <2>1. b \in DOMAIN blocks /\ blocks[b].last + n \in Nat /\ blocks[b].last + n <= PoolSize
    <3>1. b \in DOMAIN blocks  BY DEF Candidates
    <3>2. blocks[b].last \in Nat  BY <3>1, <1>l
    <3>3. PoolSize - blocks[b].last >= n  BY <1>1 DEF CutFrom, HasRoom
    <3> QED  BY <1>h, <3>1, <3>2, <3>3
  <2>2. /\ blocks' \in Seq([last : Nat, failed : Nat]) /\ Len(blocks') = Len(blocks)
        /\ DOMAIN blocks' = DOMAIN blocks
        /\ \A d \in DOMAIN blocks : /\ blocks'[d].failed = blocks[d].failed
                                    /\ blocks'[d].last = IF d = b THEN blocks[b].last + n
                                                         ELSE blocks[d].last
    BY SMTT(30), <1>0, <1>t, <1>1, <2>1 DEF CutFrom, BlocksTyped
  <2>3. areas' = areas \cup {[block |-> b, from |-> blocks[b].last, to |-> blocks[b].last + n]}
    BY <1>1 DEF CutFrom
  <2>4. BlocksTyped'  BY <1>0, <1>t, <1>1, <2>1, <2>2, <2>3 DEF CutFrom, Areas, BlocksTyped
  <2>5. PoolShape'  BY <1>0, <1>t, <1>1, <2>1, <2>2 DEF CutFrom, PoolShape
  <2>6. LastInBlock'
    <3>1. ASSUME NEW d \in DOMAIN blocks PROVE Header(d) <= blocks'[d].last /\ blocks'[d].last <= PoolSize
      <4>1. d \in Int /\ Header(d) \in Nat /\ blocks[d].last \in Nat  BY <1>0, <1>l, <1>h
      <4>2. Header(d) <= blocks[d].last /\ blocks[d].last <= PoolSize  BY <1>t DEF LastInBlock
      <4>3. CASE d = b  BY <2>1, <2>2, <4>1, <4>2, <4>3
      <4>4. CASE d # b  BY <2>2, <4>2, <4>4
      <4> QED  BY <4>3, <4>4
    <3> QED  BY <2>2, <3>1 DEF LastInBlock, Header
  <2>7. AreasDisjoint'
    <3> DEFINE new == [block |-> b, from |-> blocks[b].last, to |-> blocks[b].last + n]
    <3>1. \A a \in areas : /\ a.block \in DOMAIN blocks /\ Header(a.block) <= a.from
                           /\ a.to <= blocks[a.block].last /\ blocks[a.block].last <= PoolSize
                           /\ a.to \in Nat
      BY <1>t DEF AreasDisjoint, BlocksTyped, Areas
    <3>2. /\ new.block = b /\ new.from = blocks[b].last /\ new.to = blocks[b].last + n
          /\ Header(b) <= new.from
      BY <1>t, <2>1 DEF LastInBlock
    <3>3. areas' = areas \cup {new}  BY <2>3
    <3> HIDE DEF new
    <3>4. \A a \in areas' : /\ a.block \in DOMAIN blocks' /\ Header(a.block) <= a.from
                            /\ a.to <= blocks'[a.block].last /\ blocks'[a.block].last <= PoolSize
      <4>1. ASSUME NEW d \in DOMAIN blocks PROVE blocks[d].last <= blocks'[d].last
        <5>1. blocks[d].last \in Nat /\ blocks[d].last <= blocks[d].last + n  BY <1>l
        <5>2. CASE d = b  BY <2>2, <5>1, <5>2
        <5>3. CASE d # b  BY <2>2, <5>1, <5>3
        <5> QED  BY <5>2, <5>3
      <4>2. \A d \in DOMAIN blocks : blocks'[d].last <= PoolSize /\ blocks'[d].last \in Nat
        BY <1>l, <1>t, <2>1, <2>2 DEF LastInBlock
      <4>3. \A a \in areas : a.to <= blocks'[a.block].last
        BY <1>l, <3>1, <4>1, <4>2
      <4> QED  BY <2>1, <2>2, <3>1, <3>2, <3>3, <4>2, <4>3
    <3>5. \A a \in areas : a.block = b => a.to <= new.from
      BY <3>1, <3>2
    <3>6. \A a, c \in areas' : a # c /\ a.block = c.block => a.to <= c.from \/ c.to <= a.from
      BY <1>t, <3>2, <3>3, <3>5 DEF AreasDisjoint
    <3> QED  BY <3>4, <3>6 DEF AreasDisjoint, Header
  <2>8. FailuresCounted'
    BY <1>0, <1>t, <1>1, <2>2 DEF FailuresCounted, Candidates, CutFrom
  <2> QED  BY <2>4, <2>5, <2>6, <2>7, <2>8 DEF BlocksInv
<1>2. CASE CutFromNew(n)
  <2>1. /\ blocks' \in Seq([last : Nat, failed : Nat])
        /\ Len(blocks') = Len(blocks) + 1 /\ DOMAIN blocks' = 1 .. Len(blocks) + 1
        /\ \A b \in DOMAIN blocks :
              /\ blocks'[b].last = blocks[b].last
              /\ blocks'[b].failed = IF b \in Passed THEN blocks[b].failed + 1
                                     ELSE blocks[b].failed
        /\ blocks'[Len(blocks) + 1].last = BlockHeader + n
        /\ blocks'[Len(blocks) + 1].failed = 0
    <3>1. n \in Nat  OBVIOUS
    <3>2. blocks'[Len(blocks) + 1] = [last |-> BlockHeader + n, failed |-> 0]
      BY <3>1, <1>2, <1>t, BlockAdded
    <3> QED  BY <3>1, <3>2, <1>2, <1>t, BlockAdded
  <2>2. areas' = areas \cup {[block |-> Len(blocks) + 1, from |-> BlockHeader,
                              to |-> BlockHeader + n]}
    BY <1>2 DEF CutFromNew
  <2>3. /\ blocks # <<>> /\ Len(blocks) > 0 /\ current \in 1 .. Len(blocks)
        /\ atReset \in 1 .. Len(blocks)
    BY <1>0, <1>t, <1>2 DEF CutFromNew, NoRoom, PoolShape
  <2>4. Passed = {b \in 1 .. Len(blocks) : current <= b /\ b < Len(blocks)}
    BY <1>0, <2>3 DEF Passed, Candidates
  <2>5. /\ current' \in 1 .. Len(blocks) /\ current <= current'
        /\ \A b \in Passed : current' <= b => blocks[b].failed <= FailedMax
    <3>1. CASE GiveUp = {} /\ UNCHANGED current
      BY <3>1, <1>l, <1>0, <2>3, <2>4, LimitAssumption DEF GiveUp
    <3>2. ASSUME NEW b \in GiveUp, \A d \in GiveUp : d <= b, current' = b + 1
          PROVE  /\ current' \in 1 .. Len(blocks) /\ current <= current'
                 /\ \A d \in Passed : current' <= d => blocks[d].failed <= FailedMax
      <4>1. b \in Passed  BY DEF GiveUp
      <4>2. \A d \in Passed : d > b => blocks[d].failed <= FailedMax
        BY <1>l, <1>0, <2>4, <3>2, LimitAssumption DEF GiveUp
      <4> QED  BY <2>3, <2>4, <3>2, <4>1, <4>2
    <3> QED  BY <1>2, <3>1, <3>2 DEF CutFromNew
  <2>6. BlocksTyped'
    <3>1. [block |-> Len(blocks) + 1, from |-> BlockHeader, to |-> BlockHeader + n] \in Areas
      <4>1. Len(blocks) + 1 \in Nat /\ Len(blocks) + 1 # 0  BY <1>0
      <4>2. BlockHeader \in Nat /\ BlockHeader + n \in Nat  BY <1>h
      <4> QED  BY <4>1, <4>2 DEF Areas
    <3>2. areas' \subseteq Areas  BY <1>t, <2>2, <3>1 DEF BlocksTyped
    <3> QED  BY SMTT(30), <1>0, <1>t, <1>2, <2>1, <2>5, <3>2 DEF CutFromNew, BlocksTyped
  <2>7. PoolShape'  BY SMTT(30), <1>0, <1>t, <1>2, <2>1, <2>3, <2>5 DEF PoolShape
  <2>8. LastInBlock'
    <3>1. ASSUME NEW d \in 1 .. Len(blocks) PROVE Header(d) <= blocks'[d].last /\ blocks'[d].last <= PoolSize
      BY <1>t, <1>0, <2>1 DEF LastInBlock
    <3>2. Len(blocks) + 1 # 1 /\ Len(blocks) + 1 \in Int  BY <1>0, <2>3
    <3>3. Header(Len(blocks) + 1) = BlockHeader  BY <1>h, <3>2
    <3>4. BlockHeader <= BlockHeader + n /\ BlockHeader + n <= PoolSize  BY <1>h
    <3>5. \A d \in 1 .. Len(blocks) + 1 : d \in 1 .. Len(blocks) \/ d = Len(blocks) + 1  BY <1>0
    <3> QED  BY <2>1, <3>1, <3>3, <3>4, <3>5 DEF LastInBlock, Header
  <2>9. AreasDisjoint'
    <3> DEFINE new == [block |-> Len(blocks) + 1, from |-> BlockHeader, to |-> BlockHeader + n]
    <3>1. \A a \in areas : /\ a.block \in DOMAIN blocks /\ Header(a.block) <= a.from
                           /\ a.to <= blocks[a.block].last /\ blocks[a.block].last <= PoolSize
      BY <1>t DEF AreasDisjoint
    <3>2. /\ new.block = Len(blocks) + 1 /\ new.from = BlockHeader /\ new.to = BlockHeader + n
      OBVIOUS
    <3>3. areas' = areas \cup {new}  BY <2>2
    <3> HIDE DEF new
    <3>4. Header(Len(blocks) + 1) = BlockHeader /\ BlockHeader + n <= PoolSize
      <4>1. Len(blocks) + 1 # 1 /\ Len(blocks) + 1 \in Int  BY <1>0, <2>3
      <4>2. BlockHeader + n <= PoolSize  BY <1>h
      <4> QED  BY <1>h, <4>1, <4>2
    <3>5. \A a \in areas : a.block # new.block  BY <1>0, <3>1, <3>2
    <3>6. \A a \in areas : /\ a.block \in DOMAIN blocks' /\ Header(a.block) <= a.from
                           /\ a.to <= blocks'[a.block].last /\ blocks'[a.block].last <= PoolSize
      BY SMTT(30), <1>0, <2>1, <3>1
    <3>7. /\ new.block \in DOMAIN blocks' /\ Header(new.block) <= new.from
          /\ new.to <= blocks'[new.block].last /\ blocks'[new.block].last <= PoolSize
      <4>1. BlockHeader <= BlockHeader /\ BlockHeader + n <= BlockHeader + n  BY <1>h
      <4>2. Len(blocks) + 1 \in DOMAIN blocks'  BY <1>0, <2>1
      <4> QED  BY <2>1, <3>2, <3>4, <4>1, <4>2
    <3>8. \A a, c \in areas' : a # c /\ a.block = c.block => a.to <= c.from \/ c.to <= a.from
      BY <1>t, <3>3, <3>5 DEF AreasDisjoint
    <3> QED  BY <3>3, <3>6, <3>7, <3>8 DEF AreasDisjoint, Header
  <2>10. FailuresCounted'
    <3>1. \A b \in 1 .. Len(blocks) : current <= b =>
             /\ b < atReset => blocks[b].failed = Len(blocks) - atReset
             /\ b >= atReset /\ b < Len(blocks) => blocks[b].failed = Len(blocks) - b - 1
             /\ b = Len(blocks) => blocks[b].failed = 0
      BY <1>t, <1>0 DEF FailuresCounted, Candidates
    <3>a. SUFFICES ASSUME NEW b \in Candidates'
                   PROVE  /\ b < atReset' => blocks'[b].failed = Len(blocks') - atReset'
                          /\ b >= atReset' /\ b < Len(blocks') =>
                                blocks'[b].failed = Len(blocks') - b - 1
                          /\ b = Len(blocks') => blocks'[b].failed = 0
                          /\ blocks'[b].failed <= FailedMax + 1
      BY DEF FailuresCounted
    <3>b. b \in 1 .. Len(blocks) + 1 /\ current' <= b
      BY <1>0, <2>1, <2>5 DEF Candidates
    <3>2. SUFFICES /\ b < atReset => blocks'[b].failed = Len(blocks) + 1 - atReset
                   /\ b >= atReset /\ b < Len(blocks) + 1 =>
                         blocks'[b].failed = Len(blocks) + 1 - b - 1
                   /\ b = Len(blocks) + 1 => blocks'[b].failed = 0
                   /\ blocks'[b].failed <= FailedMax + 1
      BY <1>0, <2>1, <2>3, <3>b
    <3>3. CASE b = Len(blocks) + 1
      BY SMTT(30), <1>0, <2>1, <2>3, <3>3, LimitAssumption
    <3>4. CASE b = Len(blocks)
      <4>1. b \notin Passed /\ b \in 1 .. Len(blocks) /\ current <= b
        BY <1>0, <2>3, <2>4, <2>5, <3>b, <3>4
      <4>2. blocks'[b].failed = 0  BY <1>0, <2>1, <3>1, <3>4, <4>1
      <4> QED  BY <1>0, <2>3, <3>4, <4>2, LimitAssumption
    <3>5. CASE b < Len(blocks)
      <4>1. b \in Passed /\ b \in 1 .. Len(blocks) /\ current <= b
        BY <1>0, <2>3, <2>4, <2>5, <3>b, <3>5
      <4>2. blocks'[b].failed = blocks[b].failed + 1 /\ blocks[b].failed <= FailedMax
        BY <1>0, <2>1, <2>5, <3>b, <4>1
      <4>3. blocks[b].failed \in Nat  BY <1>l, <1>0, <4>1
      <4>4. /\ b < atReset => blocks[b].failed = Len(blocks) - atReset
            /\ b >= atReset => blocks[b].failed = Len(blocks) - b - 1
        BY <3>1, <3>5, <4>1
      <4> DEFINE f == blocks[b].failed
                 g == blocks'[b].failed
                 L == Len(blocks)
      <4>5. f \in Nat /\ g = f + 1 /\ f <= FailedMax /\ L \in Nat /\ atReset \in 1 .. L /\ b \in 1 .. L
        BY <1>0, <2>3, <4>1, <4>2, <4>3
      <4> HIDE DEF f, g, L
      <4>6. /\ b < atReset => g = L + 1 - atReset
            /\ b >= atReset => g = L + 1 - b - 1
            /\ g <= FailedMax + 1 /\ b # L + 1
        BY <4>4, <4>5, LimitAssumption DEF f, g, L
      <4> QED  BY <4>6 DEF f, g, L
    <3>c. \A l \in Nat : \A d \in 1 .. l + 1 : d = l + 1 \/ d = l \/ d < l  OBVIOUS
    <3>6. b = Len(blocks) + 1 \/ b = Len(blocks) \/ b < Len(blocks)  BY <1>0, <3>b, <3>c
    <3> QED  BY <3>3, <3>4, <3>5, <3>6
  <2> QED  BY <2>6, <2>7, <2>8, <2>9, <2>10 DEF BlocksInv
<1> QED  BY <1>1, <1>2 DEF Small

-----------------------------------------------------------------------------
(* The cells of large requests and what malloc() has served.               *)

LEMMA LargeEmpty ==
  ASSUME LargeInv, blocks = <<>> PROVE Live = {} /\ heap = {}
BY DEF LargeInv, HeapAccounted, Live

LEMMA ZeroCount == ASSUME NEW m \in Nat \ {0} PROVE 0 % m = 0 /\ (0 - 0) % m = 0
<1>1. 0 = 0 * m + 0 /\ 0 \in 0 .. m - 1  OBVIOUS
<1>2. 0 % m = 0  BY <1>1, ModUnique
<1> QED  BY <1>2

(* Every live cell holds a request of its own, so there are as many.       *)
LEMMA LiveCounted ==
  ASSUME LargeInv
  PROVE  IsFiniteSet(Live) /\ Cardinality(Live) = Cardinality(heap)
<1>1. /\ heap = {larges[i] : i \in Live} /\ IsFiniteSet(heap)
      /\ \A i, j \in Live : larges[i] = larges[j] => i = j
  BY DEF LargeInv, HeapAccounted
<1> DEFINE back == [p \in heap |-> CHOOSE i \in Live : larges[i] = p]
<1>2. \A p \in heap : back[p] \in Live /\ larges[back[p]] = p  BY <1>1
<1>3. \A i \in Live : larges[i] \in heap /\ back[larges[i]] = i  BY <1>1, <1>2
<1>4. back \in Bijection(heap, Live)
  <2>1. back \in [heap -> Live]  BY <1>2
  <2>2. \A p, q \in heap : back[p] = back[q] => p = q  BY <1>2
  <2>3. \A i \in Live : \E p \in heap : back[p] = i  BY <1>3
  <2> QED  BY <2>1, <2>2, <2>3 DEF Bijection, Injection, Surjection, IsInjective
<1> QED  BY <1>1, <1>4, FS_Bijection DEF ExistsBijection

LEMMA ReuseKeeps ==
  ASSUME LargeInv, NEW p \in Addresses, Reuse(p) PROVE LargeInv'
<1>1. /\ larges \in Seq(Addresses \cup {NULL}) /\ heap \subseteq Addresses
      /\ IsFiniteSet(heap) /\ reused \in Nat /\ HeapAccounted /\ p # NULL
  BY LimitAssumption DEF LargeInv
<1>2. PICK i \in DOMAIN larges : larges[i] = NULL /\ larges' = [larges EXCEPT ![i] = p]
  BY DEF Reuse, FreeCells
<1>3. /\ larges' \in Seq(Addresses \cup {NULL}) /\ DOMAIN larges' = DOMAIN larges
      /\ \A j \in DOMAIN larges : larges'[j] = IF j = i THEN p ELSE larges[j]
  BY <1>1, <1>2
<1>4. Live' = Live \cup {i} /\ i \notin Live  BY <1>1, <1>2, <1>3 DEF Live
<1>5. p \notin heap /\ heap' = heap \cup {p} /\ reused' = reused + 1  BY DEF Reuse
<1>6. IsFiniteSet(heap') /\ Cardinality(heap') = Cardinality(heap) + 1
  BY <1>1, <1>5, FS_AddElement
<1>7. heap' = {larges'[j] : j \in Live'}
  BY <1>1, <1>3, <1>4, <1>5 DEF HeapAccounted, Live
<1>8. \A j, k \in Live' : larges'[j] = larges'[k] => j = k
  BY <1>1, <1>3, <1>4, <1>5 DEF HeapAccounted, Live
<1>9. Cardinality(heap)' - reused' = Cardinality(heap) - reused
  BY <1>1, <1>5, <1>6, FS_CardinalityType
<1>10. HeapAccounted'
  BY <1>1, <1>7, <1>8, <1>9 DEF HeapAccounted, Reuse
<1> QED  BY <1>1, <1>3, <1>5, <1>6, <1>10 DEF LargeInv, Reuse

LEMMA NewCellKeeps ==
  ASSUME LargeInv, NEW p \in Addresses, NewCell(p), Small(CellSize), block_nums' = Len(blocks')
  PROVE  LargeInv'
<1>1. /\ larges \in Seq(Addresses \cup {NULL}) /\ heap \subseteq Addresses
      /\ IsFiniteSet(heap) /\ reused \in Nat /\ HeapAccounted /\ p # NULL /\ SizeMod \in Nat \ {0}
  BY LimitAssumption DEF LargeInv
<1>2. /\ larges' = <<p>> \o larges /\ p \notin heap /\ heap' = heap \cup {p}
      /\ large_nums' = (large_nums + 1) % SizeMod /\ reused' = reused /\ failures' = failures
  BY DEF NewCell
<1>3. /\ larges' \in Seq(Addresses \cup {NULL}) /\ Len(larges') = Len(larges) + 1
      /\ larges'[1] = p /\ \A j \in 1 .. Len(larges) : larges'[j + 1] = larges[j]
      /\ DOMAIN larges = 1 .. Len(larges) /\ DOMAIN larges' = 1 .. Len(larges) + 1
      /\ Len(larges) \in Nat
  BY <1>1, <1>2
<1>4. /\ 1 \in Live' /\ \A j \in Live : j + 1 \in Live'
      /\ \A j \in Live' : j # 1 => j - 1 \in Live /\ larges'[j] = larges[j - 1]
  <2>1. 1 \in Live'  BY <1>1, <1>3 DEF Live
  <2>2. \A j \in Live : j + 1 \in Live'  BY <1>3 DEF Live
  <2>3. ASSUME NEW j \in Live', j # 1 PROVE j - 1 \in Live /\ larges'[j] = larges[j - 1]
    <3>1. j \in 1 .. Len(larges) + 1 /\ larges'[j] # NULL  BY <1>3 DEF Live
    <3>2. j - 1 \in 1 .. Len(larges) /\ (j - 1) + 1 = j  BY <1>3, <2>3, <3>1
    <3> QED  BY <1>3, <3>1, <3>2 DEF Live
  <2> QED  BY <2>1, <2>2, <2>3
<1>5. IsFiniteSet(heap') /\ Cardinality(heap') = Cardinality(heap) + 1
  BY <1>1, <1>2, FS_AddElement
<1>6. heap' = {larges'[j] : j \in Live'}
  <2>1. ASSUME NEW q \in heap PROVE \E j \in Live' : larges'[j] = q
    <3>1. PICK j \in Live : larges[j] = q  BY <1>1 DEF HeapAccounted
    <3>2. j \in 1 .. Len(larges)  BY <1>3 DEF Live
    <3> QED  BY <1>3, <1>4, <3>1, <3>2
  <2>2. ASSUME NEW j \in Live' PROVE larges'[j] \in heap'
    <3>1. CASE j = 1  BY <1>2, <1>3, <3>1
    <3>2. CASE j # 1
      <4>1. j - 1 \in Live /\ larges'[j] = larges[j - 1]  BY <1>4, <3>2
      <4>2. larges[j - 1] \in heap  BY <1>1, <4>1 DEF HeapAccounted
      <4> QED  BY <1>2, <4>1, <4>2
    <3> QED  BY <3>1, <3>2
  <2>3. \E j \in Live' : larges'[j] = p  BY <1>3, <1>4
  <2>4. \A q \in heap' : \E j \in Live' : larges'[j] = q  BY <1>2, <2>1, <2>3
  <2> QED  BY <2>2, <2>4
<1>7. \A j, k \in Live' : larges'[j] = larges'[k] => j = k
  <2>1. \A j \in Live : larges[j] # p  BY <1>1, <1>2 DEF HeapAccounted
  <2>2. Live' \subseteq Int  BY <1>3 DEF Live
  <2>3. ASSUME NEW j \in Live', NEW k \in Live', larges'[j] = larges'[k], j # 1, k # 1 PROVE j = k
    <3>1. j - 1 = k - 1  BY <1>1, <1>4, <2>3 DEF HeapAccounted
    <3> QED  BY <2>2, <3>1
  <2> QED  BY <1>3, <1>4, <2>1, <2>3
<1>8. large_nums' = (Cardinality(heap') - reused') % SizeMod
  <2>1. Cardinality(heap) - reused \in Int /\ Cardinality(heap) \in Nat  BY <1>1, FS_CardinalityType
  <2>2. large_nums' = ((Cardinality(heap) - reused) + 1) % SizeMod
    <3>1. PICK x \in Int : x = Cardinality(heap) - reused  BY <2>1
    <3>2. large_nums' = ((x % SizeMod) + 1) % SizeMod  BY <1>1, <1>2, <3>1 DEF HeapAccounted
    <3>3. ((x % SizeMod) + 1) % SizeMod = (x + 1) % SizeMod
      <4>1. PICK y \in Int : y = 1  OBVIOUS
      <4>2. ((x % SizeMod) + y) % SizeMod = (x + y) % SizeMod  BY <1>1, ModAdd
      <4> QED  BY <4>1, <4>2
    <3> QED  BY <3>1, <3>2, <3>3
  <2>3. (Cardinality(heap) - reused) + 1 = Cardinality(heap') - reused'
    BY <1>1, <1>2, <1>5, <2>1
  <2> QED  BY <2>2, <2>3
<1>9. large_nums' \in 0 .. SizeMod - 1
  <2>1. Cardinality(heap') - reused' \in Int  BY <1>1, <1>2, <1>5, FS_CardinalityType
  <2> QED  BY <1>1, <1>8, <2>1, ModSplit
<1>10. blocks' # <<>>
  BY DEF NewCell, Small, CutFrom, CutFromNew, Candidates
<1> QED  BY <1>1, <1>2, <1>3, <1>5, <1>6, <1>7, <1>8, <1>9, <1>10 DEF LargeInv, HeapAccounted

LEMMA PfreeKeeps ==
  ASSUME LargeInv, NEW p \in Addresses, Pfree(p), block_nums' = Len(blocks') PROVE LargeInv'
<1>1. /\ larges \in Seq(Addresses \cup {NULL}) /\ heap \subseteq Addresses
      /\ IsFiniteSet(heap) /\ reused \in Nat /\ HeapAccounted /\ p # NULL /\ SizeMod \in Nat \ {0}
      /\ blocks = <<>> => larges = <<>>
  BY LimitAssumption DEF LargeInv
<1>2. /\ larges' = [i \in DOMAIN larges |-> IF larges[i] = p THEN NULL ELSE larges[i]]
      /\ heap' = heap \ {p} /\ large_nums' = (large_nums - 1) % SizeMod
      /\ reused' = reused /\ failures' = failures /\ blocks' = blocks
  BY DEF Pfree
<1>3. PICK i \in DOMAIN larges : larges[i] = p  BY DEF Pfree, Held
<1>4. /\ DOMAIN larges' = DOMAIN larges /\ DOMAIN larges = 1 .. Len(larges) /\ Len(larges) \in Nat
      /\ \A j \in DOMAIN larges : larges'[j] = IF larges[j] = p THEN NULL ELSE larges[j]
  BY <1>1, <1>2
<1>5. larges' \in Seq(Addresses \cup {NULL})
  <2>1. \A j \in 1 .. Len(larges) : larges[j] \in Addresses \cup {NULL}  BY <1>1, <1>4
  <2> QED  BY <1>2, <1>4, <2>1, IsASeq
<1>6. i \in Live /\ Live' = Live \ {i} /\ p \in heap
  BY <1>1, <1>3, <1>4 DEF Live, HeapAccounted
<1>7. heap' = {larges'[j] : j \in Live'}
  BY <1>1, <1>2, <1>3, <1>4, <1>6 DEF Live, HeapAccounted
<1>8. \A j, k \in Live' : larges'[j] = larges'[k] => j = k
  BY <1>1, <1>3, <1>4, <1>6 DEF Live, HeapAccounted
<1>9. IsFiniteSet(heap') /\ Cardinality(heap') = Cardinality(heap) - 1
  BY <1>1, <1>2, <1>6, FS_RemoveElement
<1>10. /\ large_nums' = (Cardinality(heap') - reused') % SizeMod
       /\ large_nums' \in 0 .. SizeMod - 1
  <2>1. Cardinality(heap) - reused \in Int /\ Cardinality(heap) \in Nat  BY <1>1, FS_CardinalityType
  <2>2. PICK x \in Int : x = Cardinality(heap) - reused  BY <2>1
  <2>3. large_nums' = ((x % SizeMod) - 1) % SizeMod  BY <1>1, <1>2, <2>2 DEF HeapAccounted
  <2>4. (x % SizeMod) - 1 = (x % SizeMod) + (-1)
    <3>1. x % SizeMod \in Int  BY <1>1, ModSplit
    <3> QED  BY <3>1
  <2>5. large_nums' = (x + (-1)) % SizeMod
    <3>1. PICK y \in Int : y = -1  OBVIOUS
    <3>2. ((x % SizeMod) + y) % SizeMod = (x + y) % SizeMod  BY <1>1, ModAdd
    <3> QED  BY <2>3, <2>4, <3>1, <3>2
  <2>6. x + (-1) = Cardinality(heap') - reused' /\ x + (-1) \in Int  BY <1>1, <1>2, <1>9, <2>1, <2>2
  <2>7. (x + (-1)) % SizeMod \in 0 .. SizeMod - 1  BY <1>1, <2>6, ModSplit
  <2> QED  BY <2>5, <2>6, <2>7
<1>11. blocks' = <<>> => larges' = <<>>
  BY <1>1, <1>2, <1>3
<1> QED  BY <1>1, <1>2, <1>5, <1>7, <1>8, <1>9, <1>10, <1>11 DEF LargeInv, HeapAccounted

(* Reset and destruction give back exactly what is held; without cells     *)
(* nothing is.                                                             *)
LEMMA ClearedKeeps ==
  ASSUME LargeInv, larges' = <<>>, heap' = heap \ {larges[i] : i \in Live},
         block_nums' = Len(blocks'), failures' \in Nat, reused' \in Nat,
         \/ large_nums' = (large_nums - Cardinality(Live)) % SizeMod /\ reused' = reused
         \/ large_nums' = 0 /\ reused' = 0
  PROVE  LargeInv'
<1>1. /\ heap = {larges[i] : i \in Live} /\ reused \in Nat /\ SizeMod \in Nat \ {0}
      /\ large_nums = (Cardinality(heap) - reused) % SizeMod /\ IsFiniteSet(heap)
  BY LimitAssumption DEF LargeInv, HeapAccounted
<1>2. heap' = {} /\ Live' = {}  BY <1>1 DEF Live
<1>3. IsFiniteSet(heap') /\ Cardinality(heap') = 0  BY <1>2, FS_EmptySet
<1>4. /\ large_nums' = (0 - reused') % SizeMod
      /\ large_nums' \in 0 .. SizeMod - 1
  <2>1. CASE large_nums' = 0 /\ reused' = 0
    BY <1>1, <2>1, ZeroCount
  <2>2. CASE large_nums' = (large_nums - Cardinality(Live)) % SizeMod /\ reused' = reused
    <3>1. PICK c \in Int : c = Cardinality(heap) /\ c = Cardinality(Live)
      <4>1. Cardinality(heap) \in Int /\ Cardinality(heap) = Cardinality(Live)
        BY <1>1, LiveCounted, FS_CardinalityType
      <4> QED  BY <4>1
    <3>2. PICK x \in Int : x = c - reused
      <4>1. c - reused \in Int  BY <1>1
      <4> QED  BY <4>1
    <3>3. x % SizeMod \in Int  BY <1>1, ModSplit
    <3>4. large_nums' = ((x % SizeMod) - c) % SizeMod  BY <1>1, <2>2, <3>1, <3>2
    <3>5. (x % SizeMod) - c = (x % SizeMod) + (-c) /\ -c \in Int  BY <3>1, <3>3
    <3>6. large_nums' = (x + (-c)) % SizeMod  BY <1>1, <3>4, <3>5, ModAdd
    <3>7. x + (-c) = 0 - reused' /\ x + (-c) \in Int  BY <1>1, <2>2, <3>1, <3>2
    <3>8. (x + (-c)) % SizeMod \in 0 .. SizeMod - 1  BY <1>1, <3>7, ModSplit
    <3> QED  BY <3>6, <3>7, <3>8
  <2> QED  BY <2>1, <2>2
<1> QED  BY <1>2, <1>3, <1>4 DEF LargeInv, HeapAccounted

-----------------------------------------------------------------------------
(* Create, Reset and Destroy leave blocks that are empty.                  *)
LEMMA RewoundKeeps ==
  ASSUME BlocksInv, blocks # <<>>,
         blocks' = [b \in DOMAIN blocks |-> [last |-> Header(b), failed |-> 0]],
         current' = 1, areas' = {}, atReset' = Len(blocks), block_nums' = block_nums
  PROVE  BlocksInv'
<1>1. /\ DOMAIN blocks = 1 .. Len(blocks) /\ Len(blocks) \in Nat /\ Len(blocks) # 0
      /\ block_nums = Len(blocks)
  BY LenProperties, EmptySeq DEF BlocksInv, BlocksTyped
<1>h. \A b : Header(b) \in Nat /\ Header(b) <= PoolSize
  BY SizeAssumption DEF Header
<1>2. /\ blocks' \in Seq([last : Nat, failed : Nat]) /\ Len(blocks') = Len(blocks)
      /\ DOMAIN blocks' = DOMAIN blocks
      /\ \A b \in DOMAIN blocks : blocks'[b].last = Header(b) /\ blocks'[b].failed = 0
  <2>1. \A b \in 1 .. Len(blocks) : [last |-> Header(b), failed |-> 0] \in [last : Nat, failed : Nat]
    BY <1>h
  <2>2. blocks' \in Seq([last : Nat, failed : Nat])  BY <1>1, <2>1, IsASeq
  <2> QED  BY <1>1, <2>2
<1>3. BlocksTyped' /\ PoolShape'  BY <1>1, <1>2 DEF BlocksTyped, PoolShape
<1>4. LastInBlock'
  <2>1. \A b \in DOMAIN blocks' : Header(b) <= blocks'[b].last /\ blocks'[b].last <= PoolSize
    BY <1>h, <1>2
  <2> QED  BY <2>1 DEF LastInBlock, Header
<1>5. AreasDisjoint'  BY DEF AreasDisjoint
<1>6. FailuresCounted'
  <2>1. SUFFICES ASSUME NEW b \in Candidates'
                 PROVE  /\ b < atReset' => blocks'[b].failed = Len(blocks') - atReset'
                        /\ b >= atReset' /\ b < Len(blocks') =>
                              blocks'[b].failed = Len(blocks') - b - 1
                        /\ b = Len(blocks') => blocks'[b].failed = 0
                        /\ blocks'[b].failed <= FailedMax + 1
    BY DEF FailuresCounted
  <2>2. b \in 1 .. Len(blocks)  BY <1>1, <1>2 DEF Candidates
  <2>3. blocks'[b].failed = 0 /\ 0 <= FailedMax + 1 /\ Len(blocks) - Len(blocks) = 0
    BY <1>1, <1>2, <2>2, LimitAssumption
  <2> QED  BY <1>1, <1>2, <2>2, <2>3
<1> QED  BY <1>3, <1>4, <1>5, <1>6 DEF BlocksInv

LEMMA FreshKeeps ==
  ASSUME BlocksInv,
         \/ /\ blocks' = <<[last |-> PoolHeader, failed |-> 0]>> /\ current' = 1
            /\ block_nums' = 1 /\ atReset' = 1
         \/ blocks' = <<>> /\ current' = 0 /\ block_nums' = 0 /\ atReset' = 0,
         areas' = {}
  PROVE  BlocksInv'
<1> USE SizeAssumption, LimitAssumption
<1>1. CASE blocks' = <<>> /\ current' = 0 /\ block_nums' = 0 /\ atReset' = 0
  BY <1>1 DEF BlocksInv, BlocksTyped, PoolShape, LastInBlock, AreasDisjoint, FailuresCounted, Candidates
<1>2. CASE /\ blocks' = <<[last |-> PoolHeader, failed |-> 0]>> /\ current' = 1
           /\ block_nums' = 1 /\ atReset' = 1
  <2>1. /\ blocks' \in Seq([last : Nat, failed : Nat]) /\ Len(blocks') = 1 /\ DOMAIN blocks' = {1}
        /\ blocks'[1].last = PoolHeader /\ blocks'[1].failed = 0 /\ blocks' # <<>>
    BY <1>2
  <2>2. BlocksTyped' /\ PoolShape'  BY <1>2, <2>1 DEF BlocksTyped, PoolShape
  <2>3. LastInBlock'  BY <2>1 DEF LastInBlock, Header
  <2>4. AreasDisjoint'  BY DEF AreasDisjoint
  <2>5. FailuresCounted'  BY <1>2, <2>1 DEF FailuresCounted, Candidates
  <2> QED  BY <2>2, <2>3, <2>4, <2>5 DEF BlocksInv
<1> QED  BY <1>1, <1>2

-----------------------------------------------------------------------------
LEMMA PoolInit == Init => PoolInv
<1> SUFFICES ASSUME Init PROVE PoolInv  OBVIOUS
<1> USE DEF Init, Empty
<1>1. BlocksInv
  BY DEF BlocksInv, BlocksTyped, PoolShape, LastInBlock, AreasDisjoint, FailuresCounted, Candidates
<1>2. Live = {} /\ IsFiniteSet(heap) /\ Cardinality(heap) = 0  BY FS_EmptySet DEF Live
<1>3. SizeMod \in Nat \ {0} /\ MaxFailures \in Nat  BY LimitAssumption, BoundAssumption
<1>4. large_nums = (Cardinality(heap) - reused) % SizeMod /\ large_nums \in 0 .. SizeMod - 1
  BY <1>2, <1>3, ZeroCount
<1>5. LargeInv  BY <1>2, <1>3, <1>4 DEF LargeInv, HeapAccounted
<1> QED  BY <1>1, <1>5 DEF PoolInv

(* What the large part of the invariant needs of a small request.          *)
LEMMA SmallRequest ==
  ASSUME BlocksInv, NEW n \in Nat \ {0}, n <= PoolSize - PoolHeader, Small(n), atReset' = atReset
  PROVE  BlocksInv' /\ block_nums' = Len(blocks') /\ blocks' # <<>>
<1>1. BlocksInv'  BY SmallKeeps
<1>2. blocks' # <<>>  BY DEF Small, CutFrom, CutFromNew, Candidates
<1> QED  BY <1>1, <1>2 DEF BlocksInv, BlocksTyped

LEMMA PoolStep == PoolInv /\ [Next]_vars => PoolInv'
<1> SUFFICES ASSUME PoolInv, [Next]_vars PROVE PoolInv'  OBVIOUS
<1>0. BlocksInv /\ LargeInv  BY DEF PoolInv
<1>1. CASE UNCHANGED vars
  BY <1>0, <1>1 DEF PoolInv, BlocksInv, BlocksTyped, PoolShape, LastInBlock, AreasDisjoint,
     FailuresCounted, Candidates, LargeInv, HeapAccounted, Live, Header, vars
<1>2. ASSUME MallocFails PROVE PoolInv'
  <2>1. failures' \in Nat  BY <1>0, <1>2 DEF MallocFails, LargeInv
  <2> QED  BY <1>0, <1>2, <2>1 DEF MallocFails, PoolInv, BlocksInv, BlocksTyped, PoolShape,
       LastInBlock, AreasDisjoint, FailuresCounted, Candidates, LargeInv, HeapAccounted, Live, Header
<1>3. CASE Create
  <2>1. BlocksInv'  BY <1>0, <1>3, FreshKeeps DEF Create
  <2>2. Live = {} /\ heap = {}  BY <1>0, <1>3, LargeEmpty DEF Create
  <2>3. /\ larges' = <<>> /\ heap' = heap \ {larges[i] : i \in Live} /\ large_nums' = 0
        /\ reused' = 0 /\ failures' \in Nat
    BY <1>0, <1>3, <2>2 DEF Create, LargeInv
  <2>4. LargeInv'  BY <1>0, <2>1, <2>3, ClearedKeeps DEF BlocksInv, BlocksTyped
  <2> QED  BY <2>1, <2>4 DEF PoolInv
<1>4. CASE Destroy
  <2>1. BlocksInv'  BY <1>0, <1>4, FreshKeeps DEF Destroy
  <2>2. failures' \in Nat  BY <1>0, <1>4 DEF Destroy, LargeInv
  <2>3. LargeInv'
    BY <1>0, <1>4, <2>1, <2>2, ClearedKeeps DEF Destroy, BlocksInv, BlocksTyped
  <2> QED  BY <2>1, <2>3 DEF PoolInv
<1>5. CASE Reset
  <2>1. BlocksInv'  BY <1>0, <1>5, RewoundKeeps DEF Reset
  <2>2. failures' \in Nat /\ reused' \in Nat  BY <1>0, <1>5 DEF Reset, LargeInv
  <2>3. LargeInv'
    BY <1>0, <1>5, <2>1, <2>2, ClearedKeeps DEF Reset, BlocksInv, BlocksTyped
  <2> QED  BY <2>1, <2>3 DEF PoolInv
<1>6. ASSUME NEW n \in Sizes, Palloc(n) PROVE PoolInv'
  <2>1. n \in Nat \ {0} /\ n <= PoolSize - PoolHeader
    BY <1>6, SizeAssumption DEF Palloc, MaxOf
  <2>2. Small(n) /\ atReset' = atReset  BY <1>6 DEF Palloc
  <2>3. BlocksInv' /\ block_nums' = Len(blocks') /\ blocks' # <<>>
    BY <1>0, <2>1, <2>2, SmallRequest
  <2>4. LargeInv'
    BY <1>0, <1>6, <2>3 DEF Palloc, LargeInv, HeapAccounted, Live
  <2> QED  BY <2>3, <2>4 DEF PoolInv
<1>7. ASSUME NEW p \in Addresses, Reuse(p) PROVE PoolInv'
  <2>1. BlocksInv'
    BY <1>0, <1>7 DEF Reuse, BlocksInv, BlocksTyped, PoolShape, LastInBlock, AreasDisjoint,
       FailuresCounted, Candidates, Header
  <2> QED  BY <1>0, <1>7, <2>1, ReuseKeeps DEF PoolInv
<1>8. ASSUME NEW p \in Addresses, NewCell(p) PROVE PoolInv'
  <2>1. CellSize \in Nat \ {0} /\ CellSize <= PoolSize - PoolHeader  BY SizeAssumption
  <2>2. Small(CellSize) /\ atReset' = atReset  BY <1>8 DEF NewCell
  <2>3. BlocksInv' /\ block_nums' = Len(blocks')
    BY <1>0, <2>1, <2>2, SmallRequest
  <2>4. LargeInv'  BY <1>0, <1>8, <2>2, <2>3, NewCellKeeps
  <2> QED  BY <2>3, <2>4 DEF PoolInv
<1>9. ASSUME NEW p \in Addresses, Pfree(p) PROVE PoolInv'
  <2>1. BlocksInv'
    BY <1>0, <1>9 DEF Pfree, BlocksInv, BlocksTyped, PoolShape, LastInBlock, AreasDisjoint,
       FailuresCounted, Candidates, Header
  <2>2. block_nums' = Len(blocks')  BY <2>1 DEF BlocksInv, BlocksTyped
  <2> QED  BY <1>0, <1>9, <2>1, <2>2, PfreeKeeps DEF PoolInv
<1> QED  BY <1>1, <1>2, <1>3, <1>4, <1>5, <1>6, <1>7, <1>8, <1>9
            DEF Next, CreateFails, PallocFails, LargeFails

(***************************************************************************)
(* The invariant holds in every behaviour of the pool, whatever the sizes, *)
(* the limits and the calls of malloc() that fail.                         *)
(***************************************************************************)
THEOREM PoolInvariant == Spec => []PoolInv
BY PoolInit, PoolStep, PTL DEF Spec

(* The variables keep their types; large_nums stays a size_t.              *)
THEOREM TypeCorrect == Spec => []TypeOK
<1>1. PoolInv => TypeOK
  BY DEF PoolInv, BlocksInv, BlocksTyped, LargeInv, TypeOK
<1> QED  BY PoolInvariant, <1>1, PTL

(* What vs_palloc() hands out never overlaps and stays in its block.       *)
THEOREM NothingOverlaps == Spec => []AreasDisjoint
<1>1. PoolInv => AreasDisjoint  BY DEF PoolInv, BlocksInv
<1> QED  BY PoolInvariant, <1>1, PTL

(* Each large request is held by one cell, and the two counters count what *)
(* they are said to.                                                       *)
THEOREM LargeAccounted == Spec => []HeapAccounted
<1>1. PoolInv => HeapAccounted  BY DEF PoolInv, LargeInv
<1> QED  BY PoolInvariant, <1>1, PTL

(* vs_palloc_small() looks at a bounded number of blocks.                  *)
THEOREM SearchIsShort == Spec => []ScanBounded
<1>1. ASSUME PoolInv PROVE ScanBounded
  <2>1. BlocksTyped /\ PoolShape /\ FailuresCounted  BY <1>1 DEF PoolInv, BlocksInv
  <2>2. DOMAIN blocks = 1 .. Len(blocks) /\ Len(blocks) \in Nat /\ current \in Nat /\ atReset \in Nat
    BY <2>1, LenProperties DEF BlocksTyped
  <2>3. Candidates = current .. Len(blocks) \/ blocks = <<>>
    BY <2>1, <2>2 DEF Candidates, PoolShape
  <2>4. CASE blocks = <<>>
    <3>1. Candidates = {}  BY <2>4 DEF Candidates
    <3> QED  BY <2>2, <3>1, FS_EmptySet, LimitAssumption DEF ScanBounded
  <2>5. CASE blocks # <<>>
    <3>1. current \in 1 .. Len(blocks) /\ atReset \in 1 .. Len(blocks)  BY <2>1, <2>2, <2>5 DEF PoolShape
    <3>2. Candidates = current .. Len(blocks)  BY <2>3, <2>5
    <3>3. Cardinality(Candidates) = Len(blocks) - current + 1  BY <2>2, <3>1, <3>2, FS_Interval
    <3>4. /\ current < atReset => Len(blocks) - atReset <= FailedMax + 1
          /\ current >= atReset /\ current < Len(blocks) => Len(blocks) - current - 1 <= FailedMax + 1
      <4>1. current \in Candidates  BY <3>1, <3>2
      <4> QED  BY <2>1, <4>1 DEF FailuresCounted
    <3> QED  BY <2>2, <3>1, <3>3, <3>4, LimitAssumption DEF ScanBounded
  <2> QED  BY <2>4, <2>5
<1> QED  BY PoolInvariant, <1>1, PTL
=============================================================================
