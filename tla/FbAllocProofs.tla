--------------------------- MODULE FbAllocProofs ---------------------------
(***************************************************************************)
(* Proofs about FbAlloc for every table size, counter width and set of     *)
(* features: the table never holds a block twice or a block that was given *)
(* back, so no operation frees a block twice - even when permanent slots   *)
(* have put the counters out of step.                                      *)
(*                                                                         *)
(* Without permanent slots and callbacks the table is a stack, and every   *)
(* operation a step of FbStack.                                            *)
(***************************************************************************)
EXTENDS FbAlloc, FiniteSetTheorems, SequenceTheorems, TLAPS

IInv == TypeOK /\ SlotsOwnBlocks

\* A difference of two numbers, taken modulo the width, is in range.
LEMMA ModRange ==
    ASSUME NEW a \in Int
    PROVE  a % Width \in 0 .. Width - 1
  BY FbAllocAssumption DEF FbAllocAssumption

\* fb_alloc_init0 and fb_free_all store zero in the counters.
LEMMA ZeroInRange == 0 \in 0 .. Width - 1
  BY FbAllocAssumption DEF FbAllocAssumption

\* Sets of slots are finite, so counting them gives a number.
LEMMA SlotsCounted ==
    ASSUME NEW S \in SUBSET Slots
    PROVE  IsFiniteSet(S) /\ Cardinality(S) \in Nat
<1>1. IsFiniteSet(Slots)
  BY FS_Interval, FbAllocAssumption DEF Slots, FbAllocAssumption
<1>2. IsFiniteSet(S)
  BY <1>1, FS_Subset
<1> QED
  BY <1>2, FS_CardinalityType

\* fb_alloc (and the allocation of sensor.alloc_extra_fb): storing a new block
\* in a slot that is not valid keeps the slots apart.
LEMMA StoreKeeps ==
    ASSUME IInv, NEW b \in Blocks, b \notin heap,
           NEW i \in Slots, i \notin Valid,
           NEW m \in 0 .. Width - 1, NEW c \in 0 .. Width - 1,
           slot' \in [Slots -> Slot],
           slot'[i].valid, slot'[i].p = b,
           \A j \in Slots \ {i} : slot'[j].valid = slot[j].valid /\ slot'[j].p = slot[j].p,
           heap' = heap \cup {b}
    PROVE  SlotsOwnBlocks'
  BY DEF IInv, TypeOK, SlotsOwnBlocks, Valid

\* The operations that free: slots in "gone" become invalid and their blocks
\* leave the heap.
LEMMA FreeKeeps ==
    ASSUME IInv, NEW gone \in SUBSET Valid,
           slot' \in [Slots -> Slot],
           \A j \in gone : ~slot'[j].valid,
           \A j \in Slots \ gone : slot'[j].valid = slot[j].valid /\ slot'[j].p = slot[j].p,
           heap' = heap \ {slot[j].p : j \in gone}
    PROVE  SlotsOwnBlocks'
  BY DEF IInv, TypeOK, SlotsOwnBlocks, Valid

\* int_fb_alloc_free_till_mark, with or without the permanent blocks.
LEMMA FreeTillMarkKeeps ==
    ASSUME IInv, NEW f \in BOOLEAN, int_fb_alloc_free_till_mark(f),
           booting' \in BOOLEAN
    PROVE  IInv'
<1> DEFINE hit == {i \in Valid : slot[i].mark = mark}
           gone == {i \in hit : f \/ ~slot[i].permanent}
<1>1. /\ slot' = [i \in Slots |-> IF i \in gone THEN Freed(slot[i]) ELSE slot[i]]
      /\ heap' = heap \ {slot[i].p : i \in gone}
      /\ count' = (count - Cardinality(hit)) % Width
      /\ mark' = (mark - 1) % Width
  BY DEF int_fb_alloc_free_till_mark
<1>2. hit \in SUBSET Slots /\ gone \in SUBSET Valid
  BY DEF Valid
<1>3. slot' \in [Slots -> Slot]
  BY <1>1, ZeroInRange DEF IInv, TypeOK, Slot, Freed
<1>4. \A j \in gone : ~slot'[j].valid
  BY <1>1, <1>2 DEF IInv, TypeOK, Slot, Freed, Valid
<1>5. \A j \in Slots \ gone : slot'[j].valid = slot[j].valid /\ slot'[j].p = slot[j].p
  BY <1>1
<1>6. SlotsOwnBlocks'
  <2> HIDE DEF gone
  <2> QED BY <1>1, <1>2, <1>3, <1>4, <1>5, FreeKeeps
<1>7. count' \in 0 .. Width - 1
  <2>1. Cardinality(hit) \in Nat
    BY <1>2, SlotsCounted
  <2> HIDE DEF hit
  <2>2. count - Cardinality(hit) \in Int
    BY <2>1 DEF IInv, TypeOK
  <2> QED BY <1>1, <2>2, ModRange
<1>8. mark' \in 0 .. Width - 1
  <2>1. mark - 1 \in Int
    BY DEF IInv, TypeOK
  <2> QED BY <1>1, <2>1, ModRange
<1>9. heap' \subseteq Blocks
  BY <1>1 DEF IInv, TypeOK
<1> QED
  BY <1>3, <1>6, <1>7, <1>8, <1>9 DEF IInv, TypeOK

\* The initial table is empty.
LEMMA InitIInv == Init => IInv
<1> SUFFICES ASSUME Init PROVE IInv
  OBVIOUS
<1>1. Empty \in Slot
  BY FbAllocAssumption DEF Empty, Slot, FbAllocAssumption
<1>2. slot \in [Slots -> Slot] /\ heap \subseteq Blocks
  BY <1>1 DEF Init
<1>3. count \in 0 .. Width - 1 /\ mark \in 0 .. Width - 1
  BY ZeroInRange DEF Init
<1>4. booting \in BOOLEAN
  BY DEF Init
<1>5. Valid = {}
  BY DEF Init, Valid, Empty
<1> QED
  BY <1>2, <1>3, <1>4, <1>5 DEF IInv, TypeOK, SlotsOwnBlocks

\* Every step of the allocator and of its users keeps IInv.
LEMMA NextIInv == IInv /\ [Next]_vars => IInv'
<1> SUFFICES ASSUME IInv, [Next]_vars PROVE IInv'
  OBVIOUS
<1>1. mark + 1 \in Int /\ count + 1 \in Int /\ count - 1 \in Int
  BY DEF IInv, TypeOK
<1>2. CASE Method
  <2>1. mark' \in 0 .. Width - 1
    BY <1>1, <1>2, ModRange DEF Method, fb_alloc_mark
  <2> QED
    BY <1>2, <2>1 DEF Method, IInv, TypeOK, SlotsOwnBlocks, Valid
<1>3. CASE MethodDone
  BY <1>3, FreeTillMarkKeeps DEF MethodDone, IInv, TypeOK
<1>4. CASE CallBackDone
  BY <1>4, FreeTillMarkKeeps DEF CallBackDone, IInv, TypeOK
<1>5. CASE DeallocExtra
  BY <1>5, FreeTillMarkKeeps DEF DeallocExtra, IInv, TypeOK
<1>6. CASE Free
  <2> USE <1>6
  <2>1. CASE \A i \in Valid : slot[i].count # count
    BY <2>1 DEF Free, fb_free, IInv, TypeOK, SlotsOwnBlocks, Valid
  <2>2. CASE ~ \A i \in Valid : slot[i].count # count
    <3>1. PICK i \in Valid :
            /\ slot' = [slot EXCEPT ![i] = [@ EXCEPT !.p = None, !.valid = FALSE, !.count = 0]]
            /\ heap' = heap \ {slot[i].p}
            /\ count' = (count - 1) % Width
      BY <2>2 DEF Free, fb_free
    <3>2. slot' \in [Slots -> Slot]
      BY <3>1, ZeroInRange DEF IInv, TypeOK, Slot, Valid
    <3>3. ~slot'[i].valid
      BY <3>1 DEF IInv, TypeOK, Slot, Valid
    <3>4. \A j \in Slots \ {i} : slot'[j].valid = slot[j].valid /\ slot'[j].p = slot[j].p
      BY <3>1 DEF IInv, TypeOK
    <3>5. SlotsOwnBlocks'
      <4> DEFINE gone == {i}
      <4>1. gone \in SUBSET Valid /\ heap' = heap \ {slot[j].p : j \in gone}
        BY <3>1
      <4>2. (\A j \in gone : ~slot'[j].valid) /\ \A j \in Slots \ gone : slot'[j].valid = slot[j].valid /\ slot'[j].p = slot[j].p
        BY <3>3, <3>4
      <4> HIDE DEF gone
      <4> QED BY <3>2, <4>1, <4>2, FreeKeeps
    <3>6. count' \in 0 .. Width - 1
      BY <1>1, <3>1, ModRange
    <3> QED
      BY <3>1, <3>2, <3>5, <3>6 DEF Free, IInv, TypeOK
  <2> QED BY <2>1, <2>2
<1>7. CASE CallBack
  <2>1. slot' = MarkPermanent(slot, (mark + 1) % Width) /\ mark' = (mark + 1) % Width
    BY <1>7 DEF CallBack, fb_alloc_mark
  <2>2. mark' \in 0 .. Width - 1
    BY <1>1, <2>1, ModRange
  <2>3. slot' \in [Slots -> Slot]
    BY <2>1 DEF MarkPermanent, IInv, TypeOK, Slot
  <2>4. \A j \in Slots : slot'[j].valid = slot[j].valid /\ slot'[j].p = slot[j].p
    BY <2>1 DEF MarkPermanent, IInv, TypeOK, Slot
  <2> QED
    BY <1>7, <2>2, <2>3, <2>4 DEF CallBack, IInv, TypeOK, SlotsOwnBlocks, Valid
<1>z. CASE Alloc(None)
  BY <1>z DEF Alloc, fb_alloc, IInv, TypeOK, SlotsOwnBlocks, Valid
<1>8. ASSUME NEW b \in Blocks, Alloc(b) PROVE IInv'
  <2>b. b # None
    BY FbAllocAssumption DEF FbAllocAssumption
  <2>1. PICK i \in Slots :
          /\ FirstFree(i)
          /\ slot' = [slot EXCEPT ![i] = [@ EXCEPT !.valid = TRUE, !.p = b,
                          !.mark = mark, !.count = (count + 1) % Width]]
          /\ count' = (count + 1) % Width
          /\ heap' = heap \cup {b}
    BY <1>8, <2>b DEF Alloc, fb_alloc, Stored
  <2>2. count' \in 0 .. Width - 1
    BY <1>1, <2>1, ModRange
  <2>3. slot' \in [Slots -> Slot]
    BY <2>1, <2>2 DEF IInv, TypeOK, Slot
  <2>4. slot'[i].valid /\ slot'[i].p = b
    BY <2>1 DEF IInv, TypeOK, Slot
  <2>5. \A j \in Slots \ {i} : slot'[j].valid = slot[j].valid /\ slot'[j].p = slot[j].p
    BY <2>1 DEF IInv, TypeOK
  <2>6. i \notin Valid /\ b \notin heap
    BY <1>8, <2>1 DEF FirstFree, Alloc
  <2>7. SlotsOwnBlocks'
    BY <2>1, <2>2, <2>3, <2>4, <2>5, <2>6, StoreKeeps
  <2> QED
    BY <1>8, <2>1, <2>2, <2>3, <2>7 DEF Alloc, IInv, TypeOK
<1>9. ASSUME NEW b \in Blocks, AllocExtra(b) PROVE IInv'
  <2> DEFINE m == (mark + 1) % Width
  <2>1. PICK i \in Slots : FirstFree(i) /\ slot' = MarkPermanent(Stored(i, b, m), m)
    BY <1>9 DEF AllocExtra
  <2>a. /\ count' = (count + 1) % Width /\ mark' = (mark + 1) % Width
        /\ heap' = heap \cup {b} /\ b \notin heap
    BY <1>9 DEF AllocExtra, fb_alloc_mark
  <2> DEFINE mid == Stored(i, b, m)
  <2>2. count' \in 0 .. Width - 1 /\ mark' \in 0 .. Width - 1 /\ m \in 0 .. Width - 1
    BY <1>1, <2>a, ModRange
  <2>6. slot' = MarkPermanent(mid, m)
    BY <2>1
  <2> HIDE DEF m
  <2>3. mid \in [Slots -> Slot]
    BY <2>a, <2>2 DEF IInv, TypeOK, Slot, Stored
  <2>4. mid[i].valid /\ mid[i].p = b
    BY DEF IInv, TypeOK, Slot, Stored
  <2>5. \A j \in Slots \ {i} : mid[j].valid = slot[j].valid /\ mid[j].p = slot[j].p
    BY DEF IInv, TypeOK, Stored
  <2> HIDE DEF mid
  <2>7. slot' \in [Slots -> Slot]
    BY <2>3, <2>6 DEF MarkPermanent, Slot
  <2>8. \A j \in Slots : slot'[j].valid = mid[j].valid /\ slot'[j].p = mid[j].p
    BY <2>3, <2>6 DEF MarkPermanent, Slot
  <2>9. i \notin Valid
    BY <2>1 DEF FirstFree
  <2>10. SlotsOwnBlocks'
    BY <2>a, <2>2, <2>4, <2>5, <2>7, <2>8, <2>9, StoreKeeps
  <2> QED
    BY <1>9, <2>a, <2>2, <2>7, <2>10 DEF AllocExtra, IInv, TypeOK
<1>10. ASSUME NEW k \in 0 .. Len(ctx), Raise(k) PROVE IInv'
  BY <1>10 DEF Raise, table, IInv, TypeOK, SlotsOwnBlocks, Valid
<1>11. CASE MainStopped
  <2> USE <1>11
  <2>1. /\ slot' = [i \in Slots |-> IF i \in Valid
                      THEN [slot[i] EXCEPT !.p = None, !.valid = FALSE, !.count = 0] ELSE slot[i]]
        /\ heap' = heap \ {slot[i].p : i \in Valid}
        /\ count' = 0 /\ mark' = 0
    BY DEF MainStopped, fb_free_all
  <2>2. slot' \in [Slots -> Slot]
    BY <2>1, ZeroInRange DEF IInv, TypeOK, Slot
  <2>3. \A j \in Valid : ~slot'[j].valid
    BY <2>1 DEF IInv, TypeOK, Slot, Valid
  <2>4. \A j \in Slots \ Valid : slot'[j].valid = slot[j].valid /\ slot'[j].p = slot[j].p
    BY <2>1
  <2>5. SlotsOwnBlocks'
    BY <2>1, <2>2, <2>3, <2>4, FreeKeeps
  <2>6. count' \in 0 .. Width - 1 /\ mark' \in 0 .. Width - 1
    BY <2>1, ZeroInRange
  <2>7. heap' \subseteq Blocks
    BY <2>1 DEF IInv, TypeOK
  <2>8. booting' \in BOOLEAN
    BY DEF MainStopped, IInv, TypeOK
  <2> QED
    BY <2>2, <2>5, <2>6, <2>7, <2>8 DEF IInv, TypeOK
<1>12. CASE NewScript
  <2> USE <1>12
  <2>1. slot' = [i \in Slots |-> Empty] /\ count' = 0 /\ mark' = 0 /\ heap' = heap
    BY DEF NewScript, fb_alloc_init0
  <2>2. Empty \in Slot
    BY FbAllocAssumption DEF Empty, Slot, FbAllocAssumption
  <2>3. slot' \in [Slots -> Slot]
    BY <2>1, <2>2
  <2>4. Valid' = {}
    BY <2>1 DEF Valid, Empty
  <2>5. SlotsOwnBlocks'
    BY <2>4 DEF SlotsOwnBlocks
  <2>6. count' \in 0 .. Width - 1 /\ mark' \in 0 .. Width - 1
    BY <2>1, ZeroInRange
  <2>7. booting' \in BOOLEAN
    BY DEF NewScript, IInv, TypeOK
  <2> QED
    BY <2>1, <2>3, <2>5, <2>6, <2>7 DEF IInv, TypeOK
<1>13. CASE UNCHANGED vars
  BY <1>13 DEF vars, table, IInv, TypeOK, SlotsOwnBlocks, Valid
<1> QED
  BY <1>2, <1>3, <1>4, <1>5, <1>6, <1>7, <1>z, <1>8, <1>9, <1>10, <1>11, <1>12, <1>13 DEF Next

\* The table and its counters keep their types: counters stay below the width
\* of uint16_t although free_till_mark may take them below zero.
THEOREM TypeCorrect == Spec => []TypeOK
<1>1. IInv => TypeOK
  BY DEF IInv
<1> QED
  BY InitIInv, NextIInv, <1>1, PTL DEF Spec

\* No block is freed twice: valid slots own distinct blocks of the heap.
THEOREM SlotsExclusive == Spec => []SlotsOwnBlocks
<1>1. IInv => SlotsOwnBlocks
  BY DEF IInv
<1> QED
  BY InitIInv, NextIInv, <1>1, PTL DEF Spec

----------------------------------------------------------------------------
(* Scripts without permanent marks: the counts of the valid slots are the   *)
(* numbers 1 .. count, and a higher count never has a lower mark.           *)

\* A set that a function numbers from 1 to n has n members.
LEMMA Numbered ==
    ASSUME NEW V, NEW n \in Nat, NEW f \in [V -> 1 .. n],
           \A x, y \in V : f[x] = f[y] => x = y,
           \A c \in 1 .. n : \E x \in V : f[x] = c
    PROVE  IsFiniteSet(V) /\ Cardinality(V) = n
<1>1. f \in Bijection(V, 1 .. n)
  BY DEF Bijection, Injection, Surjection, IsInjective
<1>2. IsFiniteSet(1 .. n) /\ Cardinality(1 .. n) = n
  BY FS_Interval
<1>3. f \in Injection(V, 1 .. n) /\ f \in Surjection(V, 1 .. n)
  BY <1>1 DEF Bijection
<1> QED BY <1>2, <1>3, FS_Injection

\* The members numbered up to m are m.
LEMMA NumberedPrefix ==
    ASSUME NEW V, NEW n \in Nat, NEW f \in [V -> 1 .. n],
           \A x, y \in V : f[x] = f[y] => x = y,
           \A c \in 1 .. n : \E x \in V : f[x] = c,
           NEW m \in 0 .. n
    PROVE  LET E == {x \in V : f[x] <= m} IN IsFiniteSet(E) /\ Cardinality(E) = m
<1> DEFINE E == {x \in V : f[x] <= m}
           g == [x \in E |-> f[x]]
<1>1. m \in Nat /\ g \in [E -> 1 .. m]
  OBVIOUS
<1>2. \A x, y \in E : g[x] = g[y] => x = y
  OBVIOUS
<1>3. \A c \in 1 .. m : \E x \in E : g[x] = c
  OBVIOUS
<1>4. IsFiniteSet(E) /\ Cardinality(E) = m
  <2> HIDE DEF E, g
  <2> QED BY <1>1, <1>2, <1>3, Numbered
<1> QED BY <1>4

\* The members that are numbered highest: if H holds with a member every
\* member of a higher number, H is what is numbered above n - |H|.
LEMMA NumberedTop ==
    ASSUME NEW V, NEW n \in Nat, NEW f \in [V -> 1 .. n],
           \A x, y \in V : f[x] = f[y] => x = y,
           \A c \in 1 .. n : \E x \in V : f[x] = c,
           NEW H \in SUBSET V,
           \A x \in H, y \in V : f[x] < f[y] => y \in H
    PROVE  /\ Cardinality(H) \in 0 .. n
           /\ \A x \in V : x \in H <=> f[x] > n - Cardinality(H)
<1> DEFINE D == V \ H
           k == n - Cardinality(H)
           Below(m) == {x \in V : f[x] <= m}
<1>1. IsFiniteSet(V) /\ Cardinality(V) = n
  BY Numbered
<1>2. IsFiniteSet(H) /\ Cardinality(H) \in 0 .. n
  BY <1>1, FS_Subset, FS_CardinalityType
<1>3. IsFiniteSet(D) /\ Cardinality(D) = k
  <2>1. V \cap H = H
    OBVIOUS
  <2> QED BY <1>1, <2>1, FS_Difference
<1>4. ASSUME NEW m \in 0 .. n PROVE IsFiniteSet(Below(m)) /\ Cardinality(Below(m)) = m
  BY NumberedPrefix, SMTT(30)
<1>5. k \in 0 .. n
  BY <1>2
<1>6. ASSUME NEW x \in D, f[x] > k PROVE FALSE
  <2>1. Below(f[x]) \subseteq D
    OBVIOUS
  <2>2. f[x] \in 0 .. n
    OBVIOUS
  <2>3. Cardinality(Below(f[x])) <= Cardinality(D)
    <3> HIDE DEF Below, D
    <3> QED BY <1>3, <2>1, FS_Subset
  <2>4. Cardinality(Below(f[x])) = f[x]
    BY <1>4, <2>2
  <2> HIDE DEF Below, D, k
  <2> QED BY <1>3, <1>5, <1>6, <2>2, <2>3, <2>4
<1>7. ASSUME NEW x \in H, f[x] <= k PROVE FALSE
  <2>1. f[x] \in 1 .. n /\ f[x] - 1 \in 0 .. n
    OBVIOUS
  <2>2. D \subseteq Below(f[x] - 1)
    <3> SUFFICES ASSUME NEW y \in D PROVE f[y] <= f[x] - 1
      OBVIOUS
    <3>1. f[y] # f[x] /\ ~(f[x] < f[y])
      OBVIOUS
    <3>2. f[y] \in 1 .. n
      OBVIOUS
    <3> QED BY <2>1, <3>1, <3>2
  <2>3. IsFiniteSet(Below(f[x] - 1)) /\ Cardinality(Below(f[x] - 1)) = f[x] - 1
    BY <1>4, <2>1
  <2>4. Cardinality(D) <= f[x] - 1
    <3> HIDE DEF Below, D
    <3> QED BY <2>2, <2>3, FS_Subset
  <2> HIDE DEF Below, D, k
  <2> QED BY <1>3, <1>5, <1>7, <2>1, <2>4
<1>8. \A x \in V : f[x] \in Int
  OBVIOUS
<1> QED
  <2> HIDE DEF k
  <2>1. ASSUME NEW x \in V PROVE x \in H <=> f[x] > k
    BY <1>5, <1>6, <1>7, <1>8
  <2> QED BY <1>2, <2>1 DEF k
\* The table as a stack: counts without gaps, marks in the order of the counts.
PlainTable ==
    /\ \A i \in Slots : ~slot[i].permanent
    /\ count <= NSlots
    /\ \A i \in Valid : slot[i].count \in 1 .. count /\ slot[i].mark <= mark
    /\ \A i, j \in Valid : slot[i].count = slot[j].count => i = j
    /\ \A c \in 1 .. count : \E i \in Valid : slot[i].count = c
    /\ \A i, j \in Valid : slot[i].count < slot[j].count => slot[i].mark <= slot[j].mark

Calls == 1 .. Len(ctx)
Mine(call) == 1 .. Len(call.mine)

\* The mark of call j: calls that an exception abandoned leave their marks set.
Level(j) == mark - Len(ctx) + j

CallType == [kind : {"op"}, mine : Seq(Blocks)]

\* A call's blocks are the ones of its mark, newest last.
HeldHasSlot ==
    \A j \in Calls : \A n \in Mine(ctx[j]) :
      \E i \in Valid : slot[i].p = ctx[j].mine[n] /\ slot[i].mark = Level(j)
SlotIsHeld ==
    \A i \in Valid : \A j \in Calls :
      slot[i].mark = Level(j) => \E n \in Mine(ctx[j]) : slot[i].p = ctx[j].mine[n]
HeldInOrder ==
    \A j \in Calls : \A n1, n2 \in Mine(ctx[j]) : \A i1, i2 \in Valid :
      /\ slot[i1].p = ctx[j].mine[n1] /\ slot[i2].p = ctx[j].mine[n2] /\ n1 < n2
      => slot[i1].count < slot[i2].count

PlainCalls ==
    /\ ctx \in Seq(CallType)
    /\ Len(ctx) <= mark /\ mark <= MaxMark
    /\ HeldHasSlot /\ SlotIsHeld /\ HeldInOrder

PlainParts == PlainTable /\ PlainCalls

PlainInv == Plain => PlainParts

\* A counter that has not reached the width is not cut.
LEMMA SmallMod ==
    ASSUME NEW a \in 0 .. Width - 1
    PROVE  a % Width = a
  BY FbAllocAssumption DEF FbAllocAssumption

\* The types of table and counters, one by one.
LEMMA TypeParts ==
    ASSUME IInv
    PROVE  /\ count \in Nat /\ mark \in Nat /\ NSlots \in Nat /\ Width \in Nat
           /\ MaxMark \in Nat /\ MaxMark < Width /\ NSlots < Width
           /\ \A i \in Slots : /\ slot[i].count \in Nat /\ slot[i].mark \in Nat
                               /\ slot[i].valid \in BOOLEAN /\ slot[i].permanent \in BOOLEAN
           /\ DOMAIN slot = Slots
           /\ Valid \subseteq Slots
  BY FbAllocAssumption DEF FbAllocAssumption, IInv, TypeOK, Slot, Valid

\* The count is the number of valid slots.
LEMMA CountIsValid ==
    ASSUME IInv, PlainTable
    PROVE  IsFiniteSet(Valid) /\ Cardinality(Valid) = count
<1> DEFINE f == [i \in Valid |-> slot[i].count]
<1>1. f \in [Valid -> 1 .. count] /\ count \in Nat
  BY TypeParts DEF PlainTable
<1>2. \A x, y \in Valid : f[x] = f[y] => x = y
  BY DEF PlainTable
<1>3. \A c \in 1 .. count : \E x \in Valid : f[x] = c
  BY DEF PlainTable
<1> HIDE DEF f
<1> QED BY <1>1, <1>2, <1>3, Numbered

\* At power-on the table is empty and nobody uses it.
LEMMA InitPlain == Init => PlainInv
<1> SUFFICES ASSUME Init PROVE PlainParts
  BY DEF PlainInv
<1>1. Valid = {} /\ \A i \in Slots : ~slot[i].permanent
  BY DEF Init, Valid, Empty
<1>2. count = 0 /\ mark = 0 /\ ctx = <<>>
  BY DEF Init
<1>3. PlainTable
  BY <1>1, <1>2, FbAllocAssumption DEF PlainTable, FbAllocAssumption
<1>4. Calls = {} /\ Len(ctx) = 0
  BY <1>2 DEF Calls
<1>5. PlainCalls
  BY <1>1, <1>2, <1>4, FbAllocAssumption
  DEF PlainCalls, HeldHasSlot, SlotIsHeld, HeldInOrder, FbAllocAssumption
<1> QED BY <1>3, <1>5 DEF PlainParts

\* fb_alloc_mark opens an empty frame for the new call.
LEMMA MethodPlain ==
    ASSUME IInv, PlainParts, Method
    PROVE  PlainParts'
<1> USE DEF PlainParts, Mine
<1>1. /\ mark' = mark + 1 /\ ctx' = Append(ctx, [kind |-> "op", mine |-> <<>>])
      /\ slot' = slot /\ count' = count
  <2>1. mark + 1 \in 0 .. Width - 1
    BY TypeParts DEF Method, fb_alloc_mark, PlainCalls
  <2> QED BY <2>1, SmallMod DEF Method, fb_alloc_mark, Enter
<1>2. ctx \in Seq(CallType) /\ [kind |-> "op", mine |-> <<>>] \in CallType
  BY DEF PlainCalls, CallType
<1>3. /\ ctx' \in Seq(CallType) /\ Len(ctx') = Len(ctx) + 1 /\ Len(ctx) \in Nat
      /\ \A j \in Calls : ctx'[j] = ctx[j]
      /\ ctx'[Len(ctx) + 1] = [kind |-> "op", mine |-> <<>>]
  BY <1>1, <1>2, AppendProperties, LenProperties DEF Calls
<1>4. mark \in Nat /\ \A i \in Valid : slot[i].mark \in Nat /\ slot[i].mark <= mark
  BY TypeParts DEF PlainTable
<1>5. PlainTable'
  BY <1>1, <1>4 DEF PlainTable, Valid
<1>6. Calls' = Calls \cup {Len(ctx) + 1} /\ \A j \in Calls' : Level(j)' = Level(j)
  BY <1>1, <1>3, <1>4 DEF Calls, Level
<1>7. \A j \in Calls : Mine(ctx'[j]) = Mine(ctx[j])
  BY <1>3 DEF Mine
<1>8. Mine(ctx'[Len(ctx) + 1]) = {} /\ Level(Len(ctx) + 1) = mark + 1
  BY <1>3, <1>4 DEF Mine, Level
<1>9. Valid' = Valid
  BY <1>1 DEF Valid
<1>10. HeldHasSlot'
  <2> SUFFICES ASSUME NEW j \in Calls', NEW n \in Mine(ctx'[j])
               PROVE  \E i \in Valid' : slot'[i].p = ctx'[j].mine[n] /\ slot'[i].mark = Level(j)'
    BY DEF HeldHasSlot
  <2>1. j \in Calls
    BY <1>6, <1>8
  <2>2. \E i \in Valid : slot[i].p = ctx[j].mine[n] /\ slot[i].mark = Level(j)
    BY <1>3, <2>1 DEF HeldHasSlot, PlainCalls
  <2> QED BY <1>1, <1>3, <1>6, <1>9, <2>1, <2>2
<1>11. SlotIsHeld'
  <2> SUFFICES ASSUME NEW i \in Valid', NEW j \in Calls', slot'[i].mark = Level(j)'
               PROVE  \E n \in Mine(ctx'[j]) : slot'[i].p = ctx'[j].mine[n]
    BY DEF SlotIsHeld
  <2>1. j \in Calls /\ i \in Valid /\ slot[i].mark = Level(j)
    BY <1>1, <1>4, <1>6, <1>8, <1>9
  <2>2. slot' = slot /\ ctx'[j] = ctx[j]
    BY <1>1, <1>3, <2>1
  <2>3. SlotIsHeld
    BY DEF PlainCalls
  <2> QED BY <2>1, <2>2, <2>3 DEF SlotIsHeld
<1>12. HeldInOrder'
  <2> SUFFICES ASSUME NEW j \in Calls', NEW n1 \in Mine(ctx'[j]), NEW n2 \in Mine(ctx'[j]),
                      NEW i1 \in Valid', NEW i2 \in Valid',
                      slot'[i1].p = ctx'[j].mine[n1], slot'[i2].p = ctx'[j].mine[n2], n1 < n2
               PROVE  slot'[i1].count < slot'[i2].count
    BY DEF HeldInOrder
  <2>1. j \in Calls
    BY <1>6, <1>8
  <2>2. slot' = slot /\ ctx'[j] = ctx[j] /\ i1 \in Valid /\ i2 \in Valid
    BY <1>1, <1>3, <1>9, <2>1
  <2>3. HeldInOrder
    BY DEF PlainCalls
  <2> QED BY <2>1, <2>2, <2>3 DEF HeldInOrder
<1>13. Len(ctx') <= mark' /\ mark' <= MaxMark
  BY <1>1, <1>3, <1>4, TypeParts DEF PlainCalls, Method, fb_alloc_mark
<1> QED BY <1>3, <1>5, <1>10, <1>11, <1>12, <1>13 DEF PlainCalls

\* fb_alloc puts the block on top: a free slot gets the next count.
LEMMA AllocPushes ==
    ASSUME IInv, PlainTable, NEW b \in Blocks, b \notin heap, fb_alloc(b, mark), mark' = mark
    PROVE  \E i \in Slots \ Valid :
             /\ Valid' = Valid \cup {i}
             /\ slot'[i].p = b /\ slot'[i].mark = mark /\ slot'[i].count = count + 1
             /\ ~slot'[i].permanent
             /\ \A j \in Slots \ {i} : slot'[j] = slot[j]
             /\ count' = count + 1 /\ count < NSlots
             /\ heap' = heap \cup {b}
<1>1. PICK i \in Slots :
        /\ FirstFree(i)
        /\ slot' = [slot EXCEPT ![i] = [@ EXCEPT !.valid = TRUE, !.p = b,
                        !.mark = mark, !.count = (count + 1) % Width]]
        /\ count' = (count + 1) % Width
        /\ heap' = heap \cup {b}
  BY FbAllocAssumption DEF fb_alloc, Stored, FbAllocAssumption
<1>2. i \notin Valid
  BY <1>1 DEF FirstFree
<1>3. count < NSlots
  <2>1. IsFiniteSet(Slots) /\ Cardinality(Slots) = NSlots
    BY FS_Interval, FbAllocAssumption DEF Slots, FbAllocAssumption
  <2>2. Valid \cup {i} \in SUBSET Slots
    BY DEF Valid
  <2>3. Cardinality(Valid \cup {i}) = count + 1
    BY <1>2, CountIsValid, FS_AddElement
  <2>4. Cardinality(Valid \cup {i}) <= NSlots
    BY <2>1, <2>2, FS_Subset
  <2> QED BY <2>3, <2>4, TypeParts
<1>4. (count + 1) % Width = count + 1
  <2>1. count + 1 \in 0 .. Width - 1
    BY <1>3, TypeParts
  <2> QED BY <2>1, SmallMod
<1>5. slot \in [Slots -> Slot]
  BY DEF IInv, TypeOK
<1>6. /\ slot'[i].p = b /\ slot'[i].mark = mark /\ slot'[i].count = count + 1
      /\ slot'[i].valid /\ slot'[i].permanent = slot[i].permanent
  BY <1>1, <1>4, <1>5 DEF Slot
<1>7. \A j \in Slots \ {i} : slot'[j] = slot[j]
  BY <1>1, <1>5
<1>8. Valid' = Valid \cup {i}
  BY <1>6, <1>7 DEF Valid
<1> QED BY <1>1, <1>2, <1>3, <1>4, <1>6, <1>7, <1>8 DEF PlainTable

\* A block on top keeps the table a stack.
LEMMA PushKeepsTable ==
    ASSUME IInv, PlainTable, mark' = mark, NEW i \in Slots \ Valid,
           Valid' = Valid \cup {i},
           slot'[i].mark = mark, slot'[i].count = count + 1, ~slot'[i].permanent,
           \A j \in Slots \ {i} : slot'[j] = slot[j],
           count' = count + 1, count < NSlots
    PROVE  PlainTable'
<1>1. count \in Nat /\ mark \in Nat /\ NSlots \in Nat /\ Valid \subseteq Slots
      /\ \A j \in Valid : slot[j].count \in Nat /\ slot[j].mark \in Nat
  BY TypeParts
<1>2. \A j \in Valid : slot'[j] = slot[j]
  BY <1>1
<1>3. \A j \in Slots : ~slot'[j].permanent
  BY DEF PlainTable
<1>4. \A j \in Valid' : slot'[j].count \in 1 .. count' /\ slot'[j].mark <= mark'
  BY <1>1, <1>2 DEF PlainTable
<1>5. \A j \in Valid : slot[j].count < slot'[i].count /\ slot[j].mark <= slot'[i].mark
  BY <1>1 DEF PlainTable
<1>6. \A j, k \in Valid' : slot'[j].count = slot'[k].count => j = k
  BY <1>1, <1>2, <1>5 DEF PlainTable
<1>7. \A c \in 1 .. count' : \E j \in Valid' : slot'[j].count = c
  <2> SUFFICES ASSUME NEW c \in 1 .. count' PROVE \E j \in Valid' : slot'[j].count = c
    OBVIOUS
  <2>1. CASE c = count + 1
    BY <2>1
  <2>2. CASE c # count + 1
    <3>1. c \in 1 .. count
      BY <1>1, <2>2
    <3> QED BY <1>2, <3>1 DEF PlainTable
  <2> QED BY <2>1, <2>2
<1>8. \A j, k \in Valid' : slot'[j].count < slot'[k].count => slot'[j].mark <= slot'[k].mark
  BY <1>1, <1>2, <1>5 DEF PlainTable
<1>9. count' <= NSlots
  BY <1>1
<1> QED BY <1>3, <1>4, <1>6, <1>7, <1>8, <1>9 DEF PlainTable

\* fb_free takes the slot that has the count, the newest one.
LEMMA FreePops ==
    ASSUME IInv, PlainTable, fb_free, count > 0
    PROVE  \E i \in Valid :
             /\ slot[i].count = count
             /\ Valid' = Valid \ {i}
             /\ ~slot'[i].permanent
             /\ \A j \in Slots \ {i} : slot'[j] = slot[j]
             /\ count' = count - 1
             /\ heap' = heap \ {slot[i].p}
<1>1. \E i \in Valid : slot[i].count = count
  BY TypeParts DEF PlainTable
<1>2. PICK i \in Valid :
        /\ slot[i].count = count
        /\ slot' = [slot EXCEPT ![i] = [@ EXCEPT !.p = None, !.valid = FALSE, !.count = 0]]
        /\ heap' = heap \ {slot[i].p}
        /\ count' = (count - 1) % Width
  BY <1>1 DEF fb_free
<1>3. (count - 1) % Width = count - 1
  <2>1. count - 1 \in 0 .. Width - 1
    BY TypeParts DEF PlainTable
  <2> QED BY <2>1, SmallMod
<1>4. slot \in [Slots -> Slot] /\ i \in Slots
  BY DEF IInv, TypeOK, Valid
<1>5. slot'[i].valid = FALSE /\ slot'[i].permanent = slot[i].permanent
  BY <1>2, <1>4 DEF Slot
<1>6. \A j \in Slots \ {i} : slot'[j] = slot[j]
  BY <1>2, <1>4
<1>7. Valid' = Valid \ {i}
  BY <1>5, <1>6 DEF Valid
<1> QED BY <1>2, <1>3, <1>4, <1>5, <1>6, <1>7 DEF PlainTable

\* Without the slots above a count the table is still a stack.
LEMMA CutKeepsTable ==
    ASSUME IInv, PlainTable, NEW k \in 0 .. count, count' = k,
           Valid' = {i \in Valid : slot[i].count <= k},
           \A j \in Valid' : slot'[j] = slot[j],
           \A j \in Slots : ~slot'[j].permanent,
           \A j \in Valid' : slot[j].mark <= mark'
    PROVE  PlainTable'
<1>1. count \in Nat /\ NSlots \in Nat /\ \A j \in Valid : slot[j].count \in Nat /\ slot[j].mark \in Nat
  BY TypeParts
<1>2. \A j \in Valid' : slot'[j].count \in 1 .. count' /\ slot'[j].mark <= mark'
  BY <1>1 DEF PlainTable
<1>3. /\ \A j, l \in Valid' : slot'[j].count = slot'[l].count => j = l
      /\ \A j, l \in Valid' : slot'[j].count < slot'[l].count => slot'[j].mark <= slot'[l].mark
  BY DEF PlainTable
<1>4. \A c \in 1 .. count' : \E j \in Valid' : slot'[j].count = c
  <2> SUFFICES ASSUME NEW c \in 1 .. k PROVE \E j \in Valid' : slot'[j].count = c
    OBVIOUS
  <2>1. PICK j \in Valid : slot[j].count = c
    BY <1>1 DEF PlainTable
  <2> QED BY <2>1
<1>5. count' <= NSlots
  BY <1>1 DEF PlainTable
<1> QED BY <1>2, <1>3, <1>4, <1>5 DEF PlainTable

\* fb_alloc_free_till_mark cuts the stack below the frame of the mark.
LEMMA FreeTillMarkCuts ==
    ASSUME IInv, PlainTable, int_fb_alloc_free_till_mark(FALSE), mark > 0
    PROVE  \E k \in 0 .. count :
             /\ count' = k /\ mark' = mark - 1
             /\ \A i \in Valid : slot[i].mark = mark <=> slot[i].count > k
             /\ Valid' = {i \in Valid : slot[i].mark # mark}
             /\ \A i \in Valid' : slot'[i] = slot[i]
             /\ \A i \in Slots : ~slot'[i].permanent
             /\ heap' = heap \ {slot[i].p : i \in {j \in Valid : slot[j].mark = mark}}
<1> DEFINE hit == {i \in Valid : slot[i].mark = mark}
           f == [i \in Valid |-> slot[i].count]
           k == count - Cardinality(hit)
<1>0. slot \in [Slots -> Slot] /\ Valid \subseteq Slots
  BY DEF IInv, TypeOK, Valid
<1>1. /\ slot' = [i \in Slots |-> IF i \in hit THEN Freed(slot[i]) ELSE slot[i]]
      /\ heap' = heap \ {slot[i].p : i \in hit}
      /\ count' = k % Width
      /\ mark' = (mark - 1) % Width
  <2>1. {i \in hit : FALSE \/ ~slot[i].permanent} = hit
    BY <1>0 DEF PlainTable
  <2> QED BY <2>1 DEF int_fb_alloc_free_till_mark
<1>2. f \in [Valid -> 1 .. count] /\ count \in Nat
  BY TypeParts DEF PlainTable
<1>3. \A x, y \in Valid : f[x] = f[y] => x = y
  BY DEF PlainTable
<1>4. \A c \in 1 .. count : \E x \in Valid : f[x] = c
  BY DEF PlainTable
<1>5. \A x \in hit, y \in Valid : f[x] < f[y] => y \in hit
  BY <1>0, TypeParts DEF PlainTable
<1>6. /\ Cardinality(hit) \in 0 .. count
      /\ \A x \in Valid : x \in hit <=> f[x] > k
  <2>1. hit \in SUBSET Valid
    OBVIOUS
  <2> HIDE DEF f, hit
  <2> QED BY <1>2, <1>3, <1>4, <1>5, <2>1, NumberedTop
<1>7. k \in 0 .. count /\ k \in 0 .. Width - 1 /\ mark - 1 \in 0 .. Width - 1
  <2>1. count \in 0 .. Width - 1 /\ mark \in 0 .. Width - 1 /\ Width \in Nat
    BY FbAllocAssumption DEF IInv, TypeOK, FbAllocAssumption
  <2> HIDE DEF hit
  <2> QED BY <1>6, <2>1
<1>8. count' = k /\ mark' = mark - 1
  <2> HIDE DEF k
  <2> QED BY <1>1, <1>7, SmallMod
<1>9. \A i \in Valid : slot[i].mark = mark <=> slot[i].count > k
  <2> HIDE DEF k
  <2> QED BY <1>6
<1>10. Valid' = {i \in Valid : slot[i].mark # mark}
  BY <1>0, <1>1 DEF Valid, Freed, Slot
<1>11. \A i \in Valid' : slot'[i] = slot[i]
  BY <1>0, <1>1, <1>10
<1>12. \A i \in Slots : ~slot'[i].permanent
  <2> SUFFICES ASSUME NEW i \in Slots PROVE ~slot'[i].permanent
    OBVIOUS
  <2>1. Freed(slot[i]).permanent = FALSE
    BY <1>0 DEF Freed, Slot
  <2>2. ~slot[i].permanent
    BY DEF PlainTable
  <2>3. slot'[i] = Freed(slot[i]) \/ slot'[i] = slot[i]
    BY <1>1
  <2> QED BY <2>1, <2>2, <2>3
<1> HIDE DEF k
<1> QED BY <1>1, <1>7, <1>8, <1>9, <1>10, <1>11, <1>12

\* The first m members of a sequence.
LEMMA FirstOf ==
    ASSUME NEW S, NEW s \in Seq(S), NEW m \in Int, 0 <= m, m <= Len(s)
    PROVE  /\ SubSeq(s, 1, m) \in Seq(S) /\ Len(SubSeq(s, 1, m)) = m
           /\ \A n \in 1 .. m : SubSeq(s, 1, m)[n] = s[n]
<1>1. Len(s) \in Nat
  BY LenProperties
<1>2. \A n \in 1 .. m : s[n] \in S
  BY <1>1, ElementOfSeq
<1>3. /\ SubSeq(s, 1, m) \in Seq(S)
      /\ Len(SubSeq(s, 1, m)) = IF 1 <= m THEN m - 1 + 1 ELSE 0
      /\ \A n \in 1 .. m - 1 + 1 : SubSeq(s, 1, m)[n] = s[1 + n - 1]
  BY <1>2, SubSeqProperties
<1>4. m - 1 + 1 = m /\ \A n \in 1 .. m : 1 + n - 1 = n
  OBVIOUS
<1> QED BY <1>3, <1>4

\* The calls with their types, one by one.
LEMMA CallParts ==
    ASSUME IInv, PlainCalls
    PROVE  /\ Len(ctx) \in Nat /\ Len(ctx) <= mark /\ mark \in Nat
           /\ \A j \in Calls : ctx[j] \in CallType /\ ctx[j].mine \in Seq(Blocks)
                              /\ Len(ctx[j].mine) \in Nat
           /\ \A j \in Calls : Level(j) \in Nat /\ Level(j) <= mark
           /\ \A j \in Calls : j # Len(ctx) => Level(j) < mark
           /\ Level(Len(ctx)) = mark
<1>1. Len(ctx) \in Nat /\ Len(ctx) <= mark /\ mark \in Nat /\ ctx \in Seq(CallType)
  BY TypeParts, LenProperties DEF PlainCalls
<1>2. \A j \in Calls : ctx[j] \in CallType
  BY <1>1, ElementOfSeq DEF Calls
<1>3. \A j \in Calls : ctx[j].mine \in Seq(Blocks) /\ Len(ctx[j].mine) \in Nat
  BY <1>2, LenProperties DEF CallType
<1>4. \A j \in Calls : j \in Nat /\ j > 0 /\ j <= Len(ctx)
  BY <1>1 DEF Calls
<1>5. \A j \in Calls : Level(j) \in Nat /\ Level(j) <= mark /\ (j # Len(ctx) => Level(j) < mark)
  BY <1>1, <1>4 DEF Level
<1>6. Level(Len(ctx)) = mark
  BY <1>1 DEF Level
<1> QED BY <1>1, <1>2, <1>3, <1>5, <1>6

\* The new block is the newest one of the call that asked for it.
LEMMA AllocPlain ==
    ASSUME IInv, PlainParts, NEW b \in Blocks, Alloc(b)
    PROVE  PlainParts'
<1> USE DEF PlainParts, Mine
<1>1. /\ ctx # <<>> /\ b \notin heap /\ fb_alloc(b, mark) /\ mark' = mark
      /\ ctx' = [ctx EXCEPT ![Len(ctx)].mine = Append(ctx[Len(ctx)].mine, b)]
  BY DEF Alloc, TopIs, SetTop, Top
<1>2. PICK i \in Slots \ Valid :
        /\ Valid' = Valid \cup {i}
        /\ slot'[i].p = b /\ slot'[i].mark = mark /\ slot'[i].count = count + 1
        /\ ~slot'[i].permanent
        /\ \A j \in Slots \ {i} : slot'[j] = slot[j]
        /\ count' = count + 1 /\ count < NSlots
        /\ heap' = heap \cup {b}
  BY <1>1, AllocPushes
<1>3. PlainTable'
  BY <1>1, <1>2, PushKeepsTable
<1>4. /\ ctx \in Seq(CallType) /\ Len(ctx) \in Nat /\ Len(ctx) > 0 /\ Len(ctx) \in Calls
  <2>1. ctx \in Seq(CallType)
    BY DEF PlainCalls
  <2>2. Len(ctx) \in Nat /\ Len(ctx) > 0
    BY <1>1, <2>1, EmptySeq, LenProperties
  <2> QED BY <2>1, <2>2 DEF Calls
<1>5. /\ ctx[Len(ctx)] \in CallType /\ ctx[Len(ctx)].mine \in Seq(Blocks)
      /\ Len(ctx[Len(ctx)].mine) \in Nat
  BY <1>4, CallParts
<1>6. PICK t : t = Append(ctx[Len(ctx)].mine, b)
  OBVIOUS
<1>7. /\ t \in Seq(Blocks) /\ Len(t) = Len(ctx[Len(ctx)].mine) + 1
      /\ t[Len(t)] = b
      /\ \A n \in 1 .. Len(ctx[Len(ctx)].mine) : t[n] = ctx[Len(ctx)].mine[n]
  BY <1>5, <1>6, AppendProperties
<1>8. [ctx[Len(ctx)] EXCEPT !.mine = t] \in CallType
  BY <1>5, <1>7 DEF CallType
<1>9. ctx' = [ctx EXCEPT ![Len(ctx)] = [ctx[Len(ctx)] EXCEPT !.mine = t]]
  BY <1>1, <1>6
<1>10. /\ ctx' \in Seq(CallType) /\ Len(ctx') = Len(ctx)
       /\ \A j \in Calls : j # Len(ctx) => ctx'[j] = ctx[j]
       /\ ctx'[Len(ctx)] = [ctx[Len(ctx)] EXCEPT !.mine = t]
  BY <1>4, <1>8, <1>9, ExceptSeq DEF Calls
<1>11. ctx'[Len(ctx)].mine = t
  BY <1>5, <1>10 DEF CallType
<1>12. Calls' = Calls /\ \A j \in Calls : Level(j)' = Level(j)
  BY <1>1, <1>10 DEF Calls, Level
<1>13. \A j \in Valid : slot'[j] = slot[j] /\ j # i /\ slot[j].p # b
  BY <1>1, <1>2 DEF IInv, SlotsOwnBlocks, Valid
<1>14. HeldHasSlot'
  <2> SUFFICES ASSUME NEW j \in Calls', NEW n \in Mine(ctx'[j])
               PROVE  \E l \in Valid' : slot'[l].p = ctx'[j].mine[n] /\ slot'[l].mark = Level(j)'
    BY DEF HeldHasSlot
  <2>1. CASE j # Len(ctx)
    BY <1>2, <1>10, <1>12, <1>13, <2>1 DEF HeldHasSlot, PlainCalls
  <2>2. CASE j = Len(ctx) /\ n = Len(t)
    <3>1. Level(j)' = mark
      BY <1>12, <2>2, CallParts
    <3> QED BY <1>2, <1>7, <1>11, <2>2, <3>1
  <2>3. CASE j = Len(ctx) /\ n # Len(t)
    <3>1. n \in 1 .. Len(ctx[j].mine) /\ ctx'[j].mine[n] = ctx[j].mine[n]
      BY <1>5, <1>7, <1>11, <2>3
    <3>2. PICK l \in Valid : slot[l].p = ctx[j].mine[n] /\ slot[l].mark = Level(j)
      BY <1>12, <3>1 DEF HeldHasSlot, PlainCalls
    <3> QED BY <1>2, <1>12, <1>13, <3>1, <3>2
  <2> QED BY <2>1, <2>2, <2>3
<1>15. SlotIsHeld'
  <2> SUFFICES ASSUME NEW l \in Valid', NEW j \in Calls', slot'[l].mark = Level(j)'
               PROVE  \E n \in Mine(ctx'[j]) : slot'[l].p = ctx'[j].mine[n]
    BY DEF SlotIsHeld
  <2>1. CASE l = i
    <3>1. j = Len(ctx)
      BY <1>2, <1>12, <2>1, CallParts
    <3>2. Len(t) \in Mine(ctx'[j])
      BY <1>5, <1>7, <1>11, <3>1
    <3> QED BY <1>2, <1>7, <1>11, <2>1, <3>1, <3>2
  <2>2. CASE l # i
    <3>1. l \in Valid /\ slot'[l] = slot[l] /\ slot[l].mark = Level(j)
      BY <1>2, <1>12, <1>13, <2>2
    <3>2. PICK n \in Mine(ctx[j]) : slot[l].p = ctx[j].mine[n]
      BY <1>12, <3>1 DEF SlotIsHeld, PlainCalls
    <3>3. n \in Mine(ctx'[j]) /\ ctx'[j].mine[n] = ctx[j].mine[n]
      <4>1. CASE j = Len(ctx)
        BY <1>5, <1>7, <1>11, <3>2, <4>1
      <4>2. CASE j # Len(ctx)
        BY <1>10, <1>12, <3>2, <4>2
      <4> QED BY <4>1, <4>2
    <3> QED BY <3>1, <3>2, <3>3
  <2> QED BY <2>1, <2>2
<1>16. HeldInOrder'
  <2> SUFFICES ASSUME NEW j \in Calls', NEW n1 \in Mine(ctx'[j]), NEW n2 \in Mine(ctx'[j]),
                      NEW i1 \in Valid', NEW i2 \in Valid',
                      slot'[i1].p = ctx'[j].mine[n1], slot'[i2].p = ctx'[j].mine[n2], n1 < n2
               PROVE  slot'[i1].count < slot'[i2].count
    BY DEF HeldInOrder
  <2>1. \A n \in Mine(ctx'[j]) :
          \/ n \in Mine(ctx[j]) /\ ctx'[j].mine[n] = ctx[j].mine[n]
          \/ j = Len(ctx) /\ n = Len(t)
    <3>1. CASE j = Len(ctx)
      BY <1>5, <1>7, <1>11, <3>1
    <3>2. CASE j # Len(ctx)
      BY <1>10, <1>12, <3>2
    <3> QED BY <3>1, <3>2
  <2>2. \A n \in Mine(ctx[j]) : ctx[j].mine[n] # b
    <3>1. \A n \in Mine(ctx[j]) : \E l \in Valid : slot[l].p = ctx[j].mine[n]
      BY <1>12 DEF HeldHasSlot, PlainCalls
    <3> QED BY <1>13, <3>1
  <2>3. n1 \in Mine(ctx[j]) /\ ctx'[j].mine[n1] = ctx[j].mine[n1]
    <3>1. ASSUME j = Len(ctx) PROVE n1 # Len(t)
      BY <1>7, <1>11, <3>1
    <3> QED BY <2>1, <3>1
  <2>4. i1 \in Valid
    BY <1>2, <2>2, <2>3
  <2>5. CASE i2 = i
    <3>1. slot[i1].count \in 1 .. count /\ count \in Nat
      BY <2>4, TypeParts DEF PlainTable
    <3> QED BY <1>2, <1>13, <2>4, <2>5, <3>1
  <2>6. CASE i2 # i
    <3>1. i2 \in Valid /\ slot'[i2] = slot[i2]
      BY <1>2, <1>13, <2>6
    <3>2. n2 \in Mine(ctx[j]) /\ ctx'[j].mine[n2] = ctx[j].mine[n2]
      BY <1>7, <1>11, <1>13, <2>1, <3>1
    <3> QED BY <1>12, <1>13, <2>3, <2>4, <3>1, <3>2 DEF HeldInOrder, PlainCalls
  <2> QED BY <2>5, <2>6
<1>17. Len(ctx') <= mark' /\ mark' <= MaxMark
  BY <1>1, <1>10 DEF PlainCalls
<1> QED BY <1>3, <1>10, <1>14, <1>15, <1>16, <1>17 DEF PlainCalls

\* fb_free takes the newest block of the call that gives one back.
LEMMA FreePlain ==
    ASSUME IInv, PlainParts, Free
    PROVE  PlainParts'
<1> USE DEF PlainParts, Mine
<1>1. /\ ctx # <<>> /\ ctx[Len(ctx)].mine # <<>> /\ fb_free /\ mark' = mark
      /\ ctx' = [ctx EXCEPT ![Len(ctx)].mine =
                   SubSeq(ctx[Len(ctx)].mine, 1, Len(ctx[Len(ctx)].mine) - 1)]
  BY DEF Free, TopIs, SetTop, Top
<1>2. /\ ctx \in Seq(CallType) /\ Len(ctx) \in Nat /\ Len(ctx) > 0 /\ Len(ctx) \in Calls
  <2>1. ctx \in Seq(CallType)
    BY DEF PlainCalls
  <2>2. Len(ctx) \in Nat /\ Len(ctx) > 0
    BY <1>1, <2>1, EmptySeq, LenProperties
  <2> QED BY <2>1, <2>2 DEF Calls
<1>3. PICK mine : mine = ctx[Len(ctx)].mine
  OBVIOUS
<1>4. /\ ctx[Len(ctx)] \in CallType /\ mine \in Seq(Blocks)
      /\ Len(mine) \in Nat /\ Len(mine) > 0
  <2>1. ctx[Len(ctx)] \in CallType /\ mine \in Seq(Blocks)
    BY <1>2, <1>3, CallParts
  <2> QED BY <1>1, <1>3, <2>1, EmptySeq
<1>5. PICK last \in Valid : slot[last].p = mine[Len(mine)] /\ slot[last].mark = mark
  <2>1. Len(mine) \in Mine(ctx[Len(ctx)])
    BY <1>3, <1>4
  <2>2. Level(Len(ctx)) = mark
    BY CallParts
  <2> QED BY <1>2, <1>3, <2>1, <2>2 DEF HeldHasSlot, PlainCalls
<1>6. count \in Nat /\ count > 0 /\ slot[last].count \in 1 .. count
  BY <1>5, TypeParts DEF PlainTable
<1>7. PICK i \in Valid :
        /\ slot[i].count = count
        /\ Valid' = Valid \ {i}
        /\ ~slot'[i].permanent
        /\ \A j \in Slots \ {i} : slot'[j] = slot[j]
        /\ count' = count - 1
        /\ heap' = heap \ {slot[i].p}
  BY <1>1, <1>6, FreePops
<1>8. i = last
  <2>1. slot[i].mark = mark
    <3>1. slot[i].mark \in Nat /\ mark \in Nat /\ slot[i].mark <= mark
      BY <1>7, TypeParts DEF PlainTable
    <3>2. i # last => slot[last].count < slot[i].count
      BY <1>6, <1>7 DEF PlainTable
    <3>3. i # last => mark <= slot[i].mark
      BY <1>5, <1>7, <3>2 DEF PlainTable
    <3> QED BY <1>5, <3>1, <3>3
  <2>2. PICK n \in 1 .. Len(mine) : slot[i].p = mine[n]
    <3>1. slot[i].mark = Level(Len(ctx))
      BY <2>1, CallParts
    <3> QED BY <1>2, <1>3, <1>7, <3>1 DEF SlotIsHeld, PlainCalls
  <2>3. n < Len(mine) => slot[i].count < slot[last].count
    BY <1>2, <1>3, <1>4, <1>5, <1>7, <2>2 DEF HeldInOrder, PlainCalls
  <2>4. n = Len(mine)
    BY <1>4, <1>6, <1>7, <2>2, <2>3
  <2> QED BY <1>5, <1>7, <2>2, <2>4 DEF IInv, SlotsOwnBlocks
<1>9. PICK t : t = SubSeq(mine, 1, Len(mine) - 1)
  OBVIOUS
<1>10. /\ t \in Seq(Blocks) /\ Len(t) = Len(mine) - 1
       /\ \A n \in 1 .. Len(t) : t[n] = mine[n]
  <2>1. Len(mine) - 1 \in Int /\ 0 <= Len(mine) - 1 /\ Len(mine) - 1 <= Len(mine)
    BY <1>4
  <2> QED BY <1>4, <1>9, <2>1, FirstOf
<1>11. [ctx[Len(ctx)] EXCEPT !.mine = t] \in CallType
  BY <1>4, <1>10 DEF CallType
<1>12. ctx' = [ctx EXCEPT ![Len(ctx)] = [ctx[Len(ctx)] EXCEPT !.mine = t]]
  BY <1>1, <1>3, <1>9
<1>13. /\ ctx' \in Seq(CallType) /\ Len(ctx') = Len(ctx)
       /\ \A j \in Calls : j # Len(ctx) => ctx'[j] = ctx[j]
       /\ ctx'[Len(ctx)] = [ctx[Len(ctx)] EXCEPT !.mine = t]
  BY <1>2, <1>11, <1>12, ExceptSeq DEF Calls
<1>14. ctx'[Len(ctx)].mine = t
  BY <1>4, <1>13 DEF CallType
<1>15. Calls' = Calls /\ \A j \in Calls : Level(j)' = Level(j)
  BY <1>1, <1>13 DEF Calls, Level
<1>16. \A j \in Valid' : j \in Valid /\ j # i /\ slot'[j] = slot[j] /\ slot[j].p # slot[i].p
  BY <1>7 DEF IInv, SlotsOwnBlocks, Valid
<1>17. PlainTable'
  <2>1. Valid' = {j \in Valid : slot[j].count <= count - 1}
    <3>1. \A j \in Valid : slot[j].count \in 1 .. count /\ (j # i => slot[j].count # count)
      BY <1>7 DEF PlainTable
    <3> QED BY <1>6, <1>7, <3>1
  <2>2. \A j \in Slots : ~slot'[j].permanent
    BY <1>7 DEF PlainTable
  <2>3. \A j \in Valid' : slot[j].mark <= mark'
    BY <1>1, <1>16 DEF PlainTable
  <2>4. count - 1 \in 0 .. count
    BY <1>6
  <2> QED BY <1>7, <1>16, <2>1, <2>2, <2>3, <2>4, CutKeepsTable
\* what a call still holds it held before, at the same place
<1>18. ASSUME NEW j \in Calls, NEW n \in Mine(ctx'[j])
       PROVE  /\ n \in Mine(ctx[j]) /\ ctx'[j].mine[n] = ctx[j].mine[n]
              /\ j = Len(ctx) => n < Len(mine)
  <2>1. CASE j = Len(ctx)
    BY <1>3, <1>4, <1>10, <1>14, <2>1
  <2>2. CASE j # Len(ctx)
    BY <1>13, <2>2
  <2> QED BY <2>1, <2>2
<1>19. HeldHasSlot'
  <2> SUFFICES ASSUME NEW j \in Calls', NEW n \in Mine(ctx'[j])
               PROVE  \E l \in Valid' : slot'[l].p = ctx'[j].mine[n] /\ slot'[l].mark = Level(j)'
    BY DEF HeldHasSlot
  <2>1. n \in Mine(ctx[j]) /\ ctx'[j].mine[n] = ctx[j].mine[n] /\ j \in Calls
    BY <1>15, <1>18
  <2>2. PICK l \in Valid : slot[l].p = ctx[j].mine[n] /\ slot[l].mark = Level(j)
    BY <2>1 DEF HeldHasSlot, PlainCalls
  <2>3. l # i
    <3>1. CASE j = Len(ctx)
      <4>1. n < Len(mine) /\ Len(mine) \in Mine(ctx[j])
        BY <1>3, <1>4, <1>15, <1>18, <3>1
      <4>2. slot[l].count < slot[i].count
        BY <1>3, <1>5, <1>7, <1>8, <2>1, <2>2, <3>1, <4>1 DEF HeldInOrder, PlainCalls
      <4>3. slot[i].count \in Nat
        BY <1>7, TypeParts
      <4> QED BY <4>2, <4>3
    <3>2. CASE j # Len(ctx)
      <4>1. Level(j) < mark /\ Level(j) \in Nat /\ mark \in Nat
        BY <2>1, <3>2, CallParts
      <4> QED BY <1>5, <1>8, <2>2, <4>1
    <3> QED BY <3>1, <3>2
  <2> QED BY <1>7, <1>15, <1>16, <2>1, <2>2, <2>3
<1>20. SlotIsHeld'
  <2> SUFFICES ASSUME NEW l \in Valid', NEW j \in Calls', slot'[l].mark = Level(j)'
               PROVE  \E n \in Mine(ctx'[j]) : slot'[l].p = ctx'[j].mine[n]
    BY DEF SlotIsHeld
  <2>1. l \in Valid /\ slot'[l] = slot[l] /\ j \in Calls /\ slot[l].mark = Level(j)
    BY <1>15, <1>16
  <2>2. PICK n \in Mine(ctx[j]) : slot[l].p = ctx[j].mine[n]
    BY <2>1 DEF SlotIsHeld, PlainCalls
  <2>3. n \in Mine(ctx'[j]) /\ ctx'[j].mine[n] = ctx[j].mine[n]
    <3>1. CASE j = Len(ctx)
      <4>1. n # Len(mine)
        BY <1>3, <1>5, <1>8, <1>16, <2>2, <3>1
      <4> QED BY <1>3, <1>4, <1>10, <1>14, <2>2, <3>1, <4>1
    <3>2. CASE j # Len(ctx)
      BY <1>13, <2>1, <2>2, <3>2
    <3> QED BY <3>1, <3>2
  <2> QED BY <2>1, <2>2, <2>3
<1>21. HeldInOrder'
  <2> SUFFICES ASSUME NEW j \in Calls', NEW n1 \in Mine(ctx'[j]), NEW n2 \in Mine(ctx'[j]),
                      NEW i1 \in Valid', NEW i2 \in Valid',
                      slot'[i1].p = ctx'[j].mine[n1], slot'[i2].p = ctx'[j].mine[n2], n1 < n2
               PROVE  slot'[i1].count < slot'[i2].count
    BY DEF HeldInOrder
  <2>1. /\ j \in Calls /\ n1 \in Mine(ctx[j]) /\ ctx'[j].mine[n1] = ctx[j].mine[n1]
        /\ n2 \in Mine(ctx[j]) /\ ctx'[j].mine[n2] = ctx[j].mine[n2]
    BY <1>15, <1>18
  <2> QED BY <1>16, <2>1 DEF HeldInOrder, PlainCalls
<1>22. Len(ctx') <= mark' /\ mark' <= MaxMark
  BY <1>1, <1>13 DEF PlainCalls
<1> QED BY <1>13, <1>17, <1>19, <1>20, <1>21, <1>22 DEF PlainCalls

\* fb_alloc_free_till_mark takes the blocks of the call that is over.
LEMMA MethodDonePlain ==
    ASSUME IInv, PlainParts, MethodDone
    PROVE  PlainParts'
<1> USE DEF PlainParts, Mine
<1>1. ctx # <<>> /\ int_fb_alloc_free_till_mark(FALSE) /\ ctx' = SubSeq(ctx, 1, Len(ctx) - 1)
  BY DEF MethodDone, TopIs, Leave
<1>2. /\ ctx \in Seq(CallType) /\ Len(ctx) \in Nat /\ Len(ctx) > 0
      /\ mark \in Nat /\ mark > 0 /\ Len(ctx) <= mark
  <2>1. ctx \in Seq(CallType) /\ Len(ctx) <= mark /\ mark \in Nat
    BY CallParts DEF PlainCalls
  <2>2. Len(ctx) \in Nat /\ Len(ctx) > 0
    BY <1>1, <2>1, EmptySeq, LenProperties
  <2> QED BY <2>1, <2>2
<1>3. PICK k \in 0 .. count :
        /\ count' = k /\ mark' = mark - 1
        /\ \A i \in Valid : slot[i].mark = mark <=> slot[i].count > k
        /\ Valid' = {i \in Valid : slot[i].mark # mark}
        /\ \A i \in Valid' : slot'[i] = slot[i]
        /\ \A i \in Slots : ~slot'[i].permanent
  BY <1>1, <1>2, FreeTillMarkCuts
<1>4. \A i \in Valid : /\ slot[i].mark \in Nat /\ slot[i].mark <= mark
                       /\ slot[i].count \in Nat /\ count \in Nat
  BY TypeParts DEF PlainTable
<1>5. PlainTable'
  <2>1. Valid' = {i \in Valid : slot[i].count <= k}
    BY <1>3, <1>4
  <2>2. \A i \in Valid' : slot[i].mark <= mark'
    BY <1>2, <1>3, <1>4
  <2> QED BY <1>3, <2>1, <2>2, CutKeepsTable
<1>6. /\ ctx' \in Seq(CallType) /\ Len(ctx') = Len(ctx) - 1
      /\ \A j \in 1 .. Len(ctx) - 1 : ctx'[j] = ctx[j]
  <2>1. Len(ctx) - 1 \in Int /\ 0 <= Len(ctx) - 1 /\ Len(ctx) - 1 <= Len(ctx)
    BY <1>2
  <2> QED BY <1>1, <1>2, <2>1, FirstOf
<1>7. \A j \in Calls' : j \in Calls /\ j # Len(ctx) /\ ctx'[j] = ctx[j]
  BY <1>2, <1>6 DEF Calls
<1>8. \A j \in Calls : Level(j)' = Level(j)
  BY <1>2, <1>3, <1>6 DEF Calls, Level
<1>9. HeldHasSlot'
  <2> SUFFICES ASSUME NEW j \in Calls', NEW n \in Mine(ctx'[j])
               PROVE  \E l \in Valid' : slot'[l].p = ctx'[j].mine[n] /\ slot'[l].mark = Level(j)'
    BY DEF HeldHasSlot
  <2>1. PICK l \in Valid : slot[l].p = ctx[j].mine[n] /\ slot[l].mark = Level(j)
    BY <1>7 DEF HeldHasSlot, PlainCalls
  <2>2. Level(j) < mark /\ Level(j) \in Nat
    BY <1>7, CallParts
  <2>3. l \in Valid'
    BY <1>2, <1>3, <2>1, <2>2
  <2> QED BY <1>3, <1>7, <1>8, <2>1, <2>3
<1>10. SlotIsHeld'
  <2> SUFFICES ASSUME NEW l \in Valid', NEW j \in Calls', slot'[l].mark = Level(j)'
               PROVE  \E n \in Mine(ctx'[j]) : slot'[l].p = ctx'[j].mine[n]
    BY DEF SlotIsHeld
  <2>1. l \in Valid /\ slot'[l] = slot[l] /\ j \in Calls /\ slot[l].mark = Level(j)
    BY <1>3, <1>7, <1>8
  <2> QED BY <1>7, <2>1 DEF SlotIsHeld, PlainCalls
<1>11. HeldInOrder'
  <2> SUFFICES ASSUME NEW j \in Calls', NEW n1 \in Mine(ctx'[j]), NEW n2 \in Mine(ctx'[j]),
                      NEW i1 \in Valid', NEW i2 \in Valid',
                      slot'[i1].p = ctx'[j].mine[n1], slot'[i2].p = ctx'[j].mine[n2], n1 < n2
               PROVE  slot'[i1].count < slot'[i2].count
    BY DEF HeldInOrder
  <2>1. i1 \in Valid /\ i2 \in Valid /\ slot'[i1] = slot[i1] /\ slot'[i2] = slot[i2]
    BY <1>3
  <2> QED BY <1>7, <2>1 DEF HeldInOrder, PlainCalls
<1>12. Len(ctx') <= mark' /\ mark' <= MaxMark
  BY <1>2, <1>3, <1>6, TypeParts DEF PlainCalls
<1> QED BY <1>5, <1>6, <1>9, <1>10, <1>11, <1>12 DEF PlainCalls

\* An exception abandons every call and leaves the table alone.
LEMMA RaisePlain ==
    ASSUME IInv, PlainParts, NEW k \in 0 .. Len(ctx), Raise(k)
    PROVE  PlainParts'
<1> USE DEF PlainParts
<1>1. k < Len(ctx) /\ (k > 0 => ctx[k].kind \in {"cb", "extra"}) /\ ctx' = SubSeq(ctx, 1, k)
      /\ UNCHANGED <<slot, count, mark>>
  BY DEF Raise, table
<1>2. Len(ctx) \in Nat /\ mark \in Nat /\ \A j \in Calls : ctx[j] \in CallType
  BY CallParts
<1>3. k = 0
  <2>1. k # 0 => k \in Calls /\ k > 0
    BY <1>2 DEF Calls
  <2> QED BY <1>1, <1>2, <2>1 DEF CallType
<1>4. ctx' = <<>>
  BY <1>1, <1>3, SubSeqEmpty
<1>5. PlainTable'
  BY <1>1 DEF PlainTable, Valid
<1>6. Len(ctx') = 0 /\ ctx' \in Seq(CallType) /\ Calls' = {}
  BY <1>4 DEF Calls
<1> QED
  BY <1>1, <1>2, <1>5, <1>6 DEF PlainCalls, HeldHasSlot, SlotIsHeld, HeldInOrder

\* fb_free_all and fb_alloc_init0 leave an empty table to a script that has
\* not called anything.
LEMMA EmptyPlain ==
    ASSUME Valid' = {}, \A i \in Slots : ~slot'[i].permanent,
           count' = 0, mark' = 0, ctx' = <<>>
    PROVE  PlainParts'
<1>1. PlainTable'
  BY FbAllocAssumption DEF PlainTable, FbAllocAssumption
<1>2. Len(ctx') = 0 /\ ctx' \in Seq(CallType) /\ Calls' = {}
  BY DEF Calls
<1>3. MaxMark \in Nat
  BY FbAllocAssumption DEF FbAllocAssumption
<1> QED
  BY <1>1, <1>2, <1>3 DEF PlainParts, PlainCalls, HeldHasSlot, SlotIsHeld, HeldInOrder

\* The restarts: main.py was interrupted, or the IDE runs a new script.
LEMMA RestartPlain ==
    ASSUME IInv, PlainParts, MainStopped \/ NewScript
    PROVE  PlainParts'
<1>1. CASE MainStopped
  <2>1. /\ slot' = [i \in Slots |-> IF i \in Valid
                      THEN [slot[i] EXCEPT !.p = None, !.valid = FALSE, !.count = 0] ELSE slot[i]]
        /\ count' = 0 /\ mark' = 0 /\ ctx' = <<>>
    BY <1>1 DEF MainStopped, fb_free_all
  <2>2. slot \in [Slots -> Slot]
    BY DEF IInv, TypeOK
  <2>3. Valid' = {}
    BY <2>1, <2>2 DEF Valid, Slot
  <2>4. \A i \in Slots : slot'[i].permanent = slot[i].permanent
    BY <2>1, <2>2 DEF Slot
  <2> QED BY <2>1, <2>3, <2>4, EmptyPlain DEF PlainParts, PlainTable
<1>2. CASE NewScript
  <2>1. slot' = [i \in Slots |-> Empty] /\ count' = 0 /\ mark' = 0 /\ ctx' = <<>>
    BY <1>2 DEF NewScript, fb_alloc_init0
  <2>2. Valid' = {} /\ \A i \in Slots : ~slot'[i].permanent
    BY <2>1 DEF Valid, Empty
  <2> QED BY <2>1, <2>2, EmptyPlain
<1> QED BY <1>1, <1>2

\* A plain script never calls back and keeps no extra frame buffer.
LEMMA OnlyMethods ==
    ASSUME IInv, PlainParts
    PROVE  ~TopIs("cb") /\ ~TopIs("extra")
<1>1. ctx \in Seq(CallType)
  BY DEF PlainParts, PlainCalls
<1>2. ctx # <<>> => Len(ctx) \in Calls
  BY <1>1, EmptySeq DEF Calls
<1>3. \A j \in Calls : ctx[j].kind = "op"
  BY CallParts DEF PlainParts, CallType
<1> QED BY <1>2, <1>3 DEF TopIs, Top

\* Every step of a script without permanent marks keeps the table a stack and
\* the calls its users.
LEMMA NextPlain == IInv /\ PlainInv /\ [Next]_vars => PlainInv'
<1> SUFFICES ASSUME IInv, PlainInv, [Next]_vars, Plain' PROVE PlainParts'
  BY DEF PlainInv
<1>1. Plain /\ feat' = feat
  BY DEF Next, vars, Plain
<1>2. PlainParts
  BY <1>1 DEF PlainInv
<1>3. ~TopIs("cb") /\ ~TopIs("extra")
  BY <1>2, OnlyMethods
<1>4. CASE UNCHANGED vars
  BY <1>2, <1>4 DEF vars, table, PlainParts, PlainTable, PlainCalls, HeldHasSlot, SlotIsHeld,
                    HeldInOrder, Valid, Calls, Level, Mine
<1>5. CASE Next
  <2>1. /\ ~CallBack /\ ~CallBackDone /\ ~DeallocExtra /\ ~Alloc(None)
        /\ \A b \in Blocks : ~AllocExtra(b)
    BY <1>1, <1>3 DEF CallBack, CallBackDone, DeallocExtra, AllocExtra, Alloc, Plain
  <2> QED
    BY <1>2, <1>5, <2>1, MethodPlain, AllocPlain, FreePlain, MethodDonePlain, RaisePlain, RestartPlain
    DEF Next
<1> QED BY <1>4, <1>5

\* A plain script's calls hold blocks that are in the table, and the table's
\* blocks are in the heap: nothing is freed under a call that still uses it,
\* whatever calls exceptions abandon.
THEOREM PlainSafe == Spec => []PlainHeldIsLive
<1>1. IInv /\ PlainInv => PlainHeldIsLive
  <2> SUFFICES ASSUME IInv, PlainParts, NEW j \in Calls, NEW n \in Mine(ctx[j])
               PROVE  ctx[j].mine[n] \in heap
    BY DEF PlainInv, PlainHeldIsLive, HeldIsLive, Held, Calls, Mine
  <2>1. PICK i \in Valid : slot[i].p = ctx[j].mine[n]
    BY DEF PlainParts, PlainCalls, HeldHasSlot
  <2> QED BY <2>1 DEF IInv, SlotsOwnBlocks
<1> QED
  BY InitIInv, NextIInv, InitPlain, NextPlain, <1>1, PTL DEF Spec

----------------------------------------------------------------------------
(* The refinement: for scripts without permanent marks fb_alloc.c is the    *)
(* stack of FbStack.                                                        *)

Entry == [p : Blocks, mark : Nat]

\* What stands at a count of the stack is what the slot of that count holds.
ViewIs ==
    /\ StackView \in Seq(Entry)
    /\ Len(StackView) = count
    /\ \A i \in Valid : StackView[slot[i].count] = [p |-> slot[i].p, mark |-> slot[i].mark]

\* Counts name slots, so the view is well defined.
LEMMA ViewOfTable == IInv /\ Plain /\ PlainTable => ViewIs
<1> SUFFICES ASSUME IInv, Plain, PlainTable PROVE ViewIs
  OBVIOUS
<1> DEFINE At(j) == CHOOSE i \in Valid : slot[i].count = j
<1>1. StackView = [j \in 1 .. count |-> [p |-> slot[At(j)].p, mark |-> slot[At(j)].mark]]
  BY DEF StackView
<1>2. ASSUME NEW j \in 1 .. count PROVE At(j) \in Valid /\ slot[At(j)].count = j
  <2>1. \E i \in Valid : slot[i].count = j
    BY DEF PlainTable
  <2> QED BY <2>1
<1>3. ASSUME NEW i \in Valid PROVE slot[i].count \in 1 .. count /\ At(slot[i].count) = i
  <2>1. slot[i].count \in 1 .. count
    BY DEF PlainTable
  <2>2. At(slot[i].count) \in Valid /\ slot[At(slot[i].count)].count = slot[i].count
    BY <1>2, <2>1
  <2> HIDE DEF At
  <2> QED BY <2>1, <2>2 DEF PlainTable
<1> HIDE DEF At
<1>4. \A i \in Valid : slot[i].p \in Blocks /\ slot[i].mark \in Nat
  BY TypeParts DEF IInv, TypeOK, SlotsOwnBlocks
<1>5. \A j \in 1 .. count : [p |-> slot[At(j)].p, mark |-> slot[At(j)].mark] \in Entry
  BY <1>2, <1>4 DEF Entry
<1>6. count \in Nat
  BY TypeParts
<1>7. StackView \in Seq(Entry)
  BY <1>1, <1>5, <1>6
<1>8. Len(StackView) = count
  BY <1>1, <1>6
<1>9. \A i \in Valid : StackView[slot[i].count] = [p |-> slot[i].p, mark |-> slot[i].mark]
  BY <1>1, <1>3
<1> QED BY <1>7, <1>8, <1>9 DEF ViewIs

\* The same after a step.
LEMMA ViewOfTableAfter == (IInv /\ Plain /\ PlainTable)' => ViewIs'
  BY ViewOfTable, PTL

\* What the stack holds, member by member, and which slot holds it.
LEMMA ViewMembers ==
    ASSUME IInv, Plain, PlainTable, ViewIs
    PROVE  \A c \in 1 .. count : \E i \in Valid :
             /\ slot[i].count = c
             /\ StackView[c] = [p |-> slot[i].p, mark |-> slot[i].mark]
<1> SUFFICES ASSUME NEW c \in 1 .. count
             PROVE  \E i \in Valid : /\ slot[i].count = c
                                     /\ StackView[c] = [p |-> slot[i].p, mark |-> slot[i].mark]
  OBVIOUS
<1>1. PICK i \in Valid : slot[i].count = c
  BY DEF PlainTable
<1>2. StackView[slot[i].count] = [p |-> slot[i].p, mark |-> slot[i].mark]
  BY DEF ViewIs
<1> QED BY <1>1, <1>2

\* A stack that was cut is the first part of what it was.
LEMMA CutView ==
    ASSUME IInv, Plain, PlainTable, ViewIs, (IInv /\ Plain /\ PlainTable)', ViewIs',
           NEW k \in 0 .. count, count' = k,
           \A i \in Valid' : i \in Valid /\ slot'[i] = slot[i]
    PROVE  StackView' = SubSeq(StackView, 1, k)
<1>1. count \in Nat /\ k \in Int /\ 0 <= k /\ k <= Len(StackView) /\ StackView \in Seq(Entry)
  BY TypeParts DEF ViewIs
<1>2. /\ SubSeq(StackView, 1, k) \in Seq(Entry) /\ Len(SubSeq(StackView, 1, k)) = k
      /\ \A n \in 1 .. k : SubSeq(StackView, 1, k)[n] = StackView[n]
  BY <1>1, FirstOf
<1>3. StackView' \in Seq(Entry) /\ Len(StackView') = k
  BY DEF ViewIs
<1>4. ASSUME NEW c \in 1 .. k PROVE StackView'[c] = StackView[c]
  <2>1. PICK i \in Valid' : slot'[i].count = c
    BY DEF PlainTable
  <2>2. StackView'[c] = [p |-> slot'[i].p, mark |-> slot'[i].mark]
    BY <2>1 DEF ViewIs
  <2>3. i \in Valid /\ slot'[i] = slot[i]
    OBVIOUS
  <2>4. StackView[slot[i].count] = [p |-> slot[i].p, mark |-> slot[i].mark]
    BY <2>3 DEF ViewIs
  <2> QED BY <2>1, <2>2, <2>3, <2>4
<1> QED BY <1>2, <1>3, <1>4, SeqEqual

\* fb_alloc is Push.
LEMMA AllocIsPush ==
    ASSUME IInv, Plain, PlainTable, ViewIs, (IInv /\ Plain /\ PlainTable)', ViewIs',
           NEW b \in Blocks, Alloc(b)
    PROVE  Abstract!Push(b)
<1>1. b \notin heap /\ fb_alloc(b, mark) /\ mark' = mark
  BY DEF Alloc
<1>2. PICK i \in Slots \ Valid :
        /\ Valid' = Valid \cup {i}
        /\ slot'[i].p = b /\ slot'[i].mark = mark /\ slot'[i].count = count + 1
        /\ \A j \in Slots \ {i} : slot'[j] = slot[j]
        /\ count' = count + 1 /\ count < NSlots
        /\ heap' = heap \cup {b}
  BY <1>1, AllocPushes
<1> DEFINE e == [p |-> b, mark |-> mark]
<1>3. count \in Nat /\ StackView \in Seq(Entry) /\ Len(StackView) = count /\ e \in Entry
  BY TypeParts DEF ViewIs, Entry
<1>4. /\ Append(StackView, e) \in Seq(Entry) /\ Len(Append(StackView, e)) = count + 1
      /\ \A c \in 1 .. count : Append(StackView, e)[c] = StackView[c]
      /\ Append(StackView, e)[count + 1] = e
  <2> HIDE DEF e
  <2> QED BY <1>3, AppendProperties
<1>5. StackView' \in Seq(Entry) /\ Len(StackView') = count + 1
  BY <1>2 DEF ViewIs
<1>6. ASSUME NEW c \in 1 .. count + 1 PROVE StackView'[c] = Append(StackView, e)[c]
  <2>1. CASE c = count + 1
    <3>1. StackView'[slot'[i].count] = [p |-> slot'[i].p, mark |-> slot'[i].mark]
      BY <1>2 DEF ViewIs
    <3> QED BY <1>2, <1>4, <2>1, <3>1
  <2>2. CASE c # count + 1
    <3>1. c \in 1 .. count
      BY <1>3, <2>2
    <3>2. PICK l \in Valid : /\ slot[l].count = c
                            /\ StackView[c] = [p |-> slot[l].p, mark |-> slot[l].mark]
      BY <3>1, ViewMembers
    <3>3. l \in Valid' /\ slot'[l] = slot[l]
      BY <1>2, <3>2 DEF Valid
    <3>4. StackView'[slot'[l].count] = [p |-> slot'[l].p, mark |-> slot'[l].mark]
      BY <3>3 DEF ViewIs
    <3> QED BY <1>4, <3>1, <3>2, <3>3, <3>4
  <2> QED BY <2>1, <2>2
<1>7. StackView' = Append(StackView, e)
  <2> HIDE DEF e
  <2> QED BY <1>4, <1>5, <1>6, SeqEqual
<1> QED BY <1>1, <1>2, <1>3, <1>7 DEF Abstract!Push, Plain

\* fb_free is Pop, when the call has a block to give back.
LEMMA FreeIsPop ==
    ASSUME IInv, Plain, PlainTable, ViewIs, (IInv /\ Plain /\ PlainTable)', ViewIs',
           fb_free, mark' = mark, count > 0
    PROVE  Abstract!Pop
<1>1. PICK i \in Valid :
        /\ slot[i].count = count
        /\ Valid' = Valid \ {i}
        /\ \A j \in Slots \ {i} : slot'[j] = slot[j]
        /\ count' = count - 1
        /\ heap' = heap \ {slot[i].p}
  BY FreePops
<1>2. count \in Nat /\ StackView \in Seq(Entry) /\ Len(StackView) = count
  BY TypeParts DEF ViewIs
<1>3. \A j \in Valid' : j \in Valid /\ slot'[j] = slot[j]
  BY <1>1 DEF Valid
<1>4. count - 1 \in 0 .. count
  BY <1>2
<1>5. StackView' = SubSeq(StackView, 1, count - 1)
  BY <1>1, <1>3, <1>4, CutView
<1>6. StackView[count].p = slot[i].p
  <2>1. StackView[slot[i].count] = [p |-> slot[i].p, mark |-> slot[i].mark]
    BY DEF ViewIs
  <2> QED BY <1>1, <2>1
<1>7. StackView # <<>>
  BY <1>2
<1> QED BY <1>1, <1>2, <1>5, <1>6, <1>7 DEF Abstract!Pop, Plain

\* fb_alloc_free_till_mark is PopMark.
LEMMA DoneIsPopMark ==
    ASSUME IInv, Plain, PlainTable, ViewIs, (IInv /\ Plain /\ PlainTable)', ViewIs',
           int_fb_alloc_free_till_mark(FALSE), mark > 0
    PROVE  Abstract!PopMark
<1>1. PICK k \in 0 .. count :
        /\ count' = k /\ mark' = mark - 1
        /\ \A i \in Valid : slot[i].mark = mark <=> slot[i].count > k
        /\ Valid' = {i \in Valid : slot[i].mark # mark}
        /\ \A i \in Valid' : slot'[i] = slot[i]
        /\ heap' = heap \ {slot[i].p : i \in {j \in Valid : slot[j].mark = mark}}
  BY FreeTillMarkCuts
<1>2. count \in Nat /\ Len(StackView) = count
  BY TypeParts DEF ViewIs
<1>3. StackView' = SubSeq(StackView, 1, k)
  BY <1>1, CutView
<1>4. \A c \in 1 .. count : c > k <=> StackView[c].mark = mark
  <2> SUFFICES ASSUME NEW c \in 1 .. count PROVE c > k <=> StackView[c].mark = mark
    OBVIOUS
  <2>1. PICK i \in Valid : /\ slot[i].count = c
                          /\ StackView[c] = [p |-> slot[i].p, mark |-> slot[i].mark]
    BY ViewMembers
  <2> QED BY <1>1, <2>1
<1>5. {slot[i].p : i \in {j \in Valid : slot[j].mark = mark}} = {StackView[c].p : c \in k + 1 .. count}
  <2>1. ASSUME NEW i \in Valid, slot[i].mark = mark
        PROVE  \E c \in k + 1 .. count : StackView[c].p = slot[i].p
    <3>1. slot[i].count \in 1 .. count /\ slot[i].count > k
      BY <1>1, <2>1 DEF PlainTable
    <3>2. slot[i].count \in k + 1 .. count
      BY <1>2, <3>1
    <3>3. StackView[slot[i].count].p = slot[i].p
      <4>1. StackView[slot[i].count] = [p |-> slot[i].p, mark |-> slot[i].mark]
        BY DEF ViewIs
      <4> QED BY <4>1
    <3> QED BY <3>2, <3>3
  <2>2. ASSUME NEW c \in k + 1 .. count
        PROVE  \E i \in Valid : slot[i].mark = mark /\ slot[i].p = StackView[c].p
    <3>1. c \in 1 .. count /\ c > k
      BY <1>2
    <3>2. PICK i \in Valid : /\ slot[i].count = c
                            /\ StackView[c] = [p |-> slot[i].p, mark |-> slot[i].mark]
      BY <3>1, ViewMembers
    <3> QED BY <1>1, <3>1, <3>2
  <2> QED BY <2>1, <2>2
<1> QED BY <1>1, <1>2, <1>3, <1>4, <1>5 DEF Abstract!PopMark, Plain

\* The restarts are Clear and Forget.
LEMMA RestartIsClear ==
    ASSUME IInv, Plain, PlainTable, ViewIs, (IInv /\ Plain /\ PlainTable)', ViewIs',
           MainStopped \/ NewScript
    PROVE  Abstract!Clear \/ Abstract!Forget
<1>1. count' = 0 /\ mark' = 0
  BY DEF MainStopped, NewScript, fb_free_all, fb_alloc_init0
<1>2. StackView' = <<>>
  <2>1. StackView' \in Seq(Entry) /\ Len(StackView') = 0
    BY <1>1 DEF ViewIs
  <2> QED BY <2>1, EmptySeq
<1>3. CASE NewScript
  <2>1. heap' = heap
    BY <1>3 DEF NewScript, fb_alloc_init0
  <2> QED BY <1>1, <1>2, <2>1 DEF Abstract!Forget, Plain
<1>4. CASE MainStopped
  <2>1. heap' = heap \ {slot[i].p : i \in Valid}
    BY <1>4 DEF MainStopped, fb_free_all
  <2>2. count \in Nat /\ Len(StackView) = count
    BY TypeParts DEF ViewIs
  <2>3. {slot[i].p : i \in Valid} = {StackView[c].p : c \in 1 .. count}
    <3>1. ASSUME NEW i \in Valid PROVE \E c \in 1 .. count : StackView[c].p = slot[i].p
      <4>1. StackView[slot[i].count] = [p |-> slot[i].p, mark |-> slot[i].mark]
        BY DEF ViewIs
      <4>2. slot[i].count \in 1 .. count
        BY DEF PlainTable
      <4> QED BY <4>1, <4>2
    <3>2. ASSUME NEW c \in 1 .. count PROVE \E i \in Valid : slot[i].p = StackView[c].p
      <4>1. PICK i \in Valid : StackView[c] = [p |-> slot[i].p, mark |-> slot[i].mark]
        BY ViewMembers
      <4> QED BY <4>1
    <3> QED BY <3>1, <3>2
  <2> QED BY <1>1, <1>2, <2>1, <2>2, <2>3 DEF Abstract!Clear, Abstract!Contents, Plain
<1> QED BY <1>3, <1>4

\* A call that holds a block finds the table not empty.
LEMMA HolderCounts ==
    ASSUME IInv, PlainParts, Free
    PROVE  count > 0
<1>1. ctx # <<>> /\ ctx[Len(ctx)].mine # <<>>
  BY DEF Free, TopIs, Top
<1>2. Len(ctx) \in Calls
  <2>1. ctx \in Seq(CallType)
    BY DEF PlainParts, PlainCalls
  <2> QED BY <1>1, <2>1, EmptySeq DEF Calls
<1>3. 1 \in Mine(ctx[Len(ctx)])
  <2>1. ctx[Len(ctx)].mine \in Seq(Blocks)
    BY <1>2, CallParts DEF PlainParts
  <2> QED BY <1>1, <2>1, EmptySeq DEF Mine
<1>4. \E i \in Valid : TRUE
  BY <1>2, <1>3 DEF PlainParts, PlainCalls, HeldHasSlot
<1> QED BY <1>4, TypeParts DEF PlainParts, PlainTable

\* Every step of the code is a step of the stack, or leaves it as it is.
LEMMA StepRefines ==
    IInv /\ PlainInv /\ (IInv /\ PlainInv)' /\ [Next]_vars => [Abstract!Next]_(Abstract!vars)
<1> SUFFICES ASSUME IInv, PlainInv, (IInv /\ PlainInv)', [Next]_vars
             PROVE  Abstract!Next \/ UNCHANGED Abstract!vars
  OBVIOUS
<1>1. feat' = feat
  BY DEF Next, vars
<1>2. CASE ~Plain
  <2>1. ~Plain'
    BY <1>1, <1>2 DEF Plain
  <2> QED BY <1>2, <2>1 DEF Abstract!vars, StackView
<1>3. CASE Plain
  <2>1. Plain'
    BY <1>1, <1>3 DEF Plain
  <2>2. PlainParts /\ PlainParts'
    BY <1>3, <2>1 DEF PlainInv
  <2>3. PlainTable /\ (IInv /\ Plain /\ PlainTable)'
    BY <2>1, <2>2 DEF PlainParts
  <2>4. ViewIs /\ ViewIs'
    BY <1>3, <2>3, ViewOfTable, ViewOfTableAfter
  <2>5. ASSUME UNCHANGED <<slot, count, feat>> PROVE StackView' = StackView
    BY <2>5 DEF StackView, Valid, Plain
  <2>6. CASE UNCHANGED vars
    BY <1>3, <2>1, <2>5, <2>6 DEF vars, table, Abstract!vars
  <2>7. CASE Method
    <3>1. StackView' = StackView /\ heap' = heap
      BY <1>1, <2>5, <2>7 DEF Method
    <3>2. mark' = mark + 1
      <4>1. mark + 1 \in 0 .. Width - 1
        <5>1. mark <= MaxMark
          BY <2>2 DEF PlainParts, PlainCalls
        <5>2. mark # MaxMark
          BY <2>7 DEF Method, fb_alloc_mark
        <5> QED BY <5>1, <5>2, TypeParts
      <4> QED BY <2>7, <4>1, SmallMod DEF Method, fb_alloc_mark
    <3>3. Abstract!Mark
      BY <1>3, <2>1, <3>1, <3>2 DEF Abstract!Mark
    <3> QED BY <3>3 DEF Abstract!Next
  <2>8. ASSUME NEW b \in Blocks, Alloc(b) PROVE Abstract!Next
    BY <1>3, <2>3, <2>4, <2>8, AllocIsPush DEF Abstract!Next
  <2>9. CASE Free
    <3>1. count > 0
      BY <2>2, <2>9, HolderCounts
    <3>2. Abstract!Pop
      BY <1>3, <2>3, <2>4, <2>9, <3>1, FreeIsPop DEF Free
    <3> QED BY <3>2 DEF Abstract!Next
  <2>10. CASE MethodDone
    <3>1. mark > 0
      <4>1. ctx # <<>> /\ ctx \in Seq(CallType) /\ Len(ctx) <= mark /\ mark \in Nat
        BY <2>2, <2>10, CallParts DEF MethodDone, TopIs, PlainParts, PlainCalls
      <4>2. Len(ctx) \in Nat \ {0}
        BY <4>1, EmptySeq
      <4> QED BY <4>1, <4>2
    <3>2. Abstract!PopMark
      BY <1>3, <2>3, <2>4, <2>10, <3>1, DoneIsPopMark DEF MethodDone
    <3> QED BY <3>2 DEF Abstract!Next
  <2>11. ASSUME NEW k \in 0 .. Len(ctx), Raise(k) PROVE UNCHANGED Abstract!vars
    BY <1>1, <1>3, <2>1, <2>5, <2>11 DEF Raise, table, Abstract!vars
  <2>12. CASE MainStopped \/ NewScript
    BY <1>3, <2>3, <2>4, <2>12, RestartIsClear DEF Abstract!Next
  <2>13. ~TopIs("cb") /\ ~TopIs("extra")
    BY <2>2, OnlyMethods
  <2>14. /\ ~CallBack /\ ~CallBackDone /\ ~DeallocExtra /\ ~Alloc(None)
         /\ \A b \in Blocks : ~AllocExtra(b)
    BY <1>3, <2>13 DEF CallBack, CallBackDone, DeallocExtra, AllocExtra, Alloc, Plain
  <2> QED
    BY <2>6, <2>7, <2>8, <2>9, <2>10, <2>11, <2>12, <2>14 DEF Next
<1> QED BY <1>2, <1>3

\* fb_alloc.c implements the stack of FbStack, for every table size and counter
\* width: blocks come back from the top only, a frame at a time.
THEOREM StackRefined == Spec => ImplementsStack
<1>1. Init => Abstract!Init
  <2> SUFFICES ASSUME Init PROVE Abstract!Init
    OBVIOUS
  <2>1. count = 0 /\ mark = 0 /\ heap = {}
    BY DEF Init
  <2>2. StackView = <<>>
    <3>1. CASE Plain
      <4>1. ViewIs
        BY <3>1, InitIInv, InitPlain, ViewOfTable DEF PlainInv, PlainParts
      <4> QED BY <2>1, <4>1, EmptySeq DEF ViewIs
    <3>2. CASE ~Plain
      BY <3>2 DEF StackView
    <3> QED BY <3>1, <3>2
  <2> QED BY <2>1, <2>2 DEF Abstract!Init
<1> QED
  BY <1>1, InitIInv, NextIInv, InitPlain, NextPlain, StepRefines, PTL
  DEF Spec, ImplementsStack, Abstract!Spec
=============================================================================
