------------------------------ MODULE FbAlloc ------------------------------
(***************************************************************************)
(* The scratch memory of the image library (openmv/omv/fb_alloc.c): a      *)
(* table of blocks taken from malloc, ordered by a running count and       *)
(* grouped by a running mark, and the code that uses it:                   *)
(*   - image methods bracket their work in fb_alloc_mark and               *)
(*     fb_alloc_free_till_mark and give single blocks back with fb_free;   *)
(*   - find_blobs calls back into the script under a permanent mark;       *)
(*   - sensor.alloc_extra_fb keeps a permanent block across calls;         *)
(*   - an exception unwinds methods and leaves the allocator as it is;     *)
(*   - omv_main forgets the table before a script, and frees it when       *)
(*     main.py was interrupted.                                            *)
(* "ctx" is the stack of the calls that are using the allocator, with the  *)
(* blocks each one holds; malloc is external: it may fail at any time.     *)
(***************************************************************************)
EXTENDS Integers, Sequences, FiniteSets

CONSTANTS NSlots,     \* FB_MAX_ALLOC_TIMES
          Blocks,     \* memory blocks malloc can return
          None,       \* NULL
          Width,      \* the counters are unsigned integers below this
          FeatureSets,   \* what scripts may do besides plain image methods
          MaxMark     \* bound: no mark is set above this one

ASSUME FbAllocAssumption ==
    /\ NSlots \in Nat \ {0}
    /\ None \notin Blocks
    /\ IsFiniteSet(Blocks)
    /\ Width \in Nat \ {0}
    /\ MaxMark \in Nat /\ MaxMark < Width /\ NSlots < Width
    /\ FeatureSets \subseteq SUBSET {"callback", "extra", "raise", "restart", "zero"}

Slots == 1 .. NSlots

VARIABLES
    feat,    \* what the scripts of this behaviour do
    slot,    \* m_fb_alloc_addr
    count,   \* m_count_max_now
    mark,    \* m_mark_max_now
    heap,    \* blocks malloc returned and free did not get back
    ctx,     \* the calls in progress: their kind and the blocks they hold
    booting  \* main.py is running

table == <<slot, count, mark>>
vars == <<feat, table, heap, ctx, booting>>

Empty == [valid |-> FALSE, count |-> 0, mark |-> 0, permanent |-> FALSE, p |-> None]
Slot == [valid : BOOLEAN, count : 0 .. Width - 1, mark : 0 .. Width - 1,
         permanent : BOOLEAN, p : Blocks \cup {None}]
Valid == {i \in Slots : slot[i].valid}

Init ==
    /\ feat \in FeatureSets
    /\ slot = [i \in Slots |-> Empty]
    /\ count = 0 /\ mark = 0
    /\ heap = {}
    /\ ctx = <<>>
    /\ booting = TRUE

----------------------------------------------------------------------------
(* fb_alloc.c *)

fb_alloc_init0 ==
    /\ slot' = [i \in Slots |-> Empty]
    /\ count' = 0 /\ mark' = 0
    /\ UNCHANGED heap

fb_alloc_mark ==
    /\ mark # MaxMark
    /\ mark' = (mark + 1) % Width

\* (the count of a slot that is not valid is never read: it is zero here)
Freed(s) == [s EXCEPT !.p = None, !.valid = FALSE, !.permanent = FALSE, !.count = 0]

\* Fault: the comparison takes in every frame.
free_every_mark(free_permanent) ==
    LET hit == Valid
    IN  /\ slot' = [i \in Slots |-> IF i \in hit THEN Freed(slot[i]) ELSE slot[i]]
        /\ heap' = heap \ {slot[i].p : i \in hit}
        /\ count' = (count - Cardinality(hit)) % Width
        /\ mark' = (mark - 1) % Width

int_fb_alloc_free_till_mark(free_permanent) ==
    LET hit  == {i \in Valid : slot[i].mark = mark}
        gone == {i \in hit : free_permanent \/ ~slot[i].permanent}
    IN  /\ slot' = [i \in Slots |-> IF i \in gone THEN Freed(slot[i]) ELSE slot[i]]
        /\ heap' = heap \ {slot[i].p : i \in gone}
        /\ count' = (count - Cardinality(hit)) % Width
        /\ mark' = (mark - 1) % Width

\* The first slot that is not valid takes the block; permanent is not reset.
FirstFree(i) == i \notin Valid /\ \A j \in 1 .. i - 1 : j \in Valid

Stored(i, b, m) ==
    [slot EXCEPT ![i] = [@ EXCEPT !.valid = TRUE, !.p = b, !.mark = m,
                                  !.count = (count + 1) % Width]]

\* A request of no bytes gets NULL and takes no slot.
fb_alloc(b, m) ==
    \/ /\ b = None
       /\ UNCHANGED <<slot, count, heap>>
    \/ /\ b # None
       /\ \E i \in Slots : FirstFree(i) /\ slot' = Stored(i, b, m)
       /\ count' = (count + 1) % Width
       /\ heap' = heap \cup {b}

\* Fault: the count is taken back although the block stays valid.
fb_free_keep ==
    \/ \E i \in Valid :
         /\ slot[i].count = count
         /\ heap' = heap \ {slot[i].p}
         /\ count' = (count - 1) % Width
         /\ UNCHANGED slot
    \/ /\ \A i \in Valid : slot[i].count # count
       /\ UNCHANGED <<slot, heap, count>>

\* Fault: the oldest block instead of the newest one.
fb_free_oldest ==
    \/ \E i \in Valid :
         /\ \A j \in 1 .. i - 1 : j \notin Valid
         /\ slot' = [slot EXCEPT ![i] = [@ EXCEPT !.p = None, !.valid = FALSE, !.count = 0]]
         /\ heap' = heap \ {slot[i].p}
         /\ count' = (count - 1) % Width
    \/ /\ Valid = {}
       /\ UNCHANGED <<slot, heap, count>>

fb_free ==
    \/ \E i \in Valid :
         /\ slot[i].count = count
         /\ \A j \in 1 .. i - 1 : ~(j \in Valid /\ slot[j].count = count)
         /\ slot' = [slot EXCEPT ![i] = [@ EXCEPT !.p = None, !.valid = FALSE, !.count = 0]]
         /\ heap' = heap \ {slot[i].p}
         /\ count' = (count - 1) % Width
    \/ /\ \A i \in Valid : slot[i].count # count
       /\ UNCHANGED <<slot, heap, count>>

fb_free_all ==
    /\ slot' = [i \in Slots |-> IF i \in Valid
                  THEN [slot[i] EXCEPT !.p = None, !.valid = FALSE, !.count = 0] ELSE slot[i]]
    /\ heap' = heap \ {slot[i].p : i \in Valid}
    /\ count' = 0 /\ mark' = 0

\* Every slot of the current mark, valid or not.
MarkPermanent(s, m) ==
    [i \in Slots |-> IF s[i].mark = m THEN [s[i] EXCEPT !.permanent = TRUE] ELSE s[i]]

----------------------------------------------------------------------------
(* The code that uses it *)

Top == ctx[Len(ctx)]
TopIs(k) == ctx # <<>> /\ Top.kind = k
Enter(k, blocks) == ctx' = Append(ctx, [kind |-> k, mine |-> blocks])
Leave == ctx' = SubSeq(ctx, 1, Len(ctx) - 1)
SetTop(blocks) == ctx' = [ctx EXCEPT ![Len(ctx)].mine = blocks]

\* An image method; one may call another one.
Method ==
    /\ fb_alloc_mark
    /\ Enter("op", <<>>)
    /\ UNCHANGED <<slot, count, heap, booting>>

\* (bound: a method asks for no more blocks than there are slots)
Alloc(b) ==
    /\ b = None => "zero" \in feat
    /\ TopIs("op") /\ Len(Top.mine) < NSlots
    /\ b \notin heap
    /\ fb_alloc(b, mark)
    /\ SetTop(Append(Top.mine, b))
    /\ UNCHANGED <<mark, booting>>

\* The method gives back what it asked for last; fb_free takes the newest block.
Free ==
    /\ TopIs("op") /\ Top.mine # <<>>
    /\ fb_free
    /\ SetTop(SubSeq(Top.mine, 1, Len(Top.mine) - 1))
    /\ UNCHANGED <<mark, booting>>

MethodDone ==
    /\ TopIs("op")
    /\ int_fb_alloc_free_till_mark(FALSE)
    /\ Leave
    /\ UNCHANGED booting

\* find_blobs hands a blob to the script, under a mark of its own.
CallBack ==
    /\ "callback" \in feat
    /\ TopIs("op")
    /\ fb_alloc_mark
    /\ slot' = MarkPermanent(slot, (mark + 1) % Width)
    /\ Enter("cb", <<>>)
    /\ UNCHANGED <<count, heap, booting>>

CallBackDone ==
    /\ TopIs("cb")
    /\ int_fb_alloc_free_till_mark(TRUE)
    /\ Leave
    /\ UNCHANGED booting

\* sensor.alloc_extra_fb and sensor.dealloc_extra_fb, called by the script.
InScript == ctx = <<>> \/ TopIs("cb") \/ TopIs("extra")

AllocExtra(b) ==
    /\ "extra" \in feat
    /\ InScript
    /\ b \notin heap
    /\ fb_alloc_mark
    /\ LET m == (mark + 1) % Width IN
       \E i \in Slots : FirstFree(i) /\ slot' = MarkPermanent(Stored(i, b, m), m)
    /\ count' = (count + 1) % Width
    /\ heap' = heap \cup {b}
    /\ Enter("extra", <<b>>)
    /\ UNCHANGED booting

\* The script may ask for it with no extra frame buffer to give back.
DeallocExtra ==
    /\ "extra" \in feat
    /\ InScript
    /\ int_fb_alloc_free_till_mark(TRUE)
    /\ IF TopIs("extra") THEN Leave ELSE UNCHANGED ctx
    /\ UNCHANGED booting

\* malloc fails, the table is full (the block goes straight back), or the
\* script raises; the exception is caught by the script, in a callback or not.
Raise(k) ==
    /\ "raise" \in feat
    /\ k < Len(ctx)
    /\ k > 0 => ctx[k].kind \in {"cb", "extra"}
    /\ \A j \in k + 1 .. Len(ctx) : ctx[j].kind # "extra"
    /\ ctx' = SubSeq(ctx, 1, k)
    /\ UNCHANGED <<table, heap, booting>>

\* main.py was interrupted.
MainStopped ==
    /\ "restart" \in feat
    /\ booting
    /\ fb_free_all
    /\ ctx' = <<>>
    /\ booting' = FALSE

\* The IDE's script: the last one is over, with what it left on the table.
NewScript ==
    /\ "restart" \in feat
    /\ \A j \in 1 .. Len(ctx) : ctx[j].kind = "extra"
    /\ fb_alloc_init0
    /\ ctx' = <<>>
    /\ booting' = FALSE

Next ==
    /\ \/ Method \/ MethodDone \/ Free \/ CallBack \/ CallBackDone \/ DeallocExtra
       \/ MainStopped \/ NewScript
       \/ \E b \in Blocks \cup {None} : Alloc(b)
       \/ \E b \in Blocks : AllocExtra(b)
       \/ \E k \in 0 .. Len(ctx) : Raise(k)
    /\ UNCHANGED feat

Spec == Init /\ [][Next]_vars

----------------------------------------------------------------------------
(* Properties *)

\* The table, the counters and the heap stay in their ranges.
TypeOK ==
    /\ slot \in [Slots -> Slot]
    /\ count \in 0 .. Width - 1 /\ mark \in 0 .. Width - 1
    /\ heap \subseteq Blocks
    /\ booting \in BOOLEAN

\* Every valid slot owns a block of the heap that no other slot owns: free is
\* never called twice for one block, nor for a block malloc did not return.
SlotsOwnBlocks ==
    /\ \A i \in Valid : slot[i].p \in heap
    /\ \A i, j \in Valid : i # j => slot[i].p # slot[j].p

Held == UNION {{ctx[j].mine[n] : n \in 1 .. Len(ctx[j].mine)} : j \in 1 .. Len(ctx)}

\* No block is taken away from a call that is still using it ("Protect
\* ourselves from caught exceptions in the callback code from freeing our
\* fb_alloc() stack", blob.c:411).
HeldIsLive == Held \ {None} \subseteq heap

Plain == feat \cap {"callback", "extra", "zero"} = {}

\* The same for scripts that never set a permanent mark nor make a method ask
\* for nothing: exceptions may abandon calls at any point and fb_free may then
\* free their blocks first.
PlainHeldIsLive == Plain => HeldIsLive

\* fb_alloc.c is the stack it says it is, for plain scripts:
\* the valid slots in the order of their counts.
StackView ==
    IF Plain
    THEN [j \in 1 .. count |->
            LET i == CHOOSE i \in Valid : slot[i].count = j
            IN  [p |-> slot[i].p, mark |-> slot[i].mark]]
    ELSE <<>>

Abstract == INSTANCE FbStack WITH
    Size <- NSlots, stack <- StackView,
    depth <- IF Plain THEN mark ELSE 0, live <- IF Plain THEN heap ELSE {}

ImplementsStack == Abstract!Spec
=============================================================================
