--------------------------- MODULE BuddyAllocator ---------------------------
(***************************************************************************)
(* The buddy allocator of src/kernel/memory.c, in units of pages (the code *)
(* shifts by order + 12).  buddy_blocks[o] is a linked list of free blocks *)
(* of 2^o pages.  add_buddy_block has no body in the repository: it pushes *)
(* a block of the given size on the list of its order, and cuts a region   *)
(* into the largest naturally aligned blocks.                              *)
(***************************************************************************)
EXTENDS Integers, Sequences, SequencesExt, FiniteSets

CONSTANT MaxBuddyOrder      \* MAX_BUDDY_ORDER

ASSUME OrderAssumption == MaxBuddyOrder \in Nat \ {0}

VARIABLES
    buddyBlocks,    \* buddy_blocks: the addresses on the free list of every order
    granted         \* the blocks that callers of buddy_alloc hold

buddyVars == <<buddyBlocks, granted>>

Orders == 0 .. (MaxBuddyOrder - 1)

Block(a, o) == [address |-> a, order |-> o]
Pages(b)    == b.address .. (b.address + 2^b.order - 1)

FreeBlocks == UNION {{Block(a, o) : a \in ToSet(buddyBlocks[o])} : o \in Orders}

AddBuddyBlock(lists, a, o) == [lists EXCEPT ![o] = <<a>> \o @]

\* The blocks add_buddy_block cuts the pages first .. last into.
RegionBlocks(first, last) ==
    LET inside == {b \in [address : first .. last, order : Orders] :
                      b.address % 2^b.order = 0 /\ Pages(b) \subseteq first .. last}
    IN  {b \in inside : \A c \in inside : Pages(b) \subseteq Pages(c) => b = c}

\* init_buddy_allocator, given the blocks of all the regions it adds.  The order in
\* which they are pushed is add_buddy_block's: some order, which nothing relies on.
BuddyInit(blocks) ==
    /\ buddyBlocks = [o \in Orders |->
                         SetToSeq({b.address : b \in {c \in blocks : c.order = o}})]
    /\ granted = {}

-----------------------------------------------------------------------------
\* (Mutant of BuddyAlloc: the halves of the split are not put back.)
AllocDroppingHalves(order) ==
    \E o \in Orders :
        /\ o >= order /\ buddyBlocks[o] # <<>>
        /\ \A p \in order .. (o - 1) : buddyBlocks[p] = <<>>
        /\ buddyBlocks' = [buddyBlocks EXCEPT ![o] = Tail(@)]
        /\ granted' = granted \cup {Block(Head(buddyBlocks[o]), order)}

\* buddy_alloc: the first list of sufficient order that is not empty gives its
\* head, which is split; the upper halves go to the front of the lower lists.
BuddyAlloc(order) ==
    \E o \in Orders :
        /\ o >= order /\ buddyBlocks[o] # <<>>
        /\ \A p \in order .. (o - 1) : buddyBlocks[p] = <<>>
        /\ LET a == Head(buddyBlocks[o]) IN
           /\ buddyBlocks' = [p \in Orders |->
                 IF p = o THEN Tail(buddyBlocks[o])
                 ELSE IF p \in order .. (o - 1) THEN <<a + 2^p>> \o buddyBlocks[p]
                 ELSE buddyBlocks[p]]
           /\ granted' = granted \cup {Block(a, order)}

\* The address of the block of order o that contains page a, and its buddy's:
\* the code takes the smaller address, and flips bit o.
AddressAt(a, o) == (a \div 2^o) * 2^o
BuddyOf(a, o) ==
    IF (a \div 2^o) % 2 = 0 THEN AddressAt(a, o) + 2^o ELSE AddressAt(a, o) - 2^o

OnList(a, o) == \E i \in DOMAIN buddyBlocks[o] : buddyBlocks[o][i] = a

\* (Mutant of CoalescesTo: the block merges with its buddy at most once.)
CoalescesOnce(b, o) ==
    o = IF b.order < MaxBuddyOrder - 1 /\ OnList(BuddyOf(b.address, b.order), b.order)
        THEN b.order + 1 ELSE b.order

\* The loop of buddy_free ends at order o: at every order below it the buddy was
\* on its list, at order o it is not, or o is the highest order.
CoalescesTo(b, o) ==
    /\ o \in b.order .. (MaxBuddyOrder - 1)
    /\ \A p \in b.order .. (o - 1) : OnList(BuddyOf(b.address, p), p)
    /\ o = MaxBuddyOrder - 1 \/ ~OnList(BuddyOf(b.address, o), o)

\* buddy_free, for a block its caller was given.
BuddyFree(b) ==
    /\ b \in granted
    /\ \E o \in Orders :
          /\ CoalescesTo(b, o)
          /\ LET rest == [p \in Orders |->
                             IF p \in b.order .. (o - 1)
                             THEN RemoveFirst(buddyBlocks[p], BuddyOf(b.address, p))
                             ELSE buddyBlocks[p]]
             IN  buddyBlocks' = AddBuddyBlock(rest, AddressAt(b.address, o), o)
    /\ granted' = granted \ {b}

BuddyNext == (\E order \in Orders : BuddyAlloc(order)) \/ (\E b \in granted : BuddyFree(b))
=============================================================================
