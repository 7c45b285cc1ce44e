-------------------------------- MODULE Heap --------------------------------
(* The heap of Train-OS (mem_manager.c): a table of blocks in classes of      *)
(* growing size, laid out in memory by init_mem, and handed out by allocate.  *)
EXTENDS Integers, Sequences

CONSTANTS
    NUM_BLOCKS,    \* blocks in the table
    SYSMEM_ENTRY,  \* address of the first
    First,         \* first block of each class, in the order of the table
    Size,          \* bytes of a block of each class
    Requests,      \* the numbers of bytes asked for
    Junk,          \* what allocate may answer when it answers what it has not
                   \* computed: an unset variable, or what lies past the table
    Client         \* the owners of memory, each of one allocation at a time

Block == 0 .. NUM_BLOCKS - 1
Class == 1 .. Len(First)

ASSUME HeapAssumption ==
    /\ NUM_BLOCKS \in Nat
    /\ SYSMEM_ENTRY \in Nat
    /\ First \in Seq(Block)
    /\ First # << >> /\ First[1] = 0
    /\ Size \in [Class -> Nat \ {0}]
    /\ \A k, l \in Class : k < l => First[k] < First[l] /\ Size[k] < Size[l]
    /\ Requests \subseteq Int
    /\ Junk \subseteq Int

NoMem == -1    \* the answer that is no address

VARIABLES
    heap,      \* heap[].entry_pnt and heap[].free
    i,         \* blocks init_mem has set up
    mem_loc,   \* the end of the last one
    held       \* what each client was given and has not returned

vars == <<heap, i, mem_loc, held>>

Nothing == [addr |-> NoMem, bytes |-> 0]

TypeOK ==
    /\ heap \in [Block -> [entry_pnt : Nat, free : BOOLEAN]]
    /\ i \in 0 .. NUM_BLOCKS
    /\ mem_loc \in Nat
    /\ held \in [Client -> [addr : Int, bytes : Int]]

Init ==
    /\ heap = [b \in Block |-> [entry_pnt |-> 0, free |-> FALSE]]
    /\ i = 0
    /\ mem_loc = SYSMEM_ENTRY
    /\ held = [c \in Client |-> Nothing]

-----------------------------------------------------------------------------
ClassOf(b) ==
    CHOOSE k \in Class : First[k] <= b /\ \A l \in Class : First[l] <= b => l <= k

SizeOf(b) == Size[ClassOf(b)]

(* Mutant: the last loop goes one block too far. *)
InitOneMore ==
    /\ i <= NUM_BLOCKS
    /\ heap' = [heap EXCEPT ![i] = [entry_pnt |-> mem_loc, free |-> TRUE]]
    /\ mem_loc' = mem_loc + SizeOf(i)
    /\ i' = i + 1
    /\ UNCHANGED held

(* One turn of one of init_mem's five loops. *)
init_mem ==
    /\ i < NUM_BLOCKS
    /\ heap' = [heap EXCEPT ![i] = [entry_pnt |-> mem_loc, free |-> TRUE]]
    /\ mem_loc' = mem_loc + SizeOf(i)
    /\ i' = i + 1
    /\ UNCHANGED held

(* The class whose blocks are the smallest that hold n bytes. *)
ClassFor(n) ==
    CHOOSE k \in Class : n <= Size[k] /\ \A l \in Class : n <= Size[l] => k <= l

(* Mutant: the search starts at the class below, whose blocks are too small.  *)
SearchFromSmaller(n) ==
    First[IF ClassFor(n) = 1 THEN 1 ELSE ClassFor(n) - 1] .. NUM_BLOCKS - 1

(* The blocks allocate looks at: those of the class and of all larger ones.   *)
Search(n) == First[ClassFor(n)] .. NUM_BLOCKS - 1

Fits(n) == n > 0 /\ \E k \in Class : n <= Size[k]

Give(c, a, n) == held' = [held EXCEPT ![c] = IF a = NoMem THEN Nothing
                                             ELSE [addr |-> a, bytes |-> n]]

(* allocate(num_bytes).  The bound of its loop lets it read one entry past    *)
(* the table, whose contents are not the heap's; and a request for more than  *)
(* the largest block returns a variable that was never set.                   *)
allocate(c, n) ==
    /\ i = NUM_BLOCKS
    /\ held[c] = Nothing
    /\ \/ /\ n <= 0
          /\ UNCHANGED <<heap, held>>
       \/ /\ Fits(n)
          /\ \E b \in Search(n) :
                /\ heap[b].free
                /\ \A d \in Search(n) : d < b => ~heap[d].free
                /\ heap' = [heap EXCEPT ![b].free = FALSE]
                /\ Give(c, heap[b].entry_pnt, n)
       \/ /\ Fits(n)
          /\ \A b \in Search(n) : ~heap[b].free
          /\ \E a \in Junk \cup {NoMem} : Give(c, a, n)
          /\ UNCHANGED heap
       \/ /\ n > 0 /\ ~Fits(n)
          /\ \E a \in Junk : Give(c, a, n)
          /\ UNCHANGED heap
    /\ UNCHANGED <<i, mem_loc>>

(* Mutant: the address is compared with the block's end. *)
FreesNext(b, a) == heap[b].entry_pnt + SizeOf(b) = a /\ ~heap[b].free

Frees(b, a) == heap[b].entry_pnt = a /\ ~heap[b].free

(* deallocate(addr) by the client that holds it: the whole table is searched. *)
deallocate(c) ==
    /\ i = NUM_BLOCKS
    /\ held[c] # Nothing
    /\ heap' = [b \in Block |-> IF Frees(b, held[c].addr)
                                THEN [heap[b] EXCEPT !.free = TRUE] ELSE heap[b]]
    /\ held' = [held EXCEPT ![c] = Nothing]
    /\ UNCHANGED <<i, mem_loc>>

Next ==
    \/ init_mem
    \/ \E c \in Client : deallocate(c) \/ \E n \in Requests : allocate(c, n)

Spec == Init /\ [][Next]_vars

-----------------------------------------------------------------------------
Holds(c) == held[c] # Nothing

(* The memory of two owners does not overlap: every allocation ends before    *)
(* the other one begins, for the number of bytes that was asked for.          *)
Disjoint ==
    \A c, d \in Client :
        c # d /\ Holds(c) /\ Holds(d)
            => \/ held[c].addr + held[c].bytes <= held[d].addr
               \/ held[d].addr + held[d].bytes <= held[c].addr

(* A block is taken exactly while someone owns it: none is handed out twice   *)
(* and none is lost, whatever the order of allocations and returns.           *)
Accounted ==
    i = NUM_BLOCKS =>
        \A b \in Block :
            ~heap[b].free <=> \E c \in Client : Holds(c) /\ held[c].addr = heap[b].entry_pnt

(* Whatever is handed out is a block of the table ("this is the array that    *)
(* allocate() and deallocate() use").                                         *)
FromTheTable ==
    \A c \in Client : Holds(c) => \E b \in Block : held[c].addr = heap[b].entry_pnt

-----------------------------------------------------------------------------
(* The inductive invariant behind the properties above, if nothing uncomputed *)
(* passes for an address (Junk has no address in it).                         *)

(* The blocks set up so far follow one another without overlap.               *)
LaidOut ==
    \A b \in Block : b < i =>
        /\ heap[b].entry_pnt + SizeOf(b) <= mem_loc
        /\ \A d \in Block : b < d /\ d < i =>
                heap[b].entry_pnt + SizeOf(b) <= heap[d].entry_pnt

HeldInv ==
    /\ i < NUM_BLOCKS => /\ \A c \in Client : ~Holds(c)
                         /\ \A b \in Block : b < i => heap[b].free
    /\ \A c \in Client : Holds(c) =>
            \E b \in Block : /\ held[c].addr = heap[b].entry_pnt
                             /\ held[c].bytes \in 1 .. SizeOf(b)
    /\ \A c, d \in Client :
            Holds(c) /\ Holds(d) /\ held[c].addr = held[d].addr => c = d

IInv == TypeOK /\ LaidOut /\ HeldInv /\ Accounted
=============================================================================
