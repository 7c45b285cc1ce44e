----------------------------- MODULE HeapProofs -----------------------------
(* The heap hands out disjoint memory and keeps account of every block, for   *)
(* any classes of blocks, any owners and any requests, if what allocate has   *)
(* not computed is never taken for an address (NothingUncomputed).            *)
EXTENDS Heap, Arithmetic

NothingUncomputed == Junk \subseteq {NoMem}

(* A non-empty set of numbers up to a bound has a greatest element.           *)
LEMMA GreatestNat ==
    ASSUME NEW N \in Nat, NEW T \in SUBSET (0 .. N), T # {}
    PROVE  \E x \in T : \A y \in T : y <= x
  <1> DEFINE U == {N - x : x \in T}
  <1>1. U \in SUBSET Nat /\ U # {}
    <2>1. \A x \in T : x \in Nat /\ x <= N
      OBVIOUS
    <2>2. \A x \in T : N - x \in Nat
      BY <2>1
    <2>3. PICK x \in T : TRUE
      OBVIOUS
    <2>4. N - x \in U
      BY <2>3
    <2> QED BY <2>2, <2>4
  <1>2. PICK u \in U : \A v \in U : u <= v
    <2> HIDE DEF U
    <2> QED BY <1>1, LeastNat
  <1>3. PICK x \in T : u = N - x
    OBVIOUS
  <1>4. \A y \in T : u <= N - y
    BY <1>2
  <1> QED BY <1>3, <1>4

(* The class a block is of, and how large the block is.                       *)
LEMMA Sizes ==
    ASSUME NEW b \in Block
    PROVE  /\ SizeOf(b) \in Nat \ {0}
           /\ \A k \in Class : First[k] <= b => Size[k] <= SizeOf(b)
  <1> DEFINE T == {k \in Class : First[k] <= b}
  <1>1. Len(First) \in Nat \ {0} /\ First \in [Class -> Block] /\ First[1] = 0
    BY HeapAssumption DEF Class
  <1>2. T \in SUBSET (0 .. Len(First)) /\ 1 \in T
    BY <1>1 DEF Class, Block
  <1>3. PICK k \in T : \A l \in T : l <= k
    <2> HIDE DEF T
    <2> QED BY <1>1, <1>2, GreatestNat
  <1>4. /\ ClassOf(b) \in Class
        /\ \A l \in Class : First[l] <= b => l <= ClassOf(b)
    BY <1>3 DEF ClassOf
  <1>5. \A l \in Class : First[l] <= b => Size[l] <= Size[ClassOf(b)]
    BY <1>4, HeapAssumption DEF Class
  <1> QED BY <1>4, <1>5, HeapAssumption DEF SizeOf

(* A block allocate looks at is large enough for the request.                 *)
LEMMA SearchFits ==
    ASSUME NEW n \in Int, Fits(n)
    PROVE  \A b \in Search(n) : b \in Block /\ n \in 1 .. SizeOf(b)
  <1> DEFINE T == {k \in Class : n <= Size[k]}
  <1>1. T \in SUBSET Nat /\ T # {}
    BY DEF Fits, Class
  <1>2. PICK k \in T : \A l \in T : k <= l
    <2> HIDE DEF T
    <2> QED BY <1>1, LeastNat
  <1>3. ClassFor(n) \in Class /\ n <= Size[ClassFor(n)]
    BY <1>2 DEF ClassFor
  <1>4. First[ClassFor(n)] \in Block /\ Size[ClassFor(n)] \in Nat
    BY <1>3, HeapAssumption DEF Class
  <1>5. ASSUME NEW b \in Search(n) PROVE b \in Block /\ n \in 1 .. SizeOf(b)
    <2>1. b \in Block /\ First[ClassFor(n)] <= b
      BY <1>4, <1>5, HeapAssumption DEF Search, Block
    <2>2. Size[ClassFor(n)] <= SizeOf(b) /\ SizeOf(b) \in Nat
      BY <1>3, <2>1, Sizes
    <2> QED BY <1>3, <1>4, <2>1, <2>2 DEF Fits
  <1> QED BY <1>5

(* The heap starts in the invariant. *)
LEMMA InitIInv == Init => IInv
  <1> SUFFICES ASSUME Init PROVE IInv
    OBVIOUS
  <1>1. TypeOK
    BY HeapAssumption DEF Init, TypeOK, Nothing, NoMem, Block
  <1>2. \A c \in Client : ~Holds(c)
    BY DEF Init, Holds
  <1>3. LaidOut
    BY DEF Init, LaidOut, Block
  <1>4. HeldInv
    BY <1>2 DEF Init, HeldInv, Block
  <1>5. Accounted
    BY <1>2, HeapAssumption DEF Init, Accounted, Block
  <1> QED BY <1>1, <1>3, <1>4, <1>5 DEF IInv

(* Two blocks of a table that is set up are apart, so that an address names   *)
(* one block.                                                                 *)
LEMMA Apart ==
    ASSUME TypeOK, LaidOut, i = NUM_BLOCKS, NEW b \in Block, NEW d \in Block
    PROVE  /\ b # d => \/ heap[b].entry_pnt + SizeOf(b) <= heap[d].entry_pnt
                       \/ heap[d].entry_pnt + SizeOf(d) <= heap[b].entry_pnt
           /\ heap[b].entry_pnt = heap[d].entry_pnt => b = d
  <1>1. heap[b].entry_pnt \in Nat /\ heap[d].entry_pnt \in Nat
    BY DEF TypeOK
  <1>2. SizeOf(b) \in Nat \ {0} /\ SizeOf(d) \in Nat \ {0}
    BY Sizes
  <1>3. b < NUM_BLOCKS /\ d < NUM_BLOCKS /\ b \in Nat /\ d \in Nat
    BY HeapAssumption DEF Block
  <1>4. b # d => \/ heap[b].entry_pnt + SizeOf(b) <= heap[d].entry_pnt
                 \/ heap[d].entry_pnt + SizeOf(d) <= heap[b].entry_pnt
    <2>1. CASE b < d
      BY <1>3, <2>1 DEF LaidOut
    <2>2. CASE d < b
      BY <1>3, <2>2 DEF LaidOut
    <2> QED BY <1>3, <2>1, <2>2
  <1> QED BY <1>1, <1>2, <1>4

(* init_mem keeps it, one block at a time. *)
LEMMA InitMemStep == IInv /\ init_mem => IInv'
  <1> SUFFICES ASSUME IInv, init_mem PROVE IInv'
    OBVIOUS
  <1>1. /\ i \in Block /\ i + 1 \in 0 .. NUM_BLOCKS /\ NUM_BLOCKS \in Nat
        /\ mem_loc \in Nat /\ SizeOf(i) \in Nat \ {0}
        /\ heap' = [heap EXCEPT ![i] = [entry_pnt |-> mem_loc, free |-> TRUE]]
        /\ mem_loc' = mem_loc + SizeOf(i) /\ i' = i + 1 /\ held' = held
    <2>1. i \in Block
      BY HeapAssumption DEF init_mem, IInv, TypeOK, Block
    <2> QED BY <2>1, Sizes, HeapAssumption DEF init_mem, IInv, TypeOK, Block
  <1>2. TypeOK'
    BY <1>1 DEF IInv, TypeOK
  <1>3. \A b \in Block : b # i => heap'[b] = heap[b]
    BY <1>1 DEF IInv, TypeOK
  <1>4. heap'[i].entry_pnt = mem_loc /\ heap'[i].free
    BY <1>1 DEF IInv, TypeOK
  <1>5. LaidOut'
    <2> SUFFICES ASSUME NEW b \in Block, b < i'
                 PROVE  /\ heap'[b].entry_pnt + SizeOf(b) <= mem_loc'
                        /\ \A d \in Block : b < d /\ d < i' =>
                              heap'[b].entry_pnt + SizeOf(b) <= heap'[d].entry_pnt
      BY DEF LaidOut
    <2>1. b \in Nat /\ SizeOf(b) \in Nat /\ heap[b].entry_pnt \in Nat
      BY Sizes DEF Block, IInv, TypeOK
    <2>2. CASE b = i
      BY <1>1, <1>4, <2>2 DEF Block
    <2>3. CASE b # i
      <3>1. b < i /\ heap'[b] = heap[b]
        BY <1>1, <1>3, <2>1, <2>3 DEF Block
      <3>2. heap[b].entry_pnt + SizeOf(b) <= mem_loc
        BY <3>1 DEF IInv, LaidOut
      <3>3. ASSUME NEW d \in Block, b < d, d < i'
            PROVE  heap'[b].entry_pnt + SizeOf(b) <= heap'[d].entry_pnt
        <4>1. CASE d = i
          BY <1>4, <3>1, <3>2, <4>1
        <4>2. CASE d # i
          BY <1>1, <1>3, <3>1, <3>3, <4>2 DEF IInv, LaidOut, Block
        <4> QED BY <4>1, <4>2
      <3> QED BY <1>1, <2>1, <3>1, <3>2, <3>3
    <2> QED BY <2>2, <2>3
  <1>6. \A c \in Client : ~Holds(c) /\ ~Holds(c)'
    BY <1>1 DEF IInv, HeldInv, Holds, Block
  <1>7. \A b \in Block : b < i' => heap'[b].free
    <2> SUFFICES ASSUME NEW b \in Block, b < i' PROVE heap'[b].free
      OBVIOUS
    <2>1. CASE b = i
      BY <1>4, <2>1
    <2>2. CASE b # i
      <3>1. b < i /\ i < NUM_BLOCKS
        BY <1>1, <2>2 DEF Block
      <3> QED BY <1>3, <2>2, <3>1 DEF IInv, HeldInv
    <2> QED BY <2>1, <2>2
  <1>8. HeldInv'
    BY <1>6, <1>7 DEF HeldInv
  <1>9. Accounted'
    BY <1>1, <1>6, <1>7 DEF Accounted, Block
  <1> QED BY <1>2, <1>5, <1>8, <1>9 DEF IInv

(* A client that is given a free block, and one that is given nothing.        *)
LEMMA AllocateStep ==
    ASSUME NothingUncomputed, IInv, NEW c \in Client, NEW n \in Requests,
           allocate(c, n)
    PROVE  IInv'
  <1>1. n \in Int /\ i = NUM_BLOCKS /\ ~Holds(c) /\ i' = i /\ mem_loc' = mem_loc
    BY HeapAssumption DEF allocate, Holds
  <1>2. CASE heap' = heap /\ held' = held
    BY <1>1, <1>2 DEF IInv, TypeOK, LaidOut, HeldInv, Accounted, Holds
  <1>3. held \in [Client -> [addr : Int, bytes : Int]]
    BY DEF IInv, TypeOK
  <1>4. CASE heap' = heap /\ Give(c, NoMem, n)
    <2>1. held' = held
      BY <1>1, <1>3, <1>4 DEF Give, Holds
    <2> QED BY <1>2, <1>4, <2>1
  <1>5. ASSUME Fits(n), NEW b \in Search(n), heap[b].free,
               heap' = [heap EXCEPT ![b].free = FALSE],
               Give(c, heap[b].entry_pnt, n)
        PROVE  IInv'
    <2>1. b \in Block /\ n \in 1 .. SizeOf(b) /\ SizeOf(b) \in Nat
      BY <1>1, <1>5, SearchFits, Sizes
    <2>2. heap[b].entry_pnt \in Nat /\ heap[b].entry_pnt # NoMem
      BY <2>1 DEF IInv, TypeOK, NoMem
    <2>3. held' = [held EXCEPT ![c] = [addr |-> heap[b].entry_pnt, bytes |-> n]]
      BY <1>5, <2>2 DEF Give
    <2>4. /\ held'[c].addr = heap[b].entry_pnt /\ held'[c].bytes = n
          /\ \A d \in Client : d # c => held'[d] = held[d]
      BY <1>3, <2>3
    <2>5. /\ \A d \in Block : heap'[d].entry_pnt = heap[d].entry_pnt
          /\ \A d \in Block : heap'[d].free <=> d # b /\ heap[d].free
          /\ heap' \in [Block -> [entry_pnt : Nat, free : BOOLEAN]]
      BY <1>5, <2>1 DEF IInv, TypeOK
    <2>6. /\ Holds(c)'
          /\ \A d \in Client : d # c => (Holds(d)' <=> Holds(d))
      BY <2>2, <2>4 DEF Holds, Nothing
    <2>7. TypeOK'
      BY <1>1, <1>3, <2>2, <2>3, <2>5 DEF IInv, TypeOK
    <2>8. LaidOut'
      BY <1>1, <2>5 DEF IInv, LaidOut
    <2>9. \A d \in Client : Holds(d) => held[d].addr # heap[b].entry_pnt
      BY <1>1, <1>5, <2>1 DEF IInv, Accounted
    <2>10. HeldInv'
      <3>1. ASSUME NEW d \in Client, Holds(d)'
            PROVE  \E e \in Block : /\ held'[d].addr = heap'[e].entry_pnt
                                    /\ held'[d].bytes \in 1 .. SizeOf(e)
        <4>1. CASE d = c
          BY <2>1, <2>4, <2>5, <4>1
        <4>2. CASE d # c
          BY <2>4, <2>5, <2>6, <3>1, <4>2 DEF IInv, HeldInv
        <4> QED BY <4>1, <4>2
      <3>2. ASSUME NEW d \in Client, NEW e \in Client, Holds(d)', Holds(e)',
                   held'[d].addr = held'[e].addr
            PROVE  d = e
        BY <2>4, <2>6, <2>9, <3>2 DEF IInv, HeldInv
      <3>3. ~(i' < NUM_BLOCKS)
        BY <1>1 DEF IInv, TypeOK
      <3> QED BY <3>1, <3>2, <3>3 DEF HeldInv
    <2>11. Accounted'
      <3> SUFFICES ASSUME NEW d \in Block
                   PROVE  ~heap'[d].free <=>
                            \E e \in Client : Holds(e)' /\ held'[e].addr = heap'[d].entry_pnt
        BY DEF Accounted
      <3>1. CASE d = b
        BY <2>4, <2>5, <2>6, <3>1
      <3>2. CASE d # b
        <4>1. heap[d].entry_pnt # heap[b].entry_pnt
          BY <1>1, <2>1, <3>2, Apart DEF IInv
        <4>2. ~heap[d].free <=>
                \E e \in Client : Holds(e) /\ held[e].addr = heap[d].entry_pnt
          BY <1>1 DEF IInv, Accounted
        <4> QED BY <1>1, <2>4, <2>5, <2>6, <3>2, <4>1, <4>2
      <3> QED BY <3>1, <3>2
    <2> QED BY <2>7, <2>8, <2>10, <2>11 DEF IInv
  <1> QED BY <1>2, <1>4, <1>5 DEF allocate, NothingUncomputed

(* The block whose address is returned becomes free, and no other.            *)
LEMMA DeallocateStep ==
    ASSUME IInv, NEW c \in Client, deallocate(c)
    PROVE  IInv'
  <1>1. /\ i = NUM_BLOCKS /\ Holds(c) /\ i' = i /\ mem_loc' = mem_loc
        /\ held' = [held EXCEPT ![c] = Nothing]
    BY DEF deallocate, Holds
  <1>2. held \in [Client -> [addr : Int, bytes : Int]]
    BY DEF IInv, TypeOK
  <1>3. PICK b \in Block : held[c].addr = heap[b].entry_pnt
    BY <1>1 DEF IInv, HeldInv
  <1>4. \A d \in Block : held[c].addr = heap[d].entry_pnt <=> d = b
    BY <1>1, <1>3, Apart DEF IInv
  <1>5. /\ \A d \in Block : heap'[d].entry_pnt = heap[d].entry_pnt
        /\ \A d \in Block : heap'[d].free <=> d = b \/ heap[d].free
        /\ heap' \in [Block -> [entry_pnt : Nat, free : BOOLEAN]]
    BY <1>4 DEF deallocate, Frees, IInv, TypeOK
  <1>6. /\ ~Holds(c)'
        /\ \A d \in Client : d # c => held'[d] = held[d] /\ (Holds(d)' <=> Holds(d))
    BY <1>1, <1>2 DEF Holds
  <1>7. TypeOK'
    BY <1>1, <1>2, <1>5 DEF IInv, TypeOK, Nothing, NoMem
  <1>8. LaidOut'
    BY <1>1, <1>5 DEF IInv, LaidOut
  <1>9. HeldInv'
    <2>1. ~(i' < NUM_BLOCKS)
      BY <1>1 DEF IInv, TypeOK
    <2> QED BY <1>5, <1>6, <2>1 DEF IInv, HeldInv
  <1>10. Accounted'
    <2> SUFFICES ASSUME NEW d \in Block
                 PROVE  ~heap'[d].free <=>
                          \E e \in Client : Holds(e)' /\ held'[e].addr = heap'[d].entry_pnt
      BY DEF Accounted
    <2>1. ~heap[d].free <=>
            \E e \in Client : Holds(e) /\ held[e].addr = heap[d].entry_pnt
      BY <1>1 DEF IInv, Accounted
    <2>2. CASE d = b
      <3>1. \A e \in Client : Holds(e)' => held'[e].addr # heap[b].entry_pnt
        BY <1>1, <1>3, <1>6 DEF IInv, HeldInv
      <3> QED BY <1>5, <2>2, <3>1
    <2>3. CASE d # b
      BY <1>4, <1>5, <1>6, <2>1, <2>3
    <2> QED BY <2>2, <2>3
  <1> QED BY <1>7, <1>8, <1>9, <1>10 DEF IInv

(* The inductive invariant holds of every reachable state.                    *)
THEOREM Invariance == NothingUncomputed => (Spec => []IInv)
  <1> SUFFICES ASSUME NothingUncomputed PROVE Spec => []IInv
    OBVIOUS
  <1>1. IInv /\ UNCHANGED vars => IInv'
    BY DEF IInv, TypeOK, LaidOut, HeldInv, Accounted, Holds, vars
  <1>2. IInv /\ [Next]_vars => IInv'
    BY <1>1, InitMemStep, AllocateStep, DeallocateStep DEF Next
  <1> QED BY <1>2, InitIInv, PTL DEF Spec

(* Addresses are numbers and the table keeps its shape.                       *)
THEOREM Types == NothingUncomputed => (Spec => []TypeOK)
  <1>1. IInv => TypeOK
    BY DEF IInv
  <1> QED BY <1>1, Invariance, PTL

(* No two owners' memory overlaps, whatever is asked for and returned.        *)
THEOREM NoOverlap == NothingUncomputed => (Spec => []Disjoint)
  <1>1. ASSUME IInv PROVE Disjoint
    <2> SUFFICES ASSUME NEW c \in Client, NEW d \in Client, c # d, Holds(c), Holds(d)
                 PROVE  \/ held[c].addr + held[c].bytes <= held[d].addr
                        \/ held[d].addr + held[d].bytes <= held[c].addr
      BY DEF Disjoint
    <2>1. PICK b \in Block : /\ held[c].addr = heap[b].entry_pnt
                             /\ held[c].bytes \in 1 .. SizeOf(b)
      BY <1>1 DEF IInv, HeldInv
    <2>2. PICK e \in Block : /\ held[d].addr = heap[e].entry_pnt
                             /\ held[d].bytes \in 1 .. SizeOf(e)
      BY <1>1 DEF IInv, HeldInv
    <2>3. b # e
      BY <1>1, <2>1, <2>2 DEF IInv, HeldInv
    <2>4. i = NUM_BLOCKS
      BY <1>1, HeapAssumption DEF IInv, HeldInv, TypeOK
    <2>5. /\ heap[b].entry_pnt \in Nat /\ SizeOf(b) \in Nat
          /\ heap[e].entry_pnt \in Nat /\ SizeOf(e) \in Nat
      BY <1>1, Sizes DEF IInv, TypeOK
    <2>6. \/ heap[b].entry_pnt + SizeOf(b) <= heap[e].entry_pnt
          \/ heap[e].entry_pnt + SizeOf(e) <= heap[b].entry_pnt
      BY <1>1, <2>3, <2>4, Apart DEF IInv
    <2> QED BY <2>1, <2>2, <2>5, <2>6
  <1> QED BY <1>1, Invariance, PTL

(* A block is marked as taken exactly while someone owns it.                  *)
THEOREM Account == NothingUncomputed => (Spec => []Accounted)
  <1>1. IInv => Accounted
    BY DEF IInv
  <1> QED BY <1>1, Invariance, PTL

(* Every address handed out is a block's of the table.                        *)
THEOREM Table == NothingUncomputed => (Spec => []FromTheTable)
  <1>1. IInv => FromTheTable
    BY DEF IInv, HeldInv, FromTheTable
  <1> QED BY <1>1, Invariance, PTL
=============================================================================
