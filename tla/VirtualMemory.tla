--------------------------- MODULE VirtualMemory ---------------------------
(***************************************************************************)
(* What the frame tables of an address space promise, page by page.        *)
(* Every virtual page is Unmapped, or mapped with one of the Frame states   *)
(* of mm/map_area.rs: Unallocated, InMemory (the physical frame itself),    *)
(* Compressed or SwappedOut.  Physical frames not held by a page are in    *)
(* the pool of the frame allocator.                                        *)
(*                                                                         *)
(* The contents of a mapped page change only through an explicit           *)
(* operation on that page; splitting or resizing the tables that hold the  *)
(* pages is invisible here.  A page is unmapped only once it holds no      *)
(* frame (the caller deallocates before it shrinks a region).             *)
(***************************************************************************)
EXTENDS FiniteSets

CONSTANTS
  Pages,   \* virtual page numbers
  Frames   \* physical page frames

Unmapped    == "Unmapped"
Unallocated == "Unallocated"
Compressed  == "Compressed"
SwappedOut  == "SwappedOut"

PageState == {Unmapped, Unallocated, Compressed, SwappedOut} \cup Frames

VARIABLES
  vmem,    \* vmem[p]: the state of page p
  free     \* frames in the allocator's pool

vars == <<vmem, free>>

Resident(p) == vmem[p] \in Frames
Mapped(p)   == vmem[p] # Unmapped

Init ==
  /\ vmem = [p \in Pages |-> Unmapped]
  /\ free = Frames

\* A region is established over unmapped pages; its pages start Unallocated.
MapPages(D) ==
  /\ D # {}
  /\ \A p \in D : ~Mapped(p)
  /\ vmem' = [p \in Pages |-> IF p \in D THEN Unallocated ELSE vmem[p]]
  /\ UNCHANGED free

\* A region, or part of one, is removed; none of its pages holds a frame.
UnmapPages(D) ==
  /\ D # {}
  /\ \A p \in D : Mapped(p) /\ ~Resident(p)
  /\ vmem' = [p \in Pages |-> IF p \in D THEN Unmapped ELSE vmem[p]]
  /\ UNCHANGED free

\* A page fault backs an Unallocated page with a frame from the pool.
Fault(p, f) ==
  /\ vmem[p] = Unallocated
  /\ f \in free
  /\ vmem' = [vmem EXCEPT ![p] = f]
  /\ free' = free \ {f}

\* The frame of a page is released and returns to the pool.
Release(p) ==
  /\ Resident(p)
  /\ vmem' = [vmem EXCEPT ![p] = Unallocated]
  /\ free' = free \cup {vmem[p]}

\* Memory pressure moves a resident page to the compressed or swap store.
Evict(p, s) ==
  /\ Resident(p)
  /\ s \in {Compressed, SwappedOut}
  /\ vmem' = [vmem EXCEPT ![p] = s]
  /\ free' = free \cup {vmem[p]}

\* A compressed or swapped-out page is brought back into a frame.
Reload(p, f) ==
  /\ vmem[p] \in {Compressed, SwappedOut}
  /\ f \in free
  /\ vmem' = [vmem EXCEPT ![p] = f]
  /\ free' = free \ {f}

Next ==
  \/ \E D \in SUBSET Pages : MapPages(D) \/ UnmapPages(D)
  \/ \E p \in Pages, f \in Frames : Fault(p, f) \/ Reload(p, f)
  \/ \E p \in Pages : Release(p)
  \/ \E p \in Pages, s \in {Compressed, SwappedOut} : Evict(p, s)

Spec == Init /\ [][Next]_vars

\* Every frame is either in the pool or held by exactly one page: no frame
\* is leaked, shared by two pages, or handed out while a page still holds it.
FrameExclusive ==
  /\ \A p, q \in Pages : p # q /\ Resident(p) => vmem[p] # vmem[q]
  /\ \A f \in Frames : f \in free <=> \A p \in Pages : vmem[p] # f
=============================================================================
