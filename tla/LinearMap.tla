----------------------------- MODULE LinearMap -----------------------------
(***************************************************************************)
(* The frame tables of one address space: a set of LinearMap values        *)
(* (os/src/mm/linear_map.rs), each a dense array of Frame states over a    *)
(* half-open range [vpn_start, vpn_end) of virtual page numbers, with the  *)
(* bookkeeping of the "oom_handler" feature (the active queue and the      *)
(* compressed/swapped counters), and the pool of the frame allocator.      *)
(*                                                                         *)
(* Each LinearMap method is one action.  The callers (memory_set.rs and    *)
(* map_area.rs, not in this repository) are modelled from the spec: they  *)
(* choose the arguments; the constants below select which of the calls   *)
(* section 4.1 allows they make.                                           *)
(* A method that returns Err without changing anything is a stuttering     *)
(* step and is not written out.                                            *)
(***************************************************************************)
EXTENDS Naturals, Sequences, SequencesExt, FiniteSets

CONSTANTS
  MaxVPN,      \* virtual page numbers are 0..MaxVPN
  Frames,      \* physical frames of the allocator (model values)
  MapIds,      \* identities for the LinearMap values of the address space
  IdxBits,     \* width of an active-queue entry: u16 in the code
  OOM,         \* TRUE when built with feature "oom_handler"
  StartMoves,  \* directions callers move a start in: SUBSET {"down", "up"}
  EndChecked,  \* TRUE: no call of set_end passes an end below the start
  CutsChecked  \* TRUE: every into_three has first_cut < second_cut < end

ASSUME MaxVPN \in Nat /\ IdxBits \in Nat \ {0} /\ OOM \in BOOLEAN
ASSUME StartMoves \subseteq {"down", "up"} /\ EndChecked \in BOOLEAN /\ CutsChecked \in BOOLEAN

Pages == 0..MaxVPN
Bound == MaxVPN + 1            \* one past the last page: a valid range end

Unallocated == "Unallocated"
Compressed  == "Compressed"
SwappedOut  == "SwappedOut"
Slot == {Unallocated, Compressed, SwappedOut} \cup Frames   \* enum Frame
InMemory(x) == x \in Frames                                 \* Frame::InMemory

VARIABLES
  live,        \* the LinearMap values that exist
  vpn_start,   \* vpn_range.get_start()
  vpn_end,     \* vpn_range.get_end()
  frames,      \* frames: Vec<Frame>
  active,      \* active: VecDeque<u16> (oom_handler)
  compressed,  \* compressed: usize (oom_handler)
  swapped,     \* swapped: usize (oom_handler)
  free         \* frames in the allocator's pool

vars == <<live, vpn_start, vpn_end, frames, active, compressed, swapped, free>>

(***************************************************************************)
(* Helpers.  Code indices are 0-based (idx = vpn - vpn_start); the TLA+    *)
(* sequence holding them is 1-based.                                       *)
(***************************************************************************)
Covers(m, v) == vpn_start[m] <= v /\ v < vpn_end[m]
SlotAt(m, v) == frames[m][v - vpn_start[m] + 1]
AsIdx(i) == i % (2 ^ IdxBits)                  \* `idx as u16`
NoOverlap(m, a, b) ==                          \* [a, b) touches no other map
  \A n \in live \ {m} : vpn_end[n] <= a \/ b <= vpn_start[n]
UnallocatedIn(s, from, to) == \A i \in from..to : s[i] = Unallocated
CountOf(s, x) == Cardinality({i \in DOMAIN s : s[i] = x})
FramesIn(s) == {s[i] : i \in DOMAIN s} \cap Frames

\* The frames a Vec<Frame> loses when it becomes t: the dropped
\* Frame::InMemory values release their Arc<FrameTracker>, and the frame
\* goes back to the allocator.
Dropped(s, t) == FramesIn(s) \ FramesIn(t)

\* Vec::resize(n, Frame::Unallocated)
Resize(s, n) ==
  IF n <= Len(s) THEN SubSeq(s, 1, n)
  ELSE s \o [i \in 1..(n - Len(s)) |-> Unallocated]

\* slice::rotate_left(k), k <= len (it panics otherwise)
RotateLeft(s, k) == SubSeq(s, k + 1, Len(s)) \o SubSeq(s, 1, k)

\* self.active.retain(|&elem| elem as usize != idx)
Retain(q, idx) == SelectSeq(q, LAMBDA e : e # idx)

\* Mutation: the short cut is taken when either counter is zero.
count_compressed_and_swapped_either_zero(fr, co, sw, start, end) ==
  IF co = 0 \/ sw = 0 THEN <<0, 0>>
  ELSE LET part == SubSeq(fr, start + 1, end)
       IN  <<CountOf(part, Compressed), CountOf(part, SwappedOut)>>

\* LinearMap::count_compressed_and_swapped over frames[start..end] of a map
\* whose frames, compressed and swapped fields are fr, co and sw
count_compressed_and_swapped(fr, co, sw, start, end) ==
  IF co = 0 /\ sw = 0 THEN <<0, 0>>
  ELSE LET part == SubSeq(fr, start + 1, end)
       IN  <<CountOf(part, Compressed), CountOf(part, SwappedOut)>>

\* Mutation: the second half is rebased by one index too many.
split_active_into_two_overshift(q, cut_idx) ==
  LET second == SelectSeq(q, LAMBDA e : e >= cut_idx)
  IN  <<SelectSeq(q, LAMBDA e : e < cut_idx),
        [i \in DOMAIN second |-> second[i] - AsIdx(cut_idx + 1)]>>

\* LinearMap::split_active_into_two: entries below cut_idx stay, the others
\* are rebased by `cut_idx as u16`.
split_active_into_two(q, cut_idx) ==
  LET second == SelectSeq(q, LAMBDA e : e >= cut_idx)
  IN  <<SelectSeq(q, LAMBDA e : e < cut_idx),
        [i \in DOMAIN second |-> second[i] - AsIdx(cut_idx)]>>

(***************************************************************************)
(* Operations.                                                             *)
(***************************************************************************)
Init ==
  /\ live = {}
  /\ vpn_start = [m \in MapIds |-> 0]
  /\ vpn_end = [m \in MapIds |-> 0]
  /\ frames = [m \in MapIds |-> <<>>]
  /\ active = [m \in MapIds |-> <<>>]
  /\ compressed = [m \in MapIds |-> 0]
  /\ swapped = [m \in MapIds |-> 0]
  /\ free = Frames

\* LinearMap::new over [a, b): the caller establishes a region on pages no
\* other region holds.
New(m, a, b) ==
  /\ m \notin live
  /\ a < b
  /\ NoOverlap(m, a, b)
  /\ live' = live \cup {m}
  /\ vpn_start' = [vpn_start EXCEPT ![m] = a]
  /\ vpn_end' = [vpn_end EXCEPT ![m] = b]
  /\ frames' = [frames EXCEPT ![m] = [i \in 1..(b - a) |-> Unallocated]]
  /\ active' = [active EXCEPT ![m] = <<>>]
  /\ compressed' = [compressed EXCEPT ![m] = 0]
  /\ swapped' = [swapped EXCEPT ![m] = 0]
  /\ UNCHANGED free

\* Page fault: a frame is allocated and LinearMap::alloc_in_memory stores
\* it; the index is pushed on the active queue before insert_in_memory,
\* which unwraps (the fault handler calls it on Unallocated slots only).
alloc_in_memory(m, v, f) ==
  LET idx == v - vpn_start[m] IN
  /\ m \in live /\ Covers(m, v)
  /\ SlotAt(m, v) = Unallocated
  /\ f \in free
  /\ active' = IF OOM THEN [active EXCEPT ![m] = Append(@, AsIdx(idx))]
               ELSE active
  /\ frames' = [frames EXCEPT ![m][idx + 1] = f]
  /\ free' = free \ {f}
  /\ UNCHANGED <<live, vpn_start, vpn_end, compressed, swapped>>

\* Mutation: the active queue keeps the removed index.
remove_in_memory_keep_active(m, v) ==
  LET idx == v - vpn_start[m]
      old == SlotAt(m, v) IN
  /\ m \in live /\ Covers(m, v)
  /\ frames' = IF InMemory(old) THEN [frames EXCEPT ![m][idx + 1] = Unallocated]
               ELSE frames
  /\ free' = IF InMemory(old) THEN free \cup {old} ELSE free
  /\ UNCHANGED <<live, vpn_start, vpn_end, active, compressed, swapped>>

remove_in_memory(m, v) ==
  LET idx == v - vpn_start[m]
      old == SlotAt(m, v) IN
  /\ m \in live /\ Covers(m, v)
  /\ active' = IF OOM THEN [active EXCEPT ![m] = Retain(@, idx)] ELSE active
  /\ frames' = IF InMemory(old) THEN [frames EXCEPT ![m][idx + 1] = Unallocated]
               ELSE frames
  /\ free' = IF InMemory(old) THEN free \cup {old} ELSE free
  /\ UNCHANGED <<live, vpn_start, vpn_end, compressed, swapped>>

\* LinearMap::set_start.  Moving the start up drops leading slots the
\* caller has already deallocated; moving it down needs the new pages free.
\* The code rotates left by the distance either way, then resizes; it does
\* not touch the active queue or the counters.
set_start(m, s) ==
  LET k == IF s < vpn_start[m] THEN vpn_start[m] - s ELSE s - vpn_start[m] IN
  /\ m \in live
  /\ s <= vpn_end[m]
  /\ s < vpn_start[m] => /\ "down" \in StartMoves
                         /\ k <= Len(frames[m])
                         /\ NoOverlap(m, s, vpn_start[m])
  /\ s > vpn_start[m] => /\ "up" \in StartMoves
                         /\ UnallocatedIn(frames[m], 1, k)
  /\ vpn_start' = [vpn_start EXCEPT ![m] = s]
  /\ frames' = [frames EXCEPT
                  ![m] = Resize(RotateLeft(@, k), vpn_end[m] - s)]
  /\ free' = free \cup Dropped(frames[m], frames'[m])
  /\ UNCHANGED <<live, vpn_end, active, compressed, swapped>>

\* LinearMap::set_end.  The range is assigned before the check that
\* vpn_start <= new_vpn_end, so the Err return keeps the new range.
\* Shrinking drops trailing slots the caller has already deallocated.
set_end(m, e) ==
  /\ m \in live
  /\ EndChecked => e >= vpn_start[m]
  /\ e > vpn_end[m] => NoOverlap(m, vpn_end[m], e)
  /\ e < vpn_end[m] /\ e >= vpn_start[m] =>
        UnallocatedIn(frames[m], e - vpn_start[m] + 1, Len(frames[m]))
  /\ vpn_end' = [vpn_end EXCEPT ![m] = e]
  /\ frames' = IF vpn_start[m] > e THEN frames
               ELSE [frames EXCEPT ![m] = Resize(@, e - vpn_start[m])]
  /\ free' = free \cup Dropped(frames[m], frames'[m])
  /\ UNCHANGED <<live, vpn_start, active, compressed, swapped>>

\* The state change of a successful LinearMap::into_two(cut) on m, with the
\* returned second half stored as n: split_off at cut_idx, the active queue
\* split by index, the counters of the first half counted over what
\* split_off left in self.frames, and the second half given the rest.
Split(m, cut, n, vs, ve, fr, ac, co, sw) ==
  LET ci  == cut - vs[m]
      q   == split_active_into_two(ac[m], ci)
      cnt == count_compressed_and_swapped(SubSeq(fr[m], 1, ci), co[m], sw[m], 0, ci)
  IN  [vpn_start |-> [vs EXCEPT ![n] = cut],
       vpn_end   |-> [ve EXCEPT ![m] = cut, ![n] = ve[m]],
       frames    |-> [fr EXCEPT ![m] = SubSeq(fr[m], 1, ci),
                                ![n] = SubSeq(fr[m], ci + 1, Len(fr[m]))],
       active    |-> [ac EXCEPT ![m] = q[1], ![n] = q[2]],
       compressed |-> [co EXCEPT ![m] = cnt[1], ![n] = co[m] - cnt[1]],
       swapped   |-> [sw EXCEPT ![m] = cnt[2], ![n] = sw[m] - cnt[2]]]

SplitOK(m, cut) == vpn_start[m] < cut /\ cut < vpn_end[m]

Assign(r) ==
  /\ vpn_start' = r.vpn_start
  /\ vpn_end' = r.vpn_end
  /\ frames' = r.frames
  /\ active' = r.active
  /\ compressed' = r.compressed
  /\ swapped' = r.swapped

\* LinearMap::into_two: fails unless vpn_start < cut < vpn_end.
into_two(m, cut, n) ==
  /\ m \in live /\ n \notin live
  /\ SplitOK(m, cut)
  /\ Assign(Split(m, cut, n, vpn_start, vpn_end, frames, active,
                  compressed, swapped))
  /\ live' = live \cup {n}
  /\ UNCHANGED free

\* LinearMap::into_three: into_two(first_cut) on self, then into_two
\* (second_cut) on the second part.  When the second split fails, self has
\* already been cut and the second part is dropped with its frames.
into_three(m, c1, c2, n2, n3) ==
  LET r1 == Split(m, c1, n2, vpn_start, vpn_end, frames, active,
                  compressed, swapped)
      ok2 == r1.vpn_start[n2] < c2 /\ c2 < r1.vpn_end[n2]
  IN
  /\ m \in live /\ n2 \notin live /\ n3 \notin live /\ n2 # n3
  /\ SplitOK(m, c1)
  /\ CutsChecked => ok2
  /\ IF ok2
     THEN /\ Assign(Split(n2, c2, n3, r1.vpn_start, r1.vpn_end, r1.frames,
                          r1.active, r1.compressed, r1.swapped))
          /\ live' = live \cup {n2, n3}
          /\ UNCHANGED free
     ELSE /\ vpn_start' = vpn_start
          /\ vpn_end' = [vpn_end EXCEPT ![m] = c1]
          /\ frames' = [frames EXCEPT ![m] = r1.frames[m]]
          /\ active' = [active EXCEPT ![m] = r1.active[m]]
          /\ compressed' = [compressed EXCEPT ![m] = r1.compressed[m]]
          /\ swapped' = [swapped EXCEPT ![m] = r1.swapped[m]]
          /\ free' = free \cup FramesIn(r1.frames[n2])
          /\ UNCHANGED live

\* The oom handler (not in this repository) compresses or swaps out a
\* resident page: its frame is freed, its index leaves the active queue and
\* the matching counter grows.
evict(m, v, s) ==
  LET idx == v - vpn_start[m]
      old == SlotAt(m, v) IN
  /\ OOM
  /\ m \in live /\ Covers(m, v)
  /\ InMemory(old)
  /\ frames' = [frames EXCEPT ![m][idx + 1] = s]
  /\ active' = [active EXCEPT ![m] = Retain(@, idx)]
  /\ compressed' = IF s = Compressed THEN [compressed EXCEPT ![m] = @ + 1]
                   ELSE compressed
  /\ swapped' = IF s = SwappedOut THEN [swapped EXCEPT ![m] = @ + 1]
                ELSE swapped
  /\ free' = free \cup {old}
  /\ UNCHANGED <<live, vpn_start, vpn_end>>

\* A fault on a compressed or swapped-out page brings it back into a frame,
\* pushed on the active queue as alloc_in_memory does.
reload(m, v, f) ==
  LET idx == v - vpn_start[m]
      old == SlotAt(m, v) IN
  /\ OOM
  /\ m \in live /\ Covers(m, v)
  /\ old \in {Compressed, SwappedOut}
  /\ f \in free
  /\ frames' = [frames EXCEPT ![m][idx + 1] = f]
  /\ active' = [active EXCEPT ![m] = Append(@, AsIdx(idx))]
  /\ compressed' = IF old = Compressed THEN [compressed EXCEPT ![m] = @ - 1]
                   ELSE compressed
  /\ swapped' = IF old = SwappedOut THEN [swapped EXCEPT ![m] = @ - 1]
                ELSE swapped
  /\ free' = free \ {f}
  /\ UNCHANGED <<live, vpn_start, vpn_end>>

\* The owning area is removed (munmap of a whole region) once its frames
\* have been released; the LinearMap is dropped.
drop_map(m) ==
  /\ m \in live
  /\ \A i \in DOMAIN frames[m] : ~InMemory(frames[m][i])
  /\ live' = live \ {m}
  /\ vpn_start' = [vpn_start EXCEPT ![m] = 0]
  /\ vpn_end' = [vpn_end EXCEPT ![m] = 0]
  /\ frames' = [frames EXCEPT ![m] = <<>>]
  /\ active' = [active EXCEPT ![m] = <<>>]
  /\ compressed' = [compressed EXCEPT ![m] = 0]
  /\ swapped' = [swapped EXCEPT ![m] = 0]
  /\ UNCHANGED free

Ends == 0..Bound

Next ==
  \/ \E m \in MapIds, a, b \in Ends : New(m, a, b)
  \/ \E m \in MapIds, v \in Pages, f \in Frames : alloc_in_memory(m, v, f)
  \/ \E m \in MapIds, v \in Pages : remove_in_memory(m, v)
  \/ \E m \in MapIds, s \in Ends : set_start(m, s)
  \/ \E m \in MapIds, e \in Ends : set_end(m, e)
  \/ \E m, n \in MapIds, c \in Pages : into_two(m, c, n)
  \/ \E m, n2, n3 \in MapIds, c1, c2 \in Ends : into_three(m, c1, c2, n2, n3)
  \/ \E m \in MapIds, v \in Pages, s \in {Compressed, SwappedOut} : evict(m, v, s)
  \/ \E m \in MapIds, v \in Pages, f \in Frames : reload(m, v, f)
  \/ \E m \in MapIds : drop_map(m)

Spec == Init /\ [][Next]_vars

(***************************************************************************)
(* Properties.                                                             *)
(***************************************************************************)
TypeOK ==
  /\ live \subseteq MapIds
  /\ vpn_start \in [MapIds -> Ends] /\ vpn_end \in [MapIds -> Ends]
  /\ frames \in [MapIds -> Seq(Slot)]
  /\ active \in [MapIds -> Seq(0..(2 ^ IdxBits - 1))]
  /\ compressed \in [MapIds -> Nat] /\ swapped \in [MapIds -> Nat]
  /\ free \subseteq Frames

\* Spec 4.1 (shrinking drops only deallocated slots) and section 4.2: every
\* physical frame is either in the allocator's pool or held by exactly one
\* slot of one live map, through faults, releases, resizes at both edges,
\* set_end's Err return, splits and into_three's Err return, which drops
\* the second part with its frames.
Holders(f) == {<<m, i>> \in live \X (1..Bound) : i \in DOMAIN frames[m] /\ frames[m][i] = f}
LengthMatchesRange ==
  \A m \in live : Len(frames[m]) = vpn_end[m] - vpn_start[m]

\* With oom_handler, the active queue of every map holds each index of an
\* InMemory slot exactly once and nothing else, through pushes in
\* alloc_in_memory, retains in remove_in_memory, evictions and reloads, the
\* split of the queue in into_two/into_three and the resizes of set_end
\* (set_start does not rebase the queue, so lm_oom leaves it out).
ActiveExact ==
  OOM => \A m \in live :
           /\ IsInjective(active[m])
           /\ ToSet(active[m]) =
                {i - 1 : i \in {j \in DOMAIN frames[m] : InMemory(frames[m][j])}}

\* With oom_handler, the compressed and swapped counters of every map equal
\* the number of its Compressed and SwappedOut slots, also after into_two
\* has apportioned them between the two halves.
CountersExact ==
  OOM => \A m \in live :
           /\ compressed[m] = CountOf(frames[m], Compressed)
           /\ swapped[m] = CountOf(frames[m], SwappedOut)

\* The refinement mapping: the state of each page is the slot of the map
\* that covers it.
VMem ==
  [p \in Pages |->
     IF \E m \in live : Covers(m, p)
     THEN SlotAt(CHOOSE m \in live : Covers(m, p), p)
     ELSE "Unmapped"]

VM == INSTANCE VirtualMemory WITH vmem <- VMem

\* The address space, seen page by page, behaves as VirtualMemory: a page's
\* frame changes only by a fault, a release, an eviction or a reload of
\* that page; new, set_start, set_end, into_two and into_three only add or
\* drop Unallocated pages and never move a frame to another page or free
\* it, and a failed call changes nothing (spec 4.1).  set_end's Err
\* return, into_three's Err return and set_start moving down each break
\* it; the README records the traces.
VMSpec == VM!Spec
=============================================================================
