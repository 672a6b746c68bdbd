------------------------------ MODULE Fat32Inode ------------------------------
(***************************************************************************)
(* The FAT32 inode layer of os/src/fs/fat32: a file's content is its       *)
(* cluster chain (FileContent.clus_list) and size; a directory is a file   *)
(* of 32-byte entries, with `hint` the offset where free space begins.     *)
(* Every operation runs under the inode's write lock (and its parent's    *)
(* where it touches the parent), so each is one atomic step here.          *)
(*                                                                         *)
(* Sizes and offsets are counted in 32-byte units; a cluster holds C of    *)
(* them.  The disk is data[c][k], the k-th unit of cluster c.  A unit     *)
(* holds a directory entry or a unit of file data:                         *)
(*   Zero     an all-zero unit (FATDirEnt::unused_and_last_entry)          *)
(*   Del      0xE5, unused_not_last_entry                                  *)
(*   S / L    the short entry / a long-name entry of inode `ino`           *)
(*   Dot, DotDot the first two entries of a directory                      *)
(*   Data     a unit written by file `ino`                                 *)
(* The FAT allocator (bitmap.rs) and DirIter (dir_iter.rs) are not in this *)
(* repository: Fat::alloc hands out the lowest free clusters, as many as   *)
(* it has, without clearing them; DirIter in Used mode walks the entries   *)
(* before the first all-zero one.                                          *)
(***************************************************************************)
EXTENDS Integers, Sequences, SequencesExt, FiniteSets, TLC

CONSTANTS
  Root,      \* the root directory's inode
  Files,     \* inodes that may be created (files or directories)
  NClus,     \* clusters of the volume, 1..NClus; cluster 1 is the root's
  C,         \* 32-byte units per cluster
  NameLens,  \* byte lengths of the names given to create and rename
  MaxSize,   \* bound on the end of a write to a file (units)
  SizeBits,  \* width of FileContent.size (u32), scaled down
  EnterDeleted, \* callers may create or link into a removed directory
  Evict,     \* the layer above may drop its last reference to a linked inode
  Kinds,     \* the file types created: a subset of {"File", "Dir"}
  MaxDirEnt, \* bound on the entries a directory is grown to (units)
  GetdentsLens \* the lengths a directory reader asks dirent_info_lock for

ASSUME C >= 3 /\ NameLens \subseteq 1..255 /\ Root \notin Files

Inodes == {Root} \cup Files
Clusters == 1..NClus
U == 2 ^ SizeBits

Unit(kind) == [k |-> kind]
Zero == Unit("Zero")
Del == Unit("Del")
Short(i, fc, sz) == [k |-> "S", ino |-> i, fc |-> fc, sz |-> sz]
Long(i, last) == [k |-> "L", ino |-> i, last |-> last]
Dot(fc) == [k |-> "Dot", fc |-> fc]
DotDot(fc) == [k |-> "DotDot", fc |-> fc]
Data(i) == [k |-> "Data", ino |-> i]

Unused(s) == s.k \in {"Zero", "Del"}          \* FATDirEnt::unused
IsLong(s) == s.k = "L"                        \* FATDirEnt::is_long

VARIABLES
  data,     \* data[c][k]: unit k of cluster c on disk
  free,     \* clusters free in the FAT
  clus,     \* FileContent.clus_list (kept as the FAT chain once closed)
  size,     \* FileContent.size
  hint,     \* FileContent.hint
  ftype,    \* DiskInodeType ("None" before creation)
  st,       \* "Unborn", "Open" (an Inode in memory), "Closed", "Gone"
  parent,   \* parent_dir: <<d, offset of the short entry>> or <<>>
  deleted,  \* Inode.deleted
  written,  \* offsets a file has written (what a reader may see as Data)
  gd        \* a reader enumerating a directory with dirent_info_lock

vars == <<data, free, clus, size, hint, ftype, st, parent, deleted, written, gd>>

(***************************************************************************)
(* Clusters and sizes.                                                     *)
(***************************************************************************)
\* div_ceil!(m, d) == (m - 1 + d) / d in u32 arithmetic (m - 1 wraps at 0).
DivCeil(m, d) == ((((m + U - 1) % U) + d) % U) \div d

\* Inode::gen_name_slice: div_ceil!(name.len(), 13) long entries.
gen_name_slice(n) == (n - 1 + 13) \div 13

\* Mutant: floor instead of ceiling division.
total_clus_floor(sz) == sz \div C

total_clus(sz) == DivCeil(sz, C)

FirstClus(i) == IF clus[i] = <<>> THEN 0 ELSE clus[i][1]

\* Fat::alloc: the lowest free clusters, as many as there are.
RECURSIVE AllocN(_, _)
AllocN(fr, n) ==
  IF n = 0 \/ fr = {} THEN <<>>
  ELSE <<Min(fr)>> \o AllocN(fr \ {Min(fr)}, n - 1)

\* Mutant: the new clusters are put in front of the chain.
alloc_clus_prepend(cl, fr, n) ==
  LET got == AllocN(fr, n) IN [clus |-> got \o cl, free |-> fr \ Range(got)]

alloc_clus(cl, fr, n) ==
  LET got == AllocN(fr, n) IN [clus |-> cl \o got, free |-> fr \ Range(got)]

\* Mutant: the clusters popped are not given back to the FAT.
dealloc_clus_keep(cl, fr, n) ==
  LET k == IF n < Len(cl) THEN n ELSE Len(cl)
  IN  [clus |-> SubSeq(cl, 1, Len(cl) - k), free |-> fr]

dealloc_clus(cl, fr, n) ==
  LET k == IF n < Len(cl) THEN n ELSE Len(cl)
  IN  [clus |-> SubSeq(cl, 1, Len(cl) - k),
       free |-> fr \cup Range(SubSeq(cl, Len(cl) - k + 1, Len(cl)))]

\* Inode::modify_size_lock(diff, clear = false): the size is set whether or
\* not the allocator found every cluster.
modify_size_lock(cl, fr, sz, diff) ==
  LET new == (sz + diff) % U
      oc == total_clus(sz)
      nc == total_clus(new)
      r == IF diff > 0 THEN alloc_clus(cl, fr, nc - oc)
           ELSE dealloc_clus(cl, fr, oc - nc)
  IN  [clus |-> r.clus, free |-> r.free, size |-> new]

(***************************************************************************)
(* Units of a file through its cluster list.                               *)
(***************************************************************************)
Backed(cl, o) == o < Len(cl) * C
\* A read of a unit with no cluster behind it sees nothing (zero).
Read(dt, cl, o) ==
  IF Backed(cl, o) THEN dt[cl[o \div C + 1]][(o % C) + 1] ELSE Zero
\* Writes through the page cache; units with no cluster are lost.
Write(dt, cl, W) ==
  [c \in Clusters |-> [k \in 1..C |->
     LET os == {o \in DOMAIN W : Backed(cl, o) /\ cl[o \div C + 1] = c
                                 /\ (o % C) + 1 = k}
     IN  IF os = {} THEN dt[c][k] ELSE W[CHOOSE o \in os : TRUE]]]

NoWrite == [o \in {} |-> Zero]
(***************************************************************************)
(* Directories.                                                            *)
(***************************************************************************)
\* Inode::read_at_block_cache_wlock of one entry: nothing at or past the
\* size (get_dir_ent's Err), else the unit through the chain.
read_at_block_cache_wlock(d, o) == IF o >= size[d] THEN Zero ELSE Read(data, clus[d], o)
Ent(d, o) == read_at_block_cache_wlock(d, o)
\* Inode::set_dir_ent: one entry written through write_at_block_cache_lock.
set_dir_ent(d, o, e) == Write(data, clus[d], o :> e)

\* DirIter in Used mode: the entries before the first all-zero one.
FirstZero(d) ==
  LET zs == {o \in 0..(size[d] - 1) : Ent(d, o) = Zero}
  IN  IF zs = {} THEN size[d] ELSE Min(zs)
Listed(d) == {o \in 0..(FirstZero(d) - 1) : ~Unused(Ent(d, o))}

\* Inode::set_hint: the offset of the first all-zero entry, else the size.
set_hint(dt, cl, sz) ==
  LET zs == {o \in 0..(sz - 1) : Read(dt, cl, o) = Zero}
  IN  IF zs = {} THEN sz ELSE Min(zs)

\* Inode::is_empty_dir_lock: only "." and ".." are in use.
is_empty_dir_lock(d) ==
  /\ ftype[d] = "Dir"
  /\ \A o \in Listed(d) : Ent(d, o).k \in {"Dot", "DotDot"}

\* Mutant: expand_dir_size grows the directory by one entry, not a cluster.
RECURSIVE Expand_by_entry(_, _)
Expand_by_entry(r, need) ==
  IF need <= r.size THEN r
  ELSE Expand_by_entry(modify_size_lock(r.clus, r.free, r.size, 1), need)

\* expand_dir_size, once per time the iterator runs off the end.
RECURSIVE Expand(_, _)
Expand(r, need) ==
  IF need <= r.size THEN r
  ELSE Expand(modify_size_lock(r.clus, r.free, r.size, C), need)

\* Mutant: hint is left on the last entry allocated.
alloc_dir_ent_hint_on_last(cl, fr, sz, h, n) ==
  LET r == Expand([clus |-> cl, free |-> fr, size |-> sz], h + n)
      off == h + n - 1
  IN  [clus |-> r.clus, free |-> r.free, size |-> r.size, off |-> off,
       hint |-> off, W |-> IF off + 1 < r.size THEN (off + 1) :> Zero ELSE NoWrite]

\* Inode::alloc_dir_ent: every entry from `hint` on counts as free; the
\* file grows a cluster at a time until n entries fit, the entry after
\* them is marked last, and hint moves there (or to the end of the file).
\* The result's `off` is the offset of the last entry allocated.
alloc_dir_ent(cl, fr, sz, h, n) ==
  LET r == Expand([clus |-> cl, free |-> fr, size |-> sz], h + n)
      off == h + n - 1
  IN  [clus |-> r.clus, free |-> r.free, size |-> r.size, off |-> off,
       hint |-> IF off + 1 < r.size THEN off + 1 ELSE r.size,
       W |-> IF off + 1 < r.size THEN (off + 1) :> Zero ELSE NoWrite]

\* Inode::create_dir_ent: the short entry at the allocated offset, the L
\* long entries in the entries before it, the last of them farthest.
create_dir_ent(cl, fr, sz, h, se, i, L) ==
  LET r == alloc_dir_ent(cl, fr, sz, h, 1 + L)
  IN  [r EXCEPT !.W = @ @@ (r.off :> se)
                        @@ [o \in (r.off - L)..(r.off - 1) |->
                              Long(i, o = r.off - L)]]

\* The previous entry in use before o (DirIter Used mode, BACKWARD).
PrevUsed(dt, cl, o) ==
  LET ps == {p \in 0..(o - 1) : ~Unused(Read(dt, cl, p))}
  IN  IF ps = {} THEN -1 ELSE Max(ps)

\* The loop of delete_dir_ent over the long entries before the short one.
RECURSIVE DelLongs(_, _, _)
DelLongs(dt, cl, o) ==
  IF o = -1 \/ ~IsLong(Read(dt, cl, o)) THEN [data |-> dt, ok |-> FALSE]
  ELSE LET dt2 == Write(dt, cl, o :> Del)
       IN  IF Read(dt, cl, o).last THEN [data |-> dt2, ok |-> TRUE]
           ELSE DelLongs(dt2, cl, PrevUsed(dt2, cl, o))

\* Inode::shrink_dir_size: hint rounded up to whole clusters, at least one.
shrink_dir_size(cl, fr, sz, h) ==
  LET s == DivCeil(h, C) * C
      new == IF s > C THEN s ELSE C
  IN  modify_size_lock(cl, fr, sz, new - sz)

\* Inode::delete_dir_ent on directory d: the short entry becomes 0xE5; if
\* the entry before it is long, the long entries do too, the unused
\* entries before hint become last entries (hint moves down over them) and
\* shrink_dir_size frees the clusters past hint, keeping at least one.
delete_dir_ent(d, off) ==
  LET cl == clus[d]
      dt1 == Write(data, cl, off :> Del)
      prev == PrevUsed(dt1, cl, off)
  IN
  IF prev = -1 \/ ~IsLong(Read(dt1, cl, prev))
  THEN [data |-> dt1, clus |-> cl, free |-> free, size |-> size[d],
        hint |-> hint[d], ok |-> TRUE]
  ELSE
    LET r1 == DelLongs(dt1, cl, prev)
        h == hint[d]
        us == {p \in 0..(h - 1) : ~Unused(Read(r1.data, cl, p))}
        h2 == IF us = {} THEN 0 ELSE Max(us) + 1
        dt4 == Write(r1.data, cl, [o \in h2..(h - 1) |-> Zero])
        r2 == shrink_dir_size(cl, free, size[d], h2)
    IN  [data |-> dt4, clus |-> r2.clus, free |-> r2.free,
         size |-> r2.size, hint |-> h2, ok |-> r1.ok]

\* Mutant: a rename leaves ".." as it was.
modify_parent_dir_entry_skipped(dt, i, pfc) == dt

\* Inode::modify_parent_dir_entry: the first ".." entry in use of directory
\* i (DirIter Used mode, FORWARD) gets the first cluster pfc.
modify_parent_dir_entry(dt, i, pfc) ==
  LET dd == {o \in Listed(i) : Ent(i, o).k = "DotDot"}
  IN  Write(dt, clus[i], Min(dd) :> DotDot(pfc))

\* Ancestors of directory j through parent_dir.
RECURSIVE Above(_, _)
Above(j, n) ==
  IF n = 0 \/ parent[j] = <<>> THEN {}
  ELSE {parent[j][1]} \cup Above(parent[j][1], n - 1)

(***************************************************************************)
(* Directory enumeration.                                                  *)
(***************************************************************************)
ShortKinds == {"S", "Dot", "DotDot"}

\* A reader that is not enumerating anything.
GdIdle == [st |-> "Idle", dir |-> Root, off |-> 0, want |-> {}, got |-> {},
           twice |-> FALSE]

\* The name the walk gives a short entry: its inode, "." or "..".
EntName(e) == IF e.k = "S" THEN e.ino ELSE IF e.k = "Dot" THEN "." ELSE ".."

\* Inode::ls_lock: the names the Used walk of a directory gives, "." and
\* ".." included; the reference listing a reader's calls are held to.
ls_lock(d) == {EntName(Ent(d, o)) : o \in {p \in Listed(d) : Ent(d, p).k \in ShortKinds}}

\* DirIter in Used mode after set_iter_offset(off): it stops at the first
\* all-zero entry from off on, or at the end of the file.
FirstZeroFrom(d, off) ==
  LET zs == {o \in off..(size[d] - 1) : Ent(d, o) = Zero}
  IN  IF zs = {} THEN size[d] ELSE Min(zs)

\* The offsets of the short entries the walk returns from o up to stop
\* (long entries are consumed with the short one after them).
RECURSIVE WalkFrom(_, _, _)
WalkFrom(d, o, stop) ==
  IF o >= stop THEN <<>>
  ELSE (IF Ent(d, o).k \in ShortKinds THEN <<o>> ELSE <<>>) \o WalkFrom(d, o + 1, stop)

\* Mutant: d_off is the offset of the entry itself, not the one after it.
dirent_info_lock_same_off(d, off, len) ==
  LET w == WalkFrom(d, off, FirstZeroFrom(d, off))
      n == IF len < Len(w) THEN len ELSE Len(w)
  IN  [j \in 1..n |-> <<EntName(Ent(d, w[j])), IF j < Len(w) THEN w[j] ELSE size[d]>>]

\* Inode::dirent_info_lock: up to len entries from offset off, each with
\* d_off, the offset just past its short entry, or the directory's size
\* (read before the walk) for the last entry the walk meets.
dirent_info_lock(d, off, len) ==
  LET w == WalkFrom(d, off, FirstZeroFrom(d, off))
      n == IF len < Len(w) THEN len ELSE Len(w)
  IN  [j \in 1..n |-> <<EntName(Ent(d, w[j])), IF j < Len(w) THEN w[j] + 1 ELSE size[d]>>]

(***************************************************************************)
(* Operations.                                                             *)
(***************************************************************************)
\* Inode::root_inode over a freshly formatted volume.
Init ==
  /\ data = [c \in Clusters |-> [k \in 1..C |-> Zero]]
  /\ free = Clusters \ {1}
  /\ clus = [i \in Inodes |-> IF i = Root THEN <<1>> ELSE <<>>]
  /\ size = [i \in Inodes |-> IF i = Root THEN C ELSE 0]
  /\ hint = [i \in Inodes |-> 0]
  /\ ftype = [i \in Inodes |-> IF i = Root THEN "Dir" ELSE "None"]
  /\ st = [i \in Inodes |-> IF i = Root THEN "Open" ELSE "Unborn"]
  /\ parent = [i \in Inodes |-> <<>>]
  /\ deleted = [i \in Inodes |-> FALSE]
  /\ written = [i \in Inodes |-> {}]
  /\ gd = GdIdle

\* Inode::fill_empty_dir: ".", ".." and a last entry.
fill_empty_dir(fst, pfc) == (0 :> Dot(fst)) @@ (1 :> DotDot(pfc)) @@ (2 :> Zero)

\* Inode::create_lock: a directory first gets a cluster (none: Err); the
\* entries (L long ones) go into d; from_ent builds the inode; a directory
\* gets hint 2 and fill_empty_dir writes ".", ".." and a last entry.
create_lock(d, i, t, n) ==
  /\ st[d] = "Open" /\ ftype[d] = "Dir" /\ (deleted[d] => EnterDeleted)
  /\ hint[d] + 1 + gen_name_slice(n) <= MaxDirEnt
  /\ st[i] \in {"Unborn", "Gone"}
  /\ t = "Dir" => free # {}
  /\ LET fst == IF t = "Dir" THEN Min(free) ELSE 0
         fr1 == free \ {fst}
         r == create_dir_ent(clus[d], fr1, size[d], hint[d], Short(i, fst, 0), i,
                             gen_name_slice(n))
         dt1 == Write(data, r.clus, r.W)
     IN
     /\ data' = IF t = "Dir" THEN Write(dt1, <<fst>>, fill_empty_dir(fst, r.clus[1])) ELSE dt1
     /\ free' = r.free
     /\ clus' = [clus EXCEPT ![d] = r.clus,
                             ![i] = IF t = "Dir" THEN <<fst>> ELSE <<>>]
     /\ size' = [size EXCEPT ![d] = r.size, ![i] = IF t = "Dir" THEN C ELSE 0]
     /\ hint' = [hint EXCEPT ![d] = r.hint, ![i] = IF t = "Dir" THEN 2 ELSE 0]
     /\ parent' = [parent EXCEPT ![i] = <<d, r.off>>]
  /\ ftype' = [ftype EXCEPT ![i] = t]
  /\ st' = [st EXCEPT ![i] = "Open"]
  /\ deleted' = [deleted EXCEPT ![i] = FALSE]
  /\ written' = [written EXCEPT ![i] = {}]
  /\ UNCHANGED gd

\* Inode::write_at_block_cache_lock: a write past the end first grows the
\* file by modify_size_lock ("as many clusters as possible"), then writes
\* up to the new size.
write_at_block_cache_lock(i, off, len) ==
  /\ st[i] = "Open" /\ ftype[i] = "File"
  /\ off + len <= MaxSize
  /\ LET diff == off + len - size[i]
         r == IF diff > 0 THEN modify_size_lock(clus[i], free, size[i], diff)
              ELSE [clus |-> clus[i], free |-> free, size |-> size[i]]
         end == IF off + len < r.size THEN off + len ELSE r.size
     IN
     /\ data' = Write(data, r.clus, [o \in off..(end - 1) |-> Data(i)])
     /\ clus' = [clus EXCEPT ![i] = r.clus]
     /\ free' = r.free
     /\ size' = [size EXCEPT ![i] = r.size]
     /\ written' = [written EXCEPT ![i] = @ \cup off..(end - 1)]
  /\ UNCHANGED <<hint, ftype, st, parent, deleted, gd>>

\* Inode::unlink_lock: delete_self_dir_ent (it panics on an error), then
\* the inode is marked deleted (or not, for a rename) and detached.  The
\* caller removes a directory only when is_empty_dir_lock holds.
unlink_lock(i, delete) ==
  /\ st[i] = "Open" /\ parent[i] # <<>>
  /\ ftype[i] = "Dir" => is_empty_dir_lock(i)
  /\ LET d == parent[i][1]
         r == delete_dir_ent(d, parent[i][2])
     IN
     /\ r.ok
     /\ data' = r.data
     /\ free' = r.free
     /\ clus' = [clus EXCEPT ![d] = r.clus]
     /\ size' = [size EXCEPT ![d] = r.size]
     /\ hint' = [hint EXCEPT ![d] = r.hint]
  /\ deleted' = [deleted EXCEPT ![i] = delete]
  /\ parent' = [parent EXCEPT ![i] = <<>>]
  /\ gd' = IF gd.st = "Reading" /\ parent[i][1] = gd.dir
           THEN [gd EXCEPT !.want = @ \ {i}, !.got = @ \ {i}] ELSE gd
  /\ UNCHANGED <<ftype, st, written>>

\* Inode::link_par_lock: entries for i in d (short entry with i's first
\* cluster); a directory's ".." is then pointed at d by
\* modify_parent_dir_entry (no ".." found: Err, parent_dir left unset).
link_par_lock(i, d, n) ==
  /\ st[i] = "Open" /\ parent[i] = <<>> /\ ~deleted[i] /\ i # Root
  /\ st[d] = "Open" /\ ftype[d] = "Dir" /\ d # i /\ (deleted[d] => EnterDeleted)
  /\ hint[d] + 1 + gen_name_slice(n) <= MaxDirEnt
  /\ i \notin Above(d, Cardinality(Inodes))
  /\ LET r == create_dir_ent(clus[d], free, size[d], hint[d],
                             Short(i, FirstClus(i), 0), i, gen_name_slice(n))
         dt1 == Write(data, r.clus, r.W)
         dd == {o \in Listed(i) : Ent(i, o).k = "DotDot"}
         found == ftype[i] = "Dir" => dd # {}
     IN
     /\ data' = IF ftype[i] = "Dir" /\ found
                THEN modify_parent_dir_entry(dt1, i, r.clus[1])
                ELSE dt1
     /\ free' = r.free
     /\ clus' = [clus EXCEPT ![d] = r.clus]
     /\ size' = [size EXCEPT ![d] = r.size]
     /\ hint' = [hint EXCEPT ![d] = r.hint]
     /\ parent' = IF found THEN [parent EXCEPT ![i] = <<d, r.off>>] ELSE parent
  /\ UNCHANGED <<ftype, st, deleted, written, gd>>

\* impl Drop for Inode: a deleted inode frees all its clusters; otherwise
\* the short entry is read, a copy of it gets the size and first cluster,
\* and the entry read (not the copy) is written back with set_dir_ent.  The
\* last reference goes only when no open child holds it as parent_dir, nor
\* a reader the directory it enumerates, and an unlinked inode is relinked
\* or deleted before that.
drop_inode(i) ==
  /\ st[i] = "Open" /\ i # Root /\ ~(gd.st # "Idle" /\ gd.dir = i)
  /\ \A j \in Inodes : st[j] = "Open" /\ parent[j] # <<>> => parent[j][1] # i
  /\ deleted[i] \/ (parent[i] # <<>> /\ Evict)
  /\ IF deleted[i]
     THEN LET r == dealloc_clus(clus[i], free, Len(clus[i])) IN
          /\ free' = r.free
          /\ clus' = [clus EXCEPT ![i] = r.clus]
          /\ st' = [st EXCEPT ![i] = "Gone"]
          /\ UNCHANGED data
     ELSE LET d == parent[i][1]
              e == Ent(d, parent[i][2])
          IN
          /\ e.k = "S"
          /\ data' = set_dir_ent(d, parent[i][2], e)
          /\ st' = [st EXCEPT ![i] = "Closed"]
          /\ UNCHANGED <<free, clus>>
  /\ UNCHANGED <<size, hint, ftype, parent, deleted, written, gd>>

\* Inode::find_local_lock: the entry at offset o of directory d, met by
\* the DirIter Used walk, is the short entry of i's name.
find_local_lock(d, o, i) ==
  o \in Listed(d) /\ Ent(d, o).k = "S" /\ Ent(d, o).ino = i

\* Inode::from_ent and Inode::new: the chain is the FAT chain from the
\* entry's first cluster (none for 0; the chain is kept in clus[i]), a
\* file's size is the entry's, a directory's is its chain's, and a
\* directory's hint comes from set_hint.
from_ent(e, t, chain) ==
  LET cl == IF e.fc = 0 THEN <<>> ELSE chain
      sz == IF t = "File" THEN e.sz ELSE Len(cl) * C
  IN  [clus |-> cl, size |-> sz,
       hint |-> IF t = "Dir" THEN set_hint(data, cl, sz) ELSE 0]

\* The layer above looks the name up in an open directory again
\* (find_local_lock) and builds the inode from its entry (from_ent).
open_inode(i) ==
  /\ st[i] = "Closed" /\ parent[i] # <<>>
  /\ st[parent[i][1]] = "Open"
  /\ find_local_lock(parent[i][1], parent[i][2], i)
  /\ LET r == from_ent(Ent(parent[i][1], parent[i][2]), ftype[i], clus[i]) IN
     /\ clus' = [clus EXCEPT ![i] = r.clus]
     /\ size' = [size EXCEPT ![i] = r.size]
     /\ hint' = [hint EXCEPT ![i] = r.hint]
  /\ st' = [st EXCEPT ![i] = "Open"]
  /\ UNCHANGED <<data, free, ftype, parent, deleted, written, gd>>

\* The getdents64 loop of the file layer (not in this repository): it
\* holds the directory open, starts at offset 0, calls dirent_info_lock
\* under the directory's write lock and goes on from the last d_off, until
\* a call returns nothing.  want, got and twice are history over the names
\* ls_lock gave when it began and not unlinked from the directory since:
\* those not returned yet, those returned, and whether one came back again.

getdents_open(d) ==
  /\ gd.st = "Idle" /\ st[d] = "Open" /\ ftype[d] = "Dir" /\ GetdentsLens # {}
  /\ gd' = [GdIdle EXCEPT !.st = "Reading", !.dir = d,
             !.want = ls_lock(d)]
  /\ UNCHANGED <<data, free, clus, size, hint, ftype, st, parent, deleted, written>>

getdents(len) ==
  /\ gd.st = "Reading"
  /\ LET v == dirent_info_lock(gd.dir, gd.off, len)
         names == {v[j][1] : j \in DOMAIN v}
     IN  gd' = IF v = <<>> THEN [gd EXCEPT !.st = "Done"]
               ELSE [gd EXCEPT !.off = v[Len(v)][2], !.want = @ \ names,
                               !.got = @ \cup (names \cap gd.want),
                               !.twice = @ \/ names \cap gd.got # {}]
  /\ UNCHANGED <<data, free, clus, size, hint, ftype, st, parent, deleted, written>>

getdents_close ==
  /\ gd.st # "Idle"
  /\ gd' = GdIdle
  /\ UNCHANGED <<data, free, clus, size, hint, ftype, st, parent, deleted, written>>

Next ==
  \/ \E d \in Inodes, i \in Files, t \in Kinds, n \in NameLens :
       create_lock(d, i, t, n)
  \/ \E i \in Files, off \in 0..(MaxSize - 1), len \in 1..MaxSize :
       write_at_block_cache_lock(i, off, len)
  \/ \E i \in Files, del \in BOOLEAN : unlink_lock(i, del)
  \/ \E i \in Files, d \in Inodes, n \in NameLens : link_par_lock(i, d, n)
  \/ \E i \in Files : drop_inode(i) \/ open_inode(i)
  \/ \E d \in Inodes : getdents_open(d)
  \/ \E len \in GetdentsLens : getdents(len)
  \/ getdents_close

Spec == Init /\ [][Next]_vars

(***************************************************************************)
(* Properties.                                                             *)
(***************************************************************************)
Live == {i \in Inodes : st[i] \in {"Open", "Closed"}}
Linked == {i \in Live : parent[i] # <<>>}
Slot == {"Zero", "Del", "S", "L", "Dot", "DotDot", "Data"}

TypeOK ==
  /\ \A c \in Clusters, k \in 1..C : data[c][k].k \in Slot
  /\ free \subseteq Clusters
  /\ \A i \in Inodes : Range(clus[i]) \subseteq Clusters
  /\ size \in [Inodes -> 0..(U - 1)]
  /\ hint \in [Inodes -> Nat]
  /\ st \in [Inodes -> {"Unborn", "Open", "Closed", "Gone"}]
  /\ deleted \in [Inodes -> BOOLEAN]
  /\ \A i \in Inodes : ftype[i] = "Dir" => size[i] \in {n * C : n \in 1..NClus}

\* Every cluster is in exactly one place: the free set of Fat or the chain
\* of one inode (alloc_clus, dealloc_clus, Drop of a deleted inode and
\* from_ent's chain walk between them may never lose or share a cluster).
ClusterExclusive ==
  /\ \A i \in Inodes : IsInjective(clus[i]) /\ Range(clus[i]) \cap free = {}
  /\ \A i, j \in Inodes : i # j => Range(clus[i]) \cap Range(clus[j]) = {}
  /\ free \cup UNION {Range(clus[i]) : i \in Inodes} = Clusters

\* An open inode's chain is exactly as long as its size needs: the
\* contract of modify_size_lock behind get_block_id and the size checks of
\* read/write_at_block_cache (ceiling division over the integers).
ClusMatchesSize ==
  \A i \in Inodes : st[i] = "Open" => Len(clus[i]) = (size[i] + C - 1) \div C

\* Every linked inode is named by a listed short entry at the offset it
\* records, preceded by its long entries, the farthest one flagged last;
\* every listed short entry names a live inode linked there.  This is what
\* alloc_dir_ent, delete_dir_ent's hint trimming and shrink, and Drop's
\* rewrite of the short entry must preserve between them.
EntriesIntact ==
  /\ \A i \in Linked :
       LET d == parent[i][1]  o == parent[i][2] IN
       /\ o \in Listed(d) /\ Ent(d, o).k = "S" /\ Ent(d, o).ino = i
       /\ \E L \in {gen_name_slice(n) : n \in NameLens} :
            \A n \in 1..L : Ent(d, o - n) = Long(i, n = L)
  /\ \A d \in Live : \A o \in Listed(d) :
       Ent(d, o).k = "S" => Ent(d, o).ino \in Linked
                            /\ parent[Ent(d, o).ino] = <<d, o>>

\* The first ".." entry of a linked directory holds its parent's first
\* cluster (fill_empty_dir writes it, link_par_lock's
\* modify_parent_dir_entry moves it on a rename).
DotDotPointsToParent ==
  \A i \in Linked : ftype[i] = "Dir" =>
    LET dd == {o \in Listed(i) : Ent(i, o).k = "DotDot"} IN
    dd # {} /\ Ent(i, Min(dd)).fc = FirstClus(parent[i][1])

\* A closed file's short entry records the size and first cluster it had
\* when it was dropped, so that from_ent rebuilds the same file: what the
\* Drop of an Inode says it does ("the file information should be written
\* back to the parent directory").
ClosedEntryCurrent ==
  \A i \in Linked : st[i] = "Closed" /\ ftype[i] = "File" =>
    LET e == Ent(parent[i][1], parent[i][2]) IN
    e.k = "S" /\ e.sz = size[i] /\ e.fc = FirstClus(i)

\* Every unit a file has written, below its size, reads back as that
\* file's data: write_at_block_cache_lock, growing the chain through
\* modify_size_lock and alloc_clus, puts each unit in the cluster that
\* get_block_id later finds for it.
ReadBackWritten ==
  \A i \in Inodes : st[i] = "Open" =>
    \A o \in written[i] : o < size[i] => Read(data, clus[i], o) = Data(i)

\* Every byte a read of an open file can reach is either data written to
\* that file or zero: write_at_block_cache_lock never exposes another
\* file's old contents in the clusters it grows the file by.
NoStaleRead ==
  \A i \in Inodes : st[i] = "Open" /\ ftype[i] = "File" =>
    \A o \in 0..(size[i] - 1) : Backed(clus[i], o) =>
      Read(data, clus[i], o) = IF o \in written[i] THEN Data(i) ELSE Zero
\* A directory enumeration returns every entry that stays linked in the
\* directory throughout it exactly once, "." and ".." included, whatever
\* creates, unlinks, renames, hint trimming and shrinking happen between
\* two calls: dirent_info_lock's d_off and set_iter_offset must resume
\* exactly past the last entry returned.
GetdentsExactlyOnce ==
  /\ ~gd.twice
  /\ gd.st = "Done" => gd.want = {}
====
