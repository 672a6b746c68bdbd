------------------------------ MODULE Ext4Disk ------------------------------
(***************************************************************************)
(* The block device under lwext4: the callbacks of Ext4BlockWrapper       *)
(* (lwext4_rust/src/blockdev.rs: dev_open, dev_bread, dev_bwrite) over the *)
(* Disk of examples/src/disk.rs, a virtio disk with a byte cursor          *)
(* (block_id, offset) that KernelDevOp::seek sets and read/write advance   *)
(* one sector, or part of one, at a time (read_one, write_one).            *)
(*                                                                         *)
(* lwext4 and virtio-drivers are not in this repository.  lwext4 is the    *)
(* caller: it opens the device once and then reads and writes runs of      *)
(* whole physical blocks inside the partition dev_open reported.  A        *)
(* VirtIOBlk sector access fails for a sector past the capacity, and may   *)
(* fail (queue, DMA or device error) while faults remain to be spent.      *)
(*                                                                         *)
(* lwext4 makes one callback at a time (the iface sets no lock or unlock  *)
(* callback), so each callback is one step.  A Disk operation is an       *)
(* operator over a record of the disk state that returns the set of its   *)
(* outcomes.                                                               *)
(***************************************************************************)
EXTENDS Naturals, Sequences, SequencesExt, FiniteSets

CONSTANTS
  BLOCK_SIZE,      \* disk.rs BLOCK_SIZE (= SECTOR_SIZE), scaled down
  EXT4_DEV_BSIZE,  \* blockdev.rs ph_bsize, scaled down
  Capacity,        \* VirtIOBlk::capacity(), in sectors
  Vals,            \* byte values
  Cnts,            \* blk_cnt values lwext4 passes to bread and bwrite
  MaxFaults,       \* bound on the failed sector accesses
  Lens             \* buffer lengths of the KernelDevOp contract check

VARIABLES
  sectors,    \* the virtio disk: sectors[s] is a sequence of BLOCK_SIZE bytes
  block_id,   \* Disk.block_id
  offset,     \* Disk.offset
  faults,     \* failed sector accesses so far
  opened,     \* lwext4 has called dev_open
  part_size,  \* ext4_blockdev.part_size
  ph_bcnt,    \* ext4_blockdev_iface.ph_bcnt
  rc,         \* the result of the last callback
  out,        \* the bytes the last dev_bread handed back
  call        \* the last callback lwext4 made and its arguments

vars == <<sectors, block_id, offset, faults, opened, part_size, ph_bcnt, rc, out, call>>

Call(op, b, n, d) == [op |-> op, blk |-> b, cnt |-> n, buf |-> d]

MinOf(a, b) == IF a <= b THEN a ELSE b

\* The disk state the Disk methods work on.
D == [sectors |-> sectors, block_id |-> block_id, offset |-> offset, faults |-> faults]

SetDisk(d) ==
  /\ sectors' = d.sectors /\ block_id' = d.block_id
  /\ offset' = d.offset /\ faults' = d.faults

\* The device as one sequence of bytes.
Flat(s) == FlattenSeq([i \in 1..Capacity |-> s[i - 1]])

Splice(s, from, d) ==
  [i \in 1..Len(s) |-> IF from < i /\ i <= from + Len(d) THEN d[i - from] ELSE s[i]]

size == Capacity * BLOCK_SIZE

position(d) == d.block_id * BLOCK_SIZE + d.offset

set_position(d, pos) ==
  [d EXCEPT !.block_id = pos \div BLOCK_SIZE, !.offset = pos % BLOCK_SIZE]

\* VirtIOBlk::read_blocks / write_blocks of sector d.block_id: it succeeds
\* for a sector of the disk, unless it is one of the faults.
virtio_ok(d) == d.block_id < Capacity

virtio_err(d, lim) ==
  IF d.block_id >= Capacity THEN {[d |-> d, n |-> -1, data |-> <<>>]}
  ELSE IF d.faults < lim
       THEN {[d |-> [d EXCEPT !.faults = @ + 1], n |-> -1, data |-> <<>>]}
       ELSE {}

\* Moving on only once the offset is past the sector's end.
Advance_past_end(d, count) ==
  IF d.offset + count > BLOCK_SIZE
  THEN [d EXCEPT !.block_id = @ + 1, !.offset = @ + count - BLOCK_SIZE]
  ELSE [d EXCEPT !.offset = @ + count]

\* self.offset += count, moving to the next sector at its end.
Advance(d, count) ==
  IF d.offset + count >= BLOCK_SIZE
  THEN [d EXCEPT !.block_id = @ + 1, !.offset = @ + count - BLOCK_SIZE]
  ELSE [d EXCEPT !.offset = @ + count]

\* Read within one sector: a whole sector when the cursor is at its start
\* and the buffer holds one, else the part of it from the cursor on.
read_one(d, len, lim) ==
  LET whole == d.offset = 0 /\ len >= BLOCK_SIZE
      count == IF whole THEN BLOCK_SIZE ELSE MinOf(len, BLOCK_SIZE - d.offset)
      nd    == IF whole THEN [d EXCEPT !.block_id = @ + 1] ELSE Advance(d, count)
  IN virtio_err(d, lim) \cup
     IF virtio_ok(d)
     THEN {[d |-> nd, n |-> count,
            data |-> SubSeq(d.sectors[d.block_id], d.offset + 1, d.offset + count)]}
     ELSE {}

\* write_one without the block_id += 1 of the whole-sector path.
write_one_stay(d, buf, lim) ==
  LET whole == d.offset = 0 /\ Len(buf) >= BLOCK_SIZE
      count == IF whole THEN BLOCK_SIZE ELSE MinOf(Len(buf), BLOCK_SIZE - d.offset)
      new   == IF whole THEN SubSeq(buf, 1, BLOCK_SIZE)
               ELSE Splice(d.sectors[d.block_id], d.offset, SubSeq(buf, 1, count))
      nd    == IF whole THEN d ELSE Advance(d, count)
  IN virtio_err(d, lim) \cup
     IF virtio_ok(d)
     THEN {[d |-> [nd EXCEPT !.sectors[d.block_id] = new], n |-> count, data |-> <<>>]}
     ELSE {}

\* Write within one sector; a part of a sector is read, patched and written
\* back (a failure of either access leaves the sector as it was).
write_one(d, buf, lim) ==
  LET whole == d.offset = 0 /\ Len(buf) >= BLOCK_SIZE
      count == IF whole THEN BLOCK_SIZE ELSE MinOf(Len(buf), BLOCK_SIZE - d.offset)
      new   == IF whole THEN SubSeq(buf, 1, BLOCK_SIZE)
               ELSE Splice(d.sectors[d.block_id], d.offset, SubSeq(buf, 1, count))
      nd    == IF whole THEN [d EXCEPT !.block_id = @ + 1] ELSE Advance(d, count)
  IN virtio_err(d, lim) \cup
     IF virtio_ok(d)
     THEN {[d |-> [nd EXCEPT !.sectors[d.block_id] = new], n |-> count, data |-> <<>>]}
     ELSE {}

\* KernelDevOp::read: read_one until the buffer is full, stopping at a
\* read of 0 bytes; any error is Err(-1).
RECURSIVE read_loop(_, _, _, _)
read_loop(d, len, acc, lim) ==
  IF len = 0 THEN {[d |-> d, n |-> Len(acc), data |-> acc]}
  ELSE UNION {IF o.n < 0 THEN {[d |-> o.d, n |-> -1, data |-> acc]}
              ELSE IF o.n = 0 THEN {[d |-> o.d, n |-> Len(acc), data |-> acc]}
              ELSE read_loop(o.d, len - o.n, acc \o o.data, lim)
              : o \in read_one(d, len, lim)}

\* KernelDevOp::write: write_one over the rest of the buffer.
RECURSIVE write_loop(_, _, _, _)
write_loop(d, buf, done, lim) ==
  IF buf = <<>> THEN {[d |-> d, n |-> done]}
  ELSE UNION {IF o.n < 0 THEN {[d |-> o.d, n |-> -1]}
              ELSE IF o.n = 0 THEN {[d |-> o.d, n |-> done]}
              ELSE write_loop(o.d, SubSeq(buf, o.n + 1, Len(buf)), done + o.n, lim)
              : o \in write_one(d, buf, lim)}

\* KernelDevOp::seek with SEEK_SET or SEEK_END (the only ones the callbacks
\* use); a position past the end is only warned about.
seek(d, off, whence) ==
  LET new_pos == IF whence = "SEEK_SET" THEN off ELSE size + off
  IN [d |-> set_position(d, new_pos), r |-> new_pos]

-----------------------------------------------------------------------------
\* Disk::new and Ext4BlockWrapper::new: the cursor at 0, the device not
\* yet opened, ph_bcnt 0; the disk holds whatever it holds.
Init ==
  /\ sectors \in [0..Capacity - 1 -> [1..BLOCK_SIZE -> Vals]]
  /\ block_id = 0 /\ offset = 0 /\ faults = 0
  /\ opened = FALSE /\ part_size = 0 /\ ph_bcnt = 0
  /\ rc = "EOK" /\ out = <<>> /\ call = Call("none", 0, 0, <<>>)

\* dev_open: seek to the end to learn the size, the partition is all of it.
dev_open ==
  /\ ~opened
  /\ LET s == seek(D, 0, "SEEK_END") IN
       /\ SetDisk(s.d)
       /\ part_size' = s.r
       /\ ph_bcnt' = s.r \div EXT4_DEV_BSIZE
  /\ opened' = TRUE
  /\ rc' = "EOK" /\ out' = <<>> /\ call' = Call("open", 0, 0, <<>>)

\* dev_bread: seek to the block, return EOK for a count of 0, else read
\* ph_bsize * blk_cnt bytes; the byte count read is not looked at.
dev_bread(blk, cnt) ==
  /\ opened /\ blk + cnt <= ph_bcnt
  /\ LET s == seek(D, blk * EXT4_DEV_BSIZE, "SEEK_SET") IN
       IF cnt = 0
       THEN SetDisk(s.d) /\ rc' = "EOK" /\ out' = <<>>
       ELSE \E o \in read_loop(s.d, EXT4_DEV_BSIZE * cnt, <<>>, MaxFaults) :
              /\ SetDisk(o.d)
              /\ rc' = IF o.n < 0 THEN "EIO" ELSE "EOK"
              /\ out' = IF o.n < 0 THEN <<>> ELSE o.data
  /\ call' = Call("read", blk, cnt, <<>>)
  /\ UNCHANGED <<opened, part_size, ph_bcnt>>

\* dev_bwrite: seek to the block and write ph_bsize * blk_cnt bytes.
dev_bwrite(blk, cnt, buf) ==
  /\ opened /\ blk + cnt <= ph_bcnt
  /\ LET s == seek(D, blk * EXT4_DEV_BSIZE, "SEEK_SET") IN
       IF cnt = 0
       THEN SetDisk(s.d) /\ rc' = "EOK"
       ELSE \E o \in write_loop(s.d, buf, 0, MaxFaults) :
              /\ SetDisk(o.d)
              /\ rc' = IF o.n < 0 THEN "EIO" ELSE "EOK"
  /\ out' = <<>> /\ call' = Call("write", blk, cnt, buf)
  /\ UNCHANGED <<opened, part_size, ph_bcnt>>

Next ==
  \/ dev_open
  \/ \E blk \in 0..Capacity, cnt \in Cnts : dev_bread(blk, cnt)
  \/ \E blk \in 0..Capacity, cnt \in Cnts :
       \E buf \in [1..EXT4_DEV_BSIZE * cnt -> Vals] : dev_bwrite(blk, cnt, buf)

Spec == Init /\ [][Next]_vars

-----------------------------------------------------------------------------
\* The device lwext4 sees: its bytes are the sectors laid end to end.
Dev == INSTANCE ByteDevice
         WITH PB <- EXT4_DEV_BSIZE, NBlk <- size \div EXT4_DEV_BSIZE,
              bytes <- Flat(sectors)

\* The callbacks over the Disk implement the device lwext4 expects: a read
\* returns exactly the blocks asked for, and a write, even one that fails
\* part-way, changes only a leading run of the blocks it was given, each to
\* the bytes it was given (dev_bread/dev_bwrite, seek, the read_one and
\* write_one loops and the cursor arithmetic between them).
DiskSpec == Dev!Spec

Bufs == UNION {[1..l -> Vals] : l \in Lens}

\* The KernelDevOp contract of the Disk at every byte position, a sector
\* boundary or not, up to a sector past the end: read returns the bytes at
\* the cursor and write puts the buffer there, both moving the cursor past
\* them, or Err(-1) when the buffer runs past the end, after writing what
\* fits (the whole and partial paths of read_one and write_one, the
\* offset wrap-around and the loops of KernelDevOp::read and write).
KernelDevOpExact ==
  \A pos \in 0..size + BLOCK_SIZE - 1, buf \in Bufs :
    LET d0  == set_position(D, pos)
        R   == read_loop(d0, Len(buf), <<>>, 0)
        W   == write_loop(d0, buf, 0, 0)
        inb == pos + Len(buf) <= size
        fit == SubSeq(buf, 1, MinOf(Len(buf), size - pos))
    IN /\ R # {} /\ W # {}
       /\ \A o \in R :
            /\ o.n = IF inb THEN Len(buf) ELSE -1
            /\ inb => /\ o.data = SubSeq(Flat(sectors), pos + 1, pos + Len(buf))
                      /\ position(o.d) = pos + Len(buf)
       /\ \A o \in W :
            /\ o.n = IF inb THEN Len(buf) ELSE -1
            /\ Flat(o.d.sectors) = IF pos < size THEN Splice(Flat(sectors), pos, fit)
                                   ELSE Flat(sectors)
            /\ inb => position(o.d) = pos + Len(buf)
=============================================================================
