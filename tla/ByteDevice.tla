----------------------------- MODULE ByteDevice -----------------------------
(***************************************************************************)
(* What lwext4 expects of the block device behind ext4_blockdev_iface: a  *)
(* fixed array of bytes, cut into physical blocks of PB bytes, that it    *)
(* reads and writes a run of whole blocks at a time.                       *)
(*                                                                         *)
(* A read returns EOK with exactly the bytes of the blocks asked for, or   *)
(* EIO with nothing usable.  A write returns EOK having written all of its *)
(* blocks, or EIO having written some leading blocks of the run and none   *)
(* after them: a device may fail part-way, but it never writes a block    *)
(* out of order or a block it was not given.                               *)
(***************************************************************************)
EXTENDS Naturals, Sequences

CONSTANTS
  Vals,   \* byte values
  PB,     \* the physical block size (ph_bsize)
  NBlk    \* the number of physical blocks (ph_bcnt)

Cap == NBlk * PB

VARIABLES
  bytes,  \* the content of the device, bytes[1..Cap]
  rc,     \* the result of the last call: "EOK" or "EIO"
  out,    \* the bytes the last read returned
  call    \* the last call: its kind and arguments

vars == <<bytes, rc, out, call>>

Call(op, b, n, d) == [op |-> op, blk |-> b, cnt |-> n, buf |-> d]

\* s with the bytes from offset `from` (0-based) on replaced by d, as far
\* as s reaches.
Splice(s, from, d) ==
  [i \in 1..Len(s) |-> IF from < i /\ i <= from + Len(d) THEN d[i - from] ELSE s[i]]

Init ==
  /\ bytes \in [1..Cap -> Vals]
  /\ rc = "EOK"
  /\ out = <<>>
  /\ call = Call("none", 0, 0, <<>>)

Open ==
  /\ rc' = "EOK"
  /\ out' = <<>>
  /\ call' = Call("open", 0, 0, <<>>)
  /\ UNCHANGED bytes

Read(b, n) ==
  /\ b + n <= NBlk
  /\ \/ rc' = "EOK" /\ out' = SubSeq(bytes, b * PB + 1, (b + n) * PB)
     \/ rc' = "EIO" /\ out' = <<>>
  /\ call' = Call("read", b, n, <<>>)
  /\ UNCHANGED bytes

Write(b, n, d) ==
  /\ b + n <= NBlk
  /\ Len(d) = n * PB
  /\ \E k \in 0..n :
       /\ bytes' = Splice(bytes, b * PB, SubSeq(d, 1, k * PB))
       /\ rc' = IF k = n THEN "EOK" ELSE "EIO"
  /\ out' = <<>>
  /\ call' = Call("write", b, n, d)

Next ==
  \/ Open
  \/ \E b \in 0..NBlk, n \in 0..NBlk : Read(b, n)
  \/ \E b \in 0..NBlk, n \in 0..NBlk : \E d \in [1..n * PB -> Vals] : Write(b, n, d)

Spec == Init /\ [][Next]_vars
=============================================================================
