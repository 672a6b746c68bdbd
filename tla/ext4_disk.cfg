\* The ext4 block device: sectors of two bytes (BLOCK_SIZE and ph_bsize
\* scaled alike), three sectors, runs of up to two blocks, two failed
\* sector accesses; the Disk contract checked at every byte position with
\* buffers of one to three bytes, so that partial sectors on both sides
\* and a buffer running past the end all occur.
CONSTANTS
  v0 = v0
  v1 = v1
  BLOCK_SIZE = 2
  EXT4_DEV_BSIZE = 2
  Capacity = 3
  Vals = {v0, v1}
  Cnts = {0, 1, 2}
  MaxFaults = 2
  Lens = {1, 2, 3}
INIT Init
NEXT Next
INVARIANT KernelDevOpExact
PROPERTY DiskSpec
SYMMETRY MCSymmetry
