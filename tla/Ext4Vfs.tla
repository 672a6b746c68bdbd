------------------------------- MODULE Ext4Vfs -------------------------------
(***************************************************************************)
(* The ext4 node operations of lwext4_rust: FileWrapper (examples/src/     *)
(* ext4fs.rs), the VfsNodeOps of one path, over Ext4File (src/file.rs),    *)
(* the Rust wrapper of one lwext4 file descriptor.  Every method opens the *)
(* descriptor, does its one call and closes it again, so a method is one   *)
(* action and the descriptor is a record local to it.                      *)
(*                                                                         *)
(* lwext4 itself (ext4_fopen, ext4_dir_mk, ...) is C code that is not in   *)
(* this repository: its namespace is the environment, a function from     *)
(* absolute paths to "None", "File" or "Dir" and the bytes of each file,   *)
(* with the behaviour of its path walk ext4_generic_open2: with O_CREAT    *)
(* the directories missing on the way are created, a regular file on the   *)
(* way or of the wrong type at the end is an error.                        *)
(*                                                                         *)
(* A path is a sequence of names; <<>> is "/".  path_deal_with returns     *)
(* String::new() only for an empty relative path, and then <<>> stands for *)
(* it: a joined path is never "/".                                         *)
(***************************************************************************)
EXTENDS Integers, Sequences, FiniteSets

CONSTANTS
    Names,      \* directory entry names
    MaxDepth,   \* the longest path, in names
    Vals,       \* the bytes a caller writes
    MaxLen,     \* the longest buffer given to read_at and write_at
    Offs,       \* the offsets given to read_at and write_at, the sizes to truncate
    MaxFile     \* bound: write_at is not called past this file length

VARIABLES
    node,       \* lwext4's namespace: path -> "None" | "File" | "Dir"
    content,    \* path -> the bytes of the regular file there
    panicked,   \* a panic (expect, assert) stopped the kernel
    wr,         \* the last write_at not past the end, until another call changes the files
    readback    \* a read_at of the range write_at just wrote saw other bytes

vars == <<node, content, panicked, wr, readback>>

Paths == UNION {[1..k -> Names] : k \in 0..MaxDepth}
Root == <<>>
Kinds == {"File", "Dir"}
Data == UNION {[1..k -> Vals] : k \in 1..MaxLen}
NoWrite == [path |-> Root, off |-> 0, data |-> <<>>]

MinOf(a, b) == IF a < b THEN a ELSE b
MaxOf(a, b) == IF a > b THEN a ELSE b

\* the directories ext4_generic_open2 walks through to reach P
Above(P) == {SubSeq(P, 1, k) : k \in 0..(Len(P) - 1)}
\* P and everything below it
Below(P) == {q \in Paths : Len(q) >= Len(P) /\ SubSeq(q, 1, Len(P)) = P}
\* no regular file stands on the way to P
WayOK(P) == \A q \in Above(P) : node[q] # "File"

(***************************************************************************)
(* lwext4, the environment (not in this repository)                        *)
(***************************************************************************)

\* ext4_inode_exist(path, type): the path walk finds P with that type
ext4_inode_exist(P, t) == WayOK(P) /\ node[P] = t

\* the namespace after O_CREAT made P of kind t and the directories above it
CreateOn(P, t) ==
    [q \in Paths |-> IF q = P THEN t
                     ELSE IF q \in Above(P) /\ node[q] = "None" THEN "Dir"
                     ELSE node[q]]

\* ext4_fopen(f, path, mode): the result code, the namespace and contents
\* after it, and the descriptor.  "w"/"a" modes create, "w" truncates.
ext4_fopen(P, mode) ==
    LET creat == mode \in {"wb", "ab", "w+", "a+"}
        trunc == mode \in {"wb", "w+"}
        fd    == [path |-> P, mode |-> mode,
                  pos |-> IF mode \in {"ab", "a+"} THEN Len(content[P]) ELSE 0]
    IN  IF ~WayOK(P) \/ node[P] = "Dir" \/ (node[P] = "None" /\ ~creat)
        THEN [r |-> "ERR", node |-> node, content |-> content, fd |-> fd]
        ELSE [r |-> "EOK",
              node |-> IF node[P] = "None" THEN CreateOn(P, "File") ELSE node,
              content |-> IF trunc THEN [content EXCEPT ![P] = <<>>] ELSE content,
              fd |-> IF trunc THEN [fd EXCEPT !.pos = 0] ELSE fd]

\* ext4_fseek(f, off, SEEK_SET): EINVAL past the end of the file
ext4_fseek(fd, size, off) ==
    IF off > size THEN [r |-> "EINVAL", fd |-> fd]
    ELSE [r |-> "EOK", fd |-> [fd EXCEPT !.pos = off]]

\* ext4_fread: the bytes from the position up to the end or the buffer's length
ext4_fread(c, fd, len) == SubSeq(c, fd.pos + 1, MinOf(fd.pos + len, Len(c)))

\* ext4_fwrite: overwrite from the position, extending the file
ext4_fwrite(c, fd, d) ==
    [i \in 1..MaxOf(Len(c), fd.pos + Len(d)) |->
        IF i > fd.pos /\ i <= fd.pos + Len(d) THEN d[i - fd.pos] ELSE c[i]]

\* ext4_ftruncate: shrinks; a size at or past the end leaves the file as it is
ext4_ftruncate(c, size) == IF size >= Len(c) THEN c ELSE SubSeq(c, 1, size)

\* ext4_dir_mk: the path walk with O_CREAT and the directory type
ext4_dir_mk(P) ==
    IF ~WayOK(P) \/ node[P] = "File" THEN [r |-> "ERR", node |-> node]
    ELSE [r |-> "EOK", node |-> CreateOn(P, "Dir")]

\* ext4_dir_rm: the directory and everything below it
ext4_dir_rm(P) ==
    [node    |-> [q \in Paths |-> IF q \in Below(P) THEN "None" ELSE node[q]],
     content |-> [q \in Paths |-> IF q \in Below(P) THEN <<>> ELSE content[q]]]

\* ext4_fremove: a regular file, ENOENT when there is none
ext4_fremove(P) ==
    IF ext4_inode_exist(P, "File")
    THEN [r |-> "EOK", node |-> [node EXCEPT ![P] = "None"],
          content |-> [content EXCEPT ![P] = <<>>]]
    ELSE [r |-> "ENOENT", node |-> node, content |-> content]

\* ext4_frename: moves the node at S, and what is below it, to D; D must not
\* exist and its parent must be a directory
ext4_frename(S, D) ==
    LET From(q) == S \o SubSeq(q, Len(D) + 1, Len(q))
        Moved(q) == q \in Below(D) /\ From(q) \in Paths
    IN  IF /\ WayOK(S) /\ node[S] # "None"
           /\ WayOK(D) /\ node[D] = "None"
           /\ node[SubSeq(D, 1, Len(D) - 1)] = "Dir"
           /\ D \notin Below(S)
        THEN [r |-> "EOK",
              node |-> [q \in Paths |-> IF Moved(q) THEN node[From(q)]
                                        ELSE IF q \in Below(S) THEN "None"
                                        ELSE node[q]],
              content |-> [q \in Paths |-> IF Moved(q) THEN content[From(q)]
                                           ELSE IF q \in Below(S) THEN <<>>
                                           ELSE content[q]]]
        ELSE [r |-> "ERR", node |-> node, content |-> content]

(***************************************************************************)
(* Ext4File (src/file.rs)                                                  *)
(***************************************************************************)

O_RDONLY == 0
O_WRONLY == 1
O_RDWR   == 2
O_CREAT  == 64
O_TRUNC  == 512
O_APPEND == 1024

flags_to_cstring(flags) ==
    CASE flags = O_RDONLY                      -> "rb"
      [] flags = O_RDWR                        -> "r+"
      [] flags = O_WRONLY + O_CREAT + O_TRUNC  -> "wb"
      [] flags = O_WRONLY + O_CREAT + O_APPEND -> "ab"
      [] flags = O_RDWR + O_CREAT + O_TRUNC    -> "w+"
      [] flags = O_RDWR + O_CREAT + O_APPEND   -> "a+"
      [] OTHER                                 -> "r+"

file_open(P, flags) == ext4_fopen(P, flags_to_cstring(flags))

check_inode_exist(P, t) == ext4_inode_exist(P, t)

file_size(c) == Len(c)

\* a seek past the end is clamped to the end before ext4_fseek sees it
file_seek(fd, c, offset) ==
    LET size == file_size(c)
    IN  ext4_fseek(fd, size, IF offset > size THEN size ELSE offset)

file_read(c, fd, len) == ext4_fread(c, fd, len)

file_write(c, fd, d) == ext4_fwrite(c, fd, d)

file_truncate(c, size) == ext4_ftruncate(c, size)

dir_mk(P) == ext4_dir_mk(P)

\* ENOENT from ext4_dir_rm and ext4_fremove counts as success
dir_rm(P) == ext4_dir_rm(P)

file_remove(P) == ext4_fremove(P)

file_rename(S, D) == ext4_frename(S, D)

(***************************************************************************)
(* FileWrapper (examples/src/ext4fs.rs)                                    *)
(***************************************************************************)

\* the relative paths a node at w is given, joined paths within the bound
RelOf(w) == {p \in Paths : Len(w) + Len(p) <= MaxDepth}

\* path_deal_with: an empty (or ".") relative path gives String::new(),
\* any other is joined to the node's own path.  Trimming of '/', "./" and
\* "//" is normalisation of the text; the names stand for its result.
path_deal_with(w, p) == IF p = <<>> THEN <<>> ELSE w \o p

Init ==
    /\ node = [q \in Paths |-> IF q = Root THEN "Dir" ELSE "None"]
    /\ content = [q \in Paths |-> <<>>]
    /\ panicked = FALSE
    /\ wr = NoWrite
    /\ readback = FALSE

\* mutant of create: the existence check is given the caller's path, not
\* the joined one
create_check_path(w, p, t) ==
    LET fpath == path_deal_with(w, p)
        o     == file_open(fpath, O_WRONLY + O_CREAT + O_TRUNC)
    IN  /\ ~panicked
        /\ \/ /\ fpath = <<>> \/ check_inode_exist(p, t)
              /\ UNCHANGED <<node, content, panicked>>
           \/ /\ fpath # <<>> /\ ~check_inode_exist(p, t)
              /\ t = "Dir"
              /\ node' = dir_mk(fpath).node
              /\ UNCHANGED <<content, panicked>>
           \/ /\ fpath # <<>> /\ ~check_inode_exist(p, t)
              /\ t = "File" /\ o.r = "EOK"
              /\ node' = o.node
              /\ content' = o.content
              /\ UNCHANGED panicked
           \/ /\ fpath # <<>> /\ ~check_inode_exist(p, t)
              /\ t = "File" /\ o.r # "EOK"
              /\ panicked' = TRUE
              /\ UNCHANGED <<node, content>>
        /\ wr' = NoWrite /\ UNCHANGED readback

\* create: Ok when the path is empty or the node exists with that type;
\* a directory is made by dir_mk, a file by opening it "wb", and a failed
\* open is the expect("create file failed") panic
create(w, p, t) ==
    LET fpath == path_deal_with(w, p)
        o     == file_open(fpath, O_WRONLY + O_CREAT + O_TRUNC)
    IN  /\ ~panicked
        /\ \/ /\ fpath = <<>> \/ check_inode_exist(fpath, t)
              /\ UNCHANGED <<node, content, panicked>>
           \/ /\ fpath # <<>> /\ ~check_inode_exist(fpath, t)
              /\ t = "Dir"
              /\ node' = dir_mk(fpath).node
              /\ UNCHANGED <<content, panicked>>
           \/ /\ fpath # <<>> /\ ~check_inode_exist(fpath, t)
              /\ t = "File" /\ o.r = "EOK"
              /\ node' = o.node
              /\ content' = o.content
              /\ UNCHANGED panicked
           \/ /\ fpath # <<>> /\ ~check_inode_exist(fpath, t)
              /\ t = "File" /\ o.r # "EOK"
              /\ panicked' = TRUE
              /\ UNCHANGED <<node, content>>
        /\ wr' = NoWrite /\ UNCHANGED readback

\* remove: asserts a non-empty path, then a directory goes by the recursive
\* dir_rm and anything else by file_remove
remove(w, p) ==
    LET fpath == path_deal_with(w, p)
    IN  /\ ~panicked
        /\ \/ /\ fpath = <<>>
              /\ panicked' = TRUE
              /\ UNCHANGED <<node, content>>
           \/ /\ fpath # <<>> /\ check_inode_exist(fpath, "Dir")
              /\ node' = dir_rm(fpath).node
              /\ content' = dir_rm(fpath).content
              /\ UNCHANGED panicked
           \/ /\ fpath # <<>> /\ ~check_inode_exist(fpath, "Dir")
              /\ node' = file_remove(fpath).node
              /\ content' = file_remove(fpath).content
              /\ UNCHANGED panicked
        /\ wr' = NoWrite /\ UNCHANGED readback

\* mutant of read_at: the descriptor is opened with truncate's flags
read_at_trunc_flags(w, off, len) ==
    LET o == file_open(w, O_RDWR + O_CREAT + O_TRUNC)
        s == file_seek(o.fd, o.content[w], off)
    IN  /\ ~panicked
        /\ \/ /\ o.r # "EOK"
              /\ UNCHANGED <<node, content, readback>>
           \/ /\ o.r = "EOK"
              /\ node' = o.node /\ content' = o.content
              /\ readback' = \/ readback
                              \/ /\ s.r = "EOK"
                                 /\ wr = [path |-> w, off |-> off, data |-> wr.data]
                                 /\ len = Len(wr.data)
                                 /\ file_read(o.content[w], s.fd, len) # wr.data
        /\ UNCHANGED <<panicked, wr>>

\* read_at: open "rb", seek (clamped), read, close; an Err of the open or
\* of the seek returns before the close
read_at(w, off, len) ==
    LET o == file_open(w, O_RDONLY)
        s == file_seek(o.fd, content[w], off)
    IN  /\ ~panicked
        /\ \/ /\ o.r # "EOK"
              /\ UNCHANGED readback
           \/ /\ o.r = "EOK"
              /\ readback' = \/ readback
                              \/ /\ s.r = "EOK"
                                 /\ wr = [path |-> w, off |-> off, data |-> wr.data]
                                 /\ len = Len(wr.data)
                                 /\ file_read(content[w], s.fd, len) # wr.data
        /\ UNCHANGED <<node, content, panicked, wr>>

\* write_at: open "r+", seek (clamped), write, close
write_at(w, off, d) ==
    LET o == file_open(w, O_RDWR)
        s == file_seek(o.fd, content[w], off)
    IN  /\ ~panicked
        /\ \/ /\ o.r # "EOK"
              /\ UNCHANGED content
              /\ wr' = NoWrite /\ UNCHANGED readback
           \/ /\ o.r = "EOK"
              /\ s.fd.pos + Len(d) <= MaxFile
              /\ content' = IF s.r = "EOK"
                            THEN [content EXCEPT ![w] = file_write(@, s.fd, d)]
                            ELSE content
              /\ wr' = IF off <= Len(content[w])
                       THEN [path |-> w, off |-> off, data |-> d] ELSE NoWrite
        /\ UNCHANGED readback
        /\ UNCHANGED <<node, panicked>>

\* truncate: open with O_RDWR | O_CREAT | O_TRUNC ("w+"), ftruncate, close
truncate(w, size) ==
    LET o == file_open(w, O_RDWR + O_CREAT + O_TRUNC)
    IN  /\ ~panicked
        /\ \/ /\ o.r # "EOK"
              /\ UNCHANGED <<node, content>>
           \/ /\ o.r = "EOK"
              /\ node' = o.node
              /\ content' = [o.content EXCEPT ![w] = file_truncate(@, size)]
        /\ wr' = NoWrite /\ UNCHANGED readback
        /\ UNCHANGED panicked

\* bound: a moved subtree still fits in MaxDepth
Fits(S, D) == \A q \in Below(S) : node[q] # "None" => Len(D) + Len(q) - Len(S) <= MaxDepth

\* rename: the two paths go to file_rename as given
rename(src, dst) ==
    /\ ~panicked
    /\ Fits(src, dst)
    /\ node' = file_rename(src, dst).node
    /\ content' = file_rename(src, dst).content
    /\ wr' = NoWrite /\ UNCHANGED readback
    /\ UNCHANGED panicked

Next ==
    \/ \E w \in Paths, t \in Kinds : \E p \in RelOf(w) : create(w, p, t)
    \/ \E w \in Paths : \E p \in RelOf(w) : remove(w, p)
    \/ \E w \in Paths, off \in Offs, len \in 1..MaxLen : read_at(w, off, len)
    \/ \E w \in Paths, off \in Offs, d \in Data : write_at(w, off, d)
    \/ \E w \in Paths, size \in Offs : truncate(w, size)
    \/ \E src, dst \in Paths \ {Root} : rename(src, dst)

Spec == Init /\ [][Next]_vars

(***************************************************************************)
(* Properties                                                              *)
(***************************************************************************)

TypeOK ==
    /\ node \in [Paths -> {"None", "File", "Dir"}]
    /\ node[Root] = "Dir"
    /\ content \in [Paths -> Seq(Vals)]
    /\ panicked \in BOOLEAN

\* create never changes the bytes of a file that exists, whatever node it is
\* called on and whatever it is asked to make (vfs_ops.rs: create returns
\* Ok if the node already exists): the existence check must look at the
\* joined path that the "wb" open would truncate.
CreateKeepsData ==
    [][(\E w \in Paths, t \in Kinds : \E p \in RelOf(w) : create(w, p, t))
         => \A q \in Paths : node[q] = "File" => content'[q] = content[q]]_vars

\* The example's own check (main.rs: write_at(0, buf), read_at(0, buf),
\* assert_eq!), for any offset not past the end: reading back the range
\* that write_at just wrote, with no other call between, gives its bytes.
ReadAfterWrite == ~readback

====
