------------------------------ MODULE FileRead ------------------------------
(***************************************************************************)
(* What the two file systems read of a file (fs_read in kernel/fs/fat/fat.c,  *)
(* ext_read in kernel/fs/ext2/ext2.c) and what the programs make of it: cat,   *)
(* the editor and exec.  A byte is its place in the file; what the last cluster *)
(* holds behind the end of the file has the places that follow.               *)
(***************************************************************************)
EXTENDS Integers, Sequences, SequencesExt

CONSTANTS
    ClusterLen,   \* bytes of a cluster of FAT32, and of a block of ext2
    ReadLen,      \* CACHE_BLOCK_SIZE of exec
    MaxLen        \* bound of the model: the longest file

ASSUME FileReadAssumption ==
    /\ ClusterLen \in Nat \ {0} /\ MaxLen \in Nat
    /\ ReadLen \in Nat \ {0} /\ ReadLen < ClusterLen /\ ClusterLen % ReadLen = 0

\* Bytes a .. b - 1 of the cluster with index c.
Bytes(c, a, b) == [k \in 1 .. b - a |-> c * ClusterLen + a + k - 1]

\* Bytes a .. b - 1 of the file.
Part(a, b) == Bytes(0, a, b)

Clipped(size, loc, count) == IF loc + count > size THEN size - loc ELSE count
Clusters(size) == (size + ClusterLen - 1) \div ClusterLen

\* A read in one cluster stops before endByte, which is 0 when it ends with the
\* cluster.  A longer one reads every cluster to its end, then the one behind from
\* startByte on: without one it fails, and the file's place stays.
fs_read(size, loc, count) ==
    LET n == Clipped(size, loc, count)
        startCluster == loc \div ClusterLen
        endCluster == (loc + n - 1) \div ClusterLen
        startByte == loc % ClusterLen
        endByte == (loc + n) % ClusterLen
        inner == [k \in 1 .. endCluster - startCluster |-> Bytes(startCluster + k, 0, ClusterLen)]
        whole == Bytes(startCluster, startByte, ClusterLen) \o FlattenSeq(inner)
    IN  IF n = 0 THEN [ok |-> TRUE, loc |-> loc, buf |-> <<>>]
        ELSE IF startCluster = endCluster
        THEN [ok |-> TRUE, loc |-> loc + n, buf |-> Bytes(startCluster, startByte, endByte)]
        ELSE IF endCluster + 1 < Clusters(size)
        THEN [ok |-> TRUE, loc |-> loc + n,
              buf |-> whole \o Bytes(endCluster + 1, startByte, endByte)]
        ELSE [ok |-> FALSE, loc |-> loc, buf |-> whole]

\* Variant of ext_read that forgets the remainder of the last block.
Bad_ext_read(size, loc, count) == Bytes(0, loc, ClusterLen - 1)

\* A block that is not the last one is read without its last byte.
ext_read(size, loc, count) ==
    LET n == Clipped(size, loc, count)
        StartBlock == loc \div ClusterLen
        EndBlock == (loc + n - 1) \div ClusterLen
        block(i) == Bytes(i, IF i = StartBlock THEN loc % ClusterLen ELSE 0,
                          IF i = EndBlock THEN (loc + n) % ClusterLen ELSE ClusterLen - 1)
    IN  IF n = 0 THEN <<>>
        ELSE FlattenSeq([k \in 1 .. EndBlock - StartBlock + 1 |-> block(StartBlock + k - 1)])

\* A file read from its beginning in pieces of count bytes, as the editor (1) and exec
\* (ReadLen) do: a piece that is not read leaves what the buffer held before.
Loaded(size, count) ==
    LET pieces == (size + count - 1) \div count
        length(k) == IF k = pieces THEN size - (k - 1) * count ELSE count
        piece(k) == fs_read(size, (k - 1) * count, count).buf
    IN  FlattenSeq([k \in 1 .. pieces |->
            IF piece(k) # <<>> \/ k = 1 THEN piece(k) ELSE SubSeq(piece(k - 1), 1, length(k))])

-----------------------------------------------------------------------------
(* When a read is right; Files states it for the file system of the moment *)

\* The first n bytes behind loc are what was asked for.
ReadsAs(buf, loc, n) == IsPrefix(Part(loc, loc + n), buf)

\* The requests: the size of the file, a place in it, the number of bytes.
Requests == {r \in (1 .. MaxLen) \X (0 .. MaxLen) \X (1 .. MaxLen + 1) : r[2] < r[1]}

InOneCluster(loc, n) == loc \div ClusterLen = (loc + n - 1) \div ClusterLen
EndsWithCluster(loc, n) == (loc + n) % ClusterLen = 0

FatReadsRight ==
    /\ \A r \in Requests :
          LET n == Clipped(r[1], r[2], r[3])
          IN  ReadsAs(fs_read(r[1], r[2], r[3]).buf, r[2], n)
                  <=> ~(InOneCluster(r[2], n) /\ EndsWithCluster(r[2], n))
    /\ \A size \in 1 .. MaxLen, count \in {1, ReadLen} :
          (Loaded(size, count) = Part(0, size)) <=> (size < ClusterLen)

ExtReadsRight ==
    \A r \in Requests :
        LET n == Clipped(r[1], r[2], r[3])
        IN  ReadsAs(ext_read(r[1], r[2], r[3]), r[2], n)
                <=> InOneCluster(r[2], n) /\ ~EndsWithCluster(r[2], n)
=============================================================================
