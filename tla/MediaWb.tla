------------------------------ MODULE MediaWb ------------------------------
(***************************************************************************)
(* The West Bridge media driver (beagle_drivers/medwb/medwb.cpp): reads    *)
(* through the buffer that keeps the last one's blocks, writes and formats *)
(* through another, and the decoding of the partition table, which uses the*)
(* read buffer too.  Requests are served one at a time, to their end.      *)
(***************************************************************************)
EXTENDS Integers, Sequences

CONSTANTS
    iBlockSize,     \* bytes of a block
    Blocks,         \* blocks of the medium
    WbPositions,    \* positions of requests
    WbLengths,      \* lengths of requests
    WbKinds,        \* which requests are made
    Tables          \* partition tables: a sequence of entries, or <<>>, no MBR

VARIABLES
    medium,         \* [bytes of the medium -> value]
    wb,             \* the driver: read_pos, read_size, ptrReadBuf
    answer,         \* the last request: where, and the bytes read or to be written
    written,        \* a write or format was made: one at most
    partitions      \* TPartitionInfo: a sequence of base and length, in blocks

wbVars == <<medium, wb, answer, written, partitions>>

MediaSize == Blocks * iBlockSize
WbBytes == 0..(MediaSize - 1)
WbBuffer == 0..(MediaSize + iBlockSize - 1)
Unused == <<"unused", 0>>
Nowhere == Blocks           \* read_pos is 0x7FFFFFFF

WbInit ==
    /\ medium = [i \in WbBytes |-> <<"old", i>>]
    /\ wb = [read_pos |-> Nowhere, read_size |-> 0,
             ptrReadBuf |-> [i \in WbBuffer |-> Unused]]
    /\ answer = [kind |-> "none", pos |-> 0, bytes |-> <<>>]
    /\ written = FALSE
    /\ partitions = <<>>

\* CyAsSymbianStorageDriver::Read(): blocks to an offset of a buffer.
BlocksRead(buffer, at, from, count) ==
    [i \in WbBuffer |-> IF i \in at..(at + count * iBlockSize - 1)
                        THEN medium[from * iBlockSize + i - at] ELSE buffer[i]]

-----------------------------------------------------------------------------
\* Mutant: the buffer serves a read that it has the start of.
Cached_Part(len) == wb.read_size > 0
Cached(len) == wb.read_size >= len

Answer(buffer, pos, len) ==
    answer' = [kind |-> "read", pos |-> pos,
               bytes |-> [i \in 1..len |-> buffer[(pos % iBlockSize) + i - 1]]]

\* The second Read() is of one block behind the others.
DoRead(pos, len) ==
    LET block == pos \div iBlockSize
        hit == block = wb.read_pos
        kept == IF hit THEN wb.read_size ELSE 0
        more == len - kept
        size == more \div iBlockSize
        last == pos % iBlockSize # 0 \/ more % iBlockSize # 0
        from == block + kept \div iBlockSize
        whole == BlocksRead(wb.ptrReadBuf, kept, from, size)
        at == kept + size * iBlockSize
        buffer == IF last THEN BlocksRead(whole, at, from + size, 1) ELSE whole
    IN  IF hit /\ Cached(len)
        THEN Answer(wb.ptrReadBuf, pos, len) /\ UNCHANGED wb
        ELSE /\ Answer(buffer, pos, len)
             /\ wb' = [read_pos |-> block, ptrReadBuf |-> buffer,
                       read_size |-> at + IF last THEN iBlockSize ELSE 0]

\* DoWrite(), DoFormat(): local_pos, where the blocks are written, has been
\* advanced by the reads before, and the read buffer is left as it is.
DoWrite(pos, len, value) ==
    LET block == pos \div iBlockSize
        size == len \div iBlockSize
        last == pos % iBlockSize # 0 \/ len % iBlockSize # 0
        local_pos == block + size + IF last THEN size ELSE 0
        blocks == size + IF last THEN 1 ELSE 0
        read == LET whole == BlocksRead([i \in WbBuffer |-> Unused], 0, block, size)
                IN  IF last THEN BlocksRead(whole, size * iBlockSize, block + size, 1)
                    ELSE whole
        first == pos % iBlockSize
        buffer == [i \in WbBuffer |-> IF i \in first..(first + len - 1)
                                      THEN value ELSE read[i]]
        to == local_pos * iBlockSize
    IN  /\ medium' = [i \in WbBytes |-> IF i \in to..(to + blocks * iBlockSize - 1)
                                        THEN buffer[i - to] ELSE medium[i]]
        /\ answer' = [kind |-> "write", pos |-> pos, bytes |-> [i \in 1..len |-> value]]
        /\ written' = TRUE
        /\ UNCHANGED wb

Request(kind, pos, len) ==
    /\ pos + len <= MediaSize
    /\ \/ kind = "read" /\ DoRead(pos, len) /\ UNCHANGED <<medium, written>>
       \/ kind = "write" /\ ~written /\ DoWrite(pos, len, <<"new", 0>>)
       \/ kind = "format" /\ ~written /\ DoWrite(pos, len, <<"zero", 0>>)
    /\ UNCHANGED partitions

-----------------------------------------------------------------------------
(* PartitionInfo() and DecodePartitionInfo() *)

\* The entries before the first empty one.
Listed(table) ==
    LET ends == {i \in DOMAIN table : table[i].type = "none"}
    IN  IF ends = {} THEN table
        ELSE SubSeq(table, 1, (CHOOSE i \in ends : \A j \in ends : i <= j) - 1)

Entry(e) == [base |-> e.first, len |-> e.sectors]
Entries(s) == [i \in DOMAIN s |-> Entry(s[i])]

\* The first partition that is marked for booting comes first.
Sorted(list) ==
    LET boots == {i \in DOMAIN list : list[i].boot}
        boot == CHOOSE i \in boots : \A j \in boots : i <= j
        Fat(e) == e.type = "fat"
    IN  IF boots = {} THEN Entries(SelectSeq(list, Fat))
        ELSE Entries(<<list[boot]>> \o SelectSeq(SubSeq(list, 1, boot - 1), Fat)
                        \o SelectSeq(SubSeq(list, boot + 1, Len(list)), Fat))

WholeMedium == <<[base |-> 0, len |-> Blocks]>>

Cut(len, room) == IF len > room THEN room ELSE len

\* What is left for a partition: up to the medium's end, or the next partition.
Room(s, i) == (IF i = Len(s) THEN Blocks ELSE s[i + 1].base) - s[i].base

\* A partition that is cut to nothing makes the table invalid.
Fitted(s) ==
    LET fit == [i \in DOMAIN s |-> [s[i] EXCEPT !.len = Cut(@, Room(s, i))]]
    IN  IF s = <<>> \/ \E i \in DOMAIN s : s[i].len > Room(s, i) /\ fit[i].len <= 0
        THEN WholeMedium ELSE fit

\* The first block is left in the read buffer; where there is a table, moved by
\* two bytes (here one) so that its entries are aligned.  The medium is mounted once.
PartitionInfo(table) ==
    LET buffer == BlocksRead(wb.ptrReadBuf, 0, 0, 1)
    IN  /\ partitions = <<>>
        /\ wb' = [read_pos |-> 0, read_size |-> iBlockSize,
                  ptrReadBuf |-> IF table = <<>> THEN buffer
                                 ELSE [buffer EXCEPT ![0] = buffer[1]]]
        /\ partitions' = Fitted(Sorted(Listed(table)))
        /\ UNCHANGED <<medium, answer, written>>

WbNext ==
    \/ \E kind \in WbKinds, pos \in WbPositions, len \in WbLengths : Request(kind, pos, len)
    \/ \E table \in Tables : PartitionInfo(table)

WbSpec == WbInit /\ [][WbNext]_wbVars
-----------------------------------------------------------------------------
(* Properties *)

WbTypeOK ==
    /\ wb.read_pos \in 0..Nowhere /\ wb.read_size \in 0..(MediaSize + iBlockSize)
    /\ medium \in [WbBytes -> {"old", "new", "zero"} \X Int]

\* A read gives the client what the medium holds, whether it is served from the
\* buffer, continues what the buffer has, or is read afresh (read_pos, read_size):
\* until something is written, which leaves the buffer as it was.
WbReadIsTrue ==
    answer.kind = "read" /\ ~written =>
        \A i \in DOMAIN answer.bytes : answer.bytes[i] = medium[answer.pos + i - 1]

\* What is written is where it was to be written ("LaunchWrite() handles pre-reading
\* any sectors that are only partially modified", medwb.cpp:407).
WriteLands ==
    answer.kind = "write" =>
        \A i \in DOMAIN answer.bytes : medium[answer.pos + i - 1] = answer.bytes[i]

\* The partitions found in whatever table there is lie on the medium, in order, and
\* none overlaps the next (DecodePartitionInfo()).
PartitionsAreDisjoint ==
    \A i \in DOMAIN partitions :
        /\ partitions[i].len >= 0
        /\ partitions[i].base + partitions[i].len <=
               IF i = Len(partitions) THEN Blocks ELSE partitions[i + 1].base
=============================================================================
