--------------------------- MODULE MediaStaticRd ---------------------------
(***************************************************************************)
(* The static RAM disk (beagle_drivers/medstaticrd/beagle_medstaticrd.cpp):*)
(* one request at a time is copied through a transfer buffer in whole      *)
(* sectors.  Request() and the two DFCs run on one thread, one at a time.  *)
(*                                                                         *)
(* A byte of the disk, of the transfer buffer and of the client is a value;*)
(* the client's buffer is a function from its offsets.                     *)
(***************************************************************************)
EXTENDS Integers

CONSTANTS
    KDiskSectorSize,
    KNVMemTransferBufferSize,   \* a multiple of the sector size
    DiskSize,                   \* bytes of the disk, a multiple as well
    MaxLength,                  \* the longest read and write of the file system
    Kinds,                      \* which requests it makes
    KMaxRequests                \* so many are made

VARIABLES
    disk,       \* iDiscBufferLin
    rd,         \* the driver's members, see RdTypeOK
    client,     \* the client's buffer
    should,     \* what disk and buffer have to be once the request is done
    requests    \* the requests made so far

rdVars == <<disk, rd, client, should, requests>>

None == "none"
Buffer == 0..(KNVMemTransferBufferSize - 1)
Bytes == 0..(DiskSize - 1)

Old(i) == <<"old", i>>      \* what the disk holds at first
New(i) == <<"new", i>>      \* what a client writes, by its offset
Zero == <<"zero", 0>>       \* what a format leaves
Junk == <<"junk", 0>>       \* what a buffer holds before it is filled

RdInit ==
    /\ disk = [i \in Bytes |-> Old(i)]
    /\ rd = [iCurrentRequest |-> None, iTotalLength |-> 0, iProsessedLength |-> 0,
             iPos |-> 0, iHead |-> 0, iTail |-> 0, iSplitted |-> 0,
             iAlignmentOverhead |-> 0, iReadModifyWrite |-> FALSE,
             iLatestTransferSectorCount |-> 0,
             iTransferBufferLin |-> [i \in Buffer |-> Junk],
             dfc |-> None]      \* "launch" or "end": the DFC that is queued
    /\ client = [i \in Bytes |-> Junk]
    /\ should = [disk |-> disk, client |-> client]
    /\ requests = 0

-----------------------------------------------------------------------------
(* Copies *)

\* ReadRemote(): n bytes from offset 0 of the client's buffer.
ReadRemote(d, at, n) ==
    [d EXCEPT !.iTransferBufferLin =
        [i \in Buffer |-> IF i \in at..(at + n - 1) THEN New(i - at) ELSE @[i]]]

\* WriteRemote(): n bytes to offset 0 of the client's buffer.
WriteRemote(d, n) ==
    client' = [i \in Bytes |-> IF i < n THEN d.iTransferBufferLin[d.iHead + i]
                               ELSE client[i]]

Sectors(len) == len \div KDiskSectorSize

\* ContinueTransaction() copies at once and queues the DFC that follows.
ContinueTransaction(d, len, direction) ==
    LET first == (d.iPos \div KDiskSectorSize) * KDiskSectorSize
        count == Sectors(len)
        n == count * KDiskSectorSize
        done == [d EXCEPT !.iLatestTransferSectorCount = count, !.dfc = "end"]
    IN  IF direction = "write"
        THEN /\ rd' = done
             /\ disk' = [i \in Bytes |-> IF i \in first..(first + n - 1)
                                         THEN d.iTransferBufferLin[i - first] ELSE disk[i]]
        ELSE /\ rd' = [done EXCEPT !.iTransferBufferLin =
                          [i \in Buffer |-> IF i < n THEN disk[first + i] ELSE @[i]]]
             /\ UNCHANGED disk

-----------------------------------------------------------------------------
(* Request() *)

Tail(pos, len) ==
    LET over == ((pos % KDiskSectorSize) + len) % KDiskSectorSize
    IN  IF over = 0 THEN 0 ELSE KDiskSectorSize - over

Expected(kind, pos, len) ==
    [disk |-> CASE kind = "write" -> [i \in Bytes |-> IF i \in pos..(pos + len - 1)
                                                      THEN New(i - pos) ELSE disk[i]]
                [] kind = "format" -> [i \in Bytes |-> IF i \in pos..(pos + len - 1)
                                                       THEN Zero ELSE disk[i]]
                [] OTHER -> disk,
     client |-> [i \in Bytes |-> IF kind = "read" /\ i < len THEN disk[pos + i]
                                 ELSE Junk]]

\* A request behind another is deferred.  The partition is never overrun.
\* Formats are of whole sectors.  A request of another kind is refused and stays
\* the current one.
Request(kind, pos, len) ==
    LET head == pos % KDiskSectorSize
        tail == Tail(pos, len)
    IN  /\ rd.iCurrentRequest = None
        /\ requests < KMaxRequests
        /\ pos + len <= DiskSize
        /\ IF kind = "format" THEN head = 0 /\ tail = 0 ELSE len <= MaxLength
        /\ rd' = [rd EXCEPT !.iCurrentRequest = kind, !.iProsessedLength = 0,
                            !.iHead = head, !.iTail = tail, !.iAlignmentOverhead = 0,
                            !.iPos = pos, !.iTotalLength = len,
                            !.iSplitted = (len + head + tail) \div KNVMemTransferBufferSize,
                            !.dfc = IF kind \in {"read", "write", "format"}
                                    THEN "launch" ELSE None]
        /\ should' = Expected(kind, pos, len)
        /\ client' = [i \in Bytes |-> Junk]
        /\ requests' = requests + 1
        /\ UNCHANGED disk

-----------------------------------------------------------------------------
(* DoTransactionLaunchDfc(): Read(), Write() and Format() *)

Whole(d) == d.iTotalLength + d.iTail

LaunchRead(d) ==
    LET all == IF d.iSplitted > 0 THEN KNVMemTransferBufferSize ELSE Whole(d)
        overhead == d.iHead + (IF d.iSplitted > 0 THEN 0 ELSE d.iTail)
    IN  ContinueTransaction([d EXCEPT !.iAlignmentOverhead = overhead],
                            all + d.iHead, "read")

\* A first or last sector that is shared is read, changed and written back.
LaunchWrite(d) ==
    LET split == d.iSplitted > 0
        shared == d.iHead > 0 \/ (~split /\ d.iTail > 0)
        len == IF split
               THEN IF d.iHead > 0 THEN KDiskSectorSize ELSE KNVMemTransferBufferSize
               ELSE Whole(d) + d.iHead
        ready == [d EXCEPT !.iReadModifyWrite = shared,
                           !.iAlignmentOverhead = d.iHead + (IF split THEN 0 ELSE d.iTail)]
    IN  IF shared THEN ContinueTransaction(ready, len, "read")
        ELSE IF d.iCurrentRequest = "format"
        THEN ContinueTransaction(
                [ready EXCEPT !.iTransferBufferLin = [i \in Buffer |-> Zero]], len, "write")
        ELSE ContinueTransaction(ReadRemote(ready, 0, len), len, "write")

DoTransactionLaunchDfc ==
    /\ rd.dfc = "launch"
    /\ IF rd.iCurrentRequest = "read" THEN LaunchRead(rd) ELSE LaunchWrite(rd)
    /\ UNCHANGED <<client, should, requests>>

-----------------------------------------------------------------------------
(* DoSessionEndDfc() *)

\* Mutant: the client's bytes are put at the start of the buffer.
Merged_AtStart(d) ==
    [ReadRemote(d, 0, d.iTotalLength - d.iProsessedLength)
        EXCEPT !.iReadModifyWrite = FALSE, !.iHead = 0, !.iTail = 0]
\* The shared sectors have been read: the client's bytes are merged in.
Merged(d) ==
    LET n == IF d.iSplitted > 0 THEN KNVMemTransferBufferSize - d.iHead
             ELSE d.iTotalLength - d.iProsessedLength
    IN  [ReadRemote(d, d.iHead, n) EXCEPT !.iReadModifyWrite = FALSE, !.iHead = 0,
            !.iTail = IF d.iSplitted > 0 THEN @ ELSE 0]

Latest(d) == d.iLatestTransferSectorCount * KDiskSectorSize - d.iAlignmentOverhead

\* The bytes moved are counted.
Advanced(d) ==
    LET done == d.iProsessedLength + Latest(d)
    IN  [d EXCEPT !.iAlignmentOverhead = 0, !.iPos = @ + Latest(d),
                  !.iProsessedLength = done,
                  !.iSplitted = (d.iTotalLength - done + d.iTail)
                                    \div KNVMemTransferBufferSize]

\* Of a read the tail is not added: what is left of a sector is not read.
Next_Length(d) ==
    IF d.iSplitted > 0 THEN KNVMemTransferBufferSize
    ELSE d.iTotalLength - d.iProsessedLength
             + (IF d.iCurrentRequest = "write" THEN d.iTail ELSE 0)

Continue(d) ==
    LET len == Next_Length(d)
        shared == d.iSplitted = 0 /\ d.iTail > 0 /\ d.iCurrentRequest = "write"
        part == [d EXCEPT !.iReadModifyWrite = shared,
                          !.iAlignmentOverhead = IF shared THEN d.iTail ELSE 0]
        headless == [part EXCEPT !.iHead = 0]
    IN  IF shared THEN ContinueTransaction(part, len, "read")
        ELSE IF d.iCurrentRequest = "read" THEN ContinueTransaction(headless, len, "read")
        ELSE IF d.iCurrentRequest = "write"
        THEN ContinueTransaction(ReadRemote(headless, 0, len), len, "write")
        ELSE ContinueTransaction(headless, len, "write")

CompleteRequest(d) ==
    /\ rd' = [d EXCEPT !.iCurrentRequest = None, !.iHead = 0]
    /\ UNCHANGED disk

\* A driver that has moved more than it was asked stops the system.
DoSessionEndDfc ==
    LET d == [rd EXCEPT !.dfc = None]
        next == Advanced(d)
        complete == next.iProsessedLength >= next.iTotalLength
    IN  /\ rd.dfc = "end"
        /\ IF d.iReadModifyWrite
           THEN /\ ContinueTransaction(Merged(d),
                       d.iLatestTransferSectorCount * KDiskSectorSize, "write")
                /\ UNCHANGED client
           ELSE /\ IF d.iCurrentRequest = "read"
                   THEN WriteRemote(next, Latest(d)) ELSE UNCHANGED client
                /\ IF complete THEN CompleteRequest(next) ELSE Continue(next)
        /\ UNCHANGED <<should, requests>>

RdNext ==
    \/ \E kind \in Kinds, pos \in Bytes, len \in 1..DiskSize : Request(kind, pos, len)
    \/ DoTransactionLaunchDfc
    \/ DoSessionEndDfc

RdSpec == RdInit /\ [][RdNext]_rdVars

-----------------------------------------------------------------------------
(* Properties *)

RdTypeOK ==
    /\ rd.iHead \in 0..(KDiskSectorSize - 1)
    /\ rd.iTail \in 0..(KDiskSectorSize - 1)
    /\ rd.iProsessedLength \in 0..rd.iTotalLength
    /\ DOMAIN rd.iTransferBufferLin = Buffer

\* Once a request is done, the disk differs from what it was in exactly the
\* client's bytes, and a read has given the client the disk's bytes: through
\* shared first and last sectors, read-modify-write and several transactions.
BytesAreRight ==
    rd.iCurrentRequest = None /\ rd.iTotalLength > 0 =>
        disk = should.disk /\ client = should.client

\* Every request ends (DoSessionEndDfc() queues itself until it does).
RequestEnds == rd.iCurrentRequest # None ~> rd.iCurrentRequest = None
=============================================================================
