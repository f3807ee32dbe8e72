------------------------------ MODULE SdVolume ------------------------------
(***************************************************************************)
(* A FAT volume on an SD card as SdFat keeps it: block reads and writes    *)
(* (Sd2Card.cpp), the cache of one block and the file allocation table     *)
(* (SdVolume.cpp), with the configuration the Mega is built with.          *)
(*                                                                         *)
(* Every function works on where the one before it left the card, so they  *)
(* are operators from a state m of the volume to the next.  m.ok is what   *)
(* the function returns: each leaves a state that failed alone, which is   *)
(* the goto fail of the code.  m.fuse is the number of card accesses until *)
(* the fault of this call, if it has one: an access that fails, or, when   *)
(* m.cut, the power going, after which nothing reaches the card.           *)
(***************************************************************************)
EXTENDS Integers, FiniteSets, FiniteSetsExt, SequencesExt

CONSTANTS
    ClusterCount,       \* m_clusterCount: clusters 2 to ClusterCount + 1
    BlocksPerCluster,   \* m_blocksPerCluster
    BlockSize,          \* units of a block: a byte of a file, a directory entry
    FatEntries,         \* the entries of a block of the FAT
    FatCount,           \* m_fatCount: the copies of the FAT
    RootBlocks          \* the blocks kept for a fixed root directory

ASSUME VolumeAssumption ==
    /\ {ClusterCount, BlocksPerCluster, BlockSize, FatEntries} \subseteq Nat \ {0}
    /\ FatCount \in {1, 2} /\ RootBlocks \in Nat

(* The layout, which init() reads from the boot sector. *)

FatEnd == ClusterCount + 1
Clusters == 2..FatEnd
Mbr == 0
Boot == 1
FatStart == 2
BlocksPerFat == FatEnd \div FatEntries + 1
RootStart == FatStart + FatCount * BlocksPerFat
DataStart == RootStart + RootBlocks
ClusterStart(c) == DataStart + (c - 2) * BlocksPerCluster
Blocks == 0..ClusterStart(FatEnd + 1) - 1
NoBlock == -1           \* 0XFFFFFFFF
ClusterUnits == BlocksPerCluster * BlockSize
BlockOfCluster(pos) == (pos \div BlockSize) % BlocksPerCluster

Free == 0
EOC == 999              \* 0x0FFFFFFF
Units == 0..BlockSize - 1
Junk == [i \in Units |-> [name |-> "junk"]]    \* what a buffer holds that nobody read into

(* The card. *)

Fail(m) == [m EXCEPT !.ok = FALSE]
Require(m, cond) == IF cond THEN m ELSE Fail(m)

Strike(m) == [Fail(m) EXCEPT !.struck = TRUE, !.fuse = IF m.cut THEN 0 ELSE -1]
Access(m) ==
    IF ~m.ok THEN m ELSE IF m.fuse = 0 THEN Strike(m) ELSE [m EXCEPT !.fuse = @ - 1]

\* readStart(), readData(), readStop(), writeStart(), writeStop() leave what
\* is on the card alone; writeData() and writeBlock() replace one block.
ReadBlock(m) == Access(m)
PutBlock(m, b, data) == IF m.ok THEN [m EXCEPT !.disk[b] = data] ELSE m
WriteBlock(m, b, data) == PutBlock(Access(m), b, data)

(* The cache.  A FAT block is written to every copy of the table. *)

Clean(m) == IF m.ok THEN [m EXCEPT !.dirty = FALSE] ELSE m
SyncCopies(m) ==
    IF m.cfat /\ FatCount > 1 THEN WriteBlock(m, m.cblock + BlocksPerFat, m.cdata) ELSE m
CacheSync(m) == IF m.dirty THEN Clean(SyncCopies(WriteBlock(m, m.cblock, m.cdata))) ELSE m

\* The options: CACHE_STATUS_DIRTY, CACHE_STATUS_FAT_BLOCK, CACHE_OPTION_NO_READ.
CacheLoad(m, b, data) ==
    IF m.ok THEN [m EXCEPT !.cblock = b, !.dirty = FALSE, !.cfat = FALSE, !.cdata = data] ELSE m
CacheMiss(m, b, options) ==
    IF "noread" \in options THEN CacheLoad(m, b, Junk) ELSE CacheLoad(ReadBlock(m), b, m.disk[b])
CacheNote(m, options) ==
    IF m.ok THEN [m EXCEPT !.dirty = @ \/ "dirty" \in options, !.cfat = @ \/ "fat" \in options]
    ELSE m
CacheFetch(m, b, options) ==
    CacheNote(IF ~m.ok \/ m.cblock = b THEN m ELSE CacheMiss(CacheSync(m), b, options), options)

ForRead == {}
ForWrite == {"dirty"}
Reserve == {"dirty", "noread"}
OnCache(m, i, value) == IF m.ok THEN [m EXCEPT !.cdata[i] = value] ELSE m

CacheInvalidate(m) == [m EXCEPT !.cblock = NoBlock, !.dirty = FALSE, !.cfat = FALSE]

(* The table. *)

FatFetch(m, c, options) ==
    CacheFetch(Require(m, c \in Clusters), FatStart + c \div FatEntries, options \cup {"fat"})
FatGet(m, c) == FatFetch(m, c, ForRead)
FatValue(m, c) == m.cdata[c % FatEntries]   \* what a FatGet(m, c) that is ok read
FatPut(m, c, value) == OnCache(FatFetch(m, c, ForWrite), c % FatEntries, value)

\* n more turns of the search for count free clusters in a row: bgn is where
\* the row begins, end the cluster to look at, g the table's block with it.
RECURSIVE Search(_, _, _, _, _)
SearchTurn(g, count, bgn, end, n) ==
    LET used == FatValue(g, end) # Free
    IN  IF ~g.ok \/ (~used /\ end - bgn + 1 = count)
        THEN [m |-> g, bgn |-> bgn, end |-> end]
        ELSE Search(g, count, IF used THEN end + 1 ELSE bgn, end + 1, n - 1)
Search(m, count, bgn, end, n) ==
    IF ~m.ok \/ n = 0 THEN [m |-> Fail(m), bgn |-> bgn, end |-> end]
    ELSE IF end > FatEnd THEN Search(m, count, 2, 2, n)
    ELSE SearchTurn(FatGet(m, end), count, bgn, end, n)

RECURSIVE LinkUp(_, _, _)
LinkUp(m, bgn, end) ==
    IF end = bgn THEN m ELSE LinkUp(FatPut(m, end - 1, end), bgn, end - 1)

\* What was found is chained, behind cluster cur if it is not 0; m.new is its
\* first cluster.
\* Mutant: the link goes the other way
BehindSwapped(m, cur, bgn) == IF cur # 0 THEN FatPut(m, bgn, cur) ELSE m
Behind(m, cur, bgn) == IF cur # 0 THEN FatPut(m, cur, bgn) ELSE m
Allocated(m, count, cur, bgn) ==
    IF m.ok THEN [m EXCEPT !.new = bgn, !.alloc = IF cur = 0 /\ count = 1 THEN bgn + 1 ELSE @]
    ELSE m
ChainUp(s, count, cur) ==
    Allocated(Behind(LinkUp(FatPut(s.m, s.end, EOC), s.bgn, s.end), cur, s.bgn), count, cur, s.bgn)
AllocContiguous(m, count, cur) ==
    LET start == IF cur # 0 THEN cur + 1 ELSE m.alloc
    IN  ChainUp(Search(m, count, start, start, ClusterCount), count, cur)

RECURSIVE FreeOn(_, _)
FreeTurn(g, c) == IF g.ok THEN FreeOn(FatPut(g, c, Free), FatValue(g, c)) ELSE g
FreeOn(m, c) == IF c = EOC THEN m ELSE FreeTurn(FatGet(m, c), c)
FreeChain(m, cluster) == IF m.ok THEN FreeOn([m EXCEPT !.alloc = 2], cluster) ELSE m

\* freeClusterCount(): block after block, the free ones of FatEnd + 1 entries.
RECURSIVE CountOn(_, _, _)
CountIn(f, n, count) ==
    LET todo == {i \in 0..FatEntries - 1 : n * FatEntries + i <= FatEnd}
    IN  IF f.ok THEN CountOn(f, n + 1, count + Cardinality({i \in todo : f.cdata[i] = Free}))
        ELSE f
CountOn(m, n, count) ==
    IF n = BlocksPerFat THEN [m EXCEPT !.ret = count]
    ELSE CountIn(CacheFetch(m, FatStart + n, {"fat"}), n, count)
FreeClusterCount(m) == CountOn(m, 0, 0)

\* init(): the volume on a card, from its master boot record on; fixed is for a
\* FAT16 volume, whose root directory is not a chain.
Volume(disk, fixed) ==
    [disk |-> disk, fixed |-> fixed, cblock |-> NoBlock, cdata |-> Junk, dirty |-> FALSE,
     cfat |-> FALSE, alloc |-> 2, new |-> 0,
     ok |-> TRUE, fuse |-> -1, cut |-> FALSE, struck |-> FALSE, ret |-> 0]
VolumeInit(m) == CacheFetch(CacheFetch(m, Mbr, ForRead), Boot, ForRead)
=============================================================================
