----------------------------- MODULE SdBaseFile -----------------------------
(***************************************************************************)
(* Files and directories of SdFat (SdBaseFile.cpp).  The objects of the    *)
(* class are m.obj[x]: the root directory, the file object the sketch      *)
(* keeps, and those that live on the stack of one call.  A position counts *)
(* units: bytes of a file, entries of a directory.  Dates are left out.    *)
(***************************************************************************)
EXTENDS SdVolume

Closed == [type |-> "closed"]
Temps == {"dir1", "tmp", "local"}

\* A directory entry: name, size, first cluster, and whether a directory.
FreeEntry == [name |-> "free", size |-> 0, first |-> 0, dir |-> FALSE]
\* What a deleted entry still holds is never read, and left out.
DeletedEntry == [FreeEntry EXCEPT !.name = "deleted"]
EmptyDir == [i \in Units |-> FreeEntry]
Unused(e) == e.name \in {"free", "deleted"}
Own(e) == ~Unused(e) /\ e.name \notin {".", ".."}

IsOpen(o) == o.type # "closed"
IsFile(o) == o.type = "normal"
IsRoot(o) == o.type \in {"fixed", "root32"}
IsDir(o) == IsOpen(o) /\ ~IsFile(o)

(* Positions. *)

SetPos(m, x, pos, cur) == [m EXCEPT !.obj[x].pos = pos, !.obj[x].cur = cur]
SetCur(m, x, cur) == [m EXCEPT !.obj[x].cur = cur]

\* Along the chain n clusters; where one cannot be read the object stays at
\* the last one that could, its position unchanged.
RECURSIVE Follow(_, _, _)
FollowTurn(g, x, n) ==
    IF g.ok THEN Follow(SetCur(g, x, FatValue(g, g.obj[x].cur)), x, n - 1) ELSE g
Follow(m, x, n) == IF n = 0 THEN m ELSE FollowTurn(FatGet(m, m.obj[x].cur), x, n)

\* Clusters are followed from where the position is, or from the first.
FollowTo(m, x, pos) ==
    LET o    == m.obj[x]
        nNew == (pos - 1) \div ClusterUnits
        nCur == (o.pos - 1) \div ClusterUnits
        back == o.pos = 0 \/ nNew < nCur
    IN  Follow(IF back THEN SetCur(m, x, o.first) ELSE m, x, IF back THEN nNew ELSE nNew - nCur)
Reached(m, x, pos) == IF m.ok THEN [m EXCEPT !.obj[x].pos = pos] ELSE m
SeekSet(m, x, pos) ==
    LET o == m.obj[x]
    IN  IF ~m.ok THEN m
        ELSE IF ~IsOpen(o) \/ pos > o.size THEN Fail(m)
        ELSE IF o.type = "fixed" THEN SetPos(m, x, pos, o.cur)
        ELSE IF pos = 0 THEN SetPos(m, x, 0, 0)
        ELSE Reached(FollowTo(m, x, pos), x, pos)

Rewind(m, x) == SeekSet(m, x, 0)
SeekEnd(m, x) == SeekSet(m, x, m.obj[x].size)

(* Reading: m.got is what was read. *)

\* The cluster of the position, at the start of one.
AtCluster(m, x) ==
    LET o == m.obj[x]
    IN  IF o.type = "fixed" \/ o.pos % ClusterUnits # 0 THEN m
        ELSE IF o.pos = 0 THEN SetCur(m, x, o.first)
        ELSE Follow(m, x, 1)

BlockAt(o) ==
    IF o.type = "fixed" THEN RootStart + o.pos \div BlockSize
                        ELSE ClusterStart(o.cur) + BlockOfCluster(o.pos)

RECURSIVE ReadBlocks(_, _)
ReadBlocks(m, n) == IF n = 0 THEN m ELSE ReadBlocks(ReadBlock(m), n - 1)

Take(m, x, units) ==
    IF m.ok THEN [m EXCEPT !.got = @ \o units, !.obj[x].pos = @ + Len(units)] ELSE m
CachePart(m, x, n) ==
    Take(m, x, [i \in 1..n |-> m.cdata[(m.obj[x].pos % BlockSize) + i - 1]])
Row(m, x, block, n) ==
    Take(m, x, [i \in 1..n * BlockSize |->
                  m.disk[block + (i - 1) \div BlockSize][(i - 1) % BlockSize]])

\* One turn: part of a block through the cache, a block straight from the
\* card, or a row of blocks, the cache written back before if it is in it.
ReadTurn(m, x, left) ==
    LET o      == m.obj[x]
        block  == BlockAt(o)
        offset == o.pos % BlockSize
        blocks == LET row == left \div BlockSize
                  IN  IF o.type = "fixed" THEN row
                      ELSE Min({row, BlocksPerCluster - BlockOfCluster(o.pos)})
    IN  IF ~m.ok THEN m
        ELSE IF offset # 0 \/ left < BlockSize \/ block = m.cblock
        THEN CachePart(CacheFetch(m, block, ForRead), x, Min({BlockSize - offset, left}))
        ELSE IF left < 2 * BlockSize THEN Row(ReadBlock(m), x, block, 1)
        ELSE Row(ReadBlocks(IF m.cblock \in block..block + blocks - 1 THEN CacheSync(m) ELSE m,
                            blocks + 2), x, block, blocks)

RECURSIVE ReadOn(_, _, _)
ReadOn(m, x, all) ==
    IF ~m.ok \/ Len(m.got) = all THEN m
    ELSE ReadOn(ReadTurn(AtCluster(m, x), x, all - Len(m.got)), x, all)

Read(m, x, n) ==
    LET o == m.obj[x]
    IN  IF ~m.ok THEN m
        ELSE IF ~IsOpen(o) \/ "read" \notin o.flags THEN Fail(m)
        ELSE ReadOn([m EXCEPT !.got = <<>>], x, Min({n, o.size - o.pos}))

\* read() of one unit of a directory, which must be there.
Some(m) == IF m.ok THEN Require(m, m.got # <<>>) ELSE m
ReadOne(m, x) == Some(Read(m, x, 1))

\* fgets(): one after the other, n or to the end.  The delimiters are left out.
RECURSIVE GetsOn(_, _, _, _)
GetsOn(m, x, n, line) ==
    IF ~m.ok \/ n = 0 \/ m.got = <<>> THEN [m EXCEPT !.got = line]
    ELSE LET r == Read(m, x, 1) IN GetsOn(r, x, n - 1, IF r.ok THEN line \o r.got ELSE line)
Gets(m, x, n) == GetsOn([m EXCEPT !.got = <<"none">>], x, n, <<>>)

\* peek(): a byte that is read, and the position as it was.
Unread(m, x, o) == IF m.ok /\ m.got # <<>> THEN SetPos(m, x, o.pos, o.cur) ELSE m
Peek(m, x) == Unread(Read(m, x, 1), x, m.obj[x])

(* Directory entries. *)

CacheDirEntry(m, x, options) == CacheFetch(m, m.obj[x].dirBlock, options)
EntryOf(m, x) == m.cdata[m.obj[x].dirIndex]     \* after a CacheDirEntry that is ok
PutEntry(m, x, entry) == OnCache(m, m.obj[x].dirIndex, entry)

\* The next entry of directory x; it is in the cache then, one before the position.
ReadDirCache(m, x) == ReadOne(Require(m, IsDir(m.obj[x])), x)
IndexOf(m, x) == (m.obj[x].pos - 1) % BlockSize
EntryAt(m, x) == m.cdata[IndexOf(m, x)]

\* sync(): the entry takes the size of a file and the first cluster.
Updated(m, x) ==
    LET o == m.obj[x]
        e == EntryOf(m, x)
    IN  IF ~m.ok THEN m
        ELSE IF e.name = "deleted" THEN Fail(m)
        ELSE [PutEntry(m, x, [e EXCEPT !.size = IF IsDir(o) THEN @ ELSE o.size, !.first = o.first])
              EXCEPT !.obj[x].dirty = FALSE]
Sync(m, x) ==
    IF ~m.ok THEN m
    ELSE IF ~IsOpen(m.obj[x]) THEN Fail(m)
    ELSE CacheSync(IF m.obj[x].dirty THEN Updated(CacheDirEntry(m, x, ForWrite), x) ELSE m)

CloseNow(m, x) == [m EXCEPT !.obj[x] = Closed]
Close(m, x) == IF m.ok THEN CloseNow(Sync(m, x), x) ELSE m

(* Growing and shrinking. *)

Grown(m, x) ==
    LET none == m.obj[x].first = 0
    IN  IF m.ok THEN [m EXCEPT !.obj[x].cur = m.new,
                               !.obj[x].first = IF none THEN m.new ELSE @,
                               !.obj[x].dirty = @ \/ none]
        ELSE m
AddCluster(m, x) == Grown(AllocContiguous(m, 1, m.obj[x].cur), x)

\* A cluster of free entries behind the directory, its first block cached.
RECURSIVE Clear(_, _, _)
Clear(m, block, n) == IF n = 0 THEN m ELSE Clear(WriteBlock(m, block, EmptyDir), block + 1, n - 1)
Cleared(m, block) ==
    IF m.ok THEN Clear([m EXCEPT !.cdata = EmptyDir], block + 1, BlocksPerCluster - 1) ELSE m
Wider(m, x) == IF m.ok THEN [m EXCEPT !.obj[x].size = @ + ClusterUnits] ELSE m
DirClusterAt(m, x, block) == Wider(Cleared(CacheFetch(m, block, Reserve), block), x)
DirCluster(m, x) == IF m.ok THEN DirClusterAt(m, x, ClusterStart(m.obj[x].cur)) ELSE m
AddDirCluster(m, x) == DirCluster(AddCluster(m, x), x)

RECURSIVE SizeOn(_, _, _, _)
SizeTurn(g, x, c, size) == IF g.ok THEN SizeOn(g, x, FatValue(g, c), size + ClusterUnits) ELSE g
SizeOn(m, x, c, size) ==
    IF c = EOC THEN [m EXCEPT !.obj[x].size = size] ELSE SizeTurn(FatGet(m, c), x, c, size)
SetDirSize(m, x) == SizeOn(m, x, m.obj[x].first, 0)

\* What is behind the position is given back: the whole chain, or the rest.
NoFirst(m, x) == IF m.ok THEN [m EXCEPT !.obj[x].first = 0] ELSE m
\* Mutant: the rest is not freed
RestCut(g, c) ==
    IF ~g.ok \/ FatValue(g, c) = EOC THEN g ELSE FatPut(g, c, EOC)
RestFreed(g, c) ==
    IF ~g.ok \/ FatValue(g, c) = EOC THEN g ELSE FatPut(FreeChain(g, FatValue(g, c)), c, EOC)
CutOff(m, x, length) ==
    IF length = 0 THEN NoFirst(FreeChain(m, m.obj[x].first), x)
    ELSE RestFreed(FatGet(m, m.obj[x].cur), m.obj[x].cur)
Shortened(m, x, length) ==
    IF m.ok THEN [m EXCEPT !.obj[x].size = length, !.obj[x].dirty = TRUE] ELSE m
Truncate(m, x, length) ==
    LET o == m.obj[x]
    IN  IF ~m.ok THEN m
        ELSE IF ~IsFile(o) \/ "write" \notin o.flags \/ length > o.size THEN Fail(m)
        ELSE IF o.size = 0 THEN m
        ELSE SeekSet(Sync(Shortened(CutOff(SeekSet(m, x, length), x, length), x, length), x),
                     x, Min({o.pos, length}))

(* Writing: the byte at position pos is data[pos]. *)

NextToWrite(g, x) ==
    IF ~g.ok THEN g
    ELSE IF FatValue(g, g.obj[x].cur) = EOC THEN AddCluster(g, x)
    ELSE SetCur(g, x, FatValue(g, g.obj[x].cur))
ClusterToWrite(m, x) ==
    LET o == m.obj[x]
    IN  IF o.pos % ClusterUnits # 0 THEN m
        ELSE IF o.cur # 0 THEN NextToWrite(FatGet(m, o.cur), x)
        ELSE IF o.first = 0 THEN AddCluster(m, x)
        ELSE SetCur(m, x, o.first)

\* Part of a block through the cache, which is written back at its end; a
\* block behind the end of the file is not read first.
Fill(m, x, offset, part, data) ==
    LET new == offset..offset + part - 1
        at  == m.obj[x].pos - offset
    IN  IF m.ok THEN [m EXCEPT !.cdata = [i \in Units |-> IF i \in new THEN data[at + i] ELSE @[i]]]
        ELSE m
\* Mutant: any block that is written from its start is not read
HowAtStart(o) == IF o.pos % BlockSize = 0 THEN Reserve ELSE ForWrite
How(o) == IF o.pos % BlockSize = 0 /\ o.pos >= o.size THEN Reserve ELSE ForWrite
WritePart(m, x, block, part, data) ==
    LET o      == m.obj[x]
        offset == o.pos % BlockSize
        Flush(s) == IF offset + part = BlockSize THEN CacheSync(s) ELSE s
    IN  Flush(Fill(CacheFetch(m, block, How(o)), x, offset, part, data))

\* Blocks straight to the card; the cache must not keep an older one.
Past(m, b) == IF b = m.cblock THEN CacheInvalidate(m) ELSE m
RECURSIVE WriteRow(_, _, _, _)
WriteRow(m, b, n, image) ==
    IF n = 0 THEN m
    ELSE WriteRow(WriteBlock(Past(m, b), b, Head(image)), b + 1, n - 1, Tail(image))

Moved(m, x, n) == IF m.ok THEN [m EXCEPT !.obj[x].pos = @ + n, !.ret = @ + n] ELSE m
WriteTurn(m, x, left, data) ==
    LET o      == m.obj[x]
        block  == ClusterStart(o.cur) + BlockOfCluster(o.pos)
        offset == o.pos % BlockSize
        part   == Min({BlockSize - offset, left})
        blocks == Min({left \div BlockSize, BlocksPerCluster - BlockOfCluster(o.pos)})
        image  == [b \in 1..blocks |-> [u \in Units |-> data[o.pos + (b - 1) * BlockSize + u]]]
    IN  IF ~m.ok THEN m
        ELSE IF offset # 0 \/ left < BlockSize
        THEN Moved(WritePart(m, x, block, part, data), x, part)
        ELSE IF left < 2 * BlockSize
        THEN Moved(WriteRow(m, block, 1, image), x, BlockSize)
        ELSE Moved(Access(WriteRow(Access(m), block, blocks, image)), x, blocks * BlockSize)

RECURSIVE WriteOn(_, _, _, _)
WriteOn(m, x, n, data) ==
    IF ~m.ok \/ m.ret = n THEN m
    ELSE WriteOn(WriteTurn(ClusterToWrite(m, x), x, n - m.ret, data), x, n, data)

Sized(m, x) ==
    IF m.ok /\ m.obj[x].pos > m.obj[x].size
    THEN [m EXCEPT !.obj[x].size = m.obj[x].pos, !.obj[x].dirty = TRUE] ELSE m
Write(m, x, n, data) ==
    LET o    == m.obj[x]
        seek == "append" \in o.flags /\ o.pos # o.size
        Done(s) == IF "sync" \in o.flags THEN Sync(s, x) ELSE s
    IN  IF ~m.ok THEN m
        ELSE IF ~IsFile(o) \/ "write" \notin o.flags THEN Fail(m)
        ELSE Done(Sized(WriteOn([IF seek THEN SeekEnd(m, x) ELSE m EXCEPT !.ret = 0],
                                x, n, data), x))

(* Opening.  The options are the flags of O_.. . *)

OpenRoot(m, x) ==
    LET o == [type  |-> IF m.fixed THEN "fixed" ELSE "root32",
              first |-> IF m.fixed THEN 0 ELSE 2,
              size  |-> RootBlocks * BlockSize,
              flags |-> {"read"}, dirty |-> FALSE, cur |-> 0, pos |-> 0,
              dirBlock |-> 0, dirIndex |-> 0]
        opened == [m EXCEPT !.obj[x] = o]
    IN  IF ~m.ok THEN m ELSE IF m.fixed THEN opened ELSE SetDirSize(opened, x)

\* The object of the entry at index of the cached block.
Object(m, index, oflag) ==
    LET e == m.cdata[index]
    IN  [type |-> IF e.dir THEN "subdir" ELSE "normal",
         first |-> e.first, size |-> e.size,
         flags |-> oflag \cap {"read", "write", "append", "sync"},
         dirty |-> FALSE, cur |-> 0, pos |-> 0,
         dirBlock |-> m.cblock, dirIndex |-> index]
Measured(m, x) == IF IsDir(m.obj[x]) THEN SetDirSize(m, x) ELSE m
Emptied(m, x, oflag) == IF "trunc" \in oflag THEN Truncate(m, x, 0) ELSE m
\* A seek to the end that fails leaves the object open.
AtEnd(m, x, oflag) ==
    IF ~m.ok THEN CloseNow(m, x) ELSE IF "at_end" \in oflag THEN SeekEnd(m, x) ELSE m
OpenCachedEntry(m, x, index, oflag) ==
    IF ~m.ok THEN m
    ELSE IF m.cdata[index].dir /\ oflag \cap {"write", "trunc"} # {}
    THEN CloseNow(Fail(m), x)
    ELSE AtEnd(Emptied(Measured([m EXCEPT !.obj[x] = Object(m, index, oflag)], x), x, oflag),
               x, oflag)

\* The search for a name in directory d, a block at a time, to where it or a
\* free entry is; gap is the first entry that is not used.
RECURSIVE ScanOn(_, _, _, _)
ScanTurn(r, d, name, gap) ==
    LET hits == {i \in Units : r.cdata[i].name \in {name, "free"}}
        upto == Min(hits \cup {BlockSize - 1})
        gaps == {i \in 0..upto : Unused(r.cdata[i])}
        Gap  == IF gap # <<>> \/ gaps = {} THEN gap ELSE <<r.cblock, Min(gaps)>>
        over == [r EXCEPT !.obj[d].pos = @ + BlockSize - 1]
    IN  IF ~r.ok THEN [m |-> r, found |-> FALSE, index |-> 0, gap |-> gap]
        ELSE IF hits = {} THEN ScanOn(over, d, name, Gap)
        ELSE [m |-> over, found |-> r.cdata[upto].name = name, index |-> upto, gap |-> Gap]
ScanOn(m, d, name, gap) ==
    IF ~m.ok \/ m.obj[d].pos >= m.obj[d].size
    THEN [m |-> m, found |-> FALSE, index |-> 0, gap |-> gap]
    ELSE ScanTurn(ReadOne(m, d), d, name, gap)

\* What the search s says there is, or a new entry where it found a gap.
NewEntry(s, d, name) ==
    IF s.gap # <<>>
    THEN CacheSync(OnCache(CacheFetch(s.m, s.gap[1], ForWrite), s.gap[2],
                           [FreeEntry EXCEPT !.name = name]))
    ELSE CacheSync(OnCache(AddDirCluster(Require(s.m, s.m.obj[d].type # "fixed"), d), 0,
                           [FreeEntry EXCEPT !.name = name]))
IndexIn(s) == IF s.found THEN s.index ELSE IF s.gap # <<>> THEN s.gap[2] ELSE 0
Scanned(s, x, d, name, oflag) ==
    LET may == IF s.found THEN "excl" \notin oflag ELSE {"creat", "write"} \subseteq oflag
    IN  IF ~s.m.ok \/ ~may THEN Fail(s.m)
        ELSE OpenCachedEntry(IF s.found THEN s.m ELSE NewEntry(s, d, name), x, IndexIn(s), oflag)
OpenIn(m, x, d, name, oflag) ==
    IF m.ok THEN Scanned(ScanOn(Rewind(m, d), d, name, <<>>), x, d, name, oflag) ELSE m

\* The directories of a path are opened one in the other.
Parent(path) == IF Len(path) = 1 THEN "root" ELSE "dir1"
OpenParent(m, path) ==
    IF Len(path) = 1 THEN m ELSE OpenIn(m, "dir1", "root", path[1], {"read"})
Open(m, x, path, oflag) ==
    OpenIn(OpenParent(Require(m, ~IsOpen(m.obj[x])), path), x, Parent(path), Last(path), oflag)

\* The next file or directory of directory d.
RECURSIVE OpenNext(_, _, _, _)
OpenRead(r, x, d, oflag) ==
    LET e == EntryAt(r, d)
    IN  IF ~r.ok THEN r
        ELSE IF e.name = "free" THEN Fail(r)
        ELSE IF Own(e) THEN OpenCachedEntry(r, x, IndexOf(r, d), oflag)
        ELSE OpenNext(r, x, d, oflag)
OpenNext(m, x, d, oflag) == OpenRead(ReadDirCache(m, d), x, d, oflag)

\* The file or directory of the entry at an index of directory d.
OpenEntry(r, x, d) ==
    IF r.ok /\ Own(EntryAt(r, d)) THEN OpenCachedEntry(r, x, IndexOf(r, d), {"read"}) ELSE Fail(r)
OpenIndex(m, x, d, index) ==
    OpenEntry(ReadDirCache(SeekSet(Require(m, ~IsOpen(m.obj[x])), d, index), d), x, d)

(* Removing, renaming, making. *)

Deleted(m, x) == IF m.ok THEN CloseNow(PutEntry(m, x, DeletedEntry), x) ELSE m
\* Mutant: the entry stays in the cache
RemoveFileLazily(m, x) ==
    IF m.ok THEN Deleted(CacheDirEntry(Truncate(m, x, 0), x, ForWrite), x) ELSE m
RemoveFile(m, x) ==
    IF m.ok THEN CacheSync(Deleted(CacheDirEntry(Truncate(m, x, 0), x, ForWrite), x)) ELSE m

\* A file of a given size, or none.
Sizing(m, x, size) ==
    IF m.ok THEN Sync([m EXCEPT !.obj[x].first = m.new, !.obj[x].size = size,
                                !.obj[x].dirty = TRUE], x)
    ELSE Fail(RemoveFile([m EXCEPT !.ok = TRUE], x))
Reserving(m, x, size) ==
    LET count == (size - 1) \div ClusterUnits + 1
    IN  IF m.ok THEN Sizing(AllocContiguous(m, count, m.obj[x].first), x, size) ELSE m
CreateContiguous(m, x, path, size) ==
    Reserving(Open(m, x, path, {"creat", "excl", "read", "write"}), x, size)

\* A directory: a file that becomes one, with a cluster of entries of which
\* two are for itself and for the directory it is in.
Turned(m, x) ==
    IF m.ok THEN Sync(AddDirCluster([m EXCEPT !.obj[x].flags = {"read"}, !.obj[x].type = "subdir"],
                                    x), x)
    ELSE m
DotEntries(m, x, up, entry) ==
    OnCache(OnCache(CacheFetch(PutEntry(m, x, entry), ClusterStart(m.obj[x].first), ForWrite),
                    0, [entry EXCEPT !.name = "."]),
            1, [entry EXCEPT !.name = "..", !.first = up])
Entered(m, x, up) ==
    IF m.ok THEN CacheSync(DotEntries(m, x, up, [EntryOf(m, x) EXCEPT !.dir = TRUE])) ELSE m
AsDirectory(m, x, up) ==
    IF m.ok THEN Entered(CacheDirEntry(Turned(m, x), x, ForWrite), x, up) ELSE m
MkdirIn(m, x, d, name) ==
    LET up == IF IsRoot(m.obj[d]) THEN 0 ELSE m.obj[d].first
    IN  IF m.ok
        THEN AsDirectory(OpenIn(m, x, d, name, {"creat", "excl", "read", "write"}), x, up)
        ELSE m
Mkdir(m, x, path) ==
    MkdirIn(OpenParent(Require(m, ~IsOpen(m.obj[x])), path), x, Parent(path), Last(path))

\* The entries before the first free one are all deleted, or the links.
RECURSIVE EmptyOn(_, _)
EmptyTurn(r, x) ==
    IF ~r.ok \/ EntryAt(r, x).name = "free" THEN r
    ELSE IF Own(EntryAt(r, x)) THEN Fail(r) ELSE EmptyOn(r, x)
EmptyOn(m, x) ==
    IF ~m.ok \/ m.obj[x].pos >= m.obj[x].size THEN m ELSE EmptyTurn(ReadDirCache(m, x), x)
AsFile(m, x) ==
    IF m.ok THEN [m EXCEPT !.obj[x].type = "normal", !.obj[x].flags = @ \cup {"write"}] ELSE m
Rmdir(m, x) ==
    IF ~m.ok THEN m
    ELSE IF m.obj[x].type # "subdir" THEN Fail(m)
    ELSE RemoveFile(AsFile(EmptyOn(Rewind(m, x), x), x), x)

\* A failed sync() is ignored; the entry is marked deleted before the new one
\* is made, and comes back when that fails.  A directory that was made for
\* the new name gives its cluster back, and its link to where it is.
Successful(m) == [m EXCEPT !.ok = TRUE]
NewName(m, old, path) ==
    IF IsFile(old) THEN Open(m, "tmp", path, {"creat", "excl", "write"}) ELSE Mkdir(m, "tmp", path)
Restored(m, x, entry) ==
    Fail(CacheSync(PutEntry(CacheDirEntry(Successful(m), x, ForWrite), x, entry)))
MovedTo(m, x, new) == [m EXCEPT !.obj[x].dirBlock = new.dirBlock, !.obj[x].dirIndex = new.dirIndex]
Linked(m, first, link) ==
    CacheSync(OnCache(CacheFetch(m, ClusterStart(first), ForWrite), 1, link))
GivenBack(m, x, first) ==
    IF m.ok THEN Linked(FreeChain(m, first), m.obj[x].first, m.cdata[1]) ELSE m
Named(m, x, new) ==
    IF IsFile(m.obj[x]) THEN CacheSync(m)
    ELSE GivenBack(CacheFetch(m, ClusterStart(new.first), ForRead), x, new.first)
Renamed(m, x, entry, name) ==
    IF m.ok
    THEN Named(PutEntry(CacheDirEntry(MovedTo(m, x, m.obj["tmp"]), x, ForWrite), x,
                        [entry EXCEPT !.name = name]),
               x, m.obj["tmp"])
    ELSE Restored(m, x, entry)
Renaming(m, x, path) ==
    IF m.ok
    THEN Renamed(NewName(PutEntry(m, x, DeletedEntry), m.obj[x], path),
                 x, EntryOf(m, x), Last(path))
    ELSE m
Rename(m, x, path) ==
    IF ~m.ok THEN m
    ELSE IF ~IsOpen(m.obj[x]) \/ IsRoot(m.obj[x]) THEN Fail(m)
    ELSE Renaming(CacheDirEntry(Successful(Sync(m, x)), x, ForWrite), x, path)

\* rmRfStar(): a file of a directory after the other, or a directory in it in
\* the same way, and the directory itself if it is not the root.
Below == [root |-> "dir1", dir1 |-> "tmp", local |-> "tmp"]
RECURSIVE RmRfStar(_, _), RmOn(_, _)
RmOpened(m, f) ==
    IF ~m.ok THEN m
    ELSE IF m.obj[f].type = "subdir" THEN RmRfStar(m, f)
    ELSE RemoveFile([m EXCEPT !.obj[f].flags = @ \cup {"write"}], f)
RmTurn(r, x, index) ==
    IF ~r.ok \/ EntryAt(r, x).name = "free" THEN r
    ELSE RmOn(IF Own(EntryAt(r, x))
              THEN RmOpened(OpenIndex(r, Below[x], x, index), Below[x])
              ELSE r, x)
RmOn(m, x) ==
    IF ~m.ok \/ m.obj[x].pos >= m.obj[x].size THEN m
    ELSE RmTurn(ReadDirCache(m, x), x, m.obj[x].pos)
RmSelf(m, x) == IF m.ok /\ ~IsRoot(m.obj[x]) THEN Rmdir(m, x) ELSE m
RmRfStar(m, x) == IF m.ok THEN RmSelf(RmOn(Rewind(m, x), x), x) ELSE m

(* Looking. *)

\* dirEntry() and timestamp(): the entry is read, or written back, after a sync.
DirEntry(m, x) == IF m.ok THEN CacheDirEntry(Sync(m, x), x, ForRead) ELSE m
Timestamp(m, x) == IF m.ok THEN CacheSync(CacheDirEntry(Sync(m, x), x, ForWrite)) ELSE m

GetFilename(m, x) == IF m.ok THEN CacheDirEntry(m, x, ForRead) ELSE m

\* readDir(): the next entry of a file or directory; m.got has it, or nothing.
RECURSIVE ReadDir(_, _)
DirRead(r, x) ==
    IF ~r.ok \/ r.got = <<>> THEN r
    ELSE IF r.got[1].name = "free" THEN [r EXCEPT !.got = <<>>]
    ELSE IF Own(r.got[1]) THEN r ELSE ReadDir(r, x)
ReadDir(m, x) == DirRead(Read(m, x, 1), x)

\* ls(): m.list are the paths of what is in a directory and those in it.  It
\* ends where an entry cannot be read, and leaves out what it cannot open.
RECURSIVE Ls(_, _, _), LsOn(_, _, _)
LsBelow(s, x, path) ==
    IF s.ok THEN CloseNow(Ls(s, Below[x], path), Below[x]) ELSE Successful(s)
LsTurn(r, x, path) ==
    LET e    == r.got[1]
        item == path \o <<e.name>>
        next == r.obj[x].pos
        s    == [r EXCEPT !.list = Append(@, item)]
    IN  IF ~r.ok \/ r.got = <<>> THEN Successful(r)
        ELSE LsOn(IF e.dir
                  THEN Successful(SeekSet(LsBelow(OpenIndex(s, Below[x], x, next - 1), x, item),
                                          x, next))
                  ELSE s, x, path)
LsOn(m, x, path) == LsTurn(ReadDir(m, x), x, path)
Ls(m, x, path) == LsOn(Rewind(m, x), x, path)

Exists(m, path) == CloseNow(Open(m, "tmp", path, {"read"}), "tmp")

\* m.ret is the number of clusters, when each is behind the one before.
RECURSIVE RangeOn(_, _, _)
RangeTurn(g, c, n) ==
    IF ~g.ok THEN g
    ELSE IF FatValue(g, c) = c + 1 THEN RangeOn(g, c + 1, n + 1)
    ELSE [Require(g, FatValue(g, c) = EOC) EXCEPT !.ret = n]
RangeOn(m, c, n) == RangeTurn(FatGet(m, c), c, n)
ContiguousRange(m, x) ==
    IF ~m.ok THEN m
    ELSE IF m.obj[x].first = 0 THEN Fail(m) ELSE RangeOn(m, m.obj[x].first, 1)
=============================================================================
