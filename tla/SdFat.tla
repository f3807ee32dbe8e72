-------------------------------- MODULE SdFat --------------------------------
(***************************************************************************)
(* The SD card of the Mega under the file handler: each operation opens    *)
(* the one file object of the sketch (ASIF_CurrentFile), works on it and   *)
(* closes it, all under the lock of the SPI bus, and so is one step; at    *)
(* any access to the card in it the access may fail or the power may go.   *)
(***************************************************************************)
EXTENDS SdBaseFile, Functions, TLC

CONSTANTS
    Names,          \* the names of files in the root directory
    Dir, SubNames,  \* the name of a directory, the names of files in it
    Kinds,          \* the calls, "files" or "tree", and the root directory of
                    \* the volume: fixed, as of FAT16, or a chain, of FAT32
    Writes,         \* what an operation writes: the lengths, call after call
    Places,         \* the positions of what is read, written over or cut off
    MaxSize,        \* bound: the size of a file
    MaxOps,         \* bound: the operations of a behaviour
    MaxFaults       \* bound: the faults of a behaviour

ASSUME SdFatAssumption ==
    /\ Dir \notin Names /\ {MaxSize, MaxOps, MaxFaults} \subseteq Nat

VARIABLES
    kind,           \* the calls of this behaviour and its volume
    m,              \* the volume and the objects
    ops,            \* the operations so far
    powered,        \* the volume is mounted
    faults,         \* the faults so far
    content,        \* history: what each path holds, by the operations so far
    harmed,         \* history: the paths an operation without a promise was
                    \* changing at a fault, and those it spread to
    unsure,         \* history: the paths whose last change failed
    clean           \* history: no operation that failed has changed the volume

vars == <<kind, m, ops, powered, faults, content, harmed, unsure, clean>>

Files == {<<n>> : n \in Names} \cup {<<Dir, n>> : n \in SubNames}
Paths == Files \cup {<<Dir>>}

(* What is on a disk. *)

Fat(disk, c) == disk[FatStart + c \div FatEntries][c % FatEntries]

\* The clusters of a chain and what ends it, EOC if it is sound.
Links(disk, first) ==
    LET w[n \in 0..ClusterCount] ==
          IF n = 0 THEN first ELSE IF w[n - 1] \in Clusters THEN Fat(disk, w[n - 1]) ELSE w[n - 1]
    IN  w
Chain(disk, first) ==
    SelectSeq([n \in 1..ClusterCount |-> Links(disk, first)[n - 1]], LAMBDA c : c \in Clusters)
ChainSound(disk, first) ==
    first = 0 \/ (first \in Clusters /\ Links(disk, first)[ClusterCount] = EOC)

UnitsOf(disk, chain) ==
    [i \in 1..Len(chain) * ClusterUnits |->
        LET first == ClusterStart(chain[(i - 1) \div ClusterUnits + 1])
            at    == (i - 1) % ClusterUnits
        IN  disk[first + at \div BlockSize][at % BlockSize]]

RootUnits(disk) ==
    IF kind.fixed
    THEN [i \in 1..RootBlocks * BlockSize |->
            disk[RootStart + (i - 1) \div BlockSize][(i - 1) % BlockSize]]
    ELSE UnitsOf(disk, Chain(disk, 2))

\* The entries of a directory with one of the names, up to the first free one.
Entries(units, names) ==
    LET last == Min({i \in DOMAIN units : units[i].name = "free"} \cup {Len(units) + 1})
    IN  {units[i] : i \in {j \in 1..last - 1 : units[j].name \in names}}

Tree(disk) ==
    LET top  == Entries(RootUnits(disk), Names \cup {Dir})
        subs == UNION {Entries(UnitsOf(disk, Chain(disk, e.first)), SubNames) :
                         e \in {d \in top : d.name = Dir /\ d.dir}}
    IN  [p \in {<<e.name>> : e \in top} \cup {<<Dir, e.name>> : e \in subs} |->
           CHOOSE e \in (IF Len(p) = 1 THEN top ELSE subs) : e.name = Last(p)]

Mark(word) == <<[name |-> word]>>
Data(disk, e) ==
    IF e.dir THEN Mark("dir")
    ELSE LET units == UnitsOf(disk, Chain(disk, e.first))
         IN  IF Len(units) < e.size THEN Mark("short") ELSE SubSeq(units, 1, e.size)

\* What the program sees: the card, and the cache over it.
Seen(s) == IF s.dirty THEN [s.disk EXCEPT ![s.cblock] = s.cdata] ELSE s.disk
Held(disk, tree, p) == IF p \in DOMAIN tree THEN Data(disk, tree[p]) ELSE Mark("gone")

\* A directory that got a cluster which nobody cleared.
Stale(disk, tree, d) ==
    \E u \in Range(IF d = <<>> THEN RootUnits(disk)
                  ELSE IF d \in DOMAIN tree /\ tree[d].dir
                  THEN UnitsOf(disk, Chain(disk, tree[d].first))
                  ELSE <<>>) : u.name \in {"junk", "byte"}

\* A path has a chain, and one of the length its entry says.
Whole(disk, tree, p) ==
    p \in DOMAIN tree =>
        /\ ChainSound(disk, tree[p].first)
        /\ Len(Chain(disk, tree[p].first)) * ClusterUnits >= tree[p].size
        /\ tree[p].dir => tree[p].first # 0

(* An empty volume, and a volume that has just been mounted. *)

EmptyDisk ==
    [b \in Blocks |->
       IF b < FatStart THEN Junk
       ELSE IF b < RootStart
       THEN [i \in 0..FatEntries - 1 |->
               LET c == ((b - FatStart) % BlocksPerFat) * FatEntries + i
               IN  IF c < 2 \/ (~kind.fixed /\ c = 2) THEN EOC ELSE Free]
       ELSE IF b < DataStart \/ (b < ClusterStart(3) /\ ~kind.fixed) THEN EmptyDir
       ELSE Junk]

NoObjects == [x \in {"root", "file"} \cup Temps |-> Closed]
Unmounted(disk) == Volume(disk, kind.fixed) @@ [obj |-> NoObjects, got |-> <<>>, list |-> <<>>]

\* SdFat::begin(): init() and chdir(), which opens the root directory.
Begin(disk) == OpenRoot(VolumeInit(Unmounted(disk)), "root")

\* Between operations.  What a free cluster holds is left out.
Forgotten(disk) ==
    LET free == {c \in Clusters : Fat(disk, c) = Free}
    IN  UNION {ClusterStart(c)..ClusterStart(c) + BlocksPerCluster - 1 : c \in free}
Quiet(s) ==
    LET gone == Forgotten(Seen(s))
    IN  [s EXCEPT !.ok = TRUE, !.fuse = -1, !.cut = FALSE, !.struck = FALSE, !.ret = 0,
                  !.got = <<>>, !.list = <<>>,
                  !.disk = [b \in Blocks |-> IF b \in gone THEN Junk ELSE @[b]],
                  !.cdata = IF s.cblock \in gone /\ ~s.dirty THEN Junk ELSE @,
                  !.obj = [x \in DOMAIN NoObjects |->
                             IF x \in Temps THEN Closed
                             ELSE IF x = "root" /\ IsOpen(s.obj[x])
                             THEN [s.obj[x] EXCEPT !.pos = 0, !.cur = 0]
                             ELSE s.obj[x]]]

Init ==
    /\ kind \in Kinds
    /\ m = Quiet(Begin(EmptyDisk)) /\ powered = TRUE /\ ops = 0 /\ faults = 0
    /\ content = <<>> /\ harmed = {} /\ unsure = {} /\ clean = TRUE

(* An operation: what it may come to, and what that leaves.                *)

Over(r) ==
    LET off == r.struck /\ r.cut
    IN  [ok |-> r.ok /\ ~r.struck, struck |-> r.struck, off |-> off, got |-> r.got,
         list |-> r.list,
         m |-> IF off THEN Quiet(Unmounted(r.disk)) ELSE Quiet(r)]

Gone == Mark("gone")
Of(p) == IF p \in DOMAIN content THEN content[p] ELSE Gone
Without(f, p) == Restrict(f, DOMAIN f \ {p})
Put(f, p, data) == IF data = Gone THEN Without(f, p) ELSE (p :> data) @@ f
Sane(p, bad) == {p, <<p[1]>>, <<>>} \cap bad = {}

\* What a path holds before an operation.
Shown(p) == IF Sane(p, harmed) THEN Of(p) ELSE Held(Seen(m), Tree(Seen(m)), p)
Old(p) == IF Shown(p) = Gone THEN <<>> ELSE Shown(p)


\* The clusters of a path, <<>> being the root directory.
Its(disk, tree, p) ==
    IF p = <<>> THEN IF kind.fixed THEN {} ELSE Range(Chain(disk, 2))
    ELSE IF p \in DOMAIN tree THEN Range(Chain(disk, tree[p].first)) ELSE {}

\* Harm spreads: an operation on harmed paths that changes the card may harm
\* all that have a cluster their chains lead to, and does not make them whole.
Spread(used, disk) ==
    LET tree == Tree(disk)
        bad  == UNION {harmed \cap {p, <<p[1]>>} : p \in used}
    IN  IF bad = {} THEN {}
        ELSE used \cup {q \in Paths \cup {<<>>} :
                         \E p \in bad : Its(disk, tree, p) \cap Its(disk, tree, q) # {}}

\* An operation ended as r: when it succeeded the paths of new hold that, and
\* when not may[p] is what each path may hold instead.  A path that holds
\* neither is harmed, if this operation may harm it, and else lost; a directory
\* that was growing may be harmed too, and by the end of the power a path whose
\* own change failed before, and was only in the cache.  A harmed file is well again when it was
\* made anew, empty and without a cluster.
Ends(r, new, may, harms) ==
    LET disk == Seen(r.m)
        tree == Tree(disk)
        used == DOMAIN may
        Now(p) == Held(disk, tree, p)
        Fits(p) == Now(p) \in IF p \in used THEN may[p] ELSE {Of(p)}
        hurt == {p \in harms \cup IF r.off THEN unsure ELSE {} : ~(Fits(p) /\ Whole(disk, tree, p))} \cup
                {d \in {Front(p) : p \in used} : Stale(disk, tree, d)}
        Left(p) == IF p \notin used THEN Of(p) ELSE IF Fits(p) THEN Now(p) ELSE Mark("lost")
        anew == {p \in used \cap DOMAIN new : new[p] = <<>> /\ p \in DOMAIN tree /\ tree[p].first = 0}
        bad  == harmed \cup IF disk = Seen(m) THEN {} ELSE Spread(used, Seen(m))
    IN  /\ ops' = ops + 1
        /\ m' = r.m /\ powered' = ~r.off
        /\ faults' = IF r.struck THEN faults + 1 ELSE faults
        /\ harmed' = IF r.ok THEN bad \ anew ELSE bad \cup hurt
        /\ IF r.ok
           THEN /\ content' = Restrict(new, DOMAIN new \ harmed')
                /\ unsure' = IF new = content THEN unsure ELSE unsure \ used
                /\ UNCHANGED clean
           ELSE /\ content' = [p \in {q \in Paths \ harmed' : Left(q) # Gone} |-> Left(p)]
                /\ unsure' = unsure \cup used
                /\ clean' = (clean /\ ~r.struck /\ hurt = {} /\ disk = Seen(m))

\* A path through a file is not used: the code would take what the file holds
\* for entries.  Nothing is claimed of a volume whose root directory is harmed.
MayUse(p) ==
    /\ powered /\ ops < MaxOps /\ <<>> \notin harmed
    /\ Len(p) = 2 => Shown(<<p[1]>>) \in {Gone, Mark("dir")}

\* What is not followed: an old block taken for entries, and a file read or
\* written whose chain was freed or is shorter than its size: the code goes on to
\* the "cluster" 0, among the tables and the root directory, or to that of EOC.
Astray(call) ==
    LET disk == Seen(m)
        tree == Tree(disk)
    IN  \/ \E d \in {<<>>} \cup DOMAIN tree : Stale(disk, tree, d)
        \/ call.name \in {"append", "write", "read", "load"} /\ ~Whole(disk, tree, call.path)
\* The bytes that are written, and a file with the first n of them at from.
Byte(p, i) == [name |-> "byte", of |-> p, at |-> i, again |-> i < Len(Old(p))]
Bytes(p, from, n) == [i \in from..from + n - 1 |-> Byte(p, i)]
Overlaid(p, from, n) ==
    [i \in 1..Max({Len(Old(p)), from + n}) |->
        IF i - 1 \in from..from + n - 1 THEN Byte(p, i - 1) ELSE Old(p)[i]]
Total(lengths) == FoldFunction(+, 0, lengths)

(* The calls.  Those of the file handler have its object, and close it,      *)
(* whatever happens, if it could be opened; those of SdFat.cpp have an       *)
(* object of their own, which is gone at the end.                          *)

Flags == [create |-> {"read", "write", "creat", "trunc"}, append |-> {"write", "creat", "at_end"},
          write |-> {"read", "write", "creat", "at_end"}, read |-> {"read"},
          truncate |-> {"write"}, remove |-> {"write"}]
Looking == {"next", "entry", "stamp", "peek", "range", "exists", "count", "name", "list"}
HandlerCalls == {"create", "append", "write", "read"}
Unopened == {"mkdir", "contiguous", "next", "exists", "count", "list"}

RECURSIVE WriteAll(_, _, _)
WriteAll(o, p, lengths) ==
    IF lengths = <<>> THEN o
    ELSE WriteAll(Write(o, "file", Head(lengths), Bytes(p, o.obj["file"].pos, Head(lengths))),
                  p, Tail(lengths))

\* The file handler does not look at the result of seekSet(), and reads a byte
\* at a time as fgets() does.
At(o, call) ==
    IF call.name \in {"write", "read"} THEN Successful(SeekSet(o, "file", call.pos)) ELSE o
Handled(o, call) ==
    CASE call.name \in {"append", "write"} -> WriteAll(o, call.path, call.lengths)
      [] call.name = "read" -> Gets(o, "file", MaxSize)
      [] OTHER -> o
Closing(o) == [Close(Successful(o), "file") EXCEPT !.ok = @ /\ o.ok]
Handle(o, call) == IF o.ok THEN Closing(Handled(At(o, call), call)) ELSE o

OnObject(o, call) ==
    CASE call.name = "truncate" -> Truncate(o, "local", call.pos)
      [] call.name = "remove" -> RemoveFile(o, "local")
      [] call.name = "load" -> Read(SeekSet(o, "local", call.pos), "local", MaxSize)
      [] call.name = "rename" -> Rename(o, "local", call.to)
      [] call.name = "rmdir" -> Rmdir(o, "local")
      [] call.name = "rmtree" -> RmRfStar(o, "local")
      [] call.name = "entry" -> DirEntry(o, "local")
      [] call.name = "stamp" -> Timestamp(o, "local")
      [] call.name = "peek" -> Peek(o, "local")
      [] call.name = "range" -> ContiguousRange(o, "local")
      [] call.name = "name" -> GetFilename(o, "local")
      [] call.name = "list" -> Ls(o, "root", <<>>)
      [] call.name = "mkdir" -> Mkdir(o, "local", call.path)
      [] call.name = "contiguous" -> CreateContiguous(o, "local", call.path, MaxSize)
      [] call.name = "next" -> OpenNext(Rewind(o, "root"), "local", "root", {"read"})
      [] call.name = "exists" -> Exists(o, call.path)
      [] call.name = "count" -> FreeClusterCount(o)

OpenFor(s, call) ==
    IF call.name \in Unopened THEN s
    ELSE Open(s, IF call.name \in HandlerCalls THEN "file" ELSE "local", call.path,
              IF call.name \in DOMAIN Flags THEN Flags[call.name] ELSE {"read"})
Do(s, call) ==
    IF call.name \in HandlerCalls THEN Handle(OpenFor(s, call), call)
    ELSE CloseNow(OnObject(OpenFor(s, call), call), "local")

\* The paths and places a call is used with.
MayCall(call) ==
    LET p == call.path
        is == Shown(p)
    IN  /\ MayUse(p)
        /\ call.name \in {"create", "append"} => is # Mark("dir")
        /\ call.name \in {"write", "read", "load", "truncate", "remove"} => is \notin {Gone, Mark("dir")}
        /\ call.name \in {"write", "read", "load"} => call.pos <= Len(is)
        /\ call.name = "append" => Len(Old(p)) + Total(call.lengths) <= MaxSize
        /\ call.name = "write" => call.pos + Total(call.lengths) <= MaxSize
        /\ call.name = "truncate" => call.pos < Len(is)
        /\ call.name \in {"mkdir", "contiguous"} => is = Gone
        /\ call.name \in {"rmdir", "rmtree"} => is = Mark("dir")
        /\ call.name = "rename" => /\ is # Gone /\ MayUse(call.to) /\ p # call.to
                                   /\ \A n \in SubNames : p = <<Dir>> => Shown(<<Dir, n>>) = Gone
        /\ call.name \in Looking => is # Gone

\* A call goes through, or one of its accesses to the card fails, or the power
\* goes at one.
Outcomes(call) ==
    LET run[fuse \in Int, cut \in BOOLEAN] == Do([m EXCEPT !.fuse = fuse, !.cut = cut], call)
        accesses == -1 - run[-1, FALSE].fuse
        struck   == IF faults < MaxFaults THEN 0..accesses - 1 ELSE {}
    IN  {Over(run[f]) : f \in {<<-1, FALSE>>} \cup (struck \X BOOLEAN)}

(* The file handler, on p. *)

Create(p, r) == Ends(r, Put(content, p, <<>>), p :> {Of(p), <<>>}, {p})

AppendTo(p, lengths, r) ==
    LET size == Len(Old(p))
        n    == Total(lengths)
    IN  Ends(r, Put(content, p, Overlaid(p, size, n)),
             p :> ({Of(p)} \cup {Overlaid(p, size, k) : k \in 0..n}), {})

WriteAt(p, pos, lengths, r) ==
    LET n == Total(lengths)
    IN  Ends(r, [content EXCEPT ![p] = Overlaid(p, pos, n)],
             p :> {Overlaid(p, pos, k) : k \in 0..n}, {p})

\* What is read is what the file holds.
Right(p, is) == IF is THEN content ELSE [content EXCEPT ![p] = Mark("misread")]
ReadAt(p, pos, r) ==
    LET its == SubSeq(Of(p), pos + 1, Min({pos + MaxSize, Len(Of(p))}))
    IN  Ends(r, Right(p, Sane(p, harmed) => r.got = its), p :> {Of(p)}, {})

(* Files and directories, by SdFat.cpp. *)

Shorten(p, length, r) ==
    LET left == SubSeq(Of(p), 1, length)
    IN  Ends(r, Put(content, p, left), p :> {Of(p), left}, {p})

Delete(p, r) == Ends(r, Without(content, p), p :> {Of(p), Gone}, {p})

RenameTo(p, q, r) ==
    Ends(r, Put(Without(content, p), q, Of(p)), p :> {Of(p), Gone} @@ q :> {Of(p), Of(q)}, {p, q})

\* A directory that got no cluster stays behind as an empty file.
MakeDir(p, r) == Ends(r, Put(content, p, Mark("dir")), p :> {Gone, <<>>, Mark("dir")}, {p})

RemoveDir(p, r) == Ends(r, Without(content, p), p :> {Mark("dir"), Gone}, {p})

\* A directory and all that is in it.
RemoveAll(p, r) ==
    LET below == {q \in DOMAIN content \cup DOMAIN Tree(Seen(m)) : q[1] = p[1]}
    IN  Ends(r, Restrict(content, DOMAIN content \ below), [q \in below |-> {Of(q), Gone}], below)

\* A file of a given size in clusters one behind the other, whatever they hold.
Contiguous(p, r) ==
    LET data == Held(Seen(r.m), Tree(Seen(r.m)), p)
    IN  Ends(r, Put(content, p, IF Len(data) = MaxSize THEN data ELSE Mark("short")),
             p :> ({Gone, <<>>} \cup {d \in {data} : Len(d) = MaxSize}), {})

\* What only looks: the result is left out, the cache is not.
Look(p, r) == Ends(r, content, p :> {Of(p)}, {})

\* The list of the root directory, and all below it, has every path once.
List(p, r) ==
    LET Good(paths) == {q \in paths : Sane(q, harmed)}
    IN  Ends(r, Right(p, /\ Good(Range(r.list)) = Good(DOMAIN content)
                        /\ IsInjective(r.list)), p :> {Of(p)}, {})

\* The sketch starts again and mounts the card.
Mount ==
    /\ ~powered /\ powered' = TRUE
    /\ m' = Quiet(Begin(m.disk))
    /\ UNCHANGED <<ops, faults, content, harmed, unsure, clean>>

\* An operation that is not followed: nothing is claimed from then on.
GoAstray ==
    /\ harmed' = harmed \cup {<<>>} /\ ops' = ops + 1
    /\ UNCHANGED <<m, powered, faults, content, unsure, clean>>

\* Files of the root directory, written by the file handler; and a directory
\* with files of one byte.
FileCalls ==
    LET p == {q \in Files : Len(q) = 1}
    IN  [name : {"create", "remove", "contiguous"}, path : p] \cup
        [name : {"append"}, path : p, lengths : Writes] \cup
        [name : {"write"}, path : p, pos : Places, lengths : Writes] \cup
        [name : {"read", "load", "truncate"}, path : p, pos : Places]
TreeCalls ==
    [name : {"append"}, path : {p \in Files : Old(p) = <<>>}, lengths : {<<1>>}] \cup
    [name : {"remove"}, path : Files] \cup
    [name : {"mkdir", "rmdir", "rmtree"}, path : {<<Dir>>}] \cup
    [name : {"rename"}, path : Paths, to : Paths] \cup
    [name : Looking \ {"next", "count", "list"}, path : Paths] \cup
    [name : {"next", "count", "list"}, path : {<<Dir>>}]

Next ==
    /\ UNCHANGED kind
    /\ \/ Mount
       \/ \E call \in {c \in (IF kind.calls = "files" THEN FileCalls ELSE TreeCalls) : MayCall(c)} :
          \/ Astray(call) /\ GoAstray
          \/ ~Astray(call) /\ \E r \in Outcomes(call) :
              LET p  == call.path
                  Is(name) == call.name = name
              IN  \/ Is("create") /\ Create(p, r)
                  \/ Is("append") /\ AppendTo(p, call.lengths, r)
                  \/ Is("write") /\ WriteAt(p, call.pos, call.lengths, r)
                  \/ call.name \in {"read", "load"} /\ ReadAt(p, call.pos, r)
                  \/ Is("truncate") /\ Shorten(p, call.pos, r)
                  \/ Is("remove") /\ Delete(p, r)
                  \/ Is("rename") /\ RenameTo(p, call.to, r)
                  \/ Is("mkdir") /\ MakeDir(p, r)
                  \/ Is("rmdir") /\ RemoveDir(p, r)
                  \/ Is("rmtree") /\ RemoveAll(p, r)
                  \/ Is("contiguous") /\ Contiguous(p, r)
                  \/ Is("list") /\ List(p, r)
                  \/ call.name \in Looking \ {"list"} /\ Look(p, r)

Spec == Init /\ [][Next]_vars
-----------------------------------------------------------------------------
\* Through the cache and the table every path that is not harmed shows what the
\* operations that succeeded put there, and after one that failed only what it
\* may have left: an operation on paths that are not harmed changes no other
\* file, and one on harmed paths none but those whose clusters they lead to (the
\* one cache block of SdVolume.cpp, the position and cluster of SdBaseFile.cpp).
ContentIsSeen ==
    LET disk == Seen(m)
        tree == Tree(disk)
    IN  \A p \in Paths : Sane(p, harmed) => Held(disk, tree, p) = Of(p)

\* The chains of different files and directories that are not harmed end, have
\* no cluster in common and are as long as the sizes say, whatever operation
\* failed before: no fault lets one be written into another, until a file that
\* was harmed is changed again, and then only those its chain leads to
\* (allocContiguous(), freeChain(), truncate()).
ChainsSound ==
    LET disk == Seen(m)
        tree == Tree(disk)
        live == {p \in DOMAIN tree : Sane(p, harmed)}
    IN  powered =>
        \A p \in live :
            /\ Whole(disk, tree, p)
            /\ \A q \in (live \ {p}) \cup {<<>>} :
                   Its(disk, tree, p) \cap Its(disk, tree, q) = {}

\* As long as no operation failed half way, a cluster is in the table as used
\* just when a file or directory needs it: what is removed or cut off comes
\* back, and a file that cannot be made keeps nothing.
NoClusterIsLost ==
    LET disk == Seen(m)
        tree == Tree(disk)
        Need(p) == (tree[p].size + ClusterUnits - 1) \div ClusterUnits
    IN  powered /\ clean =>
        /\ \A p \in DOMAIN tree : tree[p].dir \/ Cardinality(Its(disk, tree, p)) = Need(p)
        /\ \A c \in Clusters :
               Fat(disk, c) # Free <=> \E p \in DOMAIN tree \cup {<<>>} : c \in Its(disk, tree, p)

\* What an operation that succeeded did to a path that is not harmed is on the
\* card itself when it is over, whatever block is in the cache: the power may
\* go (cacheSync(), sync()).
PromisedIsOnCard ==
    LET tree == Tree(m.disk)
    IN  \A p \in Paths \ unsure : Sane(p, harmed) => Held(m.disk, tree, p) = Of(p)
=============================================================================
