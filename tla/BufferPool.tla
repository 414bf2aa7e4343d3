----------------------------- MODULE BufferPool -----------------------------
(***************************************************************************)
(* The page cache of the SQL storage library (lib/sql/bufferpool.cpp, with *)
(* the clock of lib/sql/cache.h and the File objects of lib/sql/file.cpp). *)
(*                                                                         *)
(* A File object is one open descriptor; every Database::getTable and      *)
(* every Catalog call opens a new one.  A frame caches one page under the  *)
(* key (descriptor, page index).  Users of the pool hold Frame objects     *)
(* ("pins"): a raw pointer into the pool that stays valid C++ even after   *)
(* the frame underneath was given to another page.                         *)
(*                                                                         *)
(* A page's content is one value: the value last stored through a pin.     *)
(* "logical" and "heldFor" are history: what the last writer of a page     *)
(* stored, and the cache misses since a frame was last unpinned.           *)
(***************************************************************************)
EXTENDS Integers, FiniteSets

CONSTANTS
    FrameCount,     \* the frame_count argument of BufferPool
    Files,          \* the files of the store's directory
    Fds,            \* descriptors the kernel may hand out (0 is stdin)
    MaxPages,       \* bound: pages a file may grow to
    Values,         \* page contents
    Zero,           \* the content of a page that was just allocated
    Users,          \* holders of Frame objects, one pin each at a time
    MaxAge,         \* bound: misses counted per pinned frame
    NoFile          \* a descriptor that is not open

ASSUME FrameCountAssumption == FrameCount \in Nat \ {0}
ASSUME FdsAssumption == Fds \subseteq Nat \ {0}
ASSUME MaxPagesAssumption == MaxPages \in Nat \ {0}
ASSUME ValuesAssumption == Zero \in Values
ASSUME MaxAgeAssumption == MaxAge \in Nat
ASSUME UsersAssumption == IsFiniteSet(Users)
ASSUME NoFileAssumption == NoFile \notin Files

VARIABLES
    disk,           \* what the files hold
    fileSize,       \* their real number of pages
    open,           \* descriptor -> the file it is open on
    size,           \* the page count each File object remembers
    owned,          \* descriptors some table handle still refers to
    frames, keys, clock, hand,
    pins,           \* live Frame objects
    running,        \* FALSE between ~FramePool and the next process
    logical, heldFor

vars == <<disk, fileSize, open, size, owned, frames, keys, clock, hand, pins,
          running, logical, heldFor>>

-----------------------------------------------------------------------------
Frames == 0 .. FrameCount - 1
Pages == 0 .. MaxPages - 1
NoFd == 0           \* frame.file is null
NoFrame == -1       \* the user holds no Frame object

EmptyFrame == [fd |-> NoFd, page |-> 0, data |-> Zero, refs |-> 0]
NoPin == [frame |-> NoFrame, file |-> NoFile, page |-> 0]

FrameType == [fd : Fds \cup {NoFd}, page : Pages, data : Values, refs : Nat]
PinType == [frame : Frames \cup {NoFrame}, file : Files \cup {NoFile},
            page : Pages]
KeyType == (Fds \cup {NoFd}) \X Pages

\* Type invariant: every variable of the pool, of the clock and of the File
\* objects stays in its range; in particular ref_count, a size_t, never wraps.
TypeOK ==
    /\ disk \in [Files -> [Pages -> Values]]
    /\ fileSize \in [Files -> 0 .. MaxPages]
    /\ open \in [Fds -> Files \cup {NoFile}]
    /\ size \in [Fds -> 0 .. MaxPages]
    /\ owned \subseteq Fds
    /\ frames \in [Frames -> FrameType]
    /\ keys \in [Frames -> KeyType]
    /\ clock \in [Frames -> 0 .. 1]
    /\ hand \in Frames
    /\ pins \in [Users -> PinType]
    /\ running \in BOOLEAN
    /\ logical \in [Files -> [Pages -> Values]]
    /\ heldFor \in [Frames -> 0 .. MaxAge]

\* A pool with no frame filled, all its keys (0, 0), and no File object.
NoFiles == [fd \in Fds |-> NoFile]
NoSizes == [fd \in Fds |-> 0]
EmptyFrames == [i \in Frames |-> EmptyFrame]
EmptyKeys == [i \in Frames |-> <<NoFd, 0>>]
EmptyClock == [i \in Frames |-> 0]
NotHeld == [i \in Frames |-> 0]

Init ==
    /\ disk = [f \in Files |-> [p \in Pages |-> Zero]]
    /\ fileSize = [f \in Files |-> 0]
    /\ open = NoFiles
    /\ size = NoSizes
    /\ owned = {}
    /\ frames = EmptyFrames
    /\ keys = EmptyKeys
    /\ clock = EmptyClock
    /\ hand = 0
    /\ pins = [u \in Users |-> NoPin]
    /\ running = TRUE
    /\ logical = disk
    /\ heldFor = NotHeld

-----------------------------------------------------------------------------
Holds(u) == pins[u].frame # NoFrame

\* The page frame i caches; frame.file must be set.
FileOf(i) == open[frames[i].fd]

\* Mutant: a frame does not keep its File object alive.
StillOpenByHandles(handles, pool) ==
    [fd \in Fds |-> IF fd \in handles THEN open[fd] ELSE NoFile]

\* shared_ptr<File>: a descriptor stays open while a table handle or a frame
\* refers to its File object, and is closed by ~File otherwise.
StillOpen(handles, pool) ==
    [fd \in Fds |-> IF fd \in handles \/ \E i \in Frames : pool[i].fd = fd
                    THEN open[fd] ELSE NoFile]

\* File::File: opens an existing file and remembers its size.
Open(f, fd) ==
    /\ running
    /\ open[fd] = NoFile
    /\ open' = [open EXCEPT ![fd] = f]
    /\ size' = [size EXCEPT ![fd] = fileSize[f]]
    /\ owned' = owned \cup {fd}
    /\ UNCHANGED <<disk, fileSize, frames, keys, clock, hand, pins, running,
                   logical, heldFor>>

\* The last table handle on a File object goes away.
Close(fd) ==
    /\ running
    /\ fd \in owned
    /\ owned' = owned \ {fd}
    /\ open' = StillOpen(owned', frames)
    /\ UNCHANGED <<disk, fileSize, size, frames, keys, clock, hand, pins,
                   running, logical, heldFor>>

\* Mutant: FALLOC_FL_KEEP_SIZE.
GrownKeepingSize(f, p) == fileSize

\* fallocate: the file gets longer when the page is beyond its end.
Grown(f, p) == [fileSize EXCEPT ![f] = IF @ > p THEN @ ELSE p + 1]

\* File::allocPage: the page after the size this object remembers, zeroed in
\* the file whatever the file really holds there.
AllocPage(fd) ==
    LET f == open[fd]
        p == size[fd]
    IN  /\ running
        /\ fd \in owned
        /\ p < MaxPages
        /\ disk' = [disk EXCEPT ![f][p] = Zero]
        /\ fileSize' = Grown(f, p)
        /\ size' = [size EXCEPT ![fd] = p + 1]
        /\ logical' = IF fileSize[f] > p THEN logical
                      ELSE [logical EXCEPT ![f][p] = Zero]
        /\ UNCHANGED <<open, owned, frames, keys, clock, hand, pins, running,
                       heldFor>>

-----------------------------------------------------------------------------
\* ClockCache::find: the first slot with the key.
Found(i, key) == keys[i] = key /\ \A j \in Frames : j < i => keys[j] # key

\* Mutants: lock and unlock leave the bits alone.
LockNothing(key) == clock
UnlockNothing(key) == clock

Lock(key) == [i \in Frames |-> IF keys[i] = key THEN 1 ELSE clock[i]]
Unlock(key) == [i \in Frames |-> IF keys[i] = key THEN 0 ELSE clock[i]]

\* Mutant: nothing is written back.
DumpedNever(i) == disk

\* FramePool::dumpFrame: written whether or not the page was changed.
Dumped(i) ==
    IF frames[i].fd = NoFd THEN disk
    ELSE [disk EXCEPT ![FileOf(i)][frames[i].page] = frames[i].data]

Pin(u, i, fd, p) ==
    pins' = [pins EXCEPT ![u] = [frame |-> i, file |-> open[fd], page |-> p]]

\* ClockCache::put: the hand clears the bits of k slots and stops at the
\* first clear one, at the latest where it started.
Slot(k) == (hand + k) % FrameCount
Sweeps(k) ==
    /\ \A j \in 0 .. k - 1 : clock[Slot(j)] = 1
    /\ k = FrameCount \/ clock[Slot(k)] = 0
\* Mutant: the hand moves on before the key is stored.
PutBehind(k, key) ==
    /\ Sweeps(k)
    /\ keys' = [keys EXCEPT ![Slot(k + 1)] = key]
    /\ clock' = [j \in Frames |->
                    IF j = Slot(k) THEN 1
                    ELSE IF \E l \in 0 .. k - 1 : j = Slot(l) THEN 0
                    ELSE clock[j]]
    /\ hand' = Slot(k + 1)

Put(k, key) ==
    /\ Sweeps(k)
    /\ keys' = [keys EXCEPT ![Slot(k)] = key]
    /\ clock' = [j \in Frames |->
                    IF j = Slot(k) THEN 1
                    ELSE IF \E l \in 0 .. k - 1 : j = Slot(l) THEN 0
                    ELSE clock[j]]
    /\ hand' = (Slot(k) + 1) % FrameCount

\* Mutant: the reference count starts anew.
LoadCountingAnew(i, fd, p) ==
    /\ disk' = Dumped(i)
    /\ frames' = [frames EXCEPT ![i] =
                    [fd |-> fd, page |-> p, data |-> disk'[open[fd]][p],
                     refs |-> 1]]
    /\ open' = StillOpen(owned, frames')

\* The victim is written back before the wanted page is read, and keeps the
\* reference count of the page it held.
Load(i, fd, p) ==
    /\ disk' = Dumped(i)
    /\ frames' = [frames EXCEPT ![i] =
                    [fd |-> fd, page |-> p, data |-> disk'[open[fd]][p],
                     refs |-> @.refs + 1]]
    /\ open' = StillOpen(owned, frames')

Hit(u, fd, p) ==
    \E i \in Frames :
        /\ Found(i, <<fd, p>>)
        /\ frames' = [frames EXCEPT ![i].refs = @ + 1]
        /\ clock' = IF frames[i].refs = 0 THEN Lock(<<fd, p>>) ELSE clock
        /\ Pin(u, i, fd, p)
        /\ UNCHANGED <<disk, open, keys, hand, heldFor>>

Miss(u, fd, p) ==
    /\ ~\E i \in Frames : Found(i, <<fd, p>>)
    /\ \E k \in 0 .. FrameCount :
        /\ Put(k, <<fd, p>>)
        /\ Load(Slot(k), fd, p)
        /\ Pin(u, Slot(k), fd, p)
    /\ heldFor' = [i \in Frames |->
                     IF frames[i].refs > 0 /\ heldFor[i] < MaxAge
                     THEN heldFor[i] + 1 ELSE heldFor[i]]

\* FramePool::acquireFrame, for a page below the size the handle remembers.
Acquire(u, fd, p) ==
    /\ running
    /\ ~Holds(u)
    /\ fd \in owned
    /\ p < size[fd]
    /\ Hit(u, fd, p) \/ Miss(u, fd, p)
    /\ UNCHANGED <<fileSize, size, owned, running, logical>>

\* A store through the pointer of a Frame object, into whatever the frame
\* holds by now.
Write(u, v) ==
    /\ Holds(u)
    /\ frames' = [frames EXCEPT ![pins[u].frame].data = v]
    /\ logical' = [logical EXCEPT ![pins[u].file][pins[u].page] = v]
    /\ UNCHANGED <<disk, fileSize, open, size, owned, keys, clock, hand, pins,
                   running, heldFor>>

\* FramePool::releaseFrame, from ~Frame.
Release(u) ==
    LET i == pins[u].frame IN
    /\ Holds(u)
    /\ frames' = [frames EXCEPT ![i].refs = @ - 1]
    /\ clock' = IF frames[i].refs = 1
                THEN Unlock(<<frames[i].fd, frames[i].page>>) ELSE clock
    /\ pins' = [pins EXCEPT ![u] = NoPin]
    /\ heldFor' = [heldFor EXCEPT ![i] = IF frames[i].refs = 1 THEN 0 ELSE @]
    /\ UNCHANGED <<disk, fileSize, open, size, owned, keys, hand, running,
                   logical>>

-----------------------------------------------------------------------------
CachedIn(i, f, p) ==
    frames[i].fd # NoFd /\ FileOf(i) = f /\ frames[i].page = p

\* Mutant: the destructor stops before the last frame.
DumpedAllButLast ==
    [f \in Files |-> [p \in Pages |->
        IF \E i \in Frames \ {FrameCount - 1} : CachedIn(i, f, p)
        THEN frames[CHOOSE i \in Frames : CachedIn(i, f, p)].data
        ELSE disk[f][p]]]

\* ~FramePool dumps the frames in order: of two frames that hold the same
\* page of a file under two descriptors, the later one wins.
DumpedAll ==
    [f \in Files |-> [p \in Pages |->
        IF \E i \in Frames : CachedIn(i, f, p)
        THEN LET last == CHOOSE i \in Frames :
                            /\ CachedIn(i, f, p)
                            /\ \A j \in Frames : CachedIn(j, f, p) => j <= i
             IN  frames[last].data
        ELSE disk[f][p]]]

\* An orderly exit: no Frame object is left, the pool is destroyed.
Shutdown ==
    /\ running
    /\ \A u \in Users : ~Holds(u)
    /\ disk' = DumpedAll
    /\ open' = NoFiles
    /\ size' = NoSizes
    /\ owned' = {}
    /\ frames' = EmptyFrames
    /\ keys' = EmptyKeys
    /\ clock' = EmptyClock
    /\ hand' = 0
    /\ running' = FALSE
    /\ UNCHANGED <<fileSize, pins, logical, heldFor>>

\* The next process starts with an empty pool on the same directory.
Start ==
    /\ ~running
    /\ running' = TRUE
    /\ UNCHANGED <<disk, fileSize, open, size, owned, frames, keys, clock,
                   hand, pins, logical, heldFor>>

Next ==
    \/ \E f \in Files, fd \in Fds : Open(f, fd)
    \/ \E fd \in Fds : Close(fd) \/ AllocPage(fd)
    \/ \E u \in Users, fd \in Fds, p \in Pages : Acquire(u, fd, p)
    \/ \E u \in Users, v \in Values : Write(u, v)
    \/ \E u \in Users : Release(u)
    \/ Shutdown
    \/ Start

Spec == Init /\ [][Next]_vars
-----------------------------------------------------------------------------
(* Properties of the pool whatever its users do.                           *)

\* A frame is found under the descriptor and the page it caches: what the two
\* asserts of FramePool::acquireFrame say of a hit, for every frame.
KeysMatchFrames ==
    \A i \in Frames : keys[i] = <<frames[i].fd, frames[i].page>>

\* No page is cached twice under one descriptor, so ClockCache::find, lock and
\* unlock, which go by key, always mean one frame.
OneFramePerKey ==
    \A i, j \in Frames : frames[i].fd # NoFd /\ keys[i] = keys[j] => i = j

\* Together: the clock's key always means the frame that caches the page.
KeysIdentify == KeysMatchFrames /\ OneFramePerKey

\* The descriptor a frame is keyed by is still open: the kernel cannot give
\* its number to another file while the cache would answer for it.
CachedFdsOpen ==
    \A i \in Frames : frames[i].fd # NoFd => open[frames[i].fd] # NoFile

Pinners(i) == {u \in Users : pins[u].frame = i}

\* A frame counts the Frame objects that point at it, also those whose page
\* was evicted under them.
RefsCountPins == \A i \in Frames : frames[i].refs = Cardinality(Pinners(i))

\* A frame nobody holds never has its clock bit set: ClockCache::unlock always
\* finds the slot that lock set, so no idle frame is kept from eviction.
IdleFramesUnlocked ==
    \A i \in Frames : frames[i].refs = 0 => clock[i] = 0

\* Together: whatever was stolen, counts come back to zero, and a frame with
\* none is free for eviction.
RefsCountHolders == RefsCountPins /\ IdleFramesUnlocked

\* No File object believes in pages its file does not have: a read below the
\* remembered size never hits the end of the file, where File::read would
\* retry its short pread for ever.
SizeWithinFile ==
    \A fd \in Fds : open[fd] # NoFile => size[fd] <= fileSize[open[fd]]

\* The frame under user u's pointer was given to another page.
Stolen(u) ==
    /\ Holds(u)
    /\ LET i == pins[u].frame IN ~CachedIn(i, pins[u].file, pins[u].page)
NoneStolen == \A u \in Users : ~Stolen(u)

\* Nothing but the clock protects a pinned frame, and the clock does so for
\* one turn only: with n users a miss moves the hand by n - 1 slots at most,
\* and the first pinned frame that is given away was pinned without a break
\* until the hand came round, the miss that takes it included.
PinOutlivesATurn ==
    [][NoneStolen /\ ~NoneStolen' =>
         \A u \in Users :
            Stolen(u)' =>
                (heldFor[pins[u].frame] + 1) * (Cardinality(Users) - 1)
                    >= FrameCount]_vars

-----------------------------------------------------------------------------
(* Two ways of using the pool that keep what is written, and one that does *)
(* not: see the README.                                                    *)

\* Every user releases its page before anybody asks for the next one.
OnePinAtATime == \A u, w \in Users : Holds(u) /\ Holds(w) => u = w

\* A file is opened again only when no frame keeps its old descriptor.
OneObjectPerFile ==
    \A fd, gd \in Fds : open[fd] # NoFile /\ open[fd] = open[gd] => fd = gd

\* A table is opened again only when the previous handle on it is gone: what
\* a sequence of SQL statements or chunk queries does.
OneHandleAtATime ==
    \A fd, gd \in owned : open[fd] = open[gd] => fd = gd

SpecSoleObject == Init /\ [][Next /\ (OnePinAtATime /\ OneObjectPerFile)']_vars
SpecSequential == Init /\ [][Next /\ (OnePinAtATime /\ OneHandleAtATime)']_vars

\* Whoever holds a page sees what was last written to it, through whichever
\* handle: neither the frame nor the file it was read from was stale.
PinsSeeLastWrite ==
    \A u \in Users :
        Holds(u) => frames[pins[u].frame].data
                      = logical[pins[u].file][pins[u].page]

\* With one File object per file, the destructor of the pool leaves in the files
\* all that was written, whichever frames its pages were evicted from and read
\* back into since.
DurableAfterShutdown == ~running => disk = logical
=============================================================================
