-------------------------- MODULE BufferPoolProofs --------------------------
(***************************************************************************)
(* What the page cache guarantees for every number of frames, files,       *)
(* descriptors and users, whatever the users do.                           *)
(***************************************************************************)
EXTENDS BufferPool, FiniteSetTheorems, TLAPS

\* A table handle's descriptor is open, and remembers no more pages than the
\* file has.
OwnedFdsOpen == \A fd \in owned : open[fd] # NoFile

\* A Frame object was made for a page of some file.
PinsNameFiles == \A u \in Users : Holds(u) => pins[u].file \in Files

\* The inductive invariant: TypeOK needs RefsCountPins (a release never takes
\* the count below zero) and CachedFdsOpen (a frame is dumped to a file);
\* IdleFramesUnlocked needs the two facts on keys.
IInv ==
    /\ TypeOK
    /\ KeysMatchFrames
    /\ OneFramePerKey
    /\ OwnedFdsOpen
    /\ CachedFdsOpen
    /\ SizeWithinFile
    /\ RefsCountPins
    /\ IdleFramesUnlocked
    /\ PinsNameFiles

USE FrameCountAssumption, FdsAssumption, MaxPagesAssumption,
    ValuesAssumption, MaxAgeAssumption, NoFileAssumption

-----------------------------------------------------------------------------
LEMMA PinnersFinite ==
    ASSUME NEW i
    PROVE  IsFiniteSet(Pinners(i)) /\ Cardinality(Pinners(i)) \in Nat
<1>1. Pinners(i) \subseteq Users
    BY DEF Pinners
<1> QED
    BY <1>1, UsersAssumption, FS_Subset, FS_CardinalityType

\* Nothing but a new and a dropped Frame object changes who pins a frame.
LEMMA CountsUnchanged ==
    ASSUME RefsCountPins, UNCHANGED pins,
           \A i \in Frames : frames'[i].refs = frames[i].refs
    PROVE  RefsCountPins'
BY DEF RefsCountPins, Pinners, Frames

LEMMA CountsPin ==
    ASSUME RefsCountPins, NEW u \in Users, NEW i \in Frames, ~Holds(u),
           NEW fd, NEW p, Pin(u, i, fd, p), pins \in [Users -> PinType],
           \A j \in Frames :
              frames'[j].refs = IF j = i THEN frames[j].refs + 1
                                ELSE frames[j].refs
    PROVE  RefsCountPins'
<1> SUFFICES ASSUME NEW j \in Frames
             PROVE  frames'[j].refs = Cardinality(Pinners(j)')
    BY DEF RefsCountPins, Frames
<1>0. pins[u].frame = -1
    BY DEF Holds, NoFrame
<1>1. CASE j = i
    <2>1. Pinners(j)' = Pinners(j) \cup {u}
        BY <1>1 DEF Pinners, Pin, PinType
    <2>2. u \notin Pinners(j)
        BY <1>0 DEF Pinners, Frames
    <2>3. IsFiniteSet(Pinners(j))
        BY PinnersFinite
    <2>4. Cardinality(Pinners(j) \cup {u}) = Cardinality(Pinners(j)) + 1
        BY <2>2, <2>3, FS_AddElement
    <2> QED
        BY <1>1, <2>1, <2>4 DEF RefsCountPins
<1>2. CASE j # i
    <2>1. Pinners(j)' = Pinners(j)
        BY <1>0, <1>2 DEF Pinners, Pin, PinType, Frames
    <2> QED
        BY <1>2, <2>1 DEF RefsCountPins
<1> QED
    BY <1>1, <1>2

LEMMA CountsUnpin ==
    ASSUME RefsCountPins, NEW u \in Users, NEW i \in Frames,
           pins \in [Users -> PinType], pins[u].frame = i,
           pins' = [pins EXCEPT ![u] = NoPin],
           \A j \in Frames :
              frames'[j].refs = IF j = i THEN frames[j].refs - 1
                                ELSE frames[j].refs
    PROVE  RefsCountPins'
<1> SUFFICES ASSUME NEW j \in Frames
             PROVE  frames'[j].refs = Cardinality(Pinners(j)')
    BY DEF RefsCountPins, Frames
<1>0. NoPin.frame = -1
    BY DEF NoPin, NoFrame
<1>1. CASE j = i
    <2>1. Pinners(j)' = Pinners(j) \ {u}
        BY <1>0, <1>1 DEF Pinners, PinType, Frames
    <2>2. u \in Pinners(j)
        BY <1>1 DEF Pinners
    <2>3. IsFiniteSet(Pinners(j))
        BY PinnersFinite
    <2>4. Cardinality(Pinners(j) \ {u}) = Cardinality(Pinners(j)) - 1
        BY <2>2, <2>3, FS_RemoveElement
    <2> QED
        BY <1>1, <2>1, <2>4 DEF RefsCountPins
<1>2. CASE j # i
    <2>1. Pinners(j)' = Pinners(j)
        BY <1>0, <1>2 DEF Pinners, PinType, Frames
    <2> QED
        BY <1>2, <2>1 DEF RefsCountPins
<1> QED
    BY <1>1, <1>2

\* The frame a pin points at is counted at least once.
LEMMA HeldIsCounted ==
    ASSUME IInv, NEW u \in Users, Holds(u)
    PROVE  /\ pins[u].frame \in Frames
           /\ frames[pins[u].frame].refs \in Nat \ {0}
<1>1. pins[u].frame \in Frames
    BY DEF IInv, TypeOK, PinType, Holds
<1>2. u \in Pinners(pins[u].frame)
    BY DEF Pinners
<1>3. Cardinality(Pinners(pins[u].frame)) # 0
    BY <1>2, PinnersFinite, FS_EmptySet
<1> QED
    BY <1>1, <1>3, PinnersFinite DEF IInv, RefsCountPins

\* The clock's hand stays on the clock.
LEMMA SlotIsFrame ==
    ASSUME hand \in Frames, NEW k \in Nat
    PROVE  Slot(k) \in Frames
BY DEF Frames, Slot

-----------------------------------------------------------------------------
(* One lemma per action.                                                   *)

LEMMA OpenKeeps ==
    ASSUME IInv, NEW f \in Files, NEW fd \in Fds, Open(f, fd)
    PROVE  IInv'
<1> USE DEF IInv, Open
<1>1. TypeOK'
    BY DEF TypeOK
<1>2. KeysMatchFrames' /\ OneFramePerKey' /\ IdleFramesUnlocked'
    BY DEF KeysMatchFrames, OneFramePerKey, IdleFramesUnlocked, Frames
<1>3. OwnedFdsOpen' /\ CachedFdsOpen'
    BY DEF OwnedFdsOpen, CachedFdsOpen, TypeOK, FrameType, Frames
<1>4. SizeWithinFile'
    BY DEF SizeWithinFile, TypeOK
<1>5. RefsCountPins'
    BY CountsUnchanged
<1>6. PinsNameFiles'
    BY DEF PinsNameFiles, Holds
<1> QED
    BY <1>1, <1>2, <1>3, <1>4, <1>5, <1>6

LEMMA CloseKeeps ==
    ASSUME IInv, NEW fd \in Fds, Close(fd)
    PROVE  IInv'
<1> USE DEF IInv, Close
<1>1. TypeOK'
    BY DEF TypeOK, StillOpen
<1>2. KeysMatchFrames' /\ OneFramePerKey' /\ IdleFramesUnlocked'
    BY DEF KeysMatchFrames, OneFramePerKey, IdleFramesUnlocked, Frames
<1>3. OwnedFdsOpen' /\ CachedFdsOpen'
    BY DEF OwnedFdsOpen, CachedFdsOpen, TypeOK, FrameType, StillOpen, Frames
<1>4. SizeWithinFile'
    BY DEF SizeWithinFile, StillOpen
<1>5. RefsCountPins'
    BY CountsUnchanged
<1>6. PinsNameFiles'
    BY DEF PinsNameFiles, Holds
<1> QED
    BY <1>1, <1>2, <1>3, <1>4, <1>5, <1>6

LEMMA AllocPageKeeps ==
    ASSUME IInv, NEW fd \in Fds, AllocPage(fd)
    PROVE  IInv'
<1> USE DEF IInv, AllocPage, Grown
<1>0. /\ open[fd] \in Files
      /\ size[fd] \in Pages
    BY DEF TypeOK, OwnedFdsOpen, Pages
<1>1. TypeOK'
    <2>1. disk' \in [Files -> [Pages -> Values]]
        BY <1>0 DEF TypeOK
    <2>2. logical' \in [Files -> [Pages -> Values]]
        BY <1>0 DEF TypeOK
    <2>3. /\ fileSize' \in [Files -> 0 .. MaxPages]
          /\ size' \in [Fds -> 0 .. MaxPages]
        BY <1>0 DEF TypeOK, Pages
    <2> QED
        BY <2>1, <2>2, <2>3 DEF TypeOK
<1>2. KeysMatchFrames' /\ OneFramePerKey' /\ IdleFramesUnlocked'
    BY DEF KeysMatchFrames, OneFramePerKey, IdleFramesUnlocked, Frames
<1>3. OwnedFdsOpen' /\ CachedFdsOpen'
    BY DEF OwnedFdsOpen, CachedFdsOpen, Frames
<1>4. SizeWithinFile'
    BY <1>0 DEF SizeWithinFile, TypeOK, Pages
<1>5. RefsCountPins'
    BY CountsUnchanged
<1>6. PinsNameFiles'
    BY DEF PinsNameFiles, Holds
<1> QED
    BY <1>1, <1>2, <1>3, <1>4, <1>5, <1>6

LEMMA WriteKeeps ==
    ASSUME IInv, NEW u \in Users, NEW v \in Values, Write(u, v)
    PROVE  IInv'
<1> USE DEF IInv, Write
<1>0. pins[u].frame \in Frames /\ pins[u].file \in Files /\ pins[u].page \in Pages
    BY HeldIsCounted DEF TypeOK, PinType, PinsNameFiles
<1>1. TypeOK'
    BY <1>0 DEF TypeOK, FrameType
<1>2. \A i \in Frames : /\ frames'[i].fd = frames[i].fd
                        /\ frames'[i].page = frames[i].page
                        /\ frames'[i].refs = frames[i].refs
    BY <1>0 DEF TypeOK, FrameType
<1>3. KeysMatchFrames' /\ OneFramePerKey' /\ IdleFramesUnlocked'
    BY <1>2 DEF KeysMatchFrames, OneFramePerKey, IdleFramesUnlocked, Frames
<1>4. OwnedFdsOpen' /\ CachedFdsOpen' /\ SizeWithinFile'
    BY <1>2 DEF OwnedFdsOpen, CachedFdsOpen, SizeWithinFile, Frames
<1>5. RefsCountPins'
    BY <1>2, CountsUnchanged
<1>6. PinsNameFiles'
    BY DEF PinsNameFiles, Holds
<1> QED
    BY <1>1, <1>3, <1>4, <1>5, <1>6

LEMMA ReleaseKeeps ==
    ASSUME IInv, NEW u \in Users, Release(u)
    PROVE  IInv'
<1> DEFINE i == pins[u].frame
<1> USE DEF IInv, Release
<1>0. i \in Frames /\ frames[i].refs \in Nat \ {0}
    BY HeldIsCounted
<1> HIDE DEF i
<1>1. \A j \in Frames :
         /\ frames'[j].fd = frames[j].fd
         /\ frames'[j].page = frames[j].page
         /\ frames'[j].data = frames[j].data
         /\ frames'[j].refs = IF j = i THEN frames[j].refs - 1
                              ELSE frames[j].refs
    BY <1>0 DEF TypeOK, FrameType, i
<1>2. clock' \in [Frames -> 0 .. 1]
    BY DEF TypeOK, Unlock
<1>3. TypeOK'
    <2>0. frames[i] \in FrameType /\ frames[i].refs - 1 \in Nat
        BY <1>0 DEF TypeOK
    <2>1. [frames[i] EXCEPT !.refs = @ - 1] \in FrameType
        BY <2>0 DEF FrameType
    <2>2. frames' = [frames EXCEPT ![i] = [frames[i] EXCEPT !.refs = @ - 1]]
        BY DEF i
    <2>3. frames' \in [Frames -> FrameType]
        BY <2>1, <2>2 DEF TypeOK
    <2>4. NoPin \in PinType
        BY DEF PinType, NoPin, NoFrame, Pages
    <2>5. pins' \in [Users -> PinType]
        BY <2>4 DEF TypeOK
    <2>6. heldFor' \in [Frames -> 0 .. MaxAge]
        BY <1>0 DEF TypeOK, i
    <2> QED
        BY <1>2, <2>3, <2>5, <2>6 DEF TypeOK
<1>4. KeysMatchFrames' /\ OneFramePerKey'
    BY <1>1 DEF KeysMatchFrames, OneFramePerKey, Frames
<1>5. OwnedFdsOpen' /\ CachedFdsOpen' /\ SizeWithinFile'
    BY <1>1 DEF OwnedFdsOpen, CachedFdsOpen, SizeWithinFile, Frames
<1>6. RefsCountPins'
    BY <1>0, <1>1, CountsUnpin DEF i, TypeOK
<1>7. IdleFramesUnlocked'
    <2> SUFFICES ASSUME NEW j \in Frames, frames'[j].refs = 0
                 PROVE  clock'[j] = 0
        BY DEF IdleFramesUnlocked, Frames
    <2>1. CASE j = i
        <3>1. frames[i].refs = 1
            BY <1>0, <1>1, <2>1
        <3>2. keys[i] = <<frames[i].fd, frames[i].page>>
            BY <1>0 DEF KeysMatchFrames
        <3>3. clock' = Unlock(<<frames[i].fd, frames[i].page>>)
            BY <3>1 DEF i
        <3> QED
            BY <1>0, <2>1, <3>2, <3>3 DEF Unlock
    <2>2. CASE j # i
        <3>1. clock[j] = 0
            BY <1>1, <2>2 DEF IdleFramesUnlocked
        <3> QED
            BY <3>1 DEF Unlock
    <2> QED
        BY <2>1, <2>2
<1>8. PinsNameFiles'
    BY DEF PinsNameFiles, Holds, NoPin, TypeOK
<1> QED
    BY <1>3, <1>4, <1>5, <1>6, <1>7, <1>8

LEMMA HitKeeps ==
    ASSUME IInv, NEW u \in Users, NEW fd \in Fds, NEW p \in Pages,
           Acquire(u, fd, p), Hit(u, fd, p)
    PROVE  IInv'
<1> USE DEF IInv, Acquire
<1>0. PICK i \in Frames :
         /\ keys[i] = <<fd, p>>
         /\ frames' = [frames EXCEPT ![i].refs = @ + 1]
         /\ clock' = IF frames[i].refs = 0 THEN Lock(<<fd, p>>) ELSE clock
         /\ Pin(u, i, fd, p)
         /\ UNCHANGED <<disk, open, keys, hand, heldFor>>
    BY DEF Hit, Found
<1>1. frames[i] \in FrameType /\ frames[i].fd = fd /\ fd # NoFd
    BY <1>0 DEF TypeOK, KeysMatchFrames, NoFd
<1>2. \A j \in Frames :
         /\ frames'[j].fd = frames[j].fd
         /\ frames'[j].page = frames[j].page
         /\ frames'[j].refs = IF j = i THEN frames[j].refs + 1
                              ELSE frames[j].refs
    BY <1>0 DEF TypeOK, FrameType
<1>3. open[fd] \in Files
    BY DEF TypeOK, OwnedFdsOpen
<1>4. TypeOK'
    <2>1. [frames[i] EXCEPT !.refs = @ + 1] \in FrameType
        BY <1>1 DEF FrameType
    <2>2. frames' \in [Frames -> FrameType]
        BY <1>0, <2>1 DEF TypeOK
    <2>3. clock' \in [Frames -> 0 .. 1]
        BY <1>0 DEF TypeOK, Lock
    <2>4. pins' \in [Users -> PinType]
        BY <1>0, <1>3 DEF TypeOK, Pin, PinType
    <2> QED
        BY <1>0, <2>2, <2>3, <2>4 DEF TypeOK
<1>5. KeysMatchFrames' /\ OneFramePerKey'
    BY <1>0, <1>2 DEF KeysMatchFrames, OneFramePerKey, Frames
<1>6. OwnedFdsOpen' /\ CachedFdsOpen' /\ SizeWithinFile'
    BY <1>0, <1>2 DEF OwnedFdsOpen, CachedFdsOpen, SizeWithinFile, Frames
<1>7. RefsCountPins'
    BY <1>0, <1>2, CountsPin DEF TypeOK
<1>8. IdleFramesUnlocked'
    <2> SUFFICES ASSUME NEW j \in Frames, frames'[j].refs = 0
                 PROVE  clock'[j] = 0
        BY DEF IdleFramesUnlocked, Frames
    <2>1. j # i
        BY <1>1, <1>2 DEF FrameType
    <2>2. keys[j] # <<fd, p>>
        BY <1>0, <1>1, <2>1 DEF OneFramePerKey
    <2>3. clock[j] = 0
        BY <1>2, <2>1 DEF IdleFramesUnlocked
    <2> QED
        BY <1>0, <2>2, <2>3 DEF Lock
<1>9. PinsNameFiles'
    BY <1>0, <1>3 DEF PinsNameFiles, Holds, Pin, TypeOK
<1> QED
    BY <1>4, <1>5, <1>6, <1>7, <1>8, <1>9

LEMMA MissKeeps ==
    ASSUME IInv, NEW u \in Users, NEW fd \in Fds, NEW p \in Pages,
           Acquire(u, fd, p), Miss(u, fd, p)
    PROVE  IInv'
<1> USE DEF IInv, Acquire
<1>0. PICK k \in 0 .. FrameCount :
         LET i == Slot(k) IN
         /\ disk' = Dumped(i)
         /\ frames' = [frames EXCEPT ![i] =
                         [fd |-> fd, page |-> p, data |-> disk'[open[fd]][p],
                          refs |-> @.refs + 1]]
         /\ keys' = [keys EXCEPT ![i] = <<fd, p>>]
         /\ clock' = [j \in Frames |->
                         IF j = i THEN 1
                         ELSE IF \E l \in 0 .. k - 1 : j = Slot(l) THEN 0
                         ELSE clock[j]]
         /\ hand' = (i + 1) % FrameCount
         /\ open' = StillOpen(owned, frames')
         /\ Pin(u, i, fd, p)
    BY DEF Miss, Put, Load
<1> DEFINE i == Slot(k)
<1>1. i \in Frames
    BY SlotIsFrame DEF TypeOK
<1>1a. frames[i] \in FrameType
    BY <1>1 DEF TypeOK
<1>2. open[fd] \in Files
    BY DEF TypeOK, OwnedFdsOpen
<1>3. disk' \in [Files -> [Pages -> Values]]
    <2>1. CASE frames[i].fd = NoFd
        BY <1>0, <2>1 DEF Dumped, TypeOK
    <2>2. CASE frames[i].fd # NoFd
        <3>1. FileOf(i) \in Files
            BY <1>1, <1>1a, <2>2 DEF FileOf, CachedFdsOpen, TypeOK, FrameType
        <3>2. disk' = [disk EXCEPT ![FileOf(i)][frames[i].page] = frames[i].data]
            BY <1>0, <2>2 DEF Dumped
        <3> QED
            BY <1>1a, <3>1, <3>2 DEF TypeOK, FrameType
    <2> QED
        BY <2>1, <2>2
<1>4. /\ frames' = [frames EXCEPT ![i] = frames'[i]]
      /\ frames'[i].fd = fd
      /\ frames'[i].page = p
      /\ frames'[i].refs = frames[i].refs + 1
      /\ frames'[i] \in FrameType
    BY <1>0, <1>1, <1>1a, <1>2, <1>3 DEF TypeOK, FrameType
<1>5. /\ keys' = [keys EXCEPT ![i] = <<fd, p>>]
      /\ clock' \in [Frames -> 0 .. 1]
      /\ clock'[i] = 1
      /\ \A j \in Frames : j # i /\ clock[j] = 0 => clock'[j] = 0
    BY <1>0, <1>1 DEF TypeOK
<1>6. hand' \in Frames
    BY <1>0, <1>1 DEF Frames
<1>7. Pin(u, i, fd, p) /\ open' = StillOpen(owned, frames')
    BY <1>0
<1> HIDE DEF i
<1>8. \A j \in Frames : j # i => frames'[j] = frames[j]
    BY <1>4 DEF TypeOK
<1>9. TypeOK'
    <2>1. frames' \in [Frames -> FrameType]
        BY <1>4 DEF TypeOK
    <2>2. keys' \in [Frames -> KeyType]
        BY <1>5 DEF TypeOK, KeyType
    <2>3. open' \in [Fds -> Files \cup {NoFile}]
        BY <1>7 DEF TypeOK, StillOpen
    <2>4. pins' \in [Users -> PinType]
        BY <1>1, <1>2, <1>7 DEF TypeOK, Pin, PinType
    <2>5. heldFor' \in [Frames -> 0 .. MaxAge]
        BY DEF TypeOK, Miss
    <2> QED
        BY <1>3, <1>5, <1>6, <2>1, <2>2, <2>3, <2>4, <2>5 DEF TypeOK
<1>10. KeysMatchFrames'
    BY <1>1, <1>4, <1>5, <1>8 DEF KeysMatchFrames, TypeOK, Frames
<1>11. OneFramePerKey'
    <2> SUFFICES ASSUME NEW j \in Frames, NEW l \in Frames,
                        frames'[j].fd # NoFd, keys'[j] = keys'[l]
                 PROVE  j = l
        BY DEF OneFramePerKey, Frames
    <2>1. \A n \in Frames : keys[n] # <<fd, p>>
        <3> SUFFICES ASSUME NEW n \in Frames, keys[n] = <<fd, p>> PROVE FALSE
            OBVIOUS
        <3>1. frames[n].fd # NoFd
            BY DEF KeysMatchFrames, NoFd
        <3>2. \A m \in Frames : m < n => keys[m] # <<fd, p>>
            BY <3>1 DEF OneFramePerKey, Frames
        <3>3. Found(n, <<fd, p>>)
            BY <3>2 DEF Found
        <3> QED
            BY <3>3 DEF Miss
    <2>2. CASE j = i \/ l = i
        BY <1>5, <2>1, <2>2 DEF TypeOK
    <2>3. CASE j # i /\ l # i
        BY <1>5, <1>8, <2>3 DEF OneFramePerKey, TypeOK
    <2> QED
        BY <2>2, <2>3
<1>12. OwnedFdsOpen'
    BY <1>7 DEF OwnedFdsOpen, StillOpen, TypeOK
<1>13. CachedFdsOpen'
    <2> SUFFICES ASSUME NEW j \in Frames, frames'[j].fd # NoFd
                 PROVE  open'[frames'[j].fd] # NoFile
        BY DEF CachedFdsOpen, Frames
    <2>1. frames'[j].fd \in Fds /\ open[frames'[j].fd] # NoFile
        <3>1. CASE j = i
            BY <1>2, <1>4, <3>1
        <3>2. CASE j # i
            BY <1>8, <3>2 DEF CachedFdsOpen, TypeOK, FrameType
        <3> QED
            BY <3>1, <3>2
    <2> QED
        BY <1>7, <2>1 DEF StillOpen
<1>14. SizeWithinFile'
    BY <1>7 DEF SizeWithinFile, StillOpen
<1>15. RefsCountPins'
    <2>1. \A j \in Frames :
            frames'[j].refs = IF j = i THEN frames[j].refs + 1
                              ELSE frames[j].refs
        BY <1>4, <1>8
    <2> QED
        BY <1>1, <1>7, <2>1, CountsPin DEF TypeOK
<1>16. IdleFramesUnlocked'
    <2> SUFFICES ASSUME NEW j \in Frames, frames'[j].refs = 0
                 PROVE  clock'[j] = 0
        BY DEF IdleFramesUnlocked, Frames
    <2>1. j # i
        BY <1>1a, <1>4 DEF FrameType, i
    <2> QED
        BY <1>5, <1>8, <2>1 DEF IdleFramesUnlocked
<1>17. PinsNameFiles'
    BY <1>2, <1>7 DEF PinsNameFiles, Holds, Pin, TypeOK
<1> QED
    BY <1>9, <1>10, <1>11, <1>12, <1>13, <1>14, <1>15, <1>16, <1>17

\* A non-empty set of frames has a last one: the writer that wins when the
\* pool is dumped is well defined.
LEMMA LastExists ==
    ASSUME NEW f, NEW p, \E i \in Frames : CachedIn(i, f, p)
    PROVE  \E i : /\ i \in Frames
                  /\ CachedIn(i, f, p)
                  /\ \A j \in Frames : CachedIn(j, f, p) => j <= i
<1> DEFINE R == OpToRel(<, Nat)
           T == {n \in Nat : /\ n < FrameCount
                             /\ CachedIn(FrameCount - 1 - n, f, p)}
<1>1. \A m, n \in Nat : m < n => <<m, n>> \in R
    BY DEF OpToRel
<1>2. IsWellFoundedOn(R, Nat)
    BY NatLessThanWellFounded
<1>3. T # {}
    <2>1. PICK i \in Frames : CachedIn(i, f, p)
        OBVIOUS
    <2>2. FrameCount - 1 - i \in Nat /\ FrameCount - 1 - (FrameCount - 1 - i) = i
        BY DEF Frames
    <2> QED
        BY <2>1, <2>2 DEF Frames
<1> HIDE DEF R
<1>4. PICK m \in T : \A n \in T : ~ (<<n, m>> \in R)
    BY <1>2, <1>3, WFMin
<1>5. ASSUME NEW j \in Frames, CachedIn(j, f, p) PROVE j <= FrameCount - 1 - m
    <2>1. FrameCount - 1 - j \in Nat /\ FrameCount - 1 - (FrameCount - 1 - j) = j
        BY DEF Frames
    <2>2. FrameCount - 1 - j \in T
        BY <1>5, <2>1 DEF Frames
    <2>3. ~ (FrameCount - 1 - j < m)
        BY <1>1, <1>4, <2>2
    <2> QED
        BY <2>1, <2>3 DEF Frames
<1>6. FrameCount - 1 - m \in Frames /\ CachedIn(FrameCount - 1 - m, f, p)
    BY <1>4 DEF Frames
<1> QED
    BY <1>5, <1>6

LEMMA ShutdownKeeps ==
    ASSUME IInv, Shutdown
    PROVE  IInv'
<1> USE DEF IInv, Shutdown
<1>0. /\ frames' = EmptyFrames
      /\ pins' = pins
      /\ \A u \in Users : pins[u].frame = NoFrame
    BY DEF Holds
<1>1. disk' \in [Files -> [Pages -> Values]]
    <2> SUFFICES ASSUME NEW f \in Files, NEW p \in Pages,
                        \E i \in Frames : CachedIn(i, f, p)
                 PROVE  DumpedAll[f][p] \in Values
        BY DEF DumpedAll, TypeOK
    <2> DEFINE Last(i) == /\ i \in Frames
                          /\ CachedIn(i, f, p)
                          /\ \A j \in Frames : CachedIn(j, f, p) => j <= i
    <2>1. \E i : Last(i)
        BY LastExists
    <2>2. Last(CHOOSE i : Last(i))
        BY <2>1
    <2> QED
        BY <2>2 DEF DumpedAll, TypeOK, FrameType
<1>2. TypeOK'
    <2>1. frames' \in [Frames -> FrameType]
        BY <1>0 DEF FrameType, EmptyFrames, EmptyFrame, NoFd, Pages
    <2>2. keys' \in [Frames -> KeyType] /\ clock' \in [Frames -> 0 .. 1]
        BY DEF EmptyKeys, EmptyClock, KeyType, NoFd, Pages
    <2>3. /\ open' \in [Fds -> Files \cup {NoFile}]
          /\ size' \in [Fds -> 0 .. MaxPages]
          /\ hand' \in Frames
        BY DEF NoFiles, NoSizes, Frames
    <2> QED
        BY <1>1, <2>1, <2>2, <2>3 DEF TypeOK
<1>3. KeysMatchFrames' /\ OneFramePerKey' /\ IdleFramesUnlocked'
    BY <1>0 DEF KeysMatchFrames, OneFramePerKey, IdleFramesUnlocked,
                EmptyFrames, EmptyFrame, EmptyKeys, EmptyClock, NoFd, Frames
<1>4. OwnedFdsOpen' /\ CachedFdsOpen' /\ SizeWithinFile'
    BY <1>0 DEF OwnedFdsOpen, CachedFdsOpen, SizeWithinFile, NoFiles,
                EmptyFrames, EmptyFrame, NoFd, Frames
<1>5. RefsCountPins'
    <2> SUFFICES ASSUME NEW i \in Frames
                 PROVE  Cardinality(Pinners(i)') = 0
        BY <1>0 DEF RefsCountPins, EmptyFrames, EmptyFrame, Frames
    <2>1. Pinners(i)' = {}
        BY <1>0 DEF Pinners, NoFrame, Frames
    <2> QED
        BY <2>1, FS_EmptySet
<1>6. PinsNameFiles'
    BY <1>0 DEF PinsNameFiles, Holds
<1> QED
    BY <1>2, <1>3, <1>4, <1>5, <1>6

LEMMA UnchangedKeeps ==
    ASSUME IInv, UNCHANGED <<disk, fileSize, open, size, owned, frames, keys,
                             clock, hand, pins, logical, heldFor>>,
           running' \in BOOLEAN
    PROVE  IInv'
<1>1. RefsCountPins'
    BY CountsUnchanged DEF IInv
<1> QED
    BY <1>1 DEF IInv, TypeOK, KeysMatchFrames, OneFramePerKey, OwnedFdsOpen,
                CachedFdsOpen, SizeWithinFile, IdleFramesUnlocked,
                PinsNameFiles, Holds, Frames, Pages

LEMMA InitIInv == Init => IInv
<1> SUFFICES ASSUME Init PROVE IInv
    OBVIOUS
<1> USE DEF Init
<1>1. TypeOK
    BY DEF TypeOK, FrameType, KeyType, PinType, NoPin, NoFrame, NotHeld,
           Frames, Pages, EmptyFrames, EmptyFrame, EmptyKeys, EmptyClock,
           NoFiles, NoSizes, NoFd
<1>2. KeysMatchFrames /\ OneFramePerKey /\ IdleFramesUnlocked
    BY DEF KeysMatchFrames, OneFramePerKey, IdleFramesUnlocked, EmptyFrames,
           EmptyFrame, EmptyKeys, EmptyClock, NoFd, Frames
<1>3. OwnedFdsOpen /\ CachedFdsOpen /\ SizeWithinFile
    BY DEF OwnedFdsOpen, CachedFdsOpen, SizeWithinFile, NoFiles, EmptyFrames,
           EmptyFrame, NoFd, Frames
<1>4. RefsCountPins
    <2> SUFFICES ASSUME NEW i \in Frames
                 PROVE  Cardinality(Pinners(i)) = 0
        BY DEF RefsCountPins, EmptyFrames, EmptyFrame, Frames
    <2>1. Pinners(i) = {}
        BY DEF Pinners, NoPin, NoFrame, Frames
    <2> QED
        BY <2>1, FS_EmptySet
<1>5. PinsNameFiles
    BY DEF PinsNameFiles, Holds, NoPin
<1> QED
    BY <1>1, <1>2, <1>3, <1>4, <1>5 DEF IInv

LEMMA NextKeepsIInv == IInv /\ [Next]_vars => IInv'
<1> SUFFICES ASSUME IInv, [Next]_vars PROVE IInv'
    OBVIOUS
<1>1. ASSUME NEW f \in Files, NEW fd \in Fds, Open(f, fd) PROVE IInv'
    BY <1>1, OpenKeeps
<1>2. ASSUME NEW fd \in Fds, Close(fd) \/ AllocPage(fd) PROVE IInv'
    BY <1>2, CloseKeeps, AllocPageKeeps
<1>3. ASSUME NEW u \in Users, NEW fd \in Fds, NEW p \in Pages,
             Acquire(u, fd, p)
      PROVE  IInv'
    BY <1>3, HitKeeps, MissKeeps DEF Acquire
<1>4. ASSUME NEW u \in Users, NEW v \in Values, Write(u, v) PROVE IInv'
    BY <1>4, WriteKeeps
<1>5. ASSUME NEW u \in Users, Release(u) PROVE IInv'
    BY <1>5, ReleaseKeeps
<1>6. CASE Shutdown
    BY <1>6, ShutdownKeeps
<1>7. CASE Start
    BY <1>7, UnchangedKeeps DEF Start
<1>8. CASE UNCHANGED vars
    BY <1>8, UnchangedKeeps DEF vars, IInv, TypeOK
<1> QED
    BY <1>1, <1>2, <1>3, <1>4, <1>5, <1>6, <1>7, <1>8 DEF Next

LEMMA Invariance == Spec => []IInv
BY InitIInv, NextKeepsIInv, PTL DEF Spec

\* Types: among them, a reference count never wraps below zero, and no page
\* is ever written to a descriptor that is not open on a file.
THEOREM TypeCorrect == Spec => []TypeOK
BY Invariance, PTL DEF IInv

\* The asserts of FramePool::acquireFrame hold, and no page is cached twice
\* under one descriptor: find, lock and unlock of the clock, which go by key,
\* mean the frame that caches the page.
THEOREM KeysIdentifyFrames == Spec => []KeysIdentify
<1>1. IInv => KeysIdentify
    BY DEF IInv, KeysIdentify
<1>. QED
    BY <1>1, Invariance, PTL

\* The cache never answers for a descriptor number the kernel gave to another
\* file: a cached page keeps its File object open.
THEOREM CachedPagesKeepFilesOpen == Spec => []CachedFdsOpen
BY Invariance, PTL DEF IInv

\* Reference counts count the live Frame objects, stolen frames included, and
\* a frame no Frame object points at is always free for eviction.
THEOREM IdleFramesEvictable == Spec => []RefsCountHolders
<1>1. IInv => RefsCountHolders
    BY DEF IInv, RefsCountHolders
<1>. QED
    BY <1>1, Invariance, PTL

\* No read below the size a handle remembers meets the end of its file.
THEOREM ReadsStayInFile == Spec => []SizeWithinFile
BY Invariance, PTL DEF IInv

-----------------------------------------------------------------------------
(* How long the clock protects a pinned frame                              *)

UserCount == Cardinality(Users)

\* The slots the hand has passed since it left frame i.
Past(i) == IF hand > i THEN hand - 1 - i ELSE hand + FrameCount - 1 - i

\* The misses since a pinned frame lost its bit account for the way the hand
\* has gone since then.
TurnsCounted ==
    \A i \in Frames :
        frames[i].refs > 0 /\ clock[i] = 0 =>
            \/ heldFor[i] = MaxAge
            \/ Past(i) <= heldFor[i] * (UserCount - 1)

\* A frame somebody holds has a page: unlock by its key means it alone.
HeldFramesFilled ==
    \A i \in Frames : frames[i].refs > 0 => frames[i].fd # NoFd

LEMMA SlotIs ==
    ASSUME hand \in Frames, NEW k \in 0 .. FrameCount
    PROVE  Slot(k) = IF hand + k < FrameCount THEN hand + k
                     ELSE hand + k - FrameCount
<1>1. \A x \in 0 .. FrameCount - 1 : /\ x % FrameCount = x
                                     /\ (x + FrameCount) % FrameCount = x
    OBVIOUS
<1>2. CASE hand + k < FrameCount
    <2>1. hand + k \in 0 .. FrameCount - 1
        BY <1>2 DEF Frames
    <2> QED
        BY <1>1, <1>2, <2>1 DEF Slot
<1>3. CASE hand + k >= FrameCount
    <2> DEFINE x == hand + k - FrameCount
    <2>1. CASE x \in 0 .. FrameCount - 1
        <3>1. x + FrameCount = hand + k
            BY DEF Frames
        <3>2. (x + FrameCount) % FrameCount = x
            BY <1>1, <2>1
        <3> QED
            BY <1>3, <3>1, <3>2 DEF Slot, Frames
    <2> QED
        BY <1>3, <2>1 DEF Frames
<1> QED
    BY <1>2, <1>3 DEF Frames

\* The hand comes to a slot after as many steps as are left of its turn.
LEMMA SlotPast ==
    ASSUME hand \in Frames, NEW k \in 0 .. FrameCount - 1
    PROVE  Past(Slot(k)) = FrameCount - 1 - k
<1>1. Slot(k) = IF hand + k < FrameCount THEN hand + k ELSE hand + k - FrameCount
    BY SlotIs
<1> QED
    BY <1>1 DEF Past, Frames

LEMMA SlotsDiffer ==
    ASSUME hand \in Frames, NEW k \in 0 .. FrameCount - 1,
           NEW l \in 0 .. FrameCount - 1, Slot(k) = Slot(l)
    PROVE  k = l
<1>1. Past(Slot(k)) = FrameCount - 1 - k /\ Past(Slot(l)) = FrameCount - 1 - l
    BY SlotPast
<1> QED
    BY <1>1

\* Every frame is some slot ahead.
LEMMA FrameIsSlot ==
    ASSUME hand \in Frames, NEW i \in Frames
    PROVE  \E k \in 0 .. FrameCount - 1 : i = Slot(k) /\ k = FrameCount - 1 - Past(i)
<1> DEFINE k == FrameCount - 1 - Past(i)
<1>1. k \in 0 .. FrameCount - 1
    BY DEF Past, Frames
<1>2. Slot(k) = IF hand + k < FrameCount THEN hand + k ELSE hand + k - FrameCount
    BY <1>1, SlotIs
<1>3. Slot(k) = i
    BY <1>2 DEF Past, Frames
<1> QED
    BY <1>1, <1>3

\* Slots with the bit set are held, each by somebody else.
LEMMA SweptAreHeld ==
    ASSUME IInv, NEW k \in 0 .. FrameCount,
           \A j \in 0 .. k - 1 : clock[Slot(j)] = 1,
           NEW W \in SUBSET Users,
           \A u \in Users : Holds(u) /\ clock[pins[u].frame] = 1 => u \in W
    PROVE  k <= Cardinality(W)
<1>0. hand \in Frames
    BY DEF IInv, TypeOK
<1>1. \A j \in 0 .. k - 1 : \E u \in W : pins[u].frame = Slot(j)
    <2> TAKE j \in 0 .. k - 1
    <2>1. Slot(j) \in Frames
        BY <1>0, SlotIsFrame
    <2>2. frames[Slot(j)].refs # 0
        BY <2>1 DEF IInv, IdleFramesUnlocked
    <2>3. Cardinality(Pinners(Slot(j))) # 0
        BY <2>1, <2>2 DEF IInv, RefsCountPins
    <2>4. PICK u : u \in Pinners(Slot(j))
        BY <2>3, FS_EmptySet
    <2>5. u \in Users /\ pins[u].frame = Slot(j)
        BY <2>4 DEF Pinners
    <2>6. Holds(u)
        BY <2>1, <2>5 DEF Holds, NoFrame, Frames
    <2> QED
        BY <2>5, <2>6
<1> DEFINE f == [j \in 0 .. k - 1 |-> CHOOSE u \in W : pins[u].frame = Slot(j)]
<1>2. \A j \in 0 .. k - 1 : f[j] \in W /\ pins[f[j]].frame = Slot(j)
    BY <1>1
<1>3. f \in [0 .. k - 1 -> W]
    BY <1>2
<1> HIDE DEF f
<1>4. \A j, l \in 0 .. k - 1 : f[j] = f[l] => j = l
    BY <1>0, <1>2, SlotsDiffer
<1>5. f \in Injection(0 .. k - 1, W)
    BY <1>3, <1>4 DEF Injection, IsInjective
<1>6. IsFiniteSet(W)
    BY UsersAssumption, FS_Subset
<1>7. Cardinality(0 .. k - 1) <= Cardinality(W)
    BY <1>5, <1>6, FS_Injection DEF ExistsInjection
<1>8. Cardinality(0 .. k - 1) = k
    <2>1. Cardinality(0 .. k - 1) = IF 0 > k - 1 THEN 0 ELSE k - 1 - 0 + 1
        BY FS_Interval
    <2> QED
        BY <2>1
<1> QED
    BY <1>7, <1>8

\* Where the hand is after a miss that cleared k bits.
LEMMA HandMoves ==
    ASSUME hand \in Frames, NEW k \in 0 .. FrameCount,
           hand' = (Slot(k) + 1) % FrameCount,
           NEW j \in 0 .. FrameCount - 1, NEW i, i = Slot(j)
    PROVE  /\ j > k => Past(i)' = FrameCount + k - j
           /\ j < k /\ k - j < FrameCount => Past(i)' = k - j
<1>1. /\ Slot(k) = IF hand + k < FrameCount THEN hand + k ELSE hand + k - FrameCount
      /\ Slot(j) = IF hand + j < FrameCount THEN hand + j ELSE hand + j - FrameCount
    BY SlotIs
<1>2. Slot(k) \in 0 .. FrameCount - 1
    BY <1>1 DEF Frames
<1>3. hand' = IF Slot(k) + 1 < FrameCount THEN Slot(k) + 1 ELSE 0
    <2>1. \A x \in 0 .. FrameCount - 1 : x % FrameCount = x
        OBVIOUS
    <2>2. FrameCount % FrameCount = 0
        OBVIOUS
    <2>3. CASE Slot(k) + 1 < FrameCount
        <3>1. Slot(k) + 1 \in 0 .. FrameCount - 1
            BY <1>2, <2>3
        <3> QED
            BY <2>1, <2>3, <3>1
    <2>4. CASE Slot(k) + 1 >= FrameCount
        <3>1. Slot(k) + 1 = FrameCount
            BY <1>2, <2>4
        <3> QED
            BY <2>2, <2>4, <3>1
    <2> QED
        BY <1>2, <2>3, <2>4
<1> DEFINE h == hand'
<1>4. h = IF Slot(k) + 1 < FrameCount THEN Slot(k) + 1 ELSE 0
    BY <1>3
<1>5. i = IF hand + j < FrameCount THEN hand + j ELSE hand + j - FrameCount
    BY <1>1
<1> HIDE DEF h
<1>6. /\ j > k => (IF h > i THEN h - 1 - i ELSE h + FrameCount - 1 - i)
                    = FrameCount + k - j
      /\ j < k /\ k - j < FrameCount =>
           (IF h > i THEN h - 1 - i ELSE h + FrameCount - 1 - i) = k - j
    BY <1>1, <1>2, <1>4, <1>5 DEF Frames
<1> QED
    BY <1>6 DEF Past, h

\* Who counts: with one user asking and another on a frame without its bit, two
\* less than all can be on frames with their bits.
LEMMA OthersHold ==
    ASSUME IInv, NEW u \in Users, ~Holds(u), NEW k \in 0 .. FrameCount,
           \A j \in 0 .. k - 1 : clock[Slot(j)] = 1
    PROVE  /\ UserCount \in Nat \ {0}
           /\ k <= UserCount - 1
           /\ \A i \in Frames :
                frames[i].refs > 0 =>
                    /\ UserCount >= 2
                    /\ clock[i] = 0 => k <= UserCount - 2
<1>1. IsFiniteSet(Users) /\ Cardinality(Users) \in Nat
    BY UsersAssumption, FS_CardinalityType
<1>2. /\ IsFiniteSet(Users \ {u})
      /\ Cardinality(Users \ {u}) = UserCount - 1
      /\ Cardinality(Users \ {u}) \in Nat
    BY <1>1, FS_RemoveElement, FS_CardinalityType DEF UserCount
<1>3. k <= Cardinality(Users \ {u})
    BY SweptAreHeld
<1>4. ASSUME NEW i \in Frames, frames[i].refs > 0
      PROVE  /\ UserCount >= 2
             /\ clock[i] = 0 => k <= UserCount - 2
    <2>1. frames[i].refs # 0
        BY <1>4
    <2>2. PICK w : w \in Pinners(i)
        BY <2>1, FS_EmptySet DEF IInv, RefsCountPins
    <2>3. w \in Users /\ pins[w].frame = i /\ w # u
        BY <2>2 DEF Pinners, Holds, NoFrame, Frames
    <2>4. w \in Users \ {u}
        BY <2>3
    <2>5. /\ Cardinality((Users \ {u}) \ {w}) = UserCount - 1 - 1
          /\ IsFiniteSet((Users \ {u}) \ {w})
        <3> DEFINE S == Users \ {u}
        <3>1. IsFiniteSet(S) /\ w \in S /\ Cardinality(S) = UserCount - 1
            BY <1>2, <2>4
        <3> HIDE DEF S
        <3>2. Cardinality(S \ {w}) = Cardinality(S) - 1 /\ IsFiniteSet(S \ {w})
            BY <3>1, FS_RemoveElement
        <3> QED
            BY <3>1, <3>2 DEF S
    <2>6. Cardinality((Users \ {u}) \ {w}) \in Nat
        BY <2>5, FS_CardinalityType
    <2>7. ASSUME clock[i] = 0 PROVE k <= Cardinality((Users \ {u}) \ {w})
        <3>1. \A x \in Users : Holds(x) /\ clock[pins[x].frame] = 1
                                 => x \in (Users \ {u}) \ {w}
            BY <2>3, <2>7
        <3>2. (Users \ {u}) \ {w} \in SUBSET Users
            OBVIOUS
        <3> QED
            BY <3>1, <3>2, SweptAreHeld
    <2> QED
        BY <1>1, <2>5, <2>6, <2>7 DEF UserCount
<1>5. UserCount \in Nat /\ UserCount - 1 >= 0
    BY <1>1, <1>2 DEF UserCount
<1> QED
    BY <1>2, <1>3, <1>4, <1>5

\* What a miss does to the clock and to the frames.
LEMMA MissIs ==
    ASSUME IInv, NEW u \in Users, NEW fd \in Fds, NEW p \in Pages,
           Miss(u, fd, p)
    PROVE  \E k \in 0 .. FrameCount :
              /\ Sweeps(k)
              /\ hand' = (Slot(k) + 1) % FrameCount
              /\ Slot(k) \in Frames
              /\ clock'[Slot(k)] = 1
              /\ \A i \in Frames \ {Slot(k)} :
                    /\ frames'[i] = frames[i]
                    /\ clock'[i] = IF \E l \in 0 .. k - 1 : i = Slot(l) THEN 0
                                   ELSE clock[i]
              /\ frames'[Slot(k)].fd = fd
              /\ frames'[Slot(k)].page = p
              /\ Pin(u, Slot(k), fd, p)
              /\ open' = StillOpen(owned, frames')
<1>1. PICK k \in 0 .. FrameCount :
         /\ Put(k, <<fd, p>>)
         /\ Load(Slot(k), fd, p)
         /\ Pin(u, Slot(k), fd, p)
    BY DEF Miss
<1>2. Slot(k) \in Frames
    BY SlotIsFrame DEF IInv, TypeOK
<1>3. /\ Sweeps(k)
      /\ hand' = (Slot(k) + 1) % FrameCount
      /\ clock'[Slot(k)] = 1
      /\ \A i \in Frames \ {Slot(k)} :
            clock'[i] = IF \E l \in 0 .. k - 1 : i = Slot(l) THEN 0 ELSE clock[i]
    BY <1>1, <1>2 DEF Put
<1>4. /\ \A i \in Frames \ {Slot(k)} : frames'[i] = frames[i]
      /\ frames'[Slot(k)].fd = fd
      /\ frames'[Slot(k)].page = p
      /\ open' = StillOpen(owned, frames')
    BY <1>1, <1>2 DEF Load, IInv, TypeOK
<1> QED
    BY <1>1, <1>2, <1>3, <1>4

\* The bound of n + 1 misses and that of n.
LEMMA OneMissMore ==
    ASSUME NEW n \in Nat, NEW m \in Nat
    PROVE  /\ (n + 1) * m = n * m + m
           /\ n * m \in Nat
           /\ m >= 1 => (n + 1) * m >= n + 1
<1>1. (n + 1) * m = n * m + m /\ n * m \in Nat
    OBVIOUS
<1>2. ASSUME m >= 1 PROVE (n + 1) * m >= n + 1
    <2>1. PICK d \in Nat : m = d + 1
        <3>1. m - 1 \in Nat /\ m = m - 1 + 1
            BY <1>2
        <3> QED
            BY <3>1
    <2>2. (n + 1) * (d + 1) = (n + 1) * d + (n + 1) /\ (n + 1) * d \in Nat
        OBVIOUS
    <2> QED
        BY <2>1, <2>2
<1> QED
    BY <1>1, <1>2

LEMMA MissCountsTurns ==
    ASSUME IInv, TurnsCounted, NEW u \in Users, NEW fd \in Fds, NEW p \in Pages,
           ~Holds(u), Miss(u, fd, p)
    PROVE  TurnsCounted'
<1>0. hand \in Frames /\ heldFor \in [Frames -> 0 .. MaxAge]
    BY DEF IInv, TypeOK
<1>1. PICK k \in 0 .. FrameCount :
         /\ Sweeps(k)
         /\ hand' = (Slot(k) + 1) % FrameCount
         /\ Slot(k) \in Frames
         /\ clock'[Slot(k)] = 1
         /\ \A i \in Frames \ {Slot(k)} :
               /\ frames'[i] = frames[i]
               /\ clock'[i] = IF \E l \in 0 .. k - 1 : i = Slot(l) THEN 0
                              ELSE clock[i]
    BY MissIs
<1>2. \A j \in 0 .. k - 1 : clock[Slot(j)] = 1
    BY <1>1 DEF Sweeps
<1> SUFFICES ASSUME NEW i \in Frames, frames'[i].refs > 0, clock'[i] = 0
             PROVE  \/ heldFor'[i] = MaxAge
                    \/ Past(i)' <= heldFor'[i] * (UserCount - 1)
    BY DEF TurnsCounted, Frames, UserCount
<1>3. i # Slot(k)
    BY <1>1
<1>4. frames[i].refs > 0
    BY <1>1, <1>3
<1>5. heldFor'[i] = IF heldFor[i] < MaxAge THEN heldFor[i] + 1 ELSE heldFor[i]
    BY <1>4 DEF Miss
<1>6. CASE heldFor[i] = MaxAge
    BY <1>5, <1>6
<1>7. CASE heldFor[i] # MaxAge
    <2> DEFINE h == heldFor[i]
               m == UserCount - 1
    <2>1. h \in Nat /\ heldFor'[i] = h + 1
        BY <1>0, <1>5, <1>7
    <2>2. m \in Nat /\ k <= m /\ (clock[i] = 0 => k <= m - 1)
        BY <1>2, <1>4, OthersHold
    <2>3. PICK j \in 0 .. FrameCount - 1 :
             i = Slot(j) /\ j = FrameCount - 1 - Past(i)
        BY <1>0, FrameIsSlot
    <2>4. /\ j > k => Past(i)' = FrameCount + k - j
          /\ j < k /\ k - j < FrameCount => Past(i)' = k - j
        BY <1>0, <1>1, <2>3, HandMoves
    <2>5. j # k
        BY <1>3, <2>3
    <2>6. (h + 1) * m = h * m + m /\ h * m \in Nat
        BY <2>1, <2>2, OneMissMore
    <2> HIDE DEF h, m
    <2>7. CASE j > k
        <3>1. \A l \in 0 .. k - 1 : i # Slot(l)
            <4> SUFFICES ASSUME NEW l \in 0 .. k - 1, i = Slot(l) PROVE FALSE
                OBVIOUS
            <4>1. l \in 0 .. FrameCount - 1
                OBVIOUS
            <4>2. l = j
                BY <1>0, <2>3, <4>1, SlotsDiffer
            <4> QED
                BY <2>7, <4>2
        <3>2. clock[i] = 0
            BY <1>1, <1>3, <3>1
        <3>3. Past(i) <= h * m
            BY <1>4, <1>7, <3>2 DEF TurnsCounted, h, m
        <3>4. Past(i)' = Past(i) + k + 1 /\ Past(i) \in Nat
            <4>1. Past(i) = FrameCount - 1 - j
                BY <2>3, <1>0, SlotPast
            <4> QED
                BY <2>4, <2>7, <4>1
        <3>5. Past(i)' <= (h + 1) * m
            BY <2>2, <2>6, <3>2, <3>3, <3>4
        <3> QED
            BY <2>1, <3>5 DEF m
    <2>8. CASE j < k
        <3>1. k - j < FrameCount
            <4> SUFFICES ASSUME k = FrameCount, j = 0 PROVE FALSE
                BY <2>8
            <4>1. Slot(k) = hand /\ Slot(j) = hand
                BY <1>0, SlotIs DEF Frames
            <4> QED
                BY <1>3, <2>3, <4>1
        <3>2. Past(i)' = k - j
            BY <2>4, <2>8, <3>1
        <3>3. Past(i)' <= (h + 1) * m
            BY <2>2, <2>6, <2>8, <3>2
        <3> QED
            BY <2>1, <3>3 DEF m
    <2> QED
        BY <2>5, <2>7, <2>8
<1> QED
    BY <1>6, <1>7

\* Steps that leave the hand and the ages alone, and after which no held frame
\* is without its bit that had it or was not held.
LEMMA SameTurns ==
    ASSUME TurnsCounted, UNCHANGED hand,
           \A i \in Frames :
              frames'[i].refs > 0 /\ clock'[i] = 0 =>
                 /\ frames[i].refs > 0 /\ clock[i] = 0
                 /\ heldFor'[i] = heldFor[i]
    PROVE  TurnsCounted'
BY DEF TurnsCounted, Past, Frames, UserCount

LEMMA HitCountsTurns ==
    ASSUME IInv, TurnsCounted, NEW u \in Users, NEW fd \in Fds, NEW p \in Pages,
           Hit(u, fd, p)
    PROVE  TurnsCounted'
<1>1. PICK i \in Frames :
         /\ Found(i, <<fd, p>>)
         /\ frames' = [frames EXCEPT ![i].refs = @ + 1]
         /\ clock' = IF frames[i].refs = 0 THEN Lock(<<fd, p>>) ELSE clock
         /\ UNCHANGED <<hand, heldFor>>
    BY DEF Hit
<1>2. /\ frames'[i].refs = frames[i].refs + 1 /\ frames[i].refs \in Nat
      /\ \A j \in Frames \ {i} : frames'[j] = frames[j]
    BY <1>1 DEF IInv, TypeOK, FrameType
<1>3. keys[i] = <<fd, p>>
    BY <1>1 DEF Found
<1>4. ASSUME NEW j \in Frames, frames'[j].refs > 0, clock'[j] = 0
      PROVE  frames[j].refs > 0 /\ clock[j] = 0
    <2>1. clock'[j] = IF frames[i].refs = 0 /\ keys[j] = <<fd, p>> THEN 1
                      ELSE clock[j]
        BY <1>1 DEF Lock, IInv, TypeOK
    <2>2. CASE j = i
        BY <1>2, <1>3, <1>4, <2>1, <2>2
    <2>3. CASE j # i
        BY <1>2, <1>4, <2>1, <2>3
    <2> QED
        BY <2>2, <2>3
<1> QED
    BY <1>1, <1>4, SameTurns

LEMMA ReleaseCountsTurns ==
    ASSUME IInv, HeldFramesFilled, TurnsCounted,
           NEW u \in Users, Release(u)
    PROVE  TurnsCounted'
<1> DEFINE i == pins[u].frame
<1>1. i \in Frames /\ frames[i].refs \in Nat \ {0} /\ frames[i] \in FrameType
    BY HeldIsCounted DEF Release, IInv, TypeOK
<1>2. /\ frames' = [frames EXCEPT ![i].refs = @ - 1]
      /\ clock' = IF frames[i].refs = 1
                  THEN Unlock(<<frames[i].fd, frames[i].page>>) ELSE clock
      /\ heldFor' = [heldFor EXCEPT ![i] = IF frames[i].refs = 1 THEN 0 ELSE @]
      /\ UNCHANGED hand
    BY DEF Release
<1> HIDE DEF i
<1>3. /\ frames'[i].refs = frames[i].refs - 1
      /\ \A j \in Frames \ {i} : frames'[j] = frames[j] /\ heldFor'[j] = heldFor[j]
      /\ frames[i].refs # 1 => heldFor' = heldFor
    BY <1>1, <1>2 DEF IInv, TypeOK
<1>4. ASSUME NEW j \in Frames, frames'[j].refs > 0, clock'[j] = 0
      PROVE  /\ frames[j].refs > 0 /\ clock[j] = 0
             /\ heldFor'[j] = heldFor[j]
    <2>1. j = i => frames[i].refs # 1
        BY <1>1, <1>3, <1>4
    <2>2. frames[j].refs > 0
        BY <1>1, <1>3, <1>4
    <2>3. clock[j] = 0
        <3>1. CASE frames[i].refs # 1
            BY <1>2, <1>4, <3>1
        <3>2. CASE frames[i].refs = 1
            <4>1. keys[i] = <<frames[i].fd, frames[i].page>> /\ frames[i].fd # NoFd
                BY <1>1 DEF IInv, KeysMatchFrames, HeldFramesFilled
            <4>2. keys[j] # keys[i]
                BY <1>1, <2>1, <3>2, <4>1 DEF IInv, OneFramePerKey
            <4>3. clock'[j] = clock[j]
                BY <1>2, <3>2, <4>1, <4>2 DEF Unlock
            <4> QED
                BY <1>4, <4>3
        <3> QED
            BY <3>1, <3>2
    <2>4. heldFor'[j] = heldFor[j]
        BY <1>3, <2>1
    <2> QED
        BY <2>2, <2>3, <2>4
<1> QED
    BY <1>2, <1>4, SameTurns

LEMMA FilledStay ==
    ASSUME IInv, HeldFramesFilled, [Next]_vars
    PROVE  HeldFramesFilled'
<1> USE DEF IInv, HeldFramesFilled
<1>1. ASSUME NEW u \in Users, NEW fd \in Fds, NEW p \in Pages, Hit(u, fd, p)
      PROVE  HeldFramesFilled'
    <2>1. PICK i \in Frames : /\ Found(i, <<fd, p>>)
                              /\ frames' = [frames EXCEPT ![i].refs = @ + 1]
        BY <1>1 DEF Hit
    <2>2. frames[i].fd = fd
        BY <2>1 DEF Found, KeysMatchFrames
    <2>3. fd # NoFd
        BY DEF NoFd
    <2>4. \A j \in Frames : /\ frames'[j].fd = frames[j].fd
                            /\ j # i => frames'[j] = frames[j]
        BY <2>1 DEF TypeOK, FrameType
    <2> QED
        BY <2>2, <2>3, <2>4 DEF Frames
<1>2. ASSUME NEW u \in Users, NEW fd \in Fds, NEW p \in Pages, Miss(u, fd, p)
      PROVE  HeldFramesFilled'
    <2>1. \E i \in Frames : /\ \A j \in Frames \ {i} : frames'[j] = frames[j]
                            /\ frames'[i].fd = fd
        BY <1>2, MissIs
    <2>2. fd # NoFd
        BY DEF NoFd
    <2> QED
        BY <2>1, <2>2 DEF Frames
<1>3. ASSUME NEW u \in Users, Release(u)
      PROVE  HeldFramesFilled'
    <2> DEFINE i == pins[u].frame
    <2>1. i \in Frames /\ frames[i].refs \in Nat \ {0} /\ frames[i] \in FrameType
        BY <1>3, HeldIsCounted DEF Release, TypeOK
    <2>2. frames' = [frames EXCEPT ![i].refs = @ - 1]
        BY <1>3 DEF Release
    <2> HIDE DEF i
    <2>3. \A j \in Frames : /\ frames'[j].fd = frames[j].fd
                            /\ j # i => frames'[j] = frames[j]
        BY <2>1, <2>2 DEF TypeOK, FrameType
    <2> QED
        BY <2>1, <2>3 DEF Frames
<1>4. ASSUME NEW u \in Users, NEW v \in Values, Write(u, v)
      PROVE  HeldFramesFilled'
    <2>1. \A j \in Frames : /\ frames'[j].fd = frames[j].fd
                            /\ frames'[j].refs = frames[j].refs
        BY <1>4 DEF Write, TypeOK, FrameType
    <2> QED
        BY <2>1 DEF Frames
<1>5. CASE Shutdown
    BY <1>5 DEF Shutdown, EmptyFrames, EmptyFrame, Frames
<1>6. CASE UNCHANGED frames
    BY <1>6 DEF Frames
<1> QED
    BY <1>1, <1>2, <1>3, <1>4, <1>5, <1>6
       DEF Next, Acquire, Open, Close, AllocPage, Start, vars

LEMMA NextCountsTurns ==
    ASSUME IInv, HeldFramesFilled, TurnsCounted, [Next]_vars
    PROVE  TurnsCounted'
<1>1. ASSUME NEW u \in Users, NEW fd \in Fds, NEW p \in Pages, Acquire(u, fd, p)
      PROVE  TurnsCounted'
    BY <1>1, HitCountsTurns, MissCountsTurns DEF Acquire
<1>2. ASSUME NEW u \in Users, Release(u)
      PROVE  TurnsCounted'
    BY <1>2, ReleaseCountsTurns
<1>3. ASSUME NEW u \in Users, NEW v \in Values, Write(u, v)
      PROVE  TurnsCounted'
    <2>1. \A j \in Frames : frames'[j].refs = frames[j].refs
        BY <1>3 DEF Write, IInv, TypeOK, FrameType
    <2> QED
        BY <1>3, <2>1, SameTurns DEF Write
<1>4. CASE Shutdown
    BY <1>4 DEF Shutdown, TurnsCounted, EmptyFrames, EmptyFrame, Frames
<1>5. CASE UNCHANGED <<frames, hand, clock, heldFor>>
    BY <1>5, SameTurns
<1> QED
    BY <1>1, <1>2, <1>3, <1>4, <1>5
       DEF Next, Open, Close, AllocPage, Start, vars

\* A page stays under a pointer as long as its frame and its File object do.
LEMMA StaysUnderPin ==
    ASSUME NEW v, ~Stolen(v), pins'[v] = pins[v],
           Holds(v) => /\ frames'[pins[v].frame].fd = frames[pins[v].frame].fd
                       /\ frames'[pins[v].frame].page = frames[pins[v].frame].page
                       /\ open'[frames[pins[v].frame].fd]
                            = open[frames[pins[v].frame].fd]
    PROVE  ~Stolen(v)'
BY DEF Stolen, Holds, CachedIn, FileOf

\* No step but a miss takes a page from under a pointer.
LEMMA OnlyMissesSteal ==
    ASSUME IInv, HeldFramesFilled, NoneStolen, [Next]_vars,
           ~\E u \in Users, fd \in Fds, p \in Pages :
               Acquire(u, fd, p) /\ Miss(u, fd, p),
           NEW v \in Users
    PROVE  ~Stolen(v)'
<1>0. /\ ~Stolen(v)
      /\ Holds(v) => /\ pins[v].frame \in Frames
                     /\ frames[pins[v].frame] \in FrameType
                     /\ frames[pins[v].frame].fd \in Fds
                     /\ open[frames[pins[v].frame].fd] # NoFile
    <2>1. ASSUME Holds(v)
          PROVE  /\ pins[v].frame \in Frames
                 /\ frames[pins[v].frame] \in FrameType
                 /\ frames[pins[v].frame].fd \in Fds
                 /\ open[frames[pins[v].frame].fd] # NoFile
        <3>1. /\ pins[v].frame \in Frames
              /\ frames[pins[v].frame].refs \in Nat \ {0}
            BY <2>1, HeldIsCounted
        <3>2. frames[pins[v].frame] \in FrameType
            BY <3>1 DEF IInv, TypeOK
        <3>3. frames[pins[v].frame].fd # NoFd
            BY <3>1 DEF HeldFramesFilled
        <3> QED
            BY <3>1, <3>2, <3>3 DEF FrameType, IInv, CachedFdsOpen
    <2> QED
        BY <2>1 DEF NoneStolen
<1>1. ASSUME NEW f \in Files, NEW fd \in Fds, Open(f, fd) PROVE ~Stolen(v)'
    BY <1>0, <1>1, StaysUnderPin DEF Open, IInv, TypeOK
<1>2. ASSUME NEW fd \in Fds, Close(fd) PROVE ~Stolen(v)'
    BY <1>0, <1>2, StaysUnderPin DEF Close, StillOpen
<1>3. ASSUME NEW fd \in Fds, AllocPage(fd) PROVE ~Stolen(v)'
    BY <1>0, <1>3, StaysUnderPin DEF AllocPage
<1>4. ASSUME NEW u \in Users, NEW fd \in Fds, NEW p \in Pages,
             Acquire(u, fd, p), Hit(u, fd, p)
      PROVE  ~Stolen(v)'
    <2>1. PICK i \in Frames : /\ Found(i, <<fd, p>>)
                              /\ frames' = [frames EXCEPT ![i].refs = @ + 1]
                              /\ Pin(u, i, fd, p)
                              /\ open' = open
        BY <1>4 DEF Hit
    <2>2. \A j \in Frames : /\ frames'[j].fd = frames[j].fd
                            /\ frames'[j].page = frames[j].page
        BY <2>1 DEF IInv, TypeOK, FrameType
    <2>3. CASE v = u
        <3>1. frames[i].fd = fd /\ frames[i].page = p /\ fd # NoFd
            BY <2>1 DEF Found, IInv, KeysMatchFrames, NoFd
        <3>2. pins'[v] = [frame |-> i, file |-> open[fd], page |-> p]
            BY <2>1, <2>3 DEF Pin, IInv, TypeOK
        <3> QED
            BY <2>1, <2>2, <3>1, <3>2 DEF Stolen, CachedIn, FileOf
    <2>4. CASE v # u
        <3>1. pins'[v] = pins[v]
            BY <2>1, <2>4 DEF Pin, IInv, TypeOK
        <3> QED
            BY <1>0, <2>1, <2>2, <3>1, StaysUnderPin
    <2> QED
        BY <2>3, <2>4
<1>5. ASSUME NEW u \in Users, NEW w \in Values, Write(u, w) PROVE ~Stolen(v)'
    <2>1. \A j \in Frames : /\ frames'[j].fd = frames[j].fd
                            /\ frames'[j].page = frames[j].page
        BY <1>5 DEF Write, IInv, TypeOK, FrameType
    <2> QED
        BY <1>0, <1>5, <2>1, StaysUnderPin DEF Write
<1>6. ASSUME NEW u \in Users, Release(u) PROVE ~Stolen(v)'
    <2>1. \A j \in Frames : /\ frames'[j].fd = frames[j].fd
                            /\ frames'[j].page = frames[j].page
        BY <1>6 DEF Release, IInv, TypeOK, FrameType
    <2>2. CASE v = u
        <3>1. pins'[v] = NoPin
            BY <1>6, <2>2 DEF Release, IInv, TypeOK
        <3> QED
            BY <3>1 DEF Stolen, Holds, NoPin
    <2>3. CASE v # u
        BY <1>0, <1>6, <2>1, <2>3, StaysUnderPin DEF Release, IInv, TypeOK
    <2> QED
        BY <2>2, <2>3
<1>7. CASE Shutdown
    BY <1>7 DEF Shutdown, Stolen, Holds
<1>8. CASE UNCHANGED <<frames, open, pins>>
    BY <1>0, <1>8, StaysUnderPin
<1> QED
    BY <1>1, <1>2, <1>3, <1>4, <1>5, <1>6, <1>7, <1>8
       DEF Next, Acquire, Start, vars

\* A miss takes the page from under those only who are on the slot where the
\* hand stopped.
LEMMA MissStealsSlot ==
    ASSUME IInv, HeldFramesFilled, NoneStolen,
           NEW u \in Users, NEW fd \in Fds, NEW p \in Pages,
           NEW k \in Nat, Slot(k) \in Frames,
           \A i \in Frames \ {Slot(k)} : frames'[i] = frames[i],
           frames'[Slot(k)].fd = fd,
           frames'[Slot(k)].page = p,
           Pin(u, Slot(k), fd, p),
           open' = StillOpen(owned, frames'),
           NEW v \in Users, Stolen(v)'
    PROVE  /\ v # u /\ Holds(v) /\ pins[v].frame = Slot(k)
           /\ frames[Slot(k)].refs > 0
<1> DEFINE i == Slot(k)
<1>0. /\ pins'[u] = [frame |-> i, file |-> open[fd], page |-> p]
      /\ v # u => pins'[v] = pins[v]
    BY DEF Pin, IInv, TypeOK
<1>1. open'[fd] = open[fd] /\ fd # NoFd
    BY DEF StillOpen, NoFd
<1> HIDE DEF i
<1>2. v # u
    BY <1>0, <1>1 DEF Stolen, CachedIn, FileOf, i
<1>3. Holds(v)
    BY <1>0, <1>2 DEF Stolen, Holds
<1>4. /\ pins[v].frame \in Frames
      /\ frames[pins[v].frame].refs \in Nat \ {0}
    BY <1>3, HeldIsCounted
<1>5. ASSUME pins[v].frame # i PROVE FALSE
    <2> DEFINE j == pins[v].frame
    <2>1. frames[j].fd \in Fds
        <3>1. frames[j] \in FrameType /\ frames[j].fd # NoFd
            BY <1>4 DEF IInv, TypeOK, HeldFramesFilled
        <3> QED
            BY <3>1 DEF FrameType
    <2>2. frames'[j] = frames[j]
        BY <1>4, <1>5 DEF i
    <2>3. open'[frames[j].fd] = open[frames[j].fd]
        BY <1>4, <2>1, <2>2 DEF StillOpen
    <2>4. ~Stolen(v)
        BY DEF NoneStolen
    <2> HIDE DEF j
    <2> QED
        BY <1>0, <1>2, <2>2, <2>3, <2>4, StaysUnderPin DEF j
<1> QED
    BY <1>2, <1>3, <1>4, <1>5 DEF i

LEMMA TheftTakesATurn ==
    ASSUME IInv, HeldFramesFilled, TurnsCounted, NoneStolen,
           MaxAge >= FrameCount - 1,
           NEW u \in Users, NEW fd \in Fds, NEW p \in Pages,
           ~Holds(u), Miss(u, fd, p),
           NEW v \in Users, Stolen(v)'
    PROVE  (heldFor[pins[v].frame] + 1) * (UserCount - 1) >= FrameCount
<1> USE DEF IInv
<1>1. PICK k \in 0 .. FrameCount :
         /\ Sweeps(k)
         /\ Slot(k) \in Frames
         /\ \A i \in Frames \ {Slot(k)} : frames'[i] = frames[i]
         /\ frames'[Slot(k)].fd = fd
         /\ frames'[Slot(k)].page = p
         /\ Pin(u, Slot(k), fd, p)
         /\ open' = StillOpen(owned, frames')
    BY MissIs
<1>2. k \in Nat
    OBVIOUS
<1>3. /\ pins[v].frame = Slot(k)
      /\ frames[Slot(k)].refs > 0
    BY <1>1, <1>2, MissStealsSlot
<1>4. /\ \A j \in 0 .. k - 1 : clock[Slot(j)] = 1
      /\ k = FrameCount \/ clock[Slot(k)] = 0
    BY <1>1 DEF Sweeps
<1> DEFINE i == Slot(k)
           h == heldFor[i]
           m == UserCount - 1
<1>5. /\ m \in Nat /\ m >= 1 /\ k <= m
      /\ clock[i] = 0 => k <= m - 1
    BY <1>1, <1>3, <1>4, OthersHold
<1>6. h \in Nat
    BY <1>1 DEF TypeOK
<1>7. /\ (h + 1) * m = h * m + m
      /\ h * m \in Nat
      /\ (h + 1) * m >= h + 1
    BY <1>5, <1>6, OneMissMore
<1>8. k # FrameCount => clock[i] = 0 /\ Past(i) = FrameCount - 1 - k
    BY <1>4, SlotPast DEF TypeOK
<1>9. k # FrameCount => h = MaxAge \/ Past(i) <= h * m
    BY <1>1, <1>3, <1>8 DEF TurnsCounted
<1> HIDE DEF i, h, m
<1>10. (h + 1) * m >= FrameCount
    BY <1>5, <1>6, <1>7, <1>8, <1>9
<1> QED
    BY <1>3, <1>10 DEF i, h, m

\* The clock protects a pinned frame until the hand has come round, however
\* many users pin and unpin frames on its way, and each miss moves the hand by
\* no more slots than there are other users.  The bound on the ages that are
\* counted has to be large enough to say so.
THEOREM PinsOutliveATurn ==
    ASSUME MaxAge >= FrameCount - 1
    PROVE  Spec => PinOutlivesATurn
<1> DEFINE TInv == IInv /\ HeldFramesFilled /\ TurnsCounted
<1>1. Init => HeldFramesFilled /\ TurnsCounted
    BY DEF Init, HeldFramesFilled, TurnsCounted, EmptyFrames, EmptyFrame, Frames
<1>2. TInv /\ [Next]_vars => TInv'
    BY NextKeepsIInv, FilledStay, NextCountsTurns
<1>3. TInv /\ [Next]_vars =>
        [NoneStolen /\ ~NoneStolen' =>
           \A u \in Users :
              Stolen(u)' =>
                  (heldFor[pins[u].frame] + 1) * (Cardinality(Users) - 1)
                      >= FrameCount]_vars
    <2> SUFFICES ASSUME TInv, [Next]_vars, NoneStolen, NEW v \in Users, Stolen(v)'
                 PROVE  (heldFor[pins[v].frame] + 1) * (UserCount - 1)
                            >= FrameCount
        BY DEF UserCount
    <2>1. PICK u \in Users, fd \in Fds, p \in Pages :
             Acquire(u, fd, p) /\ Miss(u, fd, p)
        BY OnlyMissesSteal
    <2>2. ~Holds(u)
        BY <2>1 DEF Acquire
    <2> QED
        BY <2>1, <2>2, TheftTakesATurn
<1> QED
    BY <1>1, <1>2, <1>3, InitIInv, PTL DEF Spec, PinOutlivesATurn

-----------------------------------------------------------------------------
(* What the page cache guarantees to users who keep to one File object per *)
(* file and release a page before they ask for the next one: nobody reads  *)
(* a stale page, and nothing is lost at an orderly exit.                   *)

\* A cached page is in its frame as it was last written, and in its file.
CachedIsCurrent ==
    \A i \in Frames :
        frames[i].fd # NoFd =>
            /\ frames[i].data = logical[FileOf(i)][frames[i].page]
            /\ frames[i].page < fileSize[FileOf(i)]

\* Any other page is in its file as it was last written.
UncachedIsOnDisk ==
    \A f \in Files, p \in Pages :
        (\A i \in Frames : ~CachedIn(i, f, p)) => disk[f][p] = logical[f][p]

\* A File object knows all pages of its file, so allocPage never zeroes a page
\* that is in use.
SizesAreFull ==
    \A fd \in Fds : open[fd] # NoFile => size[fd] = fileSize[open[fd]]

\* Between two processes the pool is empty.
EmptyWhenDown == ~running => \A i \in Frames : frames[i].fd = NoFd

\* The inductive invariant of the disciplined use: CachedIsCurrent of a page
\* that is read needs UncachedIsOnDisk, which needs that nobody writes through
\* a stolen frame, which needs the discipline.
CoherenceInv ==
    /\ IInv
    /\ OnePinAtATime
    /\ OneObjectPerFile
    /\ CachedIsCurrent
    /\ UncachedIsOnDisk
    /\ SizesAreFull
    /\ NoneStolen
    /\ EmptyWhenDown

\* What a step of the disciplined use is.
SoleStep == Next /\ (OnePinAtATime /\ OneObjectPerFile)'

USE FrameCountAssumption, FdsAssumption, MaxPagesAssumption,
    ValuesAssumption, MaxAgeAssumption, NoFileAssumption

-----------------------------------------------------------------------------
\* No page of a file is in two frames.
LEMMA OneFramePerPage ==
    ASSUME CoherenceInv, NEW f \in Files, NEW p \in Pages,
           NEW i \in Frames, NEW j \in Frames,
           CachedIn(i, f, p), CachedIn(j, f, p)
    PROVE  i = j
<1>1. /\ frames[i].fd \in Fds /\ frames[j].fd \in Fds
      /\ frames[i].fd # NoFd
      /\ frames[i].page = frames[j].page
      /\ open[frames[i].fd] = open[frames[j].fd]
      /\ open[frames[i].fd] # NoFile
    BY DEF CoherenceInv, IInv, TypeOK, FrameType, CachedIn, FileOf, CachedFdsOpen
<1>2. frames[i].fd = frames[j].fd
    BY <1>1 DEF CoherenceInv, OneObjectPerFile
<1>3. keys[i] = keys[j]
    BY <1>1, <1>2 DEF CoherenceInv, IInv, KeysMatchFrames
<1> QED
    BY <1>1, <1>3 DEF CoherenceInv, IInv, OneFramePerKey

\* A filled frame caches a page of a file, in the state it was last written in.
LEMMA FilledFrame ==
    ASSUME CoherenceInv, NEW i \in Frames, frames[i].fd # NoFd
    PROVE  /\ frames[i].fd \in Fds
           /\ FileOf(i) \in Files
           /\ frames[i].page \in Pages
           /\ CachedIn(i, FileOf(i), frames[i].page)
           /\ frames[i].data = logical[FileOf(i)][frames[i].page]
           /\ frames[i].page < fileSize[FileOf(i)]
BY DEF CoherenceInv, IInv, TypeOK, FrameType, CachedIn, FileOf, CachedFdsOpen,
       CachedIsCurrent

\* Descriptors that come and go without a frame change nothing of what is
\* cached.
LEMMA SameCache ==
    ASSUME CoherenceInv, UNCHANGED <<disk, frames, fileSize, logical>>,
           \A i \in Frames : frames[i].fd # NoFd => FileOf(i)' = FileOf(i)
    PROVE  CachedIsCurrent' /\ UncachedIsOnDisk'
<1>1. \A i \in Frames : \A f, p : CachedIn(i, f, p)' <=> CachedIn(i, f, p)
    BY DEF CachedIn
<1>2. CachedIsCurrent'
    BY DEF CoherenceInv, CachedIsCurrent, Frames
<1>3. UncachedIsOnDisk'
    BY <1>1 DEF CoherenceInv, UncachedIsOnDisk, Frames, Pages
<1> QED
    BY <1>2, <1>3

-----------------------------------------------------------------------------
(* One lemma per action.                                                   *)

LEMMA OpenCoheres ==
    ASSUME CoherenceInv, NEW f \in Files, NEW fd \in Fds, Open(f, fd),
           (OnePinAtATime /\ OneObjectPerFile)'
    PROVE  CoherenceInv'
<1> USE DEF Open
<1>1. IInv'
    BY OpenKeeps DEF CoherenceInv
<1>2. \A i \in Frames : frames[i].fd # NoFd => FileOf(i)' = FileOf(i)
    BY FilledFrame DEF FileOf, CoherenceInv, IInv, CachedFdsOpen, TypeOK
<1>3. CachedIsCurrent' /\ UncachedIsOnDisk'
    BY <1>2, SameCache
<1>4. SizesAreFull'
    BY DEF CoherenceInv, SizesAreFull, IInv, TypeOK
<1>5. NoneStolen'
    BY <1>2 DEF CoherenceInv, NoneStolen, Stolen, Holds, CachedIn, IInv, TypeOK,
                PinType
<1>6. EmptyWhenDown'
    BY DEF CoherenceInv, EmptyWhenDown, Frames
<1> QED
    BY <1>1, <1>3, <1>4, <1>5, <1>6 DEF CoherenceInv

LEMMA CloseCoheres ==
    ASSUME CoherenceInv, NEW fd \in Fds, Close(fd),
           (OnePinAtATime /\ OneObjectPerFile)'
    PROVE  CoherenceInv'
<1> USE DEF Close
<1>1. IInv'
    BY CloseKeeps DEF CoherenceInv
<1>2. \A i \in Frames : frames[i].fd # NoFd => FileOf(i)' = FileOf(i)
    BY FilledFrame DEF FileOf, StillOpen
<1>3. CachedIsCurrent' /\ UncachedIsOnDisk'
    BY <1>2, SameCache
<1>4. SizesAreFull'
    BY DEF CoherenceInv, SizesAreFull, StillOpen
<1>5. NoneStolen'
    BY <1>2 DEF CoherenceInv, NoneStolen, Stolen, Holds, CachedIn, IInv, TypeOK,
                PinType
<1>6. EmptyWhenDown'
    BY DEF CoherenceInv, EmptyWhenDown, Frames
<1> QED
    BY <1>1, <1>3, <1>4, <1>5, <1>6 DEF CoherenceInv

\* The new page is behind the end of the file, where nothing is cached.
LEMMA AllocPageCoheres ==
    ASSUME CoherenceInv, NEW fd \in Fds, AllocPage(fd),
           (OnePinAtATime /\ OneObjectPerFile)'
    PROVE  CoherenceInv'
<1> DEFINE f == open[fd]
           p == size[fd]
<1> USE DEF AllocPage, Grown
<1>1. IInv'
    BY AllocPageKeeps DEF CoherenceInv
<1>2. f \in Files /\ p \in Pages /\ p = fileSize[f]
    <2>1. f \in Files
        BY DEF CoherenceInv, IInv, TypeOK, OwnedFdsOpen
    <2>2. p \in Nat /\ p < MaxPages
        BY DEF CoherenceInv, IInv, TypeOK
    <2>3. p = fileSize[f]
        BY <2>1 DEF CoherenceInv, SizesAreFull
    <2> QED
        BY <2>1, <2>2, <2>3 DEF Pages
<1>3. /\ disk' = [disk EXCEPT ![f][p] = Zero]
      /\ logical' = [logical EXCEPT ![f][p] = Zero]
      /\ fileSize' = [fileSize EXCEPT ![f] = p + 1]
    <2>1. ~(fileSize[f] > p)
        BY <1>2 DEF Pages
    <2> QED
        BY <2>1
<1>4. \A i \in Frames : frames[i].fd # NoFd =>
         /\ FileOf(i)' = FileOf(i)
         /\ <<FileOf(i), frames[i].page>> # <<f, p>>
    BY <1>2, FilledFrame DEF FileOf, Pages
<1>5. CachedIsCurrent'
    <2> SUFFICES ASSUME NEW i \in Frames, frames[i].fd # NoFd
                 PROVE  /\ frames[i].data = logical'[FileOf(i)][frames[i].page]
                        /\ frames[i].page < fileSize'[FileOf(i)]
        BY <1>4 DEF CachedIsCurrent, Frames
    <2>1. logical'[FileOf(i)][frames[i].page] = logical[FileOf(i)][frames[i].page]
        BY <1>2, <1>3, <1>4, FilledFrame DEF CoherenceInv, IInv, TypeOK
    <2>2. fileSize'[FileOf(i)] >= fileSize[FileOf(i)]
        BY <1>2, <1>3, FilledFrame DEF CoherenceInv, IInv, TypeOK, Pages
    <2>3. /\ frames[i].page \in Int
          /\ fileSize[FileOf(i)] \in Int
          /\ fileSize'[FileOf(i)] \in Int
        BY <1>1, FilledFrame DEF CoherenceInv, IInv, TypeOK, Pages
    <2> QED
        BY <2>1, <2>2, <2>3, FilledFrame
<1>6. UncachedIsOnDisk'
    <2> SUFFICES ASSUME NEW g \in Files, NEW q \in Pages,
                        \A i \in Frames : ~CachedIn(i, g, q)'
                 PROVE  disk'[g][q] = logical'[g][q]
        BY DEF UncachedIsOnDisk, Frames, Pages
    <2>1. \A i \in Frames : ~CachedIn(i, g, q)
        BY <1>4 DEF CachedIn
    <2>2. disk[g][q] = logical[g][q]
        BY <2>1 DEF CoherenceInv, UncachedIsOnDisk
    <2> QED
        BY <1>2, <1>3, <2>2 DEF CoherenceInv, IInv, TypeOK
<1>7. SizesAreFull'
    BY <1>2, <1>3 DEF CoherenceInv, SizesAreFull, OneObjectPerFile, IInv, TypeOK
<1>8. NoneStolen'
    BY <1>4 DEF CoherenceInv, NoneStolen, Stolen, Holds, CachedIn, IInv, TypeOK,
                PinType
<1>9. EmptyWhenDown'
    BY DEF CoherenceInv, EmptyWhenDown, Frames
<1> QED
    BY <1>1, <1>5, <1>6, <1>7, <1>8, <1>9 DEF CoherenceInv

\* A store goes to the frame that caches the page the user asked for.
LEMMA WriteCoheres ==
    ASSUME CoherenceInv, NEW u \in Users, NEW v \in Values, Write(u, v),
           (OnePinAtATime /\ OneObjectPerFile)'
    PROVE  CoherenceInv'
<1> DEFINE i == pins[u].frame
           f == pins[u].file
           p == pins[u].page
<1> USE DEF Write
<1>1. IInv'
    BY WriteKeeps DEF CoherenceInv
<1>2. /\ i \in Frames
      /\ f \in Files
      /\ p \in Pages
      /\ CachedIn(i, f, p)
    BY HeldIsCounted DEF CoherenceInv, IInv, TypeOK, PinType, PinsNameFiles,
                         NoneStolen, Stolen
<1>3. /\ frames' = [frames EXCEPT ![i].data = v]
      /\ logical' = [logical EXCEPT ![f][p] = v]
    OBVIOUS
<1> HIDE DEF i, f, p
<1>4. \A j \in Frames : /\ frames'[j].fd = frames[j].fd
                        /\ frames'[j].page = frames[j].page
                        /\ frames'[j].data = IF j = i THEN v ELSE frames[j].data
    BY <1>2, <1>3 DEF CoherenceInv, IInv, TypeOK, FrameType
<1>5. \A j \in Frames : \A g, q : CachedIn(j, g, q)' <=> CachedIn(j, g, q)
    BY <1>4 DEF CachedIn, FileOf
<1>6. CachedIsCurrent'
    <2> SUFFICES ASSUME NEW j \in Frames, frames[j].fd # NoFd
                 PROVE  frames'[j].data = logical'[FileOf(j)][frames[j].page]
        BY <1>4, FilledFrame DEF CachedIsCurrent, Frames, FileOf
    <2>1. CASE j = i
        BY <1>2, <1>3, <1>4, <2>1 DEF CachedIn, CoherenceInv, IInv, TypeOK
    <2>2. CASE j # i
        <3>1. <<FileOf(j), frames[j].page>> # <<f, p>>
            BY <1>2, <2>2, FilledFrame, OneFramePerPage
        <3> QED
            BY <1>2, <1>3, <1>4, <2>2, <3>1, FilledFrame
               DEF CoherenceInv, IInv, TypeOK
    <2> QED
        BY <2>1, <2>2
<1>7. UncachedIsOnDisk'
    <2> SUFFICES ASSUME NEW g \in Files, NEW q \in Pages,
                        \A j \in Frames : ~CachedIn(j, g, q)
                 PROVE  disk[g][q] = logical'[g][q]
        BY <1>5 DEF UncachedIsOnDisk, Frames, Pages
    <2>1. <<g, q>> # <<f, p>>
        BY <1>2
    <2>2. disk[g][q] = logical[g][q]
        BY DEF CoherenceInv, UncachedIsOnDisk
    <2> QED
        BY <1>2, <1>3, <2>1, <2>2 DEF CoherenceInv, IInv, TypeOK
<1>8. SizesAreFull'
    BY DEF CoherenceInv, SizesAreFull
<1>9. NoneStolen'
    BY <1>5 DEF CoherenceInv, NoneStolen, Stolen, Holds, IInv, TypeOK, PinType
<1>10. EmptyWhenDown'
    BY <1>4 DEF CoherenceInv, EmptyWhenDown, Frames
<1> QED
    BY <1>1, <1>6, <1>7, <1>8, <1>9, <1>10 DEF CoherenceInv

LEMMA ReleaseCoheres ==
    ASSUME CoherenceInv, NEW u \in Users, Release(u),
           (OnePinAtATime /\ OneObjectPerFile)'
    PROVE  CoherenceInv'
<1> USE DEF Release
<1>1. IInv'
    BY ReleaseKeeps DEF CoherenceInv
<1>2. \A j \in Frames : /\ frames'[j].fd = frames[j].fd
                        /\ frames'[j].page = frames[j].page
                        /\ frames'[j].data = frames[j].data
    BY HeldIsCounted DEF CoherenceInv, IInv, TypeOK, FrameType
<1>3. \A j \in Frames : \A g, q : CachedIn(j, g, q)' <=> CachedIn(j, g, q)
    BY <1>2 DEF CachedIn, FileOf
<1>4. CachedIsCurrent'
    BY <1>2 DEF CoherenceInv, CachedIsCurrent, Frames, FileOf
<1>5. UncachedIsOnDisk'
    BY <1>3 DEF CoherenceInv, UncachedIsOnDisk, Frames, Pages
<1>6. NoneStolen'
    BY <1>3 DEF CoherenceInv, NoneStolen, Stolen, Holds, NoPin, IInv, TypeOK,
                PinType
<1>7. SizesAreFull' /\ EmptyWhenDown'
    BY <1>2 DEF CoherenceInv, SizesAreFull, EmptyWhenDown, Frames
<1> QED
    BY <1>1, <1>4, <1>5, <1>6, <1>7 DEF CoherenceInv

LEMMA HitCoheres ==
    ASSUME CoherenceInv, NEW u \in Users, NEW fd \in Fds, NEW p \in Pages,
           Acquire(u, fd, p), Hit(u, fd, p),
           (OnePinAtATime /\ OneObjectPerFile)'
    PROVE  CoherenceInv'
<1> USE DEF Acquire
<1>1. IInv'
    BY HitKeeps DEF CoherenceInv
<1>2. PICK i \in Frames :
         /\ keys[i] = <<fd, p>>
         /\ frames' = [frames EXCEPT ![i].refs = @ + 1]
         /\ Pin(u, i, fd, p)
         /\ UNCHANGED <<disk, open>>
    BY DEF Hit, Found
<1>3. \A j \in Frames : /\ frames'[j].fd = frames[j].fd
                        /\ frames'[j].page = frames[j].page
                        /\ frames'[j].data = frames[j].data
    BY <1>2 DEF CoherenceInv, IInv, TypeOK, FrameType
<1>4. \A j \in Frames : \A g, q : CachedIn(j, g, q)' <=> CachedIn(j, g, q)
    BY <1>2, <1>3 DEF CachedIn, FileOf
<1>5. CachedIsCurrent'
    BY <1>2, <1>3 DEF CoherenceInv, CachedIsCurrent, Frames, FileOf
<1>6. UncachedIsOnDisk'
    BY <1>2, <1>4 DEF CoherenceInv, UncachedIsOnDisk, Frames, Pages
<1>7. NoneStolen'
    <2>1. CachedIn(i, open[fd], p)
        BY <1>2 DEF CoherenceInv, IInv, KeysMatchFrames, CachedIn, FileOf, NoFd
    <2> QED
        BY <1>2, <1>4, <2>1 DEF CoherenceInv, NoneStolen, Stolen, Holds, Pin,
                                IInv, TypeOK, PinType
<1>8. SizesAreFull' /\ EmptyWhenDown'
    BY <1>2, <1>3 DEF CoherenceInv, SizesAreFull, EmptyWhenDown, Frames
<1> QED
    BY <1>1, <1>5, <1>6, <1>7, <1>8 DEF CoherenceInv

\* What a miss writes back is current, so every page that is in no frame then
\* is on disk as it was last written, the wanted page among them.
LEMMA MissCoheres ==
    ASSUME CoherenceInv, NEW u \in Users, NEW fd \in Fds, NEW p \in Pages,
           Acquire(u, fd, p), Miss(u, fd, p),
           (OnePinAtATime /\ OneObjectPerFile)'
    PROVE  CoherenceInv'
<1> USE DEF Acquire
<1>1. IInv'
    BY MissKeeps DEF CoherenceInv
<1>2. PICK i \in Frames :
         /\ disk' = Dumped(i)
         /\ frames' = [frames EXCEPT ![i] =
                         [fd |-> fd, page |-> p, data |-> disk'[open[fd]][p],
                          refs |-> @.refs + 1]]
         /\ open' = StillOpen(owned, frames')
         /\ Pin(u, i, fd, p)
    <2>1. \A k \in 0 .. FrameCount : Slot(k) \in Frames
        BY SlotIsFrame DEF CoherenceInv, IInv, TypeOK
    <2> QED
        BY <2>1 DEF Miss, Load
<1>3. /\ frames'[i].fd = fd
      /\ frames'[i].page = p
      /\ frames'[i].data = disk'[open[fd]][p]
      /\ \A j \in Frames : j # i => frames'[j] = frames[j]
    BY <1>2 DEF CoherenceInv, IInv, TypeOK
<1>4. /\ open[fd] \in Files
      /\ p < fileSize[open[fd]]
      /\ fd # NoFd
    <2>1. open[fd] \in Files
        BY DEF CoherenceInv, IInv, TypeOK, OwnedFdsOpen
    <2> QED
        BY <2>1 DEF CoherenceInv, SizesAreFull, NoFd
<1>5. open'[fd] = open[fd]
    BY <1>2 DEF StillOpen
<1>6. \A j \in Frames : j # i /\ frames[j].fd # NoFd => FileOf(j)' = FileOf(j)
    <2> SUFFICES ASSUME NEW j \in Frames, j # i, frames[j].fd # NoFd
                 PROVE  open'[frames[j].fd] = open[frames[j].fd]
        BY <1>3 DEF FileOf
    <2>1. frames[j].fd \in Fds /\ frames'[j].fd = frames[j].fd
        BY <1>3, FilledFrame
    <2> QED
        BY <1>2, <2>1 DEF StillOpen
<1>7. \A j \in Frames : ~CachedIn(j, open[fd], p)
    <2> SUFFICES ASSUME NEW j \in Frames, CachedIn(j, open[fd], p)
                 PROVE  FALSE
        OBVIOUS
    <2>1. frames[j].fd \in Fds /\ open[frames[j].fd] = open[fd]
        BY FilledFrame DEF CachedIn, FileOf
    <2>2. frames[j].fd = fd
        BY <1>4, <2>1 DEF CoherenceInv, OneObjectPerFile
    <2>3. keys[j] = <<fd, p>>
        BY <2>2 DEF CachedIn, CoherenceInv, IInv, KeysMatchFrames
    <2>4. \A l \in Frames : l < j => keys[l] # <<fd, p>>
        BY <1>4, <2>2, <2>3 DEF CoherenceInv, IInv, OneFramePerKey, Frames
    <2>5. Found(j, <<fd, p>>)
        BY <2>3, <2>4 DEF Found
    <2> QED
        BY <2>5 DEF Miss
<1>8. \A g \in Files, q \in Pages :
         (\A j \in Frames : j # i => ~CachedIn(j, g, q))
            => disk'[g][q] = logical[g][q]
    <2> SUFFICES ASSUME NEW g \in Files, NEW q \in Pages,
                        \A j \in Frames : j # i => ~CachedIn(j, g, q)
                 PROVE  disk'[g][q] = logical[g][q]
        OBVIOUS
    <2>1. CASE frames[i].fd = NoFd
        <3>1. \A j \in Frames : ~CachedIn(j, g, q)
            BY <2>1 DEF CachedIn
        <3> QED
            BY <1>2, <2>1, <3>1 DEF Dumped, CoherenceInv, UncachedIsOnDisk
    <2>2. CASE frames[i].fd # NoFd
        <3>1. disk' = [disk EXCEPT ![FileOf(i)][frames[i].page] = frames[i].data]
            BY <1>2, <2>2 DEF Dumped
        <3>2. /\ FileOf(i) \in Files
              /\ frames[i].page \in Pages
              /\ frames[i].data = logical[FileOf(i)][frames[i].page]
            BY <2>2, FilledFrame
        <3>3. CASE FileOf(i) = g /\ frames[i].page = q
            BY <3>1, <3>2, <3>3 DEF CoherenceInv, IInv, TypeOK
        <3>4. CASE ~(FileOf(i) = g /\ frames[i].page = q)
            <4>1. \A j \in Frames : ~CachedIn(j, g, q)
                BY <3>4 DEF CachedIn
            <4>2. disk[g][q] = logical[g][q]
                BY <4>1 DEF CoherenceInv, UncachedIsOnDisk
            <4> QED
                BY <3>1, <3>2, <3>4, <4>2 DEF CoherenceInv, IInv, TypeOK
        <3> QED
            BY <3>3, <3>4
    <2> QED
        BY <2>1, <2>2
<1>9. CachedIsCurrent'
    <2> SUFFICES ASSUME NEW j \in Frames, frames'[j].fd # NoFd
                 PROVE  /\ frames'[j].data = logical[FileOf(j)'][frames'[j].page]
                        /\ frames'[j].page < fileSize[FileOf(j)']
        BY DEF CachedIsCurrent, Frames, FileOf
    <2>1. CASE j = i
        <3>1. FileOf(j)' = open[fd]
            BY <1>3, <1>5, <2>1 DEF FileOf
        <3>2. disk'[open[fd]][p] = logical[open[fd]][p]
            BY <1>4, <1>7, <1>8
        <3> QED
            BY <1>3, <1>4, <2>1, <3>1, <3>2
    <2>2. CASE j # i
        BY <1>3, <1>6, <2>2, FilledFrame
    <2> QED
        BY <2>1, <2>2
<1>10. UncachedIsOnDisk'
    <2> SUFFICES ASSUME NEW g \in Files, NEW q \in Pages,
                        \A j \in Frames : ~CachedIn(j, g, q)'
                 PROVE  disk'[g][q] = logical[g][q]
        BY DEF UncachedIsOnDisk, Frames, Pages
    <2>1. \A j \in Frames : j # i => ~CachedIn(j, g, q)
        BY <1>3, <1>6 DEF CachedIn
    <2> QED
        BY <1>8, <2>1
<1>11. SizesAreFull'
    BY <1>2 DEF CoherenceInv, SizesAreFull, StillOpen
<1>12. NoneStolen'
    <2> SUFFICES ASSUME NEW w \in Users, Holds(w)' PROVE ~Stolen(w)'
        BY DEF NoneStolen, Stolen
    <2>1. Holds(u)'
        BY <1>2 DEF Holds, Pin, NoFrame, Frames, CoherenceInv, IInv, TypeOK
    <2>2. w = u
        BY <2>1 DEF OnePinAtATime
    <2>3. /\ pins'[u].frame = i
          /\ pins'[u].file = open[fd]
          /\ pins'[u].page = p
        BY <1>2 DEF Pin, CoherenceInv, IInv, TypeOK
    <2> QED
        BY <1>3, <1>4, <1>5, <2>2, <2>3 DEF Stolen, CachedIn, FileOf
<1>13. EmptyWhenDown'
    BY DEF EmptyWhenDown
<1> QED
    BY <1>1, <1>9, <1>10, <1>11, <1>12, <1>13 DEF CoherenceInv

LEMMA DumpedAllIsLogical ==
    ASSUME CoherenceInv
    PROVE  DumpedAll = logical
<1>1. ASSUME NEW f \in Files, NEW p \in Pages
      PROVE  DumpedAll[f][p] = logical[f][p]
    <2> DEFINE Last(i) == /\ i \in Frames
                          /\ CachedIn(i, f, p)
                          /\ \A j \in Frames : CachedIn(j, f, p) => j <= i
               last == CHOOSE i : Last(i)
    <2>1. CASE \E i \in Frames : CachedIn(i, f, p)
        <3>1. Last(last)
            BY <2>1, LastExists
        <3>2. DumpedAll[f][p] = frames[last].data
            BY <2>1 DEF DumpedAll
        <3>3. frames[last].data = logical[f][p]
            BY <3>1, FilledFrame DEF CachedIn
        <3> QED
            BY <3>2, <3>3
    <2>2. CASE \A i \in Frames : ~CachedIn(i, f, p)
        BY <2>2 DEF DumpedAll, CoherenceInv, UncachedIsOnDisk
    <2> QED
        BY <2>1, <2>2
<1>2. logical = [f \in Files |-> [p \in Pages |-> logical[f][p]]]
    BY DEF CoherenceInv, IInv, TypeOK
<1>3. DumpedAll = [f \in Files |-> [p \in Pages |-> DumpedAll[f][p]]]
    BY DEF DumpedAll
<1> QED
    BY <1>1, <1>2, <1>3

LEMMA ShutdownCoheres ==
    ASSUME CoherenceInv, Shutdown, (OnePinAtATime /\ OneObjectPerFile)'
    PROVE  CoherenceInv'
<1> USE DEF Shutdown
<1>1. IInv'
    BY ShutdownKeeps DEF CoherenceInv
<1>2. \A i \in Frames : frames'[i].fd = NoFd
    BY DEF EmptyFrames, EmptyFrame
<1>3. CachedIsCurrent' /\ EmptyWhenDown'
    BY <1>2 DEF CachedIsCurrent, EmptyWhenDown, Frames
<1>4. UncachedIsOnDisk'
    BY DumpedAllIsLogical DEF UncachedIsOnDisk, Pages
<1>5. SizesAreFull'
    BY DEF SizesAreFull, NoFiles
<1>6. NoneStolen'
    BY DEF NoneStolen, Stolen, Holds
<1> QED
    BY <1>1, <1>3, <1>4, <1>5, <1>6 DEF CoherenceInv

LEMMA StartCoheres ==
    ASSUME CoherenceInv, Start \/ UNCHANGED vars
    PROVE  CoherenceInv'
<1>1. IInv'
    BY UnchangedKeeps DEF CoherenceInv, Start, vars, IInv, TypeOK
<1> QED
    BY <1>1 DEF CoherenceInv, Start, vars, OnePinAtATime, OneObjectPerFile,
                CachedIsCurrent, UncachedIsOnDisk, SizesAreFull, NoneStolen,
                EmptyWhenDown, Holds, Stolen, CachedIn, FileOf, Frames, Pages

LEMMA InitCoheres == Init => CoherenceInv
<1> SUFFICES ASSUME Init PROVE CoherenceInv
    OBVIOUS
<1>1. IInv
    BY InitIInv
<1>2. OnePinAtATime /\ NoneStolen
    BY DEF Init, OnePinAtATime, NoneStolen, Stolen, Holds, NoPin
<1>3. OneObjectPerFile /\ SizesAreFull
    BY DEF Init, OneObjectPerFile, SizesAreFull, NoFiles
<1>4. CachedIsCurrent /\ UncachedIsOnDisk /\ EmptyWhenDown
    BY DEF Init, CachedIsCurrent, UncachedIsOnDisk, EmptyWhenDown, EmptyFrames,
           EmptyFrame
<1> QED
    BY <1>1, <1>2, <1>3, <1>4 DEF CoherenceInv

LEMMA SoleStepCoheres == CoherenceInv /\ [SoleStep]_vars => CoherenceInv'
<1> SUFFICES ASSUME CoherenceInv, [SoleStep]_vars PROVE CoherenceInv'
    OBVIOUS
<1> DEFINE Rules == (OnePinAtATime /\ OneObjectPerFile)'
<1>1. ASSUME NEW f \in Files, NEW fd \in Fds, Open(f, fd), Rules
      PROVE  CoherenceInv'
    BY <1>1, OpenCoheres
<1>2. ASSUME NEW fd \in Fds, Close(fd) \/ AllocPage(fd), Rules
      PROVE  CoherenceInv'
    BY <1>2, CloseCoheres, AllocPageCoheres
<1>3. ASSUME NEW u \in Users, NEW fd \in Fds, NEW p \in Pages,
             Acquire(u, fd, p), Rules
      PROVE  CoherenceInv'
    BY <1>3, HitCoheres, MissCoheres DEF Acquire
<1>4. ASSUME NEW u \in Users, NEW v \in Values, Write(u, v), Rules
      PROVE  CoherenceInv'
    BY <1>4, WriteCoheres
<1>5. ASSUME NEW u \in Users, Release(u), Rules PROVE CoherenceInv'
    BY <1>5, ReleaseCoheres
<1>6. CASE Shutdown /\ Rules
    BY <1>6, ShutdownCoheres
<1>7. CASE Start \/ UNCHANGED vars
    BY <1>7, StartCoheres
<1> QED
    BY <1>1, <1>2, <1>3, <1>4, <1>5, <1>6, <1>7 DEF SoleStep, Next

LEMMA Coherence == SpecSoleObject => []CoherenceInv
BY InitCoheres, SoleStepCoheres, PTL DEF SpecSoleObject, SoleStep

-----------------------------------------------------------------------------
\* With one File object per file and one page at a time, whoever holds a page
\* sees what was last written to it: the frame is still its page's, and what it
\* was read from was not stale.
THEOREM HoldersSeeLastWrite == SpecSoleObject => []PinsSeeLastWrite
<1>1. ASSUME CoherenceInv PROVE PinsSeeLastWrite
    <2> SUFFICES ASSUME NEW u \in Users, Holds(u)
                 PROVE  frames[pins[u].frame].data
                            = logical[pins[u].file][pins[u].page]
        BY DEF PinsSeeLastWrite
    <2>1. /\ pins[u].frame \in Frames
          /\ CachedIn(pins[u].frame, pins[u].file, pins[u].page)
        BY <1>1, HeldIsCounted DEF CoherenceInv, NoneStolen, Stolen
    <2> QED
        BY <1>1, <2>1, FilledFrame DEF CachedIn
<1> QED
    BY <1>1, Coherence, PTL

\* Used like that, the destructor of the pool leaves in the files all that was
\* written: nothing is lost to a page written back late or zeroed again.
THEOREM NothingLostAtExit == SpecSoleObject => []DurableAfterShutdown
<1>1. ASSUME CoherenceInv PROVE DurableAfterShutdown
    <2> SUFFICES ASSUME ~running PROVE disk = logical
        BY DEF DurableAfterShutdown
    <2>1. \A i \in Frames : \A f, p : ~CachedIn(i, f, p)
        BY <1>1 DEF CoherenceInv, EmptyWhenDown, CachedIn
    <2>2. \A f \in Files, p \in Pages : disk[f][p] = logical[f][p]
        BY <1>1, <2>1 DEF CoherenceInv, UncachedIsOnDisk
    <2> QED
        BY <1>1, <2>2 DEF CoherenceInv, IInv, TypeOK
<1> QED
    BY <1>1, Coherence, PTL

\* Used like that, no frame is given away under a Frame object.
THEOREM NoPageStolen == SpecSoleObject => []NoneStolen
BY Coherence, PTL DEF CoherenceInv
=============================================================================
