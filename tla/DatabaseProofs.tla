--------------------------- MODULE DatabaseProofs ---------------------------
(***************************************************************************)
(* What holds of module Database for every value of its constants: any     *)
(* number of threads, tables, frames, descriptors, kills and requests.     *)
(*                                                                         *)
(* The invariant has two layers.  TInv types the directory, the pages, the *)
(* frames and the threads.  DInv adds, table by table, who works on it     *)
(* with whom (Meets), what its files hold (TableFits) and what each of its *)
(* threads relies on (WorkerFits).  A step writes to the files of one      *)
(* table and may write back the frames of others: Touches says what is     *)
(* left of those, and OtherFits that it is enough.                         *)
(***************************************************************************)
EXTENDS Database, Iteration

-----------------------------------------------------------------------------
(* The inductive invariant: types                                          *)

Creating == {"check", "make", "open", "append", "table"}
Dropping == {"forget", "remove"}
Finding == {"find", "look", "read"}
Reading == Finding \cup {"data", "insert", "scan", "end"}
Labels == Creating \cup Dropping \cup Reading \cup {"idle", "hung"}

Ops == [do : {"nothing", "create", "drop", "insert", "select"},
        name : Names \cup {None}, cols : Seq(Columns), read : Seq(Columns),
        at : Nat, scheme : Handle \cup {None}, data : Handle \cup {None},
        alone : BOOLEAN]

PageOf(f) == IF \E n \in Names : f[1] = Scheme(n) THEN SchemePage ELSE DataPage
Tables == [cols : Seq(Columns), rows : Nat]
FrameRecords == [file : Files, by : Threads \cup {None},
                 rows : SchemePage \cup DataPage \cup {None}]

Dirs == {d \in [Paths -> Files \cup {None}] :
            \A p \in Paths : d[p] # None => d[p][1] = p}
Pages == {d \in [Files -> SchemePage \cup DataPage \cup {None}] :
             \A f \in Files : d[f] # None => d[f] \in PageOf(f)}
Pools == {fs \in [Frames -> FrameRecords \cup {None}] :
             \A i \in Frames :
                fs[i] # None => fs[i].rows \in PageOf(fs[i].file) \cup {None}}

\* A page in a frame is one of its file, and a frame is found again under an
\* open handle, and then it is the only one.
Backed == \A i \in Frames : frames[i] # None /\ ~Stuck(i) => disk[frames[i].file] # None
Keyed == \A i \in Frames : frames[i] # None /\ frames[i].by # None =>
            /\ \E h \in Handles(frames[i].by) : h.file = frames[i].file
            /\ \A j \in Frames : Under(j, frames[i].by, frames[i].file) => j = i
            /\ Stuck(i) => pc[frames[i].by] = "hung"
Waited == \A i \in Frames : Stuck(i) => frames[i].by # None
\* Only files somebody can reach have pages.
NoLostPages == \A f \in Files : ~InUse(f) => disk[f] = None

StoreFits ==
    /\ dir \in Dirs /\ disk \in Pages /\ frames \in Pools /\ hand \in Frames
    /\ Backed /\ Keyed /\ Waited /\ NoLostPages

ThreadsTyped == pc \in [Threads -> Labels] /\ op \in [Threads -> Ops]
RestTyped ==
    /\ made \in [Names -> Tables \cup {None}]
    /\ spoiled \in [Names -> SUBSET Reasons]
    /\ kills \in 0 .. MaxKills
    /\ requests \in 0 .. MaxRequests

\* What a thread does goes with what it was asked for.
OpFits(th) ==
    /\ pc[th] = "idle" <=> op[th].do = "nothing"
    /\ pc[th] = "idle" => op[th] = NoOp
    /\ pc[th] # "idle" => op[th].name \in Names
    /\ pc[th] \in Creating => op[th].do = "create" /\ op[th].data = None
    /\ pc[th] \in Creating => op[th].cols # <<>>
    /\ pc[th] \in {"check", "make", "open"} => op[th].at = 0
    /\ pc[th] = "append" => /\ op[th].at < Len(op[th].cols)
                            /\ op[th].scheme # None
                            /\ op[th].scheme.size = 0 => op[th].at = 0
    /\ pc[th] \in Dropping => op[th].do = "drop" /\ op[th].data = None
    /\ pc[th] \in Reading => op[th].do \in {"insert", "select"}
    /\ pc[th] \in Finding => \/ op[th].at = 0 /\ op[th].data = None
                             \/ op[th].do = "insert" /\ op[th].at = 1 /\ op[th].data = None
                             \/ op[th].do = "select" /\ op[th].at \in {1, 2} /\ op[th].data # None
    /\ pc[th] = "read" => op[th].scheme # None
    /\ pc[th] \notin {"append", "read", "hung"} => op[th].scheme = None
    /\ pc[th] = "data" => \/ op[th].do = "insert" /\ op[th].at = 2
                          \/ op[th].do = "select" /\ op[th].at = 1
    /\ pc[th] = "data" => op[th].data = None
    /\ pc[th] = "insert" => op[th].do = "insert" /\ op[th].data # None
    /\ pc[th] \in {"scan", "end"} => op[th].do = "select" /\ op[th].data # None
    /\ pc[th] = "scan" => op[th].at = 2
    /\ op[th].scheme # None => op[th].scheme.file[1] = Scheme(op[th].name)
    /\ op[th].data # None => op[th].data.file[1] = Data(op[th].name)
    /\ \A h \in Handles(th) : h.size # 0 => disk[h.file] # None
    /\ \A h \in Handles(th) : h.size = 0 /\ pc[th] # "hung" =>
          \A i \in Frames : ~Under(i, th, h.file)

TInv == StoreFits /\ ThreadsTyped /\ RestTyped /\ \A th \in Threads : OpFits(th)

-----------------------------------------------------------------------------
(* Paths, files and pages                                                  *)

LEMMA PathFacts ==
    /\ \A n \in Names : Scheme(n) \in Paths /\ Data(n) \in Paths
    /\ \A n, m : Scheme(n) # Data(m)
    /\ \A n, m : Scheme(n) = Scheme(m) => n = m
    /\ \A n, m : Data(n) = Data(m) => n = m
    /\ \A f \in Files : f[1] \in Paths
    /\ \A p \in Paths, g \in Generations : <<p, g>> \in Files
<1>1. \A n, m : Scheme(n) # Data(m)
    BY DEF Scheme, Data
<1>2. \A n, m : (Scheme(n) = Scheme(m) => n = m) /\ (Data(n) = Data(m) => n = m)
    BY DEF Scheme, Data
<1>3. \A n \in Names : Scheme(n) \in Paths /\ Data(n) \in Paths
    BY DEF Paths
<1>4. \A f \in Files : f[1] \in Paths
    BY DEF Files
<1>5. \A p \in Paths, g \in Generations : <<p, g>> \in Files
    BY DEF Files
<1> QED
    BY <1>1, <1>2, <1>3, <1>4, <1>5

LEMMA NoneFacts ==
    /\ None \notin Files
    /\ None \notin Handle
    /\ None \notin Threads
    /\ None \notin Tables
    /\ None \notin FrameRecords
    /\ \A f : None \notin PageOf(f)
BY NoneAssumption DEF Tables, PageOf, FrameRecords

LEMMA PageFacts ==
    ASSUME NEW f \in Files
    PROVE  /\ PageOf(f) \in {SchemePage, DataPage}
           /\ <<>> \in PageOf(f)
           /\ \A s, t \in PageOf(f) : s \o t \in PageOf(f)
           /\ \A n \in Names : f[1] = Scheme(n) => PageOf(f) = SchemePage
           /\ \A n \in Names : f[1] = Data(n) => PageOf(f) = DataPage
<1>1. PageOf(f) \in {SchemePage, DataPage}
    BY DEF PageOf
<1>2. \A X : <<>> \in Seq(X) /\ \A s, t \in Seq(X) : s \o t \in Seq(X)
    OBVIOUS
<1>3. /\ <<>> \in PageOf(f)
      /\ \A s, t \in PageOf(f) : s \o t \in PageOf(f)
    BY <1>1, <1>2 DEF SchemePage, DataPage
<1>4. \A n \in Names : f[1] = Data(n) => PageOf(f) = DataPage
    BY PathFacts DEF PageOf
<1>5. \A n \in Names : f[1] = Scheme(n) => PageOf(f) = SchemePage
    BY DEF PageOf
<1> QED
    BY <1>1, <1>3, <1>4, <1>5

LEMMA FrameFacts ==
    ASSUME frames \in Pools, NEW i \in Frames, frames[i] # None
    PROVE  /\ frames[i] \in FrameRecords
           /\ frames[i].file \in Files
           /\ frames[i].by \in Threads \cup {None}
           /\ frames[i].rows \in PageOf(frames[i].file) \cup {None}
           /\ Stuck(i) <=> frames[i].rows = None
BY DEF Pools, FrameRecords, Stuck

\* The disk after the frame at the hand was written back.
LEMMA DumpedFacts ==
    ASSUME frames \in Pools, hand \in Frames, NEW d \in Pages, NEW g
    PROVE  /\ Dumped(d, g) \in Pages
           /\ \A f \in Files :
                 Dumped(d, g)[f] = IF frames[hand] # None /\ ~Stuck(hand) /\ frames[hand].file = f
                                   THEN frames[hand].rows ELSE d[f]
           /\ \A f \in Files : d[f] # None => Dumped(d, g)[f] # None
<1>1. CASE frames[hand] = None \/ Stuck(hand)
    BY <1>1 DEF Dumped
<1>2. CASE frames[hand] # None /\ ~Stuck(hand)
    <2>1. /\ frames[hand].file \in Files
          /\ frames[hand].rows \in PageOf(frames[hand].file)
          /\ frames[hand].rows # None
          /\ frames[hand].rows \in SchemePage \cup DataPage
        BY <1>2, NoneFacts, FrameFacts, PageFacts
    <2>2. Dumped(d, g) = [d EXCEPT ![frames[hand].file] = frames[hand].rows]
        BY <1>2 DEF Dumped
    <2>3. Dumped(d, g) \in [Files -> SchemePage \cup DataPage \cup {None}]
        BY <2>1, <2>2 DEF Pages
    <2>4. \A f \in Files :
             Dumped(d, g)[f] = IF frames[hand] # None /\ ~Stuck(hand) /\ frames[hand].file = f
                               THEN frames[hand].rows ELSE d[f]
        BY <1>2, <2>1, <2>2 DEF Pages
    <2> QED
        BY <2>1, <2>3, <2>4 DEF Pages
<1> QED
    BY <1>1, <1>2

LEMMA TurnedFacts == hand \in Frames => Turned \in Frames /\ 0 \in Frames
BY PoolAssumption DEF Turned, Frames

-----------------------------------------------------------------------------
(* Copies of a page                                                        *)

\* What the steps of thread th leave of the copies of f: no new ones.
OldCopies(f) ==
    /\ \A p \in Copies(f)' : p \in Copies(f)
    /\ disk[f] = None => disk'[f] = None
    /\ disk[f] # None => disk'[f] # None

\* And none is lost, only written back, or its handle closed by th.
Keeps(f, th) ==
    /\ \A i \in Frames : frames'[i] # None /\ frames'[i].file = f =>
        /\ frames[i] # None /\ frames[i].file = f
        /\ frames'[i].rows = frames[i].rows
        /\ frames'[i].by = frames[i].by \/ frames[i].by = th
    /\ \A i \in Frames : frames[i] # None /\ frames[i].file = f /\ ~Stuck(i) =>
        \/ frames'[i] # None /\ frames'[i].file = f
        \/ disk'[f] = frames[i].rows
    /\ \/ disk'[f] = disk[f]
       \/ \E i \in Frames : /\ frames[i] # None /\ frames[i].file = f
                            /\ disk'[f] = frames[i].rows

OthersStay(th) ==
    \A x \in Threads : x # th => op'[x] = op[x] /\ pc'[x] = pc[x]

LEMMA CopyFacts ==
    ASSUME NEW f, NEW p
    PROVE  p \in Copies(f) <=>
              /\ p # None
              /\ \/ p = disk[f]
                 \/ \E i \in Frames : /\ frames[i] # None /\ frames[i].file = f
                                      /\ p = frames[i].rows
BY DEF Copies

LEMMA CopyFactsAfter ==
    ASSUME NEW f, NEW p
    PROVE  p \in Copies(f)' <=>
              /\ p # None
              /\ \/ p = disk'[f]
                 \/ \E i \in Frames : /\ frames'[i] # None /\ frames'[i].file = f
                                      /\ p = frames'[i].rows
BY DEF Copies

LEMMA CopiesTyped ==
    ASSUME StoreFits, NEW f \in Files
    PROVE  \A p \in Copies(f) : p \in PageOf(f)
<1> SUFFICES ASSUME NEW p \in Copies(f) PROVE p \in PageOf(f)
    OBVIOUS
<1>1. disk[f] # None => disk[f] \in PageOf(f)
    BY DEF StoreFits, Pages
<1>2. ASSUME NEW i \in Frames, frames[i] # None, frames[i].file = f,
             frames[i].rows # None
      PROVE  frames[i].rows \in PageOf(f)
    BY <1>2, FrameFacts DEF StoreFits
<1> QED
    BY <1>1, <1>2, CopyFacts

\* The disk that Disk leaves.
LEMMA DiskFacts ==
    ASSUME NEW d \in Pages, Disk(d)
    PROVE  /\ disk' \in Pages
           /\ NoLostPages'
           /\ \A f \in Files : InUse(f)' => disk'[f] = d[f]
           /\ \A f \in Files : disk'[f] # None => disk'[f] = d[f]
<1>1. disk' = [f \in Files |-> IF InUse(f)' THEN d[f] ELSE None]
    BY DEF Disk
<1>2. disk' \in Pages
    BY <1>1 DEF Pages
<1>3. \A f \in Files : ~InUse(f)' => disk'[f] = None
    BY <1>1
<1> QED
    BY <1>1, <1>2, <1>3 DEF NoLostPages

LEMMA ReachedInUse ==
    /\ \A f \in Files : dir'[f[1]] = f => InUse(f)'
    /\ \A i \in Frames, g \in Files : frames'[i] # None /\ frames'[i].file = g => InUse(g)'
    /\ \A x \in Threads : \A h \in Handles(x)' : InUse(h.file)'
<1>1. \A f \in Files : dir'[f[1]] = f => InUse(f)'
    BY DEF InUse
<1>2. \A i \in Frames, g \in Files : frames'[i] # None /\ frames'[i].file = g => InUse(g)'
    BY DEF InUse
<1>3. \A x \in Threads : \A h \in Handles(x)' : InUse(h.file)'
    BY DEF InUse
<1> QED
    BY <1>1, <1>2, <1>3

LEMMA KeyedAfter ==
    ASSUME ASSUME NEW j \in Frames, NEW y, NEW e, frames'[j] # None,
                  frames'[j].by = y, y # None, frames'[j].file = e
           PROVE  /\ \E h \in Handles(y)' : h.file = e
                  /\ \A k \in Frames : Under(k, y, e)' => k = j
                  /\ Stuck(j)' => pc'[y] = "hung"
    PROVE  Keyed'
BY DEF Keyed, Under, Handles

-----------------------------------------------------------------------------
(* What an access does                                                     *)

\* Frame i has the page of f now, which was page; d is the disk then.
Loads(i, th, f, d, page, added, by) ==
    /\ frames' = [frames EXCEPT ![i] = [file |-> f, by |-> by, rows |-> page \o added]]
    /\ page \in PageOf(f)
    /\ page \o added \in PageOf(f)
    /\ hand' \in Frames
    /\ \/ /\ Under(i, th, f) /\ frames[i].rows = page
          /\ Disk(d)
       \/ /\ ~Cached(th, f) /\ i = hand /\ ~Stuck(hand)
          /\ page = Dumped(d, f)[f]
          /\ Disk(Dumped(d, f))

\* Thread th goes to the page of f on a disk where it may have been zeroed.
Goes(th, f, d) ==
    /\ pc[th] # "hung"
    /\ \E h \in Handles(th) : h.file = f
    /\ d \in {disk, [disk EXCEPT ![f] = <<>>]}
    /\ d[f] # None

LEMMA DiskBefore ==
    ASSUME StoreFits, NEW th \in Threads, NEW f \in Files, NEW d, Goes(th, f, d)
    PROVE  /\ d \in Pages
           /\ \A g \in Files : g # f => d[g] = disk[g]
           /\ \A g \in Files : disk[g] # None => d[g] # None
           /\ d[f] = disk[f] \/ (d # disk /\ d[f] = <<>>)
<1>1. disk \in Pages /\ None # <<>>
    BY NoneFacts, PageFacts DEF StoreFits
<1>2. CASE d = disk
    BY <1>1, <1>2
<1>3. CASE d = [disk EXCEPT ![f] = <<>>]
    <2>1. <<>> \in PageOf(f) /\ PageOf(f) \in {SchemePage, DataPage}
        BY PageFacts
    <2>2. d \in [Files -> SchemePage \cup DataPage \cup {None}]
        BY <1>1, <1>3, <2>1 DEF Pages
    <2>3. d[f] = <<>> /\ \A g \in Files : g # f => d[g] = disk[g]
        BY <1>1, <1>3 DEF Pages
    <2> QED
        BY <1>1, <2>1, <2>2, <2>3 DEF Pages
<1> QED
    BY <1>2, <1>3 DEF Goes

LEMMA AccessLoads ==
    ASSUME StoreFits, NEW th \in Threads, NEW f \in Files, NEW d, Goes(th, f, d),
           NEW added \in PageOf(f), NEW by \in {th, None},
           Access(th, f, d, added, by)
    PROVE  \E i \in Frames, page \in PageOf(f) :
              page = Page(th, f, d) /\ Loads(i, th, f, d, page, added, by)
<1>0. d \in Pages /\ d[f] # None
    BY DiskBefore DEF Goes
<1>1. CASE Cached(th, f)
    <2> PICK i : i = CHOOSE j \in Frames : Under(j, th, f)
        OBVIOUS
    <2>1. i \in Frames /\ Under(i, th, f)
        BY <1>1 DEF Cached
    <2>2. Page(th, f, d) = frames[i].rows
        BY <1>1 DEF Page
    <2>3. frames[i].rows \in PageOf(f)
        <3>1. frames[i] # None /\ frames[i].by = th /\ frames[i].file = f
            BY <2>1 DEF Under
        <3>2. ~Stuck(i)
            BY <2>1, <3>1, NoneFacts DEF StoreFits, Keyed, Goes
        <3> QED
            BY <2>1, <3>1, <3>2, FrameFacts DEF StoreFits
    <2>4. frames' = [frames EXCEPT ![i] = [file |-> f, by |-> by,
                                           rows |-> Page(th, f, d) \o added]]
          /\ hand' = hand /\ Disk(d)
        BY <1>1 DEF Access
    <2>5. frames[i].rows \o added \in PageOf(f)
        BY <2>3, PageFacts
    <2> QED
        BY <2>1, <2>2, <2>3, <2>4, <2>5 DEF Loads, StoreFits
<1>2. CASE ~Cached(th, f)
    <2> PICK page : page = Dumped(d, f)[f]
        OBVIOUS
    <2>1. Page(th, f, d) = page
        BY <1>2 DEF Page
    <2>2. page \in PageOf(f)
        BY <1>0, DumpedFacts DEF StoreFits, Pages
    <2>3. /\ ~Stuck(hand)
          /\ frames' = [frames EXCEPT ![hand] = [file |-> f, by |-> by,
                                              rows |-> page \o added]]
          /\ hand' = Turned /\ Disk(Dumped(d, f))
        BY <1>2, <2>1 DEF Access
    <2>4. page \o added \in PageOf(f)
        BY <2>2, PageFacts
    <2> QED
        BY <1>2, <2>1, <2>2, <2>3, <2>4, TurnedFacts DEF Loads, StoreFits
<1> QED
    BY <1>1, <1>2

HandlesRemain(th) ==
    \A h \in Handles(th) : \E new \in Handles(th)' : new.file = h.file

\* Thread th has the files open that it had, but f only if by says so.
HandlesStay(th, f, by) ==
    \A h \in Handles(th) : h.file # f \/ by = th =>
        \E new \in Handles(th)' : new.file = h.file

LEMMA LoadsStore ==
    ASSUME StoreFits, NEW th \in Threads, NEW f \in Files, NEW d, Goes(th, f, d),
           NEW added, NEW by \in {th, None}, NEW i \in Frames, NEW page,
           Loads(i, th, f, d, page, added, by),
           OthersStay(th), HandlesStay(th, f, by), UNCHANGED dir
    PROVE  StoreFits'
<1> DEFINE new == [file |-> f, by |-> by, rows |-> page \o added]
<1>0. d \in Pages /\ d[f] # None /\ Dumped(d, f) \in Pages /\ Dumped(d, f)[f] # None
      /\ \A g \in Files : disk[g] # None => d[g] # None /\ Dumped(d, f)[g] # None
    BY DiskBefore, DumpedFacts DEF Goes, StoreFits
<1>1. /\ frames \in Pools
      /\ frames' = [frames EXCEPT ![i] = new]
      /\ new.file = f /\ new.by = by /\ new.rows = page \o added
    BY DEF Loads, StoreFits
<1>2. new \in FrameRecords /\ new.rows \in PageOf(f) /\ new # None
    <2>1. page \o added \in PageOf(f) /\ page \o added \in SchemePage \cup DataPage
        BY PageFacts DEF Loads
    <2>2. new \in FrameRecords
        BY <2>1 DEF FrameRecords
    <2> QED
        BY <2>1, <2>2, NoneFacts
<1> HIDE DEF new
<1>3. \A j \in Frames : frames'[j] = IF j = i THEN new ELSE frames[j]
    BY <1>1 DEF Pools
<1>4. frames' \in Pools
    <2>1. frames' \in [Frames -> FrameRecords \cup {None}]
        BY <1>1, <1>2 DEF Pools
    <2> QED
        BY <1>1, <1>2, <1>3, <2>1 DEF Pools
<1>5. PICK d1 \in Pages : /\ Disk(d1) /\ d1[f] # None
                          /\ \A g \in Files : disk[g] # None => d1[g] # None
    BY <1>0 DEF Loads
<1>6. disk' \in Pages /\ NoLostPages'
    BY <1>5, DiskFacts
<1>7. Backed'
    <2> SUFFICES ASSUME NEW j \in Frames, frames'[j] # None, ~Stuck(j)'
                 PROVE  disk'[frames'[j].file] # None
        BY DEF Backed
    <2>1. frames'[j].file \in Files /\ d1[frames'[j].file] # None
        <3>1. CASE j = i
            BY <1>1, <1>3, <1>5, <3>1
        <3>2. CASE j # i
            <4>1. frames[j] # None /\ ~Stuck(j) /\ frames'[j] = frames[j]
                BY <1>3, <3>2 DEF Stuck
            <4> QED
                BY <1>1, <1>5, <4>1, FrameFacts DEF StoreFits, Backed
        <3> QED
            BY <3>1, <3>2
    <2> PICK g \in Files : g = frames'[j].file
        BY <2>1
    <2>2. InUse(g)'
        BY ReachedInUse
    <2> QED
        BY <1>5, <2>1, <2>2, DiskFacts
<1>8. Keyed'
    <2>0. \A j \in Frames : Under(j, th, f) => j = i
        <3> SUFFICES ASSUME NEW j \in Frames, Under(j, th, f) PROVE j = i
            OBVIOUS
        <3>1. Under(i, th, f)
            BY DEF Loads, Cached
        <3>2. frames[i] # None /\ frames[i].by = th /\ frames[i].file = f
            BY <3>1 DEF Under
        <3> QED
            BY <3>2, NoneFacts DEF StoreFits, Keyed
    <2> SUFFICES ASSUME NEW j \in Frames, NEW y, NEW e, frames'[j] # None,
                        frames'[j].by = y, y # None, frames'[j].file = e
                 PROVE  /\ \E h \in Handles(y)' : h.file = e
                        /\ \A k \in Frames : Under(k, y, e)' => k = j
                        /\ Stuck(j)' => pc'[y] = "hung"
        BY KeyedAfter
    <2>1. CASE j = i
        <3>1. frames'[j] = new /\ by = th
            BY <1>1, <1>3, <2>1
        <3>2. \E h \in Handles(th)' : h.file = f
            BY <3>1 DEF Goes, HandlesStay
        <3>3. ASSUME NEW k \in Frames, Under(k, th, f)' PROVE k = j
            <4>1. CASE k # i
                BY <1>3, <2>0, <3>3, <4>1 DEF Under
            <4> QED
                BY <2>1, <4>1
        <3>4. ~Stuck(j)'
            BY <1>1, <1>2, <3>1, NoneFacts DEF Stuck
        <3> QED
            BY <1>1, <3>1, <3>2, <3>3, <3>4
    <2>2. CASE j # i
        <3>1. frames'[j] = frames[j]
            BY <1>3, <2>2
        <3> PICK x, g : x = frames[j].by /\ g = frames[j].file
            OBVIOUS
        <3>2. /\ x \in Threads /\ g \in Files
              /\ \E h \in Handles(x) : h.file = g
              /\ \A k \in Frames : Under(k, x, g) => k = j
              /\ Stuck(j) => pc[x] = "hung"
            BY <1>1, <3>1, FrameFacts DEF StoreFits, Keyed
        <3>3. x = th => g # f
            BY <2>0, <2>2, <3>1 DEF Under
        <3>4. \E h \in Handles(x)' : h.file = g
            BY <3>2, <3>3 DEF HandlesStay, OthersStay, Handles
        <3>5. ASSUME NEW k \in Frames, Under(k, x, g)' PROVE k = j
            <4>1. CASE k = i
                <5>1. by = x /\ f = g
                    BY <1>1, <1>3, <3>5, <4>1 DEF Under
                <5> QED
                    BY <3>2, <3>3, <5>1, NoneFacts
            <4>2. CASE k # i
                BY <1>3, <3>2, <3>5, <4>2 DEF Under
            <4> QED
                BY <4>1, <4>2
        <3>6. Stuck(j)' => pc'[x] = "hung"
            BY <3>1, <3>2 DEF Stuck, Goes, OthersStay
        <3> QED
            BY <3>1, <3>4, <3>5, <3>6
    <2> QED
        BY <2>1, <2>2
<1>9. Waited'
    <2>1. ~Stuck(i)'
        BY <1>1, <1>2, <1>3, NoneFacts DEF Stuck
    <2>2. \A j \in Frames : j # i => frames'[j] = frames[j]
        BY <1>3
    <2> QED
        BY <2>1, <2>2 DEF StoreFits, Waited, Stuck
<1> QED
    BY <1>4, <1>6, <1>7, <1>8, <1>9 DEF StoreFits, Loads


LEMMA CopyInFrame ==
    ASSUME NEW i \in Frames, frames[i] # None, frames[i].rows # None
    PROVE  frames[i].rows \in Copies(frames[i].file)
BY DEF Copies

LEMMA CopyOnDisk == \A f : disk[f] # None => disk[f] \in Copies(f)
BY DEF Copies

LEMMA LoadsOthers ==
    ASSUME StoreFits, NEW th \in Threads, NEW f \in Files, NEW d, Goes(th, f, d),
           NEW added, NEW by \in {th, None}, NEW i \in Frames, NEW page,
           Loads(i, th, f, d, page, added, by),
           NEW g \in Files, g # f, InUse(g)'
    PROVE  OldCopies(g) /\ Keeps(g, th)
<1>1. d \in Pages /\ d[g] = disk[g]
    BY DiskBefore
<1>2. \A j \in Frames : j # i => frames'[j] = frames[j]
    BY DEF Loads, StoreFits, Pools
<1>3. frames'[i].file = f
    BY DEF Loads, StoreFits, Pools
<1>4. \/ disk'[g] = disk[g] /\ Under(i, th, f)
      \/ i = hand /\ disk'[g] = Dumped(d, f)[g]
    BY <1>1, DiskFacts, DumpedFacts DEF Loads, StoreFits
<1>5. \/ disk'[g] = disk[g] /\ (frames[i] # None /\ ~Stuck(i) => frames[i].file # g)
      \/ /\ i = hand /\ frames[i] # None /\ ~Stuck(i) /\ frames[i].file = g
         /\ disk'[g] = frames[i].rows
    BY <1>1, <1>4, DumpedFacts DEF StoreFits, Under
<1>6. \A j \in Frames : frames'[j] # None /\ frames'[j].file = g =>
          frames[j] # None /\ frames[j].file = g /\ frames'[j] = frames[j]
    BY <1>2, <1>3
<1>7. Keeps(g, th)
    <2>1. \A j \in Frames : frames[j] # None /\ frames[j].file = g /\ ~Stuck(j) =>
             \/ frames'[j] # None /\ frames'[j].file = g
             \/ disk'[g] = frames[j].rows
        BY <1>2, <1>5
    <2> QED
        BY <1>5, <1>6, <2>1 DEF Keeps
<1>8. OldCopies(g)
    <2>1. disk[g] = None => disk'[g] = None
        BY <1>5 DEF StoreFits, Backed
    <2>2. disk[g] # None => disk'[g] # None
        BY <1>5 DEF Stuck
    <2>3. \A p \in Copies(g)' : p \in Copies(g)
        BY <1>5, <1>6, CopyFacts, CopyFactsAfter
    <2> QED
        BY <2>1, <2>2, <2>3 DEF OldCopies
<1> QED
    BY <1>7, <1>8

\* The zeros of a page that was allocated on the way to d.
Zeros(d, p) == d # disk /\ p = <<>>

\* What is seen is a copy, or the zeros of a page that was allocated.
LEMMA LoadsCopies ==
    ASSUME StoreFits, NEW th \in Threads, NEW f \in Files, NEW d, Goes(th, f, d),
           NEW added, NEW by \in {th, None}, NEW i \in Frames, NEW page,
           Loads(i, th, f, d, page, added, by)
    PROVE  /\ \/ page \in Copies(f)
              \/ Zeros(d, page)
           /\ \A p \in Copies(f)' : \/ p \in Copies(f)
                                    \/ Zeros(d, p)
                                    \/ p = page \o added
           /\ disk'[f] # None
<1>1. d \in Pages /\ (d[f] = disk[f] \/ (d # disk /\ d[f] = <<>>)) /\ d[f] # None
    BY DiskBefore DEF Goes
<1>2. \A j \in Frames : j # i => frames'[j] = frames[j]
    BY DEF Loads, StoreFits, Pools
<1>3. frames'[i] # None /\ frames'[i].file = f /\ frames'[i].rows = page \o added
    <2>1. frames'[i] = [file |-> f, by |-> by, rows |-> page \o added]
        BY DEF Loads, StoreFits, Pools
    <2>2. frames'[i] \in FrameRecords
        <3>1. page \o added \in SchemePage \cup DataPage
            BY PageFacts DEF Loads
        <3> QED
            BY <2>1, <3>1 DEF FrameRecords
    <2> QED
        BY <2>1, <2>2, NoneFacts
<1>4. page # None
    BY NoneFacts DEF Loads
<1>5. InUse(f)'
    BY <1>3, ReachedInUse
<1>6. \/ /\ Under(i, th, f) /\ page = frames[i].rows /\ disk'[f] = d[f]
      \/ page = Dumped(d, f)[f] /\ disk'[f] = page /\ i = hand
    BY <1>1, <1>5, DiskFacts, DumpedFacts DEF Loads, StoreFits
<1>7. Dumped(d, f)[f] = d[f] \/ (frames[hand] # None /\ frames[hand].file = f /\ Dumped(d, f)[f] = frames[hand].rows)
    BY <1>1, DumpedFacts DEF StoreFits
<1>8. \/ page \in Copies(f)
      \/ Zeros(d, page)
    <2> SUFFICES ASSUME page \notin Copies(f) PROVE Zeros(d, page)
        OBVIOUS
    <2>1. ~(Under(i, th, f) /\ page = frames[i].rows)
        BY <1>4, CopyInFrame DEF Under
    <2>2. ~(frames[hand] # None /\ frames[hand].file = f /\ page = frames[hand].rows)
        BY <1>4, CopyInFrame DEF StoreFits
    <2>3. page = d[f]
        BY <1>6, <1>7, <2>1, <2>2
    <2>4. d[f] # disk[f]
        BY <1>4, <2>3, CopyOnDisk
    <2> QED
        BY <1>1, <2>3, <2>4 DEF Zeros
<1>9. disk'[f] = page \/ disk'[f] = d[f]
    BY <1>6
<1>10. ASSUME NEW p \in Copies(f)'
       PROVE  \/ p \in Copies(f)
              \/ Zeros(d, p)
              \/ p = page \o added
    <2>0. p # None
        BY CopyFactsAfter
    <2>1. CASE p = disk'[f]
        BY <1>1, <1>8, <1>9, <2>0, <2>1, CopyFacts DEF Zeros
    <2>2. CASE \E j \in Frames : /\ frames'[j] # None /\ frames'[j].file = f
                                 /\ p = frames'[j].rows
        BY <1>2, <1>3, <2>0, <2>2, CopyFacts
    <2> QED
        BY <2>1, <2>2, CopyFactsAfter
<1>11. disk'[f] # None
    BY <1>1, <1>4, <1>9
<1> QED
    BY <1>8, <1>10, <1>11

\* A look at a page makes no copies that were not there.
LEMMA LooksCopies ==
    ASSUME StoreFits, NEW th \in Threads, NEW f \in Files, Goes(th, f, disk),
           NEW by \in {th, None}, NEW i \in Frames, NEW page,
           Loads(i, th, f, disk, page, <<>>, by)
    PROVE  OldCopies(f) /\ page \in Copies(f)
<1>1. page \o <<>> = page
    BY PageFacts DEF Loads, SchemePage, DataPage
<1>2. /\ \/ page \in Copies(f)
         \/ Zeros(disk, page)
      /\ \A p \in Copies(f)' : \/ p \in Copies(f)
                               \/ Zeros(disk, p)
                               \/ p = page \o <<>>
      /\ disk'[f] # None
    BY LoadsCopies
<1>3. \A p : ~Zeros(disk, p)
    BY DEF Zeros
<1>4. page \in Copies(f) /\ (\A p \in Copies(f)' : p \in Copies(f)) /\ disk'[f] # None
    BY <1>1, <1>2, <1>3
<1> QED
    BY <1>4 DEF OldCopies, Goes


-----------------------------------------------------------------------------
(* The other steps of a thread                                             *)

\* Files and pages stay, th opened a file or made one.
LEMMA OpeningStore ==
    ASSUME StoreFits, UNCHANGED <<disk, frames, hand>>, dir' \in Dirs,
           NEW th \in Threads, OthersStay(th), pc[th] # "hung",
           HandlesRemain(th),
           \A p \in Paths : dir[p] # None => dir'[p] = dir[p]
    PROVE  /\ StoreFits'
           /\ \A g \in Files : OldCopies(g) /\ Keeps(g, th)
<1>1. \A g \in Files : OldCopies(g) /\ Keeps(g, th)
    BY CopyFacts, CopyFactsAfter DEF OldCopies, Keeps
<1>2. ASSUME NEW x \in Threads, NEW h \in Handles(x)
      PROVE  \E new \in Handles(x)' : new.file = h.file
    BY <1>2 DEF OthersStay, HandlesRemain, Handles
<1>3. NoLostPages'
    <2> SUFFICES ASSUME NEW f \in Files, InUse(f) PROVE InUse(f)'
        BY DEF NoLostPages, StoreFits
    <2>1. CASE dir[f[1]] = f
        <3>1. f[1] \in Paths /\ f # None
            BY PathFacts, NoneFacts
        <3> QED
            BY <2>1, <3>1 DEF InUse
    <2>2. CASE \E x \in Threads : \E h \in Handles(x) : h.file = f
        BY <1>2, <2>2, ReachedInUse
    <2>3. CASE \E i \in Frames : frames[i] # None /\ frames[i].file = f
        BY <2>3, ReachedInUse
    <2> QED
        BY <2>1, <2>2, <2>3 DEF InUse
<1>4. Backed'
    BY DEF Backed, StoreFits, Stuck
<1>5. Keyed'
    <2> SUFFICES ASSUME NEW j \in Frames, NEW y, NEW e, frames'[j] # None,
                        frames'[j].by = y, y # None, frames'[j].file = e
                 PROVE  /\ \E h \in Handles(y)' : h.file = e
                        /\ \A k \in Frames : Under(k, y, e)' => k = j
                        /\ Stuck(j)' => pc'[y] = "hung"
        BY KeyedAfter
    <2>1. /\ y \in Threads
          /\ \E h \in Handles(y) : h.file = e
          /\ \A k \in Frames : Under(k, y, e) => k = j
          /\ Stuck(j) => pc[y] = "hung"
        BY FrameFacts DEF StoreFits, Keyed
    <2>2. \E h \in Handles(y)' : h.file = e
        BY <1>2, <2>1
    <2> QED
        BY <2>1, <2>2 DEF Under, Stuck, OthersStay
<1>6. Waited'
    BY DEF StoreFits, Waited, Stuck
<1> QED
    BY <1>1, <1>3, <1>4, <1>5, <1>6 DEF StoreFits

\* Thread th closed handles, if it had any, or lost files their path.
LEMMA ClosingStore ==
    ASSUME StoreFits, UNCHANGED hand, dir' \in Dirs, Disk(disk),
           NEW th \in Threads, OthersStay(th), pc[th] # "hung",
           \/ frames' = Closed(th)
           \/ frames' = frames /\ HandlesRemain(th)
    PROVE  /\ StoreFits'
           /\ \A g \in Files : InUse(g)' => OldCopies(g) /\ Keeps(g, th)
<1>1. disk' \in Pages /\ NoLostPages' /\ \A f \in Files : InUse(f)' => disk'[f] = disk[f]
    BY DiskFacts DEF StoreFits
<1>2. ASSUME NEW j \in Frames
      PROVE  /\ frames'[j] # None <=> frames[j] # None
             /\ frames[j] # None =>
                   /\ frames'[j].file = frames[j].file
                   /\ frames'[j].rows = frames[j].rows
                   /\ \/ frames'[j].by = frames[j].by /\ (frames[j].by = th => HandlesRemain(th))
                      \/ frames'[j].by = None /\ frames[j].by = th
                   /\ frames'[j] \in FrameRecords
    <2>0. frames[j] # None => frames[j] \in FrameRecords
        BY FrameFacts DEF StoreFits
    <2>1. CASE frames' = frames /\ HandlesRemain(th)
        BY <2>0, <2>1
    <2>2. CASE frames' = Closed(th) /\ frames[j] # None /\ frames[j].by = th
        <3> PICK r \in FrameRecords : r = frames[j]
            BY <2>0, <2>2
        <3>1. frames'[j] = [r EXCEPT !.by = None]
            BY <2>2 DEF Closed
        <3>2. [r EXCEPT !.by = None] \in FrameRecords
              /\ [r EXCEPT !.by = None].file = r.file
              /\ [r EXCEPT !.by = None].rows = r.rows
              /\ [r EXCEPT !.by = None].by = None
            BY DEF FrameRecords
        <3> QED
            BY <2>2, <3>1, <3>2, NoneFacts
    <2>3. CASE frames' = Closed(th) /\ ~(frames[j] # None /\ frames[j].by = th)
        <3>1. frames'[j] = frames[j]
            BY <2>3 DEF Closed
        <3> QED
            BY <2>0, <2>3, <3>1
    <2> QED
        BY <2>1, <2>2, <2>3
<1>3. frames' \in Pools
    <2>1. frames' \in [Frames -> FrameRecords \cup {None}]
        BY <1>2 DEF StoreFits, Pools, Closed
    <2> QED
        BY <1>2, <2>1 DEF StoreFits, Pools
<1>4. Backed'
    <2> SUFFICES ASSUME NEW j \in Frames, NEW f \in Files, frames'[j] # None, ~Stuck(j)',
                        frames'[j].file = f
                 PROVE  disk'[f] # None
        BY <1>2 DEF Backed, FrameRecords
    <2>1. InUse(f)'
        BY ReachedInUse
    <2> QED
        BY <1>1, <1>2, <2>1 DEF StoreFits, Backed, Stuck
<1>5. Keyed'
    <2> SUFFICES ASSUME NEW j \in Frames, NEW y, NEW e, frames'[j] # None,
                        frames'[j].by = y, y # None, frames'[j].file = e
                 PROVE  /\ \E h \in Handles(y)' : h.file = e
                        /\ \A k \in Frames : Under(k, y, e)' => k = j
                        /\ Stuck(j)' => pc'[y] = "hung"
        BY KeyedAfter
    <2>1. /\ frames[j] # None /\ frames[j].file = e /\ frames[j].by = y
          /\ y = th => HandlesRemain(th)
        BY <1>2
    <2>2. /\ y \in Threads
          /\ \E h \in Handles(y) : h.file = e
          /\ \A k \in Frames : Under(k, y, e) => k = j
          /\ Stuck(j) => pc[y] = "hung"
        BY <2>1, FrameFacts DEF StoreFits, Keyed
    <2>3. \E h \in Handles(y)' : h.file = e
        <3>1. CASE y = th
            <4>1. e # None
                BY <2>1, FrameFacts, NoneFacts DEF StoreFits
            <4> QED
                BY <2>1, <2>2, <3>1, <4>1 DEF HandlesRemain
        <3>2. CASE y # th
            BY <2>2, <3>2 DEF OthersStay, Handles
        <3> QED
            BY <3>1, <3>2
    <2>4. \A k \in Frames : Under(k, y, e)' => k = j
        BY <1>2, <2>2 DEF Under
    <2>5. Stuck(j)' => pc'[y] = "hung"
        BY <1>2, <2>1, <2>2 DEF Stuck, OthersStay
    <2> QED
        BY <2>3, <2>4, <2>5
<1>6. ASSUME NEW g \in Files, InUse(g)'
      PROVE  OldCopies(g) /\ Keeps(g, th)
    <2>1. disk'[g] = disk[g]
        BY <1>1, <1>6
    <2>2. \A p \in Copies(g)' : p \in Copies(g)
        BY <1>2, <2>1, CopyFacts, CopyFactsAfter
    <2>3. Keeps(g, th)
        BY <1>2, <2>1 DEF Keeps
    <2> QED
        BY <2>1, <2>2, <2>3 DEF OldCopies
<1>7. Waited'
    <2> SUFFICES ASSUME NEW j \in Frames, frames'[j] # None, frames'[j].rows = None,
                        frames'[j].by = None
                 PROVE  FALSE
        BY DEF Waited, Stuck
    <2>1. frames[j] # None /\ Stuck(j) /\ (frames[j].by = None \/ frames[j].by = th)
        BY <1>2 DEF Stuck
    <2>2. frames[j].by = th
        BY <2>1 DEF StoreFits, Waited
    <2> QED
        BY <2>1, <2>2, NoneFacts DEF StoreFits, Keyed
<1> QED
    BY <1>1, <1>3, <1>4, <1>5, <1>6, <1>7 DEF StoreFits

\* Thread th waits for a page that is not there, in the frame at the hand.
LEMMA HangingStore ==
    ASSUME StoreFits, NEW th \in Threads, NEW h \in Handles(th), h \in Handle,
           Hangs(th, h), pc \in [Threads -> Labels], pc[th] # "hung",
           \A i \in Frames : ~Under(i, th, h.file)
    PROVE  /\ StoreFits'
           /\ \A g \in Files : InUse(g)' => OldCopies(g)
           /\ \A g \in Files : InUse(g)' /\ g # h.file => Keeps(g, th)
<1> DEFINE f == h.file
           new == [file |-> f, by |-> th, rows |-> None]
<1>1. f \in Files
    BY DEF Handle
<1>2. /\ frames' = [frames EXCEPT ![hand] = new]
      /\ hand' = Turned /\ dir' = dir /\ op' = op /\ ~Stuck(hand)
      /\ pc' = [pc EXCEPT ![th] = "hung"]
      /\ Disk(Dumped(disk, f))
    BY DEF Hangs, Goto
<1>3. new \in FrameRecords /\ new # None
    BY <1>1, NoneFacts DEF FrameRecords
<1>4. /\ new.file = f /\ new.by = th /\ new.rows = None
    OBVIOUS
<1> HIDE DEF new, f
<1>5. \A j \in Frames : frames'[j] = IF j = hand THEN new ELSE frames[j]
    BY <1>2 DEF StoreFits, Pools
<1>6. frames' \in Pools /\ hand' \in Frames
    <2>1. frames' \in [Frames -> FrameRecords \cup {None}]
        BY <1>2, <1>3 DEF StoreFits, Pools
    <2>2. \A j \in Frames : frames'[j] # None => frames'[j].rows \in PageOf(frames'[j].file) \cup {None}
        BY <1>4, <1>5 DEF StoreFits, Pools
    <2> QED
        BY <1>2, <2>1, <2>2, TurnedFacts DEF StoreFits, Pools
<1>7. /\ Dumped(disk, f) \in Pages
      /\ \A g \in Files : disk[g] # None => Dumped(disk, f)[g] # None
    BY DumpedFacts DEF StoreFits
<1>8. disk' \in Pages /\ NoLostPages'
    BY <1>2, <1>7, DiskFacts
<1>9. Backed'
    <2> SUFFICES ASSUME NEW j \in Frames, NEW g, frames'[j] # None, ~Stuck(j)',
                        frames'[j].file = g
                 PROVE  disk'[g] # None
        BY DEF Backed
    <2>1. j # hand
        BY <1>4, <1>5 DEF Stuck
    <2>2. frames[j] # None /\ frames[j].file = g /\ ~Stuck(j) /\ g \in Files
        BY <1>5, <2>1, FrameFacts DEF Stuck, StoreFits
    <2>3. disk[g] # None
        BY <2>2 DEF StoreFits, Backed
    <2>4. InUse(g)'
        BY <2>2, ReachedInUse
    <2> QED
        BY <1>2, <1>7, <2>2, <2>3, <2>4, DiskFacts
<1>10. Keyed'
    <2> SUFFICES ASSUME NEW j \in Frames, NEW y, NEW e, frames'[j] # None,
                        frames'[j].by = y, y # None, frames'[j].file = e
                 PROVE  /\ \E x \in Handles(y)' : x.file = e
                        /\ \A k \in Frames : Under(k, y, e)' => k = j
                        /\ Stuck(j)' => pc'[y] = "hung"
        BY KeyedAfter
    <2>1. \A k \in Frames : Under(k, y, e)' => k = hand \/ Under(k, y, e)
        BY <1>5 DEF Under
    <2>2. Handles(y)' = Handles(y)
        BY <1>2 DEF Handles
    <2>3. CASE j = hand
        <3>1. y = th /\ e = f
            BY <1>4, <1>5, <2>3
        <3>2. pc'[th] = "hung"
            BY <1>2
        <3>3. \A k \in Frames : ~Under(k, y, e)
            BY <3>1 DEF f
        <3> QED
            BY <2>1, <2>2, <2>3, <3>1, <3>2, <3>3 DEF f
    <2>4. CASE j # hand
        <3>1. frames[j] # None /\ frames[j].by = y /\ frames[j].file = e
            BY <1>5, <2>4
        <3>2. /\ y \in Threads
              /\ \E x \in Handles(y) : x.file = e
              /\ \A k \in Frames : Under(k, y, e) => k = j
              /\ Stuck(j) => pc[y] = "hung"
            BY <3>1, FrameFacts DEF StoreFits, Keyed
        <3>3. Under(j, y, e)
            BY <3>1 DEF Under
        <3>4. ~(y = th /\ e = f)
            BY <3>3 DEF f
        <3>5. \A k \in Frames : k = hand => ~Under(k, y, e)'
            BY <1>4, <1>5, <3>4 DEF Under, StoreFits
        <3>6. \A k \in Frames : Under(k, y, e)' => k = j
            BY <2>1, <3>2, <3>5
        <3>7. Stuck(j)' => pc'[y] = "hung"
            BY <1>2, <1>5, <2>4, <3>2 DEF Stuck
        <3> QED
            BY <2>2, <3>2, <3>6, <3>7
    <2> QED
        BY <2>3, <2>4
<1>11. ASSUME NEW g \in Files, InUse(g)'
       PROVE  OldCopies(g) /\ (g # f => Keeps(g, th))
    <2>1. disk'[g] = Dumped(disk, f)[g]
        BY <1>2, <1>7, <1>11, DiskFacts
    <2>2. \/ disk'[g] = disk[g]
          \/ /\ frames[hand] # None /\ ~Stuck(hand) /\ frames[hand].file = g
             /\ disk'[g] = frames[hand].rows
        BY <2>1, DumpedFacts DEF StoreFits
    <2>3. disk[g] = None => disk'[g] = None
        BY <2>2 DEF StoreFits, Backed
    <2>4. disk[g] # None => disk'[g] # None
        BY <2>2 DEF Stuck
    <2>5. \A p \in Copies(g)' : p \in Copies(g)
        <3> SUFFICES ASSUME NEW p \in Copies(g)' PROVE p \in Copies(g)
            OBVIOUS
        <3>1. p # None
            BY CopyFactsAfter
        <3>2. CASE p = disk'[g]
            BY <2>2, <3>1, <3>2, CopyFacts DEF StoreFits
        <3>3. CASE \E i \in Frames : /\ frames'[i] # None /\ frames'[i].file = g
                                     /\ p = frames'[i].rows
            BY <1>4, <1>5, <3>1, <3>3, CopyFacts
        <3> QED
            BY <3>2, <3>3, CopyFactsAfter
    <2>6. ASSUME g # f PROVE Keeps(g, th)
        <3>1. \A j \in Frames : frames'[j] # None /\ frames'[j].file = g =>
                  frames[j] # None /\ frames[j].file = g /\ frames'[j] = frames[j]
            BY <1>4, <1>5, <2>6
        <3>2. \A j \in Frames : frames[j] # None /\ frames[j].file = g /\ ~Stuck(j) =>
                 \/ frames'[j] # None /\ frames'[j].file = g
                 \/ disk'[g] = frames[j].rows
            BY <1>5, <2>1, DumpedFacts DEF StoreFits
        <3> QED
            BY <2>2, <3>1, <3>2 DEF Keeps, StoreFits
    <2> QED
        BY <2>3, <2>4, <2>5, <2>6 DEF OldCopies
<1>12. Waited'
    <2> SUFFICES ASSUME NEW j \in Frames, Stuck(j)' PROVE frames'[j].by # None
        BY DEF Waited
    <2>1. CASE j = hand
        BY <1>4, <1>5, <2>1, NoneFacts
    <2>2. CASE j # hand
        <3>1. frames'[j] = frames[j]
            BY <1>5, <2>2
        <3> QED
            BY <3>1 DEF StoreFits, Waited, Stuck
    <2> QED
        BY <2>1, <2>2
<1> QED
    BY <1>2, <1>6, <1>8, <1>9, <1>10, <1>11, <1>12 DEF StoreFits, f

-----------------------------------------------------------------------------
(* What a step leaves to the other threads                                 *)

OthersFrames(th) ==
    \A x \in Threads, i \in Frames : \A g : x # th /\ Under(i, x, g)' => Under(i, x, g)

\* Thread th found no page but that of f, and that is kept under by.
OwnFrames(th, f, by) ==
    \A i \in Frames : \A g : Under(i, th, g)' => Under(i, th, g) \/ (g = f /\ by = th)

\* A step of th that writes to no page but those of fs.
Touches(th, fs) ==
    /\ StoreFits' /\ OthersStay(th) /\ OthersFrames(th)
    /\ \A g \in Files \ fs : InUse(g)' => OldCopies(g) /\ Keeps(g, th)
    /\ \A g \in Files : disk[g] # None /\ InUse(g)' => disk'[g] # None

LEMMA UnderAfter ==
    ASSUME NEW i \in Frames, NEW x, NEW g
    PROVE  Under(i, x, g)' <=> frames'[i] # None /\ frames'[i].file = g /\ frames'[i].by = x
BY DEF Under

LEMMA HandleFacts ==
    ASSUME ThreadsTyped, NEW x \in Threads, NEW h \in Handles(x)
    PROVE  h \in Handle /\ h.file \in Files /\ h.size \in {0, 1}
BY DEF ThreadsTyped, Ops, Handle, Handles

LEMMA OthersFit ==
    ASSUME TInv, NEW th \in Threads, NEW fs, Touches(th, fs),
           NEW x \in Threads, x # th
    PROVE  OpFits(x)'
<1>1. op'[x] = op[x] /\ pc'[x] = pc[x]
    BY DEF Touches, OthersStay
<1>2. Handles(x)' = Handles(x)
    BY <1>1 DEF Handles
<1>3. ASSUME NEW h \in Handles(x)
      PROVE  /\ h.size # 0 => disk'[h.file] # None
             /\ h.size = 0 /\ pc[x] # "hung" => \A i \in Frames : ~Under(i, x, h.file)'
    <2>1. h.file \in Files
        BY HandleFacts DEF TInv
    <2>2. InUse(h.file)'
        BY <1>2, <1>3, ReachedInUse
    <2>3. h.size # 0 => disk[h.file] # None
        BY DEF TInv, OpFits
    <2>4. h.size = 0 /\ pc[x] # "hung" => \A i \in Frames : ~Under(i, x, h.file)
        BY DEF TInv, OpFits
    <2> PICK g : g = h.file
        OBVIOUS
    <2>5. \A i \in Frames : Under(i, x, g)' => Under(i, x, g)
        BY DEF Touches, OthersFrames
    <2> QED
        BY <2>1, <2>2, <2>3, <2>4, <2>5 DEF Touches
<1>4. \A h \in Handles(x)' :
         /\ h.size # 0 => disk'[h.file] # None
         /\ h.size = 0 /\ pc'[x] # "hung" => \A i \in Frames : ~Under(i, x, h.file)'
    BY <1>1, <1>2, <1>3
<1> QED
    BY <1>1, <1>4 DEF TInv, OpFits

\* Where th is and what it does after its step.
Moves(th, label, o) ==
    /\ pc' = [pc EXCEPT ![th] = label]
    /\ op' = [op EXCEPT ![th] = o]

LEMMA MovesFacts ==
    ASSUME ThreadsTyped, NEW th \in Threads, NEW label, NEW o, Moves(th, label, o)
    PROVE  /\ pc'[th] = label /\ op'[th] = o
           /\ OthersStay(th)
           /\ label \in Labels /\ o \in Ops => ThreadsTyped'
BY DEF ThreadsTyped, Moves, OthersStay

LEMMA StepKeepsTInv ==
    ASSUME TInv, NEW th \in Threads, NEW fs, Touches(th, fs),
           ThreadsTyped', RestTyped', OpFits(th)'
    PROVE  TInv'
BY OthersFit DEF TInv, Touches

-----------------------------------------------------------------------------
LEMMA LoadsTouches ==
    ASSUME StoreFits, NEW th \in Threads, NEW f \in Files, NEW d, Goes(th, f, d),
           NEW added, NEW by \in {th, None}, NEW i \in Frames, NEW page,
           Loads(i, th, f, d, page, added, by),
           OthersStay(th), HandlesStay(th, f, by), UNCHANGED dir
    PROVE  /\ Touches(th, {f})
           /\ OwnFrames(th, f, by)
<1>1. StoreFits'
    BY LoadsStore
<1>2. \A g \in Files \ {f} : InUse(g)' => OldCopies(g) /\ Keeps(g, th)
    BY LoadsOthers
<1>3. disk'[f] # None
    BY LoadsCopies
<1>4. \A j \in Frames : frames'[j] = IF j = i THEN [file |-> f, by |-> by, rows |-> page \o added]
                                     ELSE frames[j]
    BY DEF Loads, StoreFits, Pools
<1>5. OthersFrames(th)
    BY <1>4, NoneFacts DEF OthersFrames, Under
<1>6. OwnFrames(th, f, by)
    BY <1>4 DEF OwnFrames, Under
<1>7. \A g \in Files : disk[g] # None /\ InUse(g)' => disk'[g] # None
    BY <1>2, <1>3 DEF OldCopies
<1> QED
    BY <1>1, <1>2, <1>5, <1>6, <1>7 DEF Touches

LEMMA OpeningTouches ==
    ASSUME StoreFits, UNCHANGED <<disk, frames, hand>>, dir' \in Dirs,
           NEW th \in Threads, OthersStay(th), pc[th] # "hung",
           HandlesRemain(th),
           \A p \in Paths : dir[p] # None => dir'[p] = dir[p]
    PROVE  Touches(th, {})
<1>1. OthersFrames(th)
    BY DEF OthersFrames, Under
<1> QED
    BY <1>1, OpeningStore DEF Touches, OldCopies

LEMMA ClosedUnder ==
    ASSUME frames \in Pools, NEW th \in Threads, frames' = Closed(th), NEW i \in Frames
    PROVE  /\ \A g : ~Under(i, th, g)'
           /\ \A x \in Threads : \A g : Under(i, x, g)' => Under(i, x, g)
<1>1. CASE frames[i] # None /\ frames[i].by = th
    <2> PICK r \in FrameRecords : r = frames[i]
        BY <1>1 DEF Pools
    <2>1. frames'[i] = [r EXCEPT !.by = None]
        BY <1>1 DEF Closed
    <2>2. frames'[i].by = None
        BY <2>1 DEF FrameRecords
    <2> QED
        BY <2>2, NoneFacts DEF Under
<1>2. CASE ~(frames[i] # None /\ frames[i].by = th)
    <2>1. frames'[i] = frames[i]
        BY <1>2 DEF Closed
    <2> QED
        BY <1>2, <2>1 DEF Under
<1> QED
    BY <1>1, <1>2

LEMMA ClosingTouches ==
    ASSUME StoreFits, UNCHANGED hand, dir' \in Dirs, Disk(disk),
           NEW th \in Threads, OthersStay(th), pc[th] # "hung",
           \/ frames' = Closed(th)
           \/ frames' = frames /\ HandlesRemain(th)
    PROVE  Touches(th, {})
<1>1. OthersFrames(th)
    <2>1. CASE frames' = Closed(th)
        BY <2>1, ClosedUnder DEF OthersFrames, StoreFits
    <2>2. CASE frames' = frames
        BY <2>2 DEF OthersFrames, Under
    <2> QED
        BY <2>1, <2>2
<1> QED
    BY <1>1, ClosingStore DEF Touches, OldCopies

LEMMA HangingTouches ==
    ASSUME StoreFits, NEW th \in Threads, NEW h \in Handles(th), h \in Handle,
           Hangs(th, h), pc \in [Threads -> Labels], pc[th] # "hung",
           \A i \in Frames : ~Under(i, th, h.file)
    PROVE  Touches(th, {h.file}) /\ \A g \in Files : InUse(g)' => OldCopies(g)
<1>1. /\ frames' = [frames EXCEPT ![hand] = [file |-> h.file, by |-> th, rows |-> None]]
      /\ op' = op /\ pc' = [pc EXCEPT ![th] = "hung"]
    BY DEF Hangs, Goto
<1>2. OthersFrames(th)
    BY <1>1 DEF OthersFrames, Under, StoreFits, Pools
<1>3. OthersStay(th)
    BY <1>1 DEF OthersStay
<1> QED
    BY <1>2, <1>3, HangingStore DEF Touches, OldCopies

-----------------------------------------------------------------------------
(* The steps keep the types                                                *)

LEMMA NoOpFacts ==
    /\ NoOp \in Ops
    /\ NoOp.do = "nothing" /\ NoOp.name = None /\ NoOp.at = 0
    /\ NoOp.cols = <<>> /\ NoOp.read = <<>>
    /\ NoOp.scheme = None /\ NoOp.data = None /\ NoOp.alone = TRUE
<1>1. <<>> \in Seq(Columns)
    OBVIOUS
<1> QED
    BY <1>1 DEF NoOp, Ops

LEMMA IdleFits ==
    ASSUME NEW th \in Threads, pc'[th] = "idle", op'[th] = NoOp
    PROVE  OpFits(th)'
<1>1. Handles(th)' = {}
    BY NoOpFacts DEF Handles
<1> QED
    BY <1>1, NoOpFacts DEF OpFits, Creating, Dropping, Finding, Reading

LEMMA EndFacts ==
    ASSUME TInv, NEW th \in Threads, End(th)
    PROVE  /\ pc'[th] = "idle" /\ op'[th] = NoOp
           /\ ThreadsTyped' /\ OthersStay(th) /\ OpFits(th)'
<1>1. Moves(th, "idle", NoOp)
    BY DEF End, Goto, Moves
<1>2. "idle" \in Labels
    BY DEF Labels
<1> QED
    BY <1>1, <1>2, MovesFacts, NoOpFacts, IdleFits DEF TInv

LEMMA RestStays ==
    ASSUME TInv, UNCHANGED <<made, spoiled, kills, requests>>
    PROVE  RestTyped'
BY DEF TInv, RestTyped

LEMMA ThrowsKeeps ==
    ASSUME TInv, NEW th \in Threads, pc[th] \notin {"idle", "hung"}, Throws(th)
    PROVE  Touches(th, {}) /\ TInv' /\ op'[th] = NoOp /\ pc'[th] = "idle"
<1>1. /\ End(th) /\ frames' = Closed(th) /\ Disk(disk)
      /\ UNCHANGED <<dir, hand, made, kills, requests>>
      /\ \/ spoiled' = [spoiled EXCEPT ![op[th].name] = @ \cup {"cut"}]
         \/ spoiled' = [spoiled EXCEPT ![op[th].name] = @]
    BY DEF Throws
<1>2. Touches(th, {})
    BY <1>1, EndFacts, ClosingTouches DEF TInv, StoreFits
<1>3. RestTyped'
    <2>1. spoiled \in [Names -> SUBSET Reasons] /\ "cut" \in Reasons
        BY DEF TInv, RestTyped, Reasons
    <2>2. spoiled' \in [Names -> SUBSET Reasons]
        BY <1>1, <2>1
    <2> QED
        BY <1>1, <2>2 DEF TInv, RestTyped
<1> QED
    BY <1>1, <1>2, <1>3, EndFacts, StepKeepsTInv

-----------------------------------------------------------------------------
LEMMA CheckSchemeTypes ==
    ASSUME TInv, NEW th \in Threads, CheckScheme(th)
    PROVE  Touches(th, {}) /\ TInv'
<1> PICK label \in {"make", "open"} : pc' = [pc EXCEPT ![th] = label]
    BY DEF CheckScheme, Goto
<1>1. /\ pc[th] = "check"
      /\ UNCHANGED <<dir, disk, frames, hand, op, made, spoiled, kills, requests>>
    BY DEF CheckScheme
<1>2. op \in [Threads -> Ops] /\ dir \in Dirs
    BY DEF TInv, ThreadsTyped, StoreFits
<1>3. Moves(th, label, op[th])
    BY <1>1, <1>2 DEF Moves
<1>4. label \in Labels /\ op[th] \in Ops
    BY <1>2 DEF Labels, Creating
<1>5. /\ ThreadsTyped' /\ OthersStay(th) /\ pc'[th] = label /\ op'[th] = op[th]
    BY <1>3, <1>4, MovesFacts DEF TInv
<1>6. Handles(th)' = Handles(th)
    BY <1>5 DEF Handles
<1>7. Touches(th, {})
    BY <1>1, <1>2, <1>5, <1>6, OpeningTouches DEF TInv, HandlesRemain
<1>8. OpFits(th)'
    BY <1>1, <1>5, <1>6 DEF TInv, OpFits, Creating, Dropping, Finding, Reading, Under
<1> QED
    BY <1>1, <1>5, <1>7, <1>8, RestStays, StepKeepsTInv

LEMMA NewFileFacts ==
    ASSUME TInv, NEW path \in Paths, dir[path] = None
    PROVE  /\ NewFile(path) \in Files /\ NewFile(path)[1] = path
           /\ NewFile(path) # None
           /\ ~InUse(NewFile(path))
<1> DEFINE any == CHOOSE g \in Generations : TRUE
           has(x, g) == \E h \in Handles(x) : h.file = <<path, g>>
           opened == [x \in Threads |-> IF \E g \in Generations : has(x, g)
                                        THEN CHOOSE g \in Generations : has(x, g)
                                        ELSE any]
           loaded == [i \in Frames |-> IF frames[i] # None THEN frames[i].file[2] ELSE any]
<1>1. any \in Generations
    BY GenerationsAssumption
<1>2. \A f \in Files : f[2] \in Generations
    BY DEF Files
<1>3. opened \in [Threads -> Generations]
    BY <1>1
<1>4. loaded \in [Frames -> Generations]
    <2>1. \A i \in Frames : frames[i] # None => frames[i].file[2] \in Generations
        BY <1>2, FrameFacts DEF TInv, StoreFits
    <2> QED
        BY <1>1, <2>1
<1> HIDE DEF opened, loaded
<1>5. PICK g \in Generations : /\ \A x \in Threads : opened[x] # g
                               /\ \A i \in Frames : loaded[i] # g
    BY <1>3, <1>4, GenerationsAssumption
<1> DEFINE f == <<path, g>>
<1>6. f \in Files /\ f[1] = path /\ f[2] = g /\ f # None
    BY NoneFacts DEF Files
<1>7. ~InUse(f)
    <2>1. dir[f[1]] # f
        BY <1>6
    <2>2. ASSUME NEW x \in Threads, NEW h \in Handles(x), h.file = f PROVE FALSE
        <3>1. has(x, g)
            BY <2>2
        <3>2. ASSUME NEW e \in Generations, has(x, e) PROVE e = g
            <4>1. PICK k \in Handles(x) : k.file = <<path, e>>
                BY <3>2
            <4>2. h.file[1] = path /\ k.file[1] = path /\ <<path, e>>[2] = e
                BY <1>6, <2>2, <4>1
            <4>3. k = h
                BY <4>2, PathFacts DEF TInv, OpFits, Handles
            <4> QED
                BY <1>6, <2>2, <4>1, <4>2, <4>3
        <3>3. opened[x] = CHOOSE e \in Generations : has(x, e)
            BY <3>1 DEF opened
        <3> HIDE DEF has
        <3>4. opened[x] = g
            BY <3>1, <3>2, <3>3
        <3> QED
            BY <1>5, <3>4
    <2>3. ASSUME NEW i \in Frames, frames[i] # None, frames[i].file = f PROVE FALSE
        BY <1>5, <1>6, <2>3 DEF loaded
    <2> QED
        BY <2>1, <2>2, <2>3 DEF InUse
<1>8. f \in {path} \X Generations
    OBVIOUS
<1> HIDE DEF f
<1>9. NewFile(path) \in {path} \X Generations /\ ~InUse(NewFile(path))
    BY <1>7, <1>8 DEF NewFile
<1>10. NewFile(path) \in Files /\ NewFile(path)[1] = path
    BY <1>9 DEF Files
<1> QED
    BY <1>9, <1>10, NoneFacts

\* What MakeScheme and MakeTable do to the directory.
LEMMA MakingDir ==
    ASSUME TInv, NEW path \in Paths, dir[path] = None,
           dir' = [dir EXCEPT ![path] = NewFile(path)]
    PROVE  /\ dir' \in Dirs
           /\ dir'[path] = NewFile(path)
           /\ \A p \in Paths : p # path => dir'[p] = dir[p]
           /\ \A p \in Paths : dir[p] # None => dir'[p] = dir[p]
BY NewFileFacts DEF TInv, StoreFits, Dirs

LEMMA MakeSchemeTypes ==
    ASSUME TInv, NEW th \in Threads, MakeScheme(th)
    PROVE  Touches(th, {}) /\ TInv'
<1>1. pc[th] = "make"
    BY DEF MakeScheme
<1>2. op \in [Threads -> Ops] /\ op[th] \in Ops /\ op[th].name \in Names
    BY <1>1 DEF TInv, ThreadsTyped, OpFits
<1> DEFINE path == Scheme(op[th].name)
<1>3. path \in Paths
    BY <1>2, PathFacts
<1>4. CASE Throws(th)
    BY <1>1, <1>4, ThrowsKeeps
<1>5. CASE /\ CanCreate(path)
           /\ dir' = [dir EXCEPT ![path] = NewFile(path)]
           /\ Goto(th, "open")
           /\ UNCHANGED <<disk, frames, hand, op, made, spoiled, kills, requests>>
    <2>1. Moves(th, "open", op[th]) /\ "open" \in Labels
        BY <1>2, <1>5 DEF Moves, Goto, Labels, Creating
    <2>2. /\ ThreadsTyped' /\ OthersStay(th) /\ pc'[th] = "open" /\ op'[th] = op[th]
        BY <1>2, <2>1, MovesFacts DEF TInv
    <2>3. Handles(th)' = Handles(th)
        BY <2>2 DEF Handles
    <2>4. /\ dir' \in Dirs
          /\ \A p \in Paths : dir[p] # None => dir'[p] = dir[p]
        BY <1>3, <1>5, MakingDir DEF CanCreate
    <2>5. Touches(th, {})
        BY <1>1, <1>5, <2>2, <2>3, <2>4, OpeningTouches DEF TInv, HandlesRemain
    <2>6. OpFits(th)'
        BY <1>1, <1>5, <2>2, <2>3 DEF TInv, OpFits, Creating, Dropping, Finding, Reading, Under
    <2> QED
        BY <1>5, <2>2, <2>5, <2>6, RestStays, StepKeepsTInv
<1> QED
    BY <1>4, <1>5 DEF MakeScheme

LEMMA MakeTableTypes ==
    ASSUME TInv, NEW th \in Threads, MakeTable(th)
    PROVE  Touches(th, {}) /\ TInv'
<1>1. pc[th] = "table"
    BY DEF MakeTable
<1>2. op \in [Threads -> Ops] /\ op[th] \in Ops /\ op[th].name \in Names
    BY <1>1 DEF TInv, ThreadsTyped, OpFits
<1> DEFINE n == op[th].name
           path == Data(n)
<1>3. path \in Paths
    BY <1>2, PathFacts
<1>4. CASE Throws(th)
    BY <1>1, <1>4, ThrowsKeeps
<1>5. CASE /\ CanCreate(path)
           /\ dir' = [dir EXCEPT ![path] = NewFile(path)]
           /\ made' = [made EXCEPT ![n] = [cols |-> op[th].cols, rows |-> 0]]
           /\ End(th)
           /\ UNCHANGED <<disk, frames, hand, spoiled, kills, requests>>
    <2>1. /\ ThreadsTyped' /\ OthersStay(th) /\ OpFits(th)'
        BY <1>5, EndFacts
    <2>2. Handles(th) = {}
        BY <1>1 DEF Handles, TInv, OpFits, Creating
    <2>4. /\ dir' \in Dirs
          /\ \A p \in Paths : dir[p] # None => dir'[p] = dir[p]
        BY <1>3, <1>5, MakingDir DEF CanCreate
    <2>5. Touches(th, {})
        BY <1>1, <1>5, <2>1, <2>2, <2>4, OpeningTouches DEF TInv, HandlesRemain
    <2>6. RestTyped'
        <3>1. [cols |-> op[th].cols, rows |-> 0] \in Tables
            BY <1>2 DEF Ops, Tables
        <3> QED
            BY <1>5, <3>1 DEF TInv, RestTyped
    <2> QED
        BY <2>1, <2>5, <2>6, StepKeepsTInv
<1> QED
    BY <1>4, <1>5 DEF MakeTable

LEMMA NewHandleFacts ==
    ASSUME TInv, NEW path \in Paths, dir[path] # None
    PROVE  /\ NewHandle(path) \in Handle /\ NewHandle(path) # None
           /\ NewHandle(path).file = dir[path]
           /\ dir[path] \in Files /\ dir[path][1] = path
           /\ NewHandle(path).size = 0 <=> disk[dir[path]] = None
<1>1. dir[path] \in Files /\ dir[path][1] = path
    BY DEF TInv, StoreFits, Dirs
<1>2. NewHandle(path) = [file |-> dir[path], size |-> PageCount(dir[path])]
    BY DEF NewHandle
<1>3. PageCount(dir[path]) \in {0, 1} /\ (PageCount(dir[path]) = 0 <=> disk[dir[path]] = None)
    BY DEF PageCount
<1>4. NewHandle(path) \in Handle
    BY <1>1, <1>2, <1>3 DEF Handle
<1> QED
    BY <1>1, <1>2, <1>3, <1>4, NoneFacts

\* Whoever has no handle on a file finds no frame of it.
LEMMA NotUnder ==
    ASSUME StoreFits, NEW th \in Threads, NEW f,
           \A h \in Handles(th) : h.file # f
    PROVE  \A i \in Frames : ~Under(i, th, f)
BY NoneFacts DEF StoreFits, Keyed, Under

LEMMA SchemeUpdate ==
    ASSUME NEW r \in Ops, NEW h \in Handle \cup {None}
    PROVE  /\ [r EXCEPT !.scheme = h] \in Ops
           /\ [r EXCEPT !.scheme = h].scheme = h
           /\ [r EXCEPT !.scheme = h].do = r.do
           /\ [r EXCEPT !.scheme = h].name = r.name
           /\ [r EXCEPT !.scheme = h].cols = r.cols
           /\ [r EXCEPT !.scheme = h].read = r.read
           /\ [r EXCEPT !.scheme = h].at = r.at
           /\ [r EXCEPT !.scheme = h].data = r.data
           /\ [r EXCEPT !.scheme = h].alone = r.alone
BY DEF Ops

LEMMA DataUpdate ==
    ASSUME NEW r \in Ops, NEW h \in Handle \cup {None}
    PROVE  /\ [r EXCEPT !.data = h] \in Ops
           /\ [r EXCEPT !.data = h].data = h
           /\ [r EXCEPT !.data = h].do = r.do
           /\ [r EXCEPT !.data = h].name = r.name
           /\ [r EXCEPT !.data = h].cols = r.cols
           /\ [r EXCEPT !.data = h].read = r.read
           /\ [r EXCEPT !.data = h].at = r.at
           /\ [r EXCEPT !.data = h].scheme = r.scheme
           /\ [r EXCEPT !.data = h].alone = r.alone
BY DEF Ops

LEMMA ColsUpdate ==
    ASSUME NEW r \in Ops, NEW c \in Seq(Columns)
    PROVE  /\ [r EXCEPT !.cols = c] \in Ops
           /\ [r EXCEPT !.cols = c].cols = c
           /\ [r EXCEPT !.cols = c].do = r.do
           /\ [r EXCEPT !.cols = c].name = r.name
           /\ [r EXCEPT !.cols = c].data = r.data
           /\ [r EXCEPT !.cols = c].read = r.read
           /\ [r EXCEPT !.cols = c].at = r.at
           /\ [r EXCEPT !.cols = c].scheme = r.scheme
           /\ [r EXCEPT !.cols = c].alone = r.alone
BY DEF Ops

\* An open: what it changes.
LEMMA OpensTypes ==
    ASSUME TInv, NEW th \in Threads, pc[th] \notin {"idle", "hung"},
           NEW path \in Paths, dir[path] # None,
           NEW label \in Labels, NEW o \in Ops, Moves(th, label, o),
           \/ o = [op[th] EXCEPT !.scheme = NewHandle(path)] /\ op[th].scheme = None
           \/ o = [op[th] EXCEPT !.data = NewHandle(path)] /\ op[th].data = None,
           \A h \in Handles(th) : h.file[1] # path,
           UNCHANGED <<dir, disk, frames, hand>>
    PROVE  /\ Touches(th, {})
           /\ ThreadsTyped'
           /\ pc'[th] = label /\ op'[th] = o
           /\ \A h \in Handles(th)' : h \in Handles(th) \/ h = NewHandle(path)
           /\ \A h \in Handles(th)' : h.size # 0 => disk'[h.file] # None
           /\ label # "hung" => \A h \in Handles(th)' : h.size = 0 =>
                 \A i \in Frames : ~Under(i, th, h.file)'
<1>1. /\ ThreadsTyped' /\ OthersStay(th) /\ pc'[th] = label /\ op'[th] = o
    BY MovesFacts DEF TInv
<1> PICK r \in Ops : r = op[th]
    BY DEF TInv, ThreadsTyped
<1> PICK nh \in Handle : nh = NewHandle(path) /\ nh # None
    BY NewHandleFacts
<1>2. \/ o.scheme = nh /\ o.data = r.data /\ r.scheme = None
      \/ o.data = nh /\ o.scheme = r.scheme /\ r.data = None
    <2>1. CASE o = [r EXCEPT !.scheme = nh] /\ r.scheme = None
        BY <2>1, SchemeUpdate
    <2>2. CASE o = [r EXCEPT !.data = nh] /\ r.data = None
        BY <2>2, DataUpdate
    <2> QED
        BY <2>1, <2>2
<1>3. /\ \A h \in Handles(th)' : h \in Handles(th) \/ h = NewHandle(path)
      /\ \A h \in Handles(th) : h \in Handles(th)'
    BY <1>1, <1>2 DEF Handles
<1>4. Touches(th, {})
    BY <1>1, <1>3, OpeningTouches DEF HandlesRemain, TInv, StoreFits
<1>5. \A h \in Handles(th)' : h.size # 0 => disk'[h.file] # None
    BY <1>3, NewHandleFacts DEF TInv, OpFits
<1>6. ASSUME label # "hung", NEW h \in Handles(th)', h.size = 0, NEW i \in Frames,
             Under(i, th, h.file)'
      PROVE  FALSE
    <2> PICK g : g = h.file
        OBVIOUS
    <2>1. Under(i, th, g)
        BY <1>6 DEF Under
    <2>2. CASE h \in Handles(th)
        BY <1>6, <2>1, <2>2 DEF TInv, OpFits
    <2>3. CASE h = nh
        <3>1. g[1] = path
            BY <2>3, NewHandleFacts
        <3>2. \A k \in Handles(th) : k.file # g
            BY <3>1
        <3> QED
            BY <2>1, <3>2, NotUnder DEF TInv
    <2> QED
        BY <1>3, <1>6, <2>2, <2>3
<1>7. label # "hung" => \A h \in Handles(th)' : h.size = 0 =>
          \A i \in Frames : ~Under(i, th, h.file)'
    BY <1>6
<1> QED
    BY <1>1, <1>3, <1>4, <1>5, <1>7

LEMMA OpensSchemeTypes ==
    ASSUME TInv, NEW th \in Threads, NEW label,
           \/ pc[th] = "open" /\ label = "append"
           \/ pc[th] = "look" /\ label = "read",
           OpensScheme(th, label)
    PROVE  Touches(th, {}) /\ TInv'
<1>1. pc[th] \in {"open", "look"} /\ pc[th] \notin {"idle", "hung"}
    OBVIOUS
<1> PICK r \in Ops : r = op[th]
    BY DEF TInv, ThreadsTyped
<1>2. r.name \in Names /\ r.scheme = None
    BY <1>1 DEF TInv, OpFits
<1> DEFINE path == Scheme(r.name)
<1>3. path \in Paths
    BY <1>2, PathFacts
<1>4. CASE Throws(th)
    BY <1>1, <1>4, ThrowsKeeps
<1>5. CASE /\ CanOpen(path)
           /\ op' = [op EXCEPT ![th].scheme = NewHandle(path)]
           /\ Goto(th, label)
           /\ UNCHANGED <<dir, disk, frames, hand, made, spoiled, kills, requests>>
    <2> PICK nh \in Handle : /\ nh = NewHandle(path) /\ nh # None
                             /\ nh.file = dir[path] /\ nh.file[1] = path
                             /\ nh.size = 0 <=> disk[dir[path]] = None
        BY <1>3, <1>5, NewHandleFacts DEF CanOpen
    <2> DEFINE o == [r EXCEPT !.scheme = nh]
    <2>1. /\ o \in Ops /\ o.scheme = nh /\ o.do = r.do /\ o.name = r.name /\ o.cols = r.cols
          /\ o.read = r.read /\ o.at = r.at /\ o.data = r.data
        BY SchemeUpdate
    <2>2. o = [op[th] EXCEPT !.scheme = NewHandle(path)]
        OBVIOUS
    <2>3. op' = [op EXCEPT ![th] = o]
        BY <1>5
    <2> HIDE DEF o
    <2>4. Moves(th, label, o) /\ label \in Labels
        BY <1>5, <2>3 DEF Moves, Goto, Labels, Creating, Reading, Finding
    <2>5. \A h \in Handles(th) : h.file[1] # path
        BY <1>2, PathFacts DEF Handles, TInv, OpFits
    <2>6. /\ Touches(th, {})
          /\ ThreadsTyped'
          /\ pc'[th] = label /\ op'[th] = o
          /\ \A h \in Handles(th)' : h.size # 0 => disk'[h.file] # None
          /\ label # "hung" => \A h \in Handles(th)' : h.size = 0 =>
                \A i \in Frames : ~Under(i, th, h.file)'
        BY <1>1, <1>2, <1>3, <1>5, <2>1, <2>2, <2>4, <2>5, OpensTypes DEF CanOpen
    <2>7. OpFits(th)
        BY DEF TInv
    <2>8. OpFits(th)'
        <3>1. CASE pc[th] = "look"
            BY <1>2, <2>1, <2>6, <2>7, <3>1
            DEF OpFits, Creating, Dropping, Finding, Reading
        <3>2. CASE pc[th] = "open"
            <4>1. o.at = 0 /\ o.cols # <<>> /\ o.cols \in Seq(Columns)
                BY <2>1, <2>7, <3>2 DEF OpFits, Creating, Ops
            <4>2. o.at < Len(o.cols)
                BY <4>1
            <4> QED
                BY <1>2, <2>1, <2>6, <2>7, <3>2, <4>1, <4>2
                DEF OpFits, Creating, Dropping, Finding, Reading
        <3> QED
            BY <1>1, <3>1, <3>2
    <2> QED
        BY <1>5, <2>6, <2>8, RestStays, StepKeepsTInv
<1> QED
    BY <1>4, <1>5 DEF OpensScheme

LEMMA OpenDataTypes ==
    ASSUME TInv, NEW th \in Threads, OpenData(th)
    PROVE  Touches(th, {}) /\ TInv'
<1>1. pc[th] = "data" /\ pc[th] \notin {"idle", "hung"}
    BY DEF OpenData
<1> PICK r \in Ops : r = op[th]
    BY DEF TInv, ThreadsTyped
<1>2. r.name \in Names /\ r.scheme = None /\ r.data = None
    BY <1>1 DEF TInv, OpFits
<1> DEFINE path == Data(r.name)
<1>3. path \in Paths
    BY <1>2, PathFacts
<1>4. CASE Throws(th)
    BY <1>1, <1>4, ThrowsKeeps
<1>5. CASE /\ CanOpen(path)
           /\ op' = [op EXCEPT ![th].data = NewHandle(path)]
           /\ Goto(th, IF op[th].do = "insert" THEN "insert" ELSE "find")
           /\ UNCHANGED <<dir, disk, frames, hand, made, spoiled, kills, requests>>
    <2> PICK nh \in Handle : /\ nh = NewHandle(path) /\ nh # None
                             /\ nh.file = dir[path] /\ nh.file[1] = path
                             /\ nh.size = 0 <=> disk[dir[path]] = None
        BY <1>3, <1>5, NewHandleFacts DEF CanOpen
    <2> PICK label \in {"insert", "find"} : label = IF r.do = "insert" THEN "insert" ELSE "find"
        OBVIOUS
    <2> DEFINE o == [r EXCEPT !.data = nh]
    <2>1. /\ o \in Ops /\ o.scheme = r.scheme /\ o.do = r.do /\ o.name = r.name /\ o.cols = r.cols
          /\ o.read = r.read /\ o.at = r.at /\ o.data = nh
        BY DataUpdate
    <2>2. o = [op[th] EXCEPT !.data = NewHandle(path)]
        OBVIOUS
    <2>3. op' = [op EXCEPT ![th] = o]
        BY <1>5
    <2> HIDE DEF o
    <2>4. Moves(th, label, o) /\ label \in Labels
        BY <1>5, <2>3 DEF Moves, Goto, Labels, Creating, Reading, Finding
    <2>5. \A h \in Handles(th) : h.file[1] # path
        BY <1>2, PathFacts DEF Handles, TInv, OpFits
    <2>6. /\ Touches(th, {})
          /\ ThreadsTyped'
          /\ pc'[th] = label /\ op'[th] = o
          /\ \A h \in Handles(th)' : h.size # 0 => disk'[h.file] # None
          /\ label # "hung" => \A h \in Handles(th)' : h.size = 0 =>
                \A i \in Frames : ~Under(i, th, h.file)'
        BY <1>1, <1>2, <1>3, <1>5, <2>1, <2>2, <2>4, <2>5, OpensTypes DEF CanOpen
    <2>7. OpFits(th)
        BY DEF TInv
    <2>8. r.do \in {"insert", "select"}
        BY <1>1, <2>7 DEF OpFits, Reading
    <2>9. OpFits(th)'
        BY <1>1, <1>2, <2>1, <2>6, <2>7, <2>8
        DEF OpFits, Creating, Dropping, Finding, Reading
    <2> QED
        BY <1>5, <2>6, <2>9, RestStays, StepKeepsTInv
<1> QED
    BY <1>4, <1>5 DEF OpenData

-----------------------------------------------------------------------------
LEMMA ForgetTypes ==
    ASSUME TInv, NEW th \in Threads, Forget(th)
    PROVE  Touches(th, {}) /\ TInv'
<1>1. /\ pc[th] = "forget"
      /\ dir' = [dir EXCEPT ![Scheme(op[th].name)] = None]
      /\ Goto(th, "remove") /\ Disk(disk)
      /\ UNCHANGED <<frames, hand, op, made, spoiled, kills, requests>>
    BY DEF Forget
<1>2. op \in [Threads -> Ops] /\ op[th] \in Ops /\ op[th].name \in Names
    BY <1>1 DEF TInv, ThreadsTyped, OpFits
<1>3. Moves(th, "remove", op[th]) /\ "remove" \in Labels
    BY <1>1, <1>2 DEF Moves, Goto, Labels, Dropping
<1>4. /\ ThreadsTyped' /\ OthersStay(th) /\ pc'[th] = "remove" /\ op'[th] = op[th]
    BY <1>2, <1>3, MovesFacts DEF TInv
<1>5. Handles(th)' = Handles(th) /\ Handles(th) = {}
    BY <1>1, <1>4 DEF Handles, TInv, OpFits, Dropping
<1>6. dir' \in Dirs
    BY <1>1 DEF TInv, StoreFits, Dirs
<1>7. Touches(th, {})
    BY <1>1, <1>4, <1>5, <1>6, ClosingTouches DEF TInv, HandlesRemain
<1>8. OpFits(th)'
    BY <1>1, <1>4, <1>5 DEF TInv, OpFits, Creating, Dropping, Finding, Reading
<1> QED
    BY <1>1, <1>4, <1>7, <1>8, RestStays, StepKeepsTInv

LEMMA RemoveDataTypes ==
    ASSUME TInv, NEW th \in Threads, RemoveData(th)
    PROVE  Touches(th, {}) /\ TInv'
<1>1. /\ pc[th] = "remove"
      /\ dir' = [dir EXCEPT ![Data(op[th].name)] = None]
      /\ made' = [made EXCEPT ![op[th].name] = None]
      /\ \/ spoiled' = [spoiled EXCEPT ![op[th].name] = {}]
         \/ spoiled' = [spoiled EXCEPT ![op[th].name] = @]
      /\ End(th) /\ Disk(disk)
      /\ UNCHANGED <<frames, hand, kills, requests>>
    BY DEF RemoveData
<1>2. Handles(th) = {}
    BY <1>1 DEF Handles, TInv, OpFits, Dropping
<1>3. dir' \in Dirs
    BY <1>1 DEF TInv, StoreFits, Dirs
<1>4. Touches(th, {})
    BY <1>1, <1>2, <1>3, EndFacts, ClosingTouches DEF TInv, HandlesRemain
<1>5. RestTyped'
    <2>1. made' \in [Names -> Tables \cup {None}]
        BY <1>1 DEF TInv, RestTyped
    <2>2. spoiled' \in [Names -> SUBSET Reasons]
        BY <1>1 DEF TInv, RestTyped
    <2> QED
        BY <1>1, <2>1, <2>2 DEF TInv, RestTyped
<1> QED
    BY <1>1, <1>4, <1>5, EndFacts, StepKeepsTInv

LEMMA EndScanTypes ==
    ASSUME TInv, NEW th \in Threads, EndScan(th)
    PROVE  Touches(th, {}) /\ TInv'
<1>1. /\ pc[th] = "end" /\ End(th) /\ frames' = Closed(th) /\ Disk(disk)
      /\ UNCHANGED <<dir, hand, made, spoiled, kills, requests>>
    BY DEF EndScan
<1>2. Touches(th, {})
    BY <1>1, EndFacts, ClosingTouches DEF TInv, StoreFits
<1> QED
    BY <1>1, <1>2, RestStays, EndFacts, StepKeepsTInv

\* What is left when the process ends.
LEMMA DiesTypes ==
    ASSUME TInv, Dies
    PROVE  /\ TInv'
           /\ UNCHANGED <<dir, made>>
           /\ \A th \in Threads : pc'[th] = "idle" /\ op'[th] = NoOp
           /\ \A i \in Frames : frames'[i] = None
           /\ \A g \in Files : dir[g[1]] = g => disk'[g] = disk[g]
<1>1. /\ kills < MaxKills /\ kills' = kills + 1
      /\ frames' = [i \in Frames |-> None]
      /\ hand' = 0
      /\ pc' = [th \in Threads |-> "idle"]
      /\ op' = [th \in Threads |-> NoOp]
      /\ UNCHANGED <<dir, made, requests>>
      /\ Disk(disk)
    BY DEF Dies
<1>2. \A th \in Threads : pc'[th] = "idle" /\ op'[th] = NoOp /\ OpFits(th)'
    BY <1>1, IdleFits
<1>3. \A i \in Frames : frames'[i] = None
    BY <1>1
<1>4. ThreadsTyped'
    BY <1>1, NoOpFacts DEF ThreadsTyped, Labels
<1>5. /\ disk' \in Pages /\ NoLostPages'
      /\ \A f \in Files : InUse(f)' => disk'[f] = disk[f]
    BY <1>1, DiskFacts DEF TInv, StoreFits
<1>6. \A g \in Files : dir[g[1]] = g => disk'[g] = disk[g]
    BY <1>1, <1>5, ReachedInUse
<1>7. StoreFits'
    <2>1. frames' \in Pools
        BY <1>1 DEF Pools
    <2>2. Backed' /\ Keyed' /\ Waited'
        BY <1>3 DEF Backed, Keyed, Waited, Stuck
    <2>3. hand' \in Frames
        BY <1>1, TurnedFacts DEF TInv, StoreFits
    <2> QED
        BY <1>1, <1>5, <2>1, <2>2, <2>3 DEF TInv, StoreFits
<1>8. RestTyped'
    <2>1. spoiled' \in [Names -> SUBSET Reasons]
        <3>1. spoiled' = [n \in Names |->
                  LET doing == {op[th].do : th \in On(n)}
                      lost == \E i \in Frames :
                          /\ frames[i] # None
                          /\ frames[i].file \in {dir[Data(n)], dir[Scheme(n)]}
                          /\ frames[i].rows # disk[frames[i].file]
                  IN  spoiled[n]
                        \cup (IF "drop" \in doing THEN {"torn"} ELSE {})
                        \cup (IF lost \/ doing \cap {"create", "insert"} # {}
                              THEN {"cut"} ELSE {})]
            BY DEF Dies
        <3>2. \A n \in Names : spoiled[n] \subseteq Reasons /\ {"torn", "cut"} \subseteq Reasons
            BY DEF TInv, RestTyped, Reasons
        <3>3. \A n \in Names : spoiled'[n] \subseteq Reasons
            BY <3>1, <3>2
        <3> QED
            BY <3>1, <3>3
    <2>2. kills' \in 0 .. MaxKills
        <3>1. MaxKills \in Nat
            BY BoundsAssumption
        <3> QED
            BY <1>1, <3>1 DEF TInv, RestTyped
    <2> QED
        BY <1>1, <2>1, <2>2 DEF TInv, RestTyped
<1> QED
    BY <1>1, <1>2, <1>3, <1>4, <1>6, <1>7, <1>8 DEF TInv

\* An access by a thread that does nothing else with files.
LEMMA AccessTypes ==
    ASSUME TInv, NEW th \in Threads, NEW f \in Files, NEW d, Goes(th, f, d),
           NEW added \in PageOf(f), NEW by \in {th, None},
           Access(th, f, d, added, by),
           OthersStay(th), HandlesStay(th, f, by), UNCHANGED dir
    PROVE  /\ Touches(th, {f})
           /\ Page(th, f, d) \in PageOf(f)
           /\ disk'[f] # None
           /\ OwnFrames(th, f, by)
<1> PICK i \in Frames, page \in PageOf(f) :
        page = Page(th, f, d) /\ Loads(i, th, f, d, page, added, by)
    BY AccessLoads DEF TInv
<1>1. disk'[f] # None
    BY LoadsCopies DEF TInv
<1>2. StoreFits
    BY DEF TInv
<1>3. Touches(th, {f}) /\ OwnFrames(th, f, by)
    BY <1>2, LoadsTouches
<1> QED
    BY <1>1, <1>3

LEMMA HangsTypes ==
    ASSUME TInv, NEW th \in Threads, NEW h \in Handles(th), Hangs(th, h),
           pc[th] \in {"read", "scan"}
    PROVE  /\ Touches(th, {h.file}) /\ TInv'
           /\ \A g \in Files : InUse(g)' => OldCopies(g)
<1>1. h \in Handle /\ h.file \in Files
    BY HandleFacts DEF TInv
<1>2. h.size = 0 /\ Goto(th, "hung") /\ UNCHANGED <<dir, op, made, spoiled, kills, requests>>
    BY DEF Hangs
<1>3. \A i \in Frames : ~Under(i, th, h.file)
    BY <1>2 DEF TInv, OpFits
<1>4. /\ Touches(th, {h.file})
      /\ \A g \in Files : InUse(g)' => OldCopies(g)
    BY <1>1, <1>3, HangingTouches DEF TInv, ThreadsTyped
<1>5. Moves(th, "hung", op[th]) /\ "hung" \in Labels /\ op[th] \in Ops
    BY <1>2 DEF Moves, Goto, Labels, TInv, ThreadsTyped
<1>6. ThreadsTyped' /\ pc'[th] = "hung" /\ op'[th] = op[th]
    BY <1>5, MovesFacts DEF TInv
<1>7. Handles(th)' = Handles(th)
    BY <1>6 DEF Handles
<1>8. \A k \in Handles(th)' : k.size # 0 => disk'[k.file] # None
    <2> SUFFICES ASSUME NEW k \in Handles(th), k.size # 0 PROVE disk'[k.file] # None
        BY <1>7
    <2>1. k.file \in Files /\ InUse(k.file)' /\ disk[k.file] # None
        BY <1>7, HandleFacts, ReachedInUse DEF TInv, OpFits
    <2> QED
        BY <1>4, <2>1 DEF Touches
<1>9. OpFits(th)'
    BY <1>6, <1>8 DEF TInv, OpFits, Creating, Dropping, Finding, Reading
<1> QED
    BY <1>2, <1>4, <1>6, <1>9, RestStays, StepKeepsTInv

LEMMA FindSchemeTypes ==
    ASSUME TInv, NEW th \in Threads, FindScheme(th)
    PROVE  Dies \/ (Touches(th, {}) /\ TInv')
<1> SUFFICES ASSUME ~Dies PROVE Touches(th, {}) /\ TInv'
    OBVIOUS
<1>1. /\ pc[th] = "find"
      /\ op' = [op EXCEPT ![th].cols = <<>>]
      /\ Goto(th, "look")
      /\ UNCHANGED <<dir, disk, frames, hand, made, spoiled, kills, requests>>
    BY DEF FindScheme
<1> PICK r \in Ops : r = op[th]
    BY DEF TInv, ThreadsTyped
<1>2. <<>> \in Seq(Columns)
    OBVIOUS
<1> DEFINE o == [r EXCEPT !.cols = <<>>]
<1>3. /\ o \in Ops /\ o.cols = <<>> /\ o.do = r.do /\ o.name = r.name /\ o.data = r.data
      /\ o.at = r.at /\ o.scheme = r.scheme
    BY <1>2, ColsUpdate
<1>4. op' = [op EXCEPT ![th] = o]
    BY <1>1
<1> HIDE DEF o
<1>5. Moves(th, "look", o) /\ "look" \in Labels
    BY <1>1, <1>4 DEF Moves, Goto, Labels, Reading, Finding
<1>6. ThreadsTyped' /\ OthersStay(th) /\ pc'[th] = "look" /\ op'[th] = o
    BY <1>3, <1>5, MovesFacts DEF TInv
<1>7. Handles(th)' = Handles(th)
    BY <1>3, <1>6 DEF Handles
<1>8. Touches(th, {})
    BY <1>1, <1>6, <1>7, OpeningTouches DEF TInv, HandlesRemain, StoreFits
<1>9. OpFits(th)'
    <2>1. \A h \in Handles(th)' : /\ h.size # 0 => disk'[h.file] # None
                                  /\ h.size = 0 => \A i \in Frames : ~Under(i, th, h.file)'
        BY <1>1, <1>7 DEF TInv, OpFits, Under
    <2> QED
        BY <1>1, <1>3, <1>6, <2>1 DEF TInv, OpFits, Creating, Dropping, Finding, Reading
<1> QED
    BY <1>1, <1>6, <1>8, <1>9, RestStays, StepKeepsTInv

\* A look at the page of an open file that has one.
LEMMA ReaderGoes ==
    ASSUME TInv, NEW th \in Threads, pc[th] # "hung", NEW h \in Handles(th), h.size # 0
    PROVE  Goes(th, h.file, disk) /\ h.file \in Files
BY HandleFacts DEF TInv, OpFits, Goes

\* The disk when th goes to the page that it may have to allocate.
PutDisk(h) == IF h.size = 0 THEN [disk EXCEPT ![h.file] = <<>>] ELSE disk

LEMMA PutGoes ==
    ASSUME TInv, NEW th \in Threads, pc[th] # "hung", NEW h \in Handles(th)
    PROVE  /\ Goes(th, h.file, PutDisk(h)) /\ h.file \in Files
           /\ \A added, by : Put(th, h, added, by) <=>
                                Access(th, h.file, PutDisk(h), added, by)
<1>1. h \in Handle /\ h.file \in Files
    BY HandleFacts DEF TInv
<1>2. CASE h.size = 0
    <2>1. PutDisk(h) = [disk EXCEPT ![h.file] = <<>>]
        BY <1>2 DEF PutDisk
    <2>2. PutDisk(h)[h.file] = <<>>
        BY <1>1, <2>1 DEF TInv, StoreFits, Pages
    <2>3. <<>> # None
        BY <1>1, NoneFacts, PageFacts
    <2>4. PutDisk(h)[h.file] # None
        BY <2>2, <2>3
    <2> QED
        BY <1>1, <1>2, <2>1, <2>4 DEF Goes, Put
<1>3. CASE h.size # 0
    BY <1>1, <1>3, ReaderGoes DEF PutDisk, Put
<1> QED
    BY <1>2, <1>3

LookedUp(r, a, c) == [r EXCEPT !.scheme = None, !.at = a, !.read = c]

LEMMA LookedUpFacts ==
    ASSUME NEW r \in Ops, NEW a \in Nat, NEW c \in Seq(Columns)
    PROVE  /\ LookedUp(r, a, c) \in Ops
           /\ LookedUp(r, a, c).scheme = None
           /\ LookedUp(r, a, c).do = r.do
           /\ LookedUp(r, a, c).name = r.name
           /\ LookedUp(r, a, c).cols = r.cols
           /\ LookedUp(r, a, c).read = c
           /\ LookedUp(r, a, c).at = a
           /\ LookedUp(r, a, c).data = r.data
           /\ LookedUp(r, a, c).alone = r.alone
BY DEF Ops, LookedUp

LEMMA ReadColumnTypes ==
    ASSUME TInv, NEW th \in Threads, ReadColumn(th)
    PROVE  Touches(th, {op[th].scheme.file}) /\ TInv'
<1> PICK r \in Ops : r = op[th]
    BY DEF TInv, ThreadsTyped
<1> PICK h : h = r.scheme
    OBVIOUS
<1>1. pc[th] = "read"
    BY DEF ReadColumn
<1>2. /\ h \in Handles(th) /\ r.name \in Names
      /\ h.file[1] = Scheme(r.name)
      /\ h.file \in Files
      /\ \A k \in Handles(th) : k.file = h.file => k = h
    <2>1. h \in Handles(th) /\ r.name \in Names /\ h.file[1] = Scheme(r.name)
        BY <1>1 DEF TInv, OpFits, Handles
    <2>2. \A k \in Handles(th) : k.file = h.file => k = h
        BY <2>1, PathFacts DEF TInv, OpFits, Handles
    <2> QED
        BY <2>1, <2>2, HandleFacts DEF TInv
<1>3. CASE Hangs(th, h)
    BY <1>1, <1>2, <1>3, HangsTypes
<1> DEFINE next == Len(r.cols) + 1
           page == Page(th, h.file, disk)
<1>4. CASE /\ h.size # 0
           /\ next \in DOMAIN page
           /\ op' = [op EXCEPT ![th].cols = Append(@, page[next])]
           /\ UNCHANGED <<dir, pc, made, spoiled, kills, requests>>
           /\ Access(th, h.file, disk, <<>>, th)
    <2>1. Goes(th, h.file, disk)
        BY <1>1, <1>2, <1>4, ReaderGoes
    <2>2. <<>> \in PageOf(h.file) /\ PageOf(h.file) = SchemePage
        BY <1>2, PageFacts
    <2>3. page \in Seq(Columns)
        <3>1. \E i \in Frames, p \in PageOf(h.file) : p = page
            BY <1>2, <1>4, <2>1, <2>2, AccessLoads DEF TInv
        <3> QED
            BY <2>2, <3>1 DEF SchemePage
    <2> HIDE DEF page
    <2>4. r.cols \in Seq(Columns)
        BY DEF Ops
    <2> PICK c : c = Append(r.cols, page[next])
        OBVIOUS
    <2>5. page[next] \in Columns
        BY <1>4, <2>3
    <2>6. c \in Seq(Columns)
        BY <2>4, <2>5
    <2> DEFINE o == [r EXCEPT !.cols = c]
    <2>7. /\ o \in Ops /\ o.cols = c /\ o.do = r.do /\ o.name = r.name /\ o.data = r.data
          /\ o.at = r.at /\ o.scheme = r.scheme
        <3> HIDE DEF next
        <3>1. o \in Ops
            BY <2>6, ColsUpdate
        <3>2. o.cols = c /\ o.do = r.do /\ o.name = r.name
            BY <2>6, ColsUpdate
        <3>3. o.data = r.data /\ o.at = r.at /\ o.scheme = r.scheme
            BY <2>6, ColsUpdate
        <3> QED
            BY <3>1, <3>2, <3>3
    <2>8. op' = [op EXCEPT ![th] = o]
        BY <1>4
    <2> HIDE DEF o
    <2>9. Moves(th, "read", o) /\ "read" \in Labels
        BY <1>1, <1>4, <2>8 DEF Moves, Labels, Reading, Finding, TInv, ThreadsTyped
    <2>10. ThreadsTyped' /\ OthersStay(th) /\ pc'[th] = "read" /\ op'[th] = o
        BY <2>7, <2>9, MovesFacts DEF TInv
    <2>11. Handles(th)' = Handles(th)
        BY <2>7, <2>10 DEF Handles
    <2>12. Touches(th, {h.file}) /\ OwnFrames(th, h.file, th)
        BY <1>2, <1>4, <2>1, <2>2, <2>10, <2>11, AccessTypes DEF HandlesStay
    <2>13. ASSUME NEW k \in Handles(th)
           PROVE  /\ k.size # 0 => disk'[k.file] # None
                  /\ k.size = 0 => \A i \in Frames : ~Under(i, th, k.file)'
        <3>1. k.file \in Files /\ InUse(k.file)'
            BY <2>11, HandleFacts, ReachedInUse DEF TInv
        <3>2. k.size # 0 => disk[k.file] # None
            BY DEF TInv, OpFits
        <3>3. k.size = 0 => k.file # h.file /\ \A i \in Frames : ~Under(i, th, k.file)
            BY <1>1, <1>2, <1>4 DEF TInv, OpFits
        <3> PICK g : g = k.file
            OBVIOUS
        <3>4. g # h.file => \A i \in Frames : Under(i, th, g)' => Under(i, th, g)
            BY <2>12 DEF OwnFrames
        <3> QED
            BY <2>12, <3>1, <3>2, <3>3, <3>4 DEF Touches
    <2>14. OpFits(th)'
        <3>1. \A k \in Handles(th)' : /\ k.size # 0 => disk'[k.file] # None
                                      /\ k.size = 0 => \A i \in Frames : ~Under(i, th, k.file)'
            BY <2>11, <2>13
        <3> QED
            BY <1>1, <2>7, <2>10, <3>1 DEF TInv, OpFits, Creating, Dropping, Finding, Reading
    <2> QED
        BY <1>4, <2>10, <2>12, <2>14, RestStays, StepKeepsTInv
<1> QED
    BY <1>3, <1>4 DEF ReadColumn

LEMMA AfterLookupFacts ==
    /\ AfterLookup["insert"][1] = "find" /\ AfterLookup["insert"][2] = "data"
    /\ AfterLookup["select"][1] = "data" /\ AfterLookup["select"][2] = "scan"
    /\ AfterLookup["select"][3] = "end"
BY DEF AfterLookup

LEMMA CloseSchemeTypes ==
    ASSUME TInv, NEW th \in Threads, CloseScheme(th)
    PROVE  Touches(th, {op[th].scheme.file}) /\ TInv'
<1> PICK r \in Ops : r = op[th]
    BY DEF TInv, ThreadsTyped
<1> PICK h : h = r.scheme
    OBVIOUS
<1> PICK a : a = r.at + 1
    OBVIOUS
<1>1. /\ pc[th] = "read" /\ h.size # 0
      /\ op' = [op EXCEPT ![th].scheme = None, ![th].at = a,
                          ![th].read = IF a = 1 THEN op[th].cols ELSE @]
      /\ Goto(th, AfterLookup[r.do][a])
      /\ UNCHANGED <<dir, made, spoiled, kills, requests>>
      /\ Access(th, h.file, disk, <<>>, None)
    BY DEF CloseScheme
<1>2. /\ h \in Handles(th) /\ r.name \in Names
      /\ h.file[1] = Scheme(r.name)
      /\ h.file \in Files
      /\ \A k \in Handles(th) : k.file = h.file => k = h
    <2>1. h \in Handles(th) /\ r.name \in Names /\ h.file[1] = Scheme(r.name)
        BY <1>1 DEF TInv, OpFits, Handles
    <2>2. \A k \in Handles(th) : k.file = h.file => k = h
        BY <2>1, PathFacts DEF TInv, OpFits, Handles
    <2> QED
        BY <2>1, <2>2, HandleFacts DEF TInv
<1>3. Goes(th, h.file, disk)
    BY <1>1, <1>2, ReaderGoes
<1>4. <<>> \in PageOf(h.file)
    BY <1>2, PageFacts
<1> PICK c : c = IF a = 1 THEN r.cols ELSE r.read
    OBVIOUS
<1>5. c \in Seq(Columns) /\ a \in Nat
    BY DEF Ops
<1> DEFINE o == LookedUp(r, a, c)
<1>6. /\ o \in Ops /\ o.cols = r.cols /\ o.do = r.do /\ o.name = r.name /\ o.data = r.data
      /\ o.at = a /\ o.scheme = None
    BY <1>5, LookedUpFacts
<1>7. op' = [op EXCEPT ![th] = o]
    BY <1>1 DEF LookedUp
<1> HIDE DEF o
<1>8. \/ r.do = "insert" /\ a \in {1, 2}
      \/ r.do = "select" /\ a \in {1, 2, 3}
    BY <1>1 DEF TInv, OpFits, Reading, Finding
<1> PICK label : label = AfterLookup[r.do][a]
    OBVIOUS
<1>9. \/ r.do = "insert" /\ a = 1 /\ label = "find"
      \/ r.do = "insert" /\ a = 2 /\ label = "data"
      \/ r.do = "select" /\ a = 1 /\ label = "data"
      \/ r.do = "select" /\ a = 2 /\ label = "scan"
      \/ r.do = "select" /\ a = 3 /\ label = "end"
    BY <1>8, AfterLookupFacts
<1>10. Moves(th, label, o) /\ label \in Labels
    BY <1>1, <1>7, <1>9 DEF Moves, Goto, Labels, Reading, Finding
<1>11. ThreadsTyped' /\ OthersStay(th) /\ pc'[th] = label /\ op'[th] = o
    BY <1>6, <1>10, MovesFacts DEF TInv
<1>12. \A k \in Handles(th) : k = h \/ k \in Handles(th)'
    BY <1>6, <1>11 DEF Handles
<1>13. \A k \in Handles(th)' : k \in Handles(th) /\ k # None /\ k = r.data
    BY <1>6, <1>11 DEF Handles
<1>14. Touches(th, {h.file}) /\ OwnFrames(th, h.file, None)
    <2>1. HandlesStay(th, h.file, None)
        BY <1>12, NoneFacts DEF HandlesStay
    <2> QED
        BY <1>1, <1>2, <1>3, <1>4, <1>11, <2>1, AccessTypes
<1>15. ASSUME NEW k \in Handles(th)'
       PROVE  /\ k.size # 0 => disk'[k.file] # None
              /\ k.size = 0 => \A i \in Frames : ~Under(i, th, k.file)'
    <2>1. k.file \in Files /\ InUse(k.file)'
        BY <1>13, HandleFacts, ReachedInUse DEF TInv
    <2>2. k.size # 0 => disk[k.file] # None
        BY <1>13 DEF TInv, OpFits
    <2>3. k.size = 0 => \A i \in Frames : ~Under(i, th, k.file)
        BY <1>1, <1>13 DEF TInv, OpFits
    <2> PICK g : g = k.file
        OBVIOUS
    <2>4. \A i \in Frames : Under(i, th, g)' => Under(i, th, g)
        BY <1>14, NoneFacts DEF OwnFrames
    <2> QED
        BY <1>14, <2>1, <2>2, <2>3, <2>4 DEF Touches
<1>16. OpFits(th)'
    <2>1. r.data # None <=> r.do = "select" /\ a \in {2, 3}
        BY <1>1, <1>9 DEF TInv, OpFits, Finding
    <2>2. r.data # None => r.data.file[1] = Data(r.name)
        BY DEF TInv, OpFits
    <2> QED
        BY <1>2, <1>6, <1>9, <1>11, <1>15, <2>1, <2>2
        DEF OpFits, Creating, Dropping, Finding, Reading
<1> QED
    BY <1>1, <1>11, <1>14, <1>16, RestStays, StepKeepsTInv

LEMMA ScanRowsTypes ==
    ASSUME TInv, NEW th \in Threads, ScanRows(th)
    PROVE  Dies \/ (Touches(th, {op[th].data.file}) /\ TInv')
<1> SUFFICES ASSUME ~Dies PROVE Touches(th, {op[th].data.file}) /\ TInv'
    OBVIOUS
<1> PICK r \in Ops : r = op[th]
    BY DEF TInv, ThreadsTyped
<1> PICK h : h = r.data
    OBVIOUS
<1>1. pc[th] = "scan"
    BY DEF ScanRows
<1>2. h \in Handles(th) /\ h.file \in Files /\ r.scheme = None
    <2>1. h \in Handles(th) /\ r.scheme = None
        BY <1>1 DEF TInv, OpFits, Handles
    <2> QED
        BY <2>1, HandleFacts DEF TInv
<1>3. CASE Hangs(th, h)
    BY <1>1, <1>2, <1>3, HangsTypes
<1>4. CASE /\ h.size # 0
           /\ Goto(th, "scan") \/ Goto(th, "find")
           /\ UNCHANGED <<dir, op, made, spoiled, kills, requests>>
           /\ Access(th, h.file, disk, <<>>, th)
    <2>1. Goes(th, h.file, disk)
        BY <1>1, <1>2, <1>4, ReaderGoes
    <2>2. <<>> \in PageOf(h.file)
        BY <1>2, PageFacts
    <2> PICK label \in {"scan", "find"} : Goto(th, label)
        BY <1>4
    <2>3. Moves(th, label, r) /\ label \in Labels
        BY <1>1, <1>4 DEF Moves, Goto, Labels, Reading, Finding, TInv, ThreadsTyped
    <2>4. ThreadsTyped' /\ OthersStay(th) /\ pc'[th] = label /\ op'[th] = r
        BY <2>3, MovesFacts DEF TInv
    <2>5. Handles(th)' = Handles(th) /\ \A k \in Handles(th) : k = h
        BY <1>2, <2>4 DEF Handles
    <2>6. Touches(th, {h.file}) /\ disk'[h.file] # None
        <3>1. HandlesStay(th, h.file, th)
            BY <2>5 DEF HandlesStay
        <3> QED
            BY <1>2, <1>4, <2>1, <2>2, <2>4, <3>1, AccessTypes
    <2>7. OpFits(th)'
        <3>1. \A k \in Handles(th)' : /\ k.size # 0 => disk'[k.file] # None
                                      /\ k.size # 0
            BY <1>4, <2>5, <2>6
        <3>2. r.at = 2 /\ r.do = "select" /\ r.data # None /\ r.name \in Names
              /\ r.data.file[1] = Data(r.name)
            BY <1>1 DEF TInv, OpFits
        <3> QED
            BY <1>2, <2>4, <3>1, <3>2
            DEF OpFits, Creating, Dropping, Finding, Reading
    <2> QED
        BY <1>4, <2>4, <2>6, <2>7, RestStays, StepKeepsTInv
<1> QED
    BY <1>3, <1>4 DEF ScanRows

Appended(r, a, h) == [r EXCEPT !.at = a, !.scheme = h]

LEMMA AppendedFacts ==
    ASSUME NEW r \in Ops, NEW a \in Nat, NEW h \in Handle \cup {None}
    PROVE  /\ Appended(r, a, h) \in Ops
           /\ Appended(r, a, h).scheme = h
           /\ Appended(r, a, h).do = r.do
           /\ Appended(r, a, h).name = r.name
           /\ Appended(r, a, h).cols = r.cols
           /\ Appended(r, a, h).read = r.read
           /\ Appended(r, a, h).at = a
           /\ Appended(r, a, h).data = r.data
           /\ Appended(r, a, h).alone = r.alone
BY DEF Ops, Appended

\* A column more in a scheme.
LEMMA AppendColumnFacts ==
    ASSUME TInv, NEW th \in Threads, AppendColumn(th),
           NEW r, r = op[th], NEW h, h = r.scheme
    PROVE  /\ r \in Ops /\ r.name \in Names /\ r.data = None
           /\ h \in Handle /\ h \in Handles(th)
           /\ h.file \in Files /\ h.file[1] = Scheme(r.name)
           /\ r.at \in Nat /\ r.at + 1 \in 1 .. Len(r.cols)
           /\ <<r.cols[r.at + 1]>> \in PageOf(h.file)
           /\ Goes(th, h.file, PutDisk(h))
           /\ Access(th, h.file, PutDisk(h), <<r.cols[r.at + 1]>>,
                     IF r.at + 1 = Len(r.cols) THEN None ELSE th)
<1>1. pc[th] = "append"
    BY DEF AppendColumn
<1>2. r \in Ops
    BY DEF TInv, ThreadsTyped
<1>3. /\ r.name \in Names /\ h # None /\ h.file[1] = Scheme(r.name) /\ r.data = None
      /\ r.at < Len(r.cols)
    BY <1>1 DEF TInv, OpFits, Creating
<1>4. h \in Handles(th)
    BY <1>3 DEF Handles
<1>5. h \in Handle /\ h.file \in Files
    BY <1>4, HandleFacts DEF TInv
<1>6. r.at \in Nat /\ r.cols \in Seq(Columns)
    BY <1>2 DEF Ops
<1>7. r.at + 1 \in 1 .. Len(r.cols)
    BY <1>3, <1>6
<1>8. r.cols[r.at + 1] \in Columns
    BY <1>6, <1>7
<1>9. <<r.cols[r.at + 1]>> \in Seq(Columns)
    BY <1>8
<1>10. <<r.cols[r.at + 1]>> \in PageOf(h.file)
    BY <1>3, <1>5, <1>9, PageFacts DEF SchemePage
<1>11. Put(th, h, <<r.cols[r.at + 1]>>, IF r.at + 1 = Len(r.cols) THEN None ELSE th)
    BY DEF AppendColumn
<1> QED
    BY <1>1, <1>2, <1>3, <1>4, <1>5, <1>6, <1>7, <1>10, <1>11, PutGoes

LEMMA AppendColumnTypes ==
    ASSUME TInv, NEW th \in Threads, AppendColumn(th)
    PROVE  Touches(th, {op[th].scheme.file}) /\ TInv'
<1> PICK r : r = op[th]
    OBVIOUS
<1> PICK h : h = r.scheme
    OBVIOUS
<1> PICK a : a = r.at + 1
    OBVIOUS
<1> PICK last \in BOOLEAN : last <=> a = Len(r.cols)
    OBVIOUS
<1> PICK by \in {th, None} : by = IF last THEN None ELSE th
    OBVIOUS
<1>1. /\ pc[th] = "append"
      /\ Goto(th, IF last THEN "table" ELSE "append")
      /\ op' = [op EXCEPT ![th].at = a,
                          ![th].scheme = IF last THEN None ELSE [h EXCEPT !.size = 1]]
      /\ UNCHANGED <<dir, made, spoiled, kills, requests>>
    BY DEF AppendColumn
<1>2. /\ r \in Ops /\ r.name \in Names /\ r.data = None
      /\ h \in Handle /\ h \in Handles(th)
      /\ h.file \in Files /\ h.file[1] = Scheme(r.name)
      /\ r.at \in Nat /\ a \in 1 .. Len(r.cols) /\ a \in Nat
      /\ <<r.cols[a]>> \in PageOf(h.file)
      /\ Goes(th, h.file, PutDisk(h))
      /\ Access(th, h.file, PutDisk(h), <<r.cols[a]>>, by)
    BY AppendColumnFacts
<1> PICK s : s = IF last THEN None ELSE [h EXCEPT !.size = 1]
    OBVIOUS
<1>3. /\ s \in Handle \cup {None} /\ (last <=> s = None)
      /\ ~last => s.file = h.file /\ s.size = 1
    BY <1>2, NoneFacts DEF Handle
<1> DEFINE o == Appended(r, a, s)
<1>4. /\ o \in Ops /\ o.scheme = s /\ o.do = r.do /\ o.name = r.name /\ o.cols = r.cols
      /\ o.at = a /\ o.data = r.data
    BY <1>2, <1>3, AppendedFacts
<1>5. op' = [op EXCEPT ![th] = o]
    BY <1>1 DEF Appended
<1> HIDE DEF o
<1> PICK label \in {"table", "append"} : label = IF last THEN "table" ELSE "append"
    OBVIOUS
<1>6. Moves(th, label, o) /\ label \in Labels
    BY <1>1, <1>5 DEF Moves, Goto, Labels, Creating
<1>7. ThreadsTyped' /\ OthersStay(th) /\ pc'[th] = label /\ op'[th] = o
    BY <1>4, <1>6, MovesFacts DEF TInv
<1>8. Handles(th)' = {s} \ {None} /\ Handles(th) = {h}
    BY <1>2, <1>4, <1>7, NoneFacts DEF Handles
<1>9. HandlesStay(th, h.file, by)
    BY <1>3, <1>8, NoneFacts DEF HandlesStay
<1>10. Touches(th, {h.file}) /\ disk'[h.file] # None
    BY <1>1, <1>2, <1>7, <1>9, AccessTypes
<1>11. OpFits(th)'
    <2>1. \A k \in Handles(th)' : k.file = h.file /\ k.size = 1 /\ disk'[k.file] # None
        BY <1>3, <1>8, <1>10
    <2>2. r.cols \in Seq(Columns) /\ (~last => a < Len(r.cols))
        BY <1>2 DEF Ops
    <2>3. r.do = "create" /\ r.cols # <<>>
        BY <1>1 DEF TInv, OpFits, Creating
    <2>4. CASE last
        <3>1. s = None /\ label = "table" /\ Handles(th)' = {}
            BY <1>3, <1>8, <2>4
        <3> QED
            BY <1>2, <1>4, <1>7, <2>3, <3>1
            DEF OpFits, Creating, Dropping, Finding, Reading
    <2>5. CASE ~last
        <3>1. s # None /\ s.size = 1 /\ s.file[1] = Scheme(r.name) /\ label = "append"
            BY <1>2, <1>3, <2>5
        <3>2. \A k \in Handles(th)' : /\ k.size # 0 => disk'[k.file] # None
                                      /\ k.size # 0
            BY <2>1
        <3>3. /\ op'[th].do = "create" /\ op'[th].cols # <<>> /\ op'[th].data = None
              /\ op'[th].at < Len(op'[th].cols) /\ op'[th].scheme # None
              /\ op'[th].scheme.size # 0 /\ op'[th].name \in Names
              /\ op'[th].scheme.file[1] = Scheme(op'[th].name)
            <4>1. op'[th] = o /\ a < Len(r.cols) /\ r.name \in Names /\ r.data = None
                BY <1>2, <1>7, <2>2, <2>5
            <4>2. o.at < Len(o.cols)
                BY <1>4, <4>1
            <4>3. o.scheme # None /\ o.scheme.size # 0 /\ o.scheme.file[1] = Scheme(o.name)
                BY <1>4, <3>1
            <4> QED
                BY <1>4, <2>3, <4>1, <4>2, <4>3
        <3> QED
            BY <1>7, <3>1, <3>2, <3>3
            DEF OpFits, Creating, Dropping, Finding, Reading
    <2> QED
        BY <2>4, <2>5
<1> QED
    BY <1>1, <1>7, <1>10, <1>11, RestStays, StepKeepsTInv

-----------------------------------------------------------------------------
RowOf(th, n) == [row |-> IF made[n] = None THEN 0 ELSE made[n].rows + 1,
                 read |-> op[th].read, written |-> op[th].cols]

LEMMA InsertFacts ==
    ASSUME TInv, NEW th \in Threads, Insert(th),
           NEW n, n = op[th].name, NEW h, h = op[th].data
    PROVE  /\ n \in Names /\ pc[th] = "insert" /\ op[th].scheme = None
           /\ h \in Handle /\ Handles(th) = {h}
           /\ h.file \in Files /\ h.file[1] = Data(n)
           /\ <<RowOf(th, n)>> \in PageOf(h.file) /\ <<>> \in PageOf(h.file)
           /\ Goes(th, h.file, PutDisk(h))
           /\ \/ /\ made' = [made EXCEPT ![n] = WithRow(@)]
                 /\ End(th)
                 /\ UNCHANGED <<dir, spoiled, kills, requests>>
                 /\ Access(th, h.file, PutDisk(h), <<RowOf(th, n)>>, None)
              \/ /\ End(th)
                 /\ UNCHANGED <<dir, made, spoiled, kills, requests>>
                 /\ Access(th, h.file, PutDisk(h), <<>>, None)
              \/ Dies
<1>1. pc[th] = "insert"
    BY DEF Insert
<1>2. op[th] \in Ops
    BY DEF TInv, ThreadsTyped
<1>3. n \in Names /\ h # None /\ h.file[1] = Data(n) /\ op[th].scheme = None
    BY <1>1 DEF TInv, OpFits
<1>4. Handles(th) = {h}
    BY <1>3 DEF Handles
<1>5. h \in Handle /\ h.file \in Files
    BY <1>4, HandleFacts DEF TInv
<1>6. RowOf(th, n) \in [row : Nat, read : Seq(Columns), written : Seq(Columns)]
    <2>1. made[n] # None => made[n].rows \in Nat
        BY <1>3 DEF TInv, RestTyped, Tables
    <2>2. op[th].read \in Seq(Columns) /\ op[th].cols \in Seq(Columns)
        BY <1>2 DEF Ops
    <2> QED
        BY <2>1, <2>2 DEF RowOf
<1>7. <<RowOf(th, n)>> \in DataPage
    BY <1>6 DEF DataPage
<1>8. <<RowOf(th, n)>> \in PageOf(h.file) /\ <<>> \in PageOf(h.file)
    BY <1>3, <1>5, <1>7, PageFacts
<1>9. \/ /\ made' = [made EXCEPT ![n] = WithRow(@)]
         /\ End(th)
         /\ UNCHANGED <<dir, spoiled, kills, requests>>
         /\ Put(th, h, <<RowOf(th, n)>>, None)
      \/ /\ End(th)
         /\ UNCHANGED <<dir, made, spoiled, kills, requests>>
         /\ Put(th, h, <<>>, None)
      \/ Dies
    BY DEF Insert, RowOf
<1>10. Goes(th, h.file, PutDisk(h)) /\ \A added, by : Put(th, h, added, by) <=>
                                Access(th, h.file, PutDisk(h), added, by)
    BY <1>1, <1>4, PutGoes
<1> QED
    BY <1>1, <1>3, <1>4, <1>5, <1>8, <1>9, <1>10

LEMMA InsertTypes ==
    ASSUME TInv, NEW th \in Threads, Insert(th)
    PROVE  Dies \/ (Touches(th, {op[th].data.file}) /\ TInv')
<1> SUFFICES ASSUME ~Dies PROVE Touches(th, {op[th].data.file}) /\ TInv'
    OBVIOUS
<1> PICK n : n = op[th].name
    OBVIOUS
<1> PICK h : h = op[th].data
    OBVIOUS
<1>1. /\ n \in Names /\ pc[th] = "insert" /\ Handles(th) = {h}
      /\ h.file \in Files
      /\ <<RowOf(th, n)>> \in PageOf(h.file) /\ <<>> \in PageOf(h.file)
      /\ Goes(th, h.file, PutDisk(h))
    BY InsertFacts
<1>2. \/ /\ made' = [made EXCEPT ![n] = WithRow(@)]
         /\ End(th)
         /\ UNCHANGED <<dir, spoiled, kills, requests>>
         /\ Access(th, h.file, PutDisk(h), <<RowOf(th, n)>>, None)
      \/ /\ End(th)
         /\ UNCHANGED <<dir, made, spoiled, kills, requests>>
         /\ Access(th, h.file, PutDisk(h), <<>>, None)
    BY InsertFacts
<1>3. OthersStay(th) /\ ThreadsTyped' /\ OpFits(th)'
    BY <1>2, EndFacts
<1>4. HandlesStay(th, h.file, None)
    BY <1>1, NoneFacts DEF HandlesStay
<1>5. Touches(th, {h.file})
    BY <1>1, <1>2, <1>3, <1>4, AccessTypes
<1>6. RestTyped'
    <2>1. WithRow(made[n]) \in Tables \cup {None}
        <3>1. CASE made[n] = None
            BY <3>1 DEF WithRow
        <3>2. CASE made[n] # None
            <4> PICK t \in Tables : t = made[n]
                BY <1>1, <3>2 DEF TInv, RestTyped
            <4>1. WithRow(made[n]) = [t EXCEPT !.rows = @ + 1]
                BY <3>2 DEF WithRow
            <4>2. [t EXCEPT !.rows = @ + 1] \in Tables
                BY DEF Tables
            <4> QED
                BY <4>1, <4>2
        <3> QED
            BY <3>1, <3>2
    <2>2. made' \in [Names -> Tables \cup {None}]
        BY <1>2, <2>1 DEF TInv, RestTyped
    <2> QED
        BY <1>2, <2>2 DEF TInv, RestTyped
<1> QED
    BY <1>3, <1>5, <1>6, StepKeepsTInv

-----------------------------------------------------------------------------
(* Requests                                                                *)

Met(r) == [r EXCEPT !.alone = FALSE]
Asked(do, n, cols, met) ==
    [NoOp EXCEPT !.do = do, !.name = n, !.cols = cols, !.alone = met = {}]

LEMMA MetFacts ==
    ASSUME NEW r \in Ops
    PROVE  /\ Met(r) \in Ops
           /\ Met(r).do = r.do /\ Met(r).name = r.name /\ Met(r).cols = r.cols
           /\ Met(r).read = r.read /\ Met(r).at = r.at
           /\ Met(r).scheme = r.scheme /\ Met(r).data = r.data /\ Met(r).alone = FALSE
BY DEF Ops, Met

LEMMA AskedFacts ==
    ASSUME NEW do \in {"create", "drop", "insert", "select"}, NEW n \in Names,
           NEW cols \in Seq(Columns), NEW met
    PROVE  /\ Asked(do, n, cols, met) \in Ops
           /\ Asked(do, n, cols, met).do = do /\ Asked(do, n, cols, met).name = n
           /\ Asked(do, n, cols, met).cols = cols /\ Asked(do, n, cols, met).read = <<>>
           /\ Asked(do, n, cols, met).at = 0
           /\ Asked(do, n, cols, met).scheme = None /\ Asked(do, n, cols, met).data = None
           /\ Asked(do, n, cols, met).alone <=> met = {}
<1>1. <<>> \in Seq(Columns)
    OBVIOUS
<1> PICK new : new = Asked(do, n, cols, met)
    OBVIOUS
<1> PICK b \in BOOLEAN : b = (met = {})
    OBVIOUS
<1>2. new = [NoOp EXCEPT !.do = do, !.name = n, !.cols = cols, !.alone = b]
    BY DEF Asked
<1>3. /\ new \in Ops
      /\ new.do = do /\ new.name = n
      /\ new.cols = cols /\ new.read = <<>>
      /\ new.at = 0
      /\ new.scheme = None /\ new.data = None
      /\ new.alone = b
    <2>1. new \in Ops
        <3> PICK r \in Ops : r = NoOp
            BY NoOpFacts
        <3>1. new = [r EXCEPT !.do = do, !.name = n, !.cols = cols, !.alone = b]
            BY <1>2
        <3>2. do \in {"nothing", "create", "drop", "insert", "select"} /\ n \in Names \cup {None}
            OBVIOUS
        <3> QED
            BY <3>1, <3>2 DEF Ops
    <2>2. new.do = do /\ new.name = n /\ new.cols = cols
        BY <1>2 DEF NoOp
    <2>3. new.read = <<>> /\ new.at = 0
        BY <1>2 DEF NoOp
    <2>4. new.scheme = None /\ new.data = None
        BY <1>2 DEF NoOp
    <2>5. new.alone = b
        BY <1>2 DEF NoOp
    <2> QED
        BY <2>1, <2>2, <2>3, <2>4, <2>5
<1> QED
    BY <1>3

\* A request: who meets it, and what comes with it.
Joins(th, do, n, cols, first, met) ==
    /\ met = {x \in On(n) : ~MayMeet(n, op[x].do, do)}
    /\ pc[th] = "idle"
    /\ pc' = [pc EXCEPT ![th] = first]
    /\ op'[th] = Asked(do, n, cols, met)
    /\ \A x \in Threads : x # th => op'[x] = IF x \in met THEN Met(op[x]) ELSE op[x]
    /\ \A m \in Names : m # n => spoiled'[m] = spoiled[m]
    /\ spoiled'[n] = spoiled[n]
          \cup (IF met = {} THEN {}
                ELSE IF \A x \in met \cup {th} :
                            (IF x = th THEN do ELSE op[x].do) \in {"select", "insert"}
                THEN {"raced"} ELSE {"torn"})
          \cup (IF do = "create" /\ {dir[Data(n)], dir[Scheme(n)]} # {None}
                THEN {"again"} ELSE {})
    /\ UNCHANGED <<dir, disk, frames, hand, made, kills>>

LEMMA StartTypes ==
    ASSUME TInv, NEW th \in Threads, NEW n \in Names, NEW cols \in Seq(Columns),
           NEW do, NEW first,
           \/ do = "create" /\ first = "check" /\ cols # <<>>
           \/ do = "drop" /\ first = "forget"
           \/ do = "insert" /\ first = "find"
           \/ do = "select" /\ first = "find",
           Start(th, do, n, cols, first)
    PROVE  TInv' /\ \E met \in SUBSET On(n) : Joins(th, do, n, cols, first, met)
<1> DEFINE met == {x \in On(n) : ~MayMeet(n, op[x].do, do)}
           rows == \A x \in met \cup {th} :
                       (IF x = th THEN do ELSE op[x].do) \in {"select", "insert"}
           there == {dir[Data(n)], dir[Scheme(n)]} # {None}
<1>1. /\ pc[th] = "idle" /\ requests < MaxRequests /\ requests' = requests + 1
      /\ pc' = [pc EXCEPT ![th] = first]
      /\ UNCHANGED <<dir, disk, frames, hand, made, kills>>
    BY DEF Start
<1>2. op' = [x \in Threads |->
                IF x = th THEN Asked(do, n, cols, met)
                ELSE IF x \in met THEN Met(op[x])
                ELSE op[x]]
    BY DEF Start, Asked, Met
<1>3. spoiled' = [spoiled EXCEPT ![n] = @
          \cup (IF met = {} THEN {} ELSE IF rows THEN {"raced"} ELSE {"torn"})
          \cup (IF do = "create" /\ there THEN {"again"} ELSE {})]
    BY DEF Start
<1>4. spoiled \in [Names -> SUBSET Reasons]
    BY DEF TInv, RestTyped
<1>5. Joins(th, do, n, cols, first, met)
    <2>1. op'[th] = Asked(do, n, cols, met)
        BY <1>2
    <2>2. \A x \in Threads : x # th => op'[x] = IF x \in met THEN Met(op[x]) ELSE op[x]
        BY <1>2
    <2>3. \A m \in Names : m # n => spoiled'[m] = spoiled[m]
        BY <1>3, <1>4
    <2>4. spoiled'[n] = spoiled[n]
          \cup (IF met = {} THEN {} ELSE IF rows THEN {"raced"} ELSE {"torn"})
          \cup (IF do = "create" /\ there THEN {"again"} ELSE {})
        BY <1>3, <1>4
    <2> QED
        BY <1>1, <2>1, <2>2, <2>3, <2>4 DEF Joins
<1>6. met \in SUBSET On(n)
    OBVIOUS
<1>7. RestTyped'
    <2>1. MaxRequests \in Nat
        BY BoundsAssumption
    <2>2. \A m \in Names : spoiled'[m] \subseteq Reasons
        <3>1. {"raced", "torn", "again"} \subseteq Reasons
            BY DEF Reasons
        <3>2. \A m \in Names : spoiled[m] \subseteq Reasons
            BY <1>4
        <3> HIDE DEF met, rows, there
        <3> QED
            BY <1>3, <1>4, <3>1, <3>2
    <2>3. spoiled' \in [Names -> SUBSET Reasons]
        BY <1>3, <1>4, <2>2
    <2> QED
        BY <1>1, <2>1, <2>3 DEF TInv, RestTyped
<1> HIDE DEF met, rows, there
<1> DEFINE new == Asked(do, n, cols, met)
<1>8. /\ new \in Ops /\ new.do = do /\ new.name = n /\ new.cols = cols /\ new.at = 0
      /\ new.scheme = None /\ new.data = None
    <2>1. do \in {"create", "drop", "insert", "select"}
        OBVIOUS
    <2> QED
        BY <2>1, AskedFacts
<1> HIDE DEF new
<1>9. op'[th] = new
    BY <1>2 DEF new
<1>10. \A x \in Threads : op[x] \in Ops
    BY DEF TInv, ThreadsTyped
<1>11. \A x \in Threads : x # th => op'[x] = op[x] \/ op'[x] = Met(op[x])
    BY <1>2
<1>12. ThreadsTyped'
    <2>1. \A x \in Threads : op'[x] \in Ops
        BY <1>8, <1>9, <1>10, <1>11, MetFacts
    <2>2. op' \in [Threads -> Ops]
        BY <1>2, <2>1
    <2>3. first \in Labels
        BY DEF Labels, Creating, Dropping, Reading, Finding
    <2> QED
        BY <1>1, <2>2, <2>3 DEF TInv, ThreadsTyped
<1>13. pc'[th] = first /\ \A x \in Threads : x # th => pc'[x] = pc[x]
    BY <1>1 DEF TInv, ThreadsTyped
<1>14. op[th] = NoOp
    BY <1>1 DEF TInv, OpFits
<1>15. \A x \in Threads : Handles(x)' = Handles(x)
    <2>1. Handles(th)' = {} /\ Handles(th) = {}
        BY <1>8, <1>9, <1>14, NoOpFacts DEF Handles
    <2>2. \A x \in Threads : x # th => Handles(x)' = Handles(x)
        BY <1>10, <1>11, MetFacts DEF Handles
    <2> QED
        BY <2>1, <2>2
<1>16. StoreFits'
    <2>1. \A f : InUse(f) => InUse(f)'
        BY <1>1, <1>15 DEF InUse
    <2>2. NoLostPages'
        BY <1>1, <2>1 DEF TInv, StoreFits, NoLostPages
    <2>3. Backed' /\ Waited'
        BY <1>1 DEF TInv, StoreFits, Backed, Waited, Stuck
    <2>4. Keyed'
        <3> SUFFICES ASSUME NEW j \in Frames, NEW y, NEW e, frames'[j] # None,
                            frames'[j].by = y, y # None, frames'[j].file = e
                     PROVE  /\ \E h \in Handles(y)' : h.file = e
                            /\ \A k \in Frames : Under(k, y, e)' => k = j
                            /\ Stuck(j)' => pc'[y] = "hung"
            BY KeyedAfter
        <3>1. /\ y \in Threads
              /\ \E h \in Handles(y) : h.file = e
              /\ \A k \in Frames : Under(k, y, e) => k = j
              /\ Stuck(j) => pc[y] = "hung"
            BY <1>1, FrameFacts DEF TInv, StoreFits, Keyed
        <3>2. Stuck(j)' => Stuck(j)
            BY <1>1 DEF Stuck
        <3> QED
            BY <1>1, <1>13, <1>15, <3>1, <3>2 DEF Under
    <2> QED
        BY <1>1, <2>2, <2>3, <2>4 DEF TInv, StoreFits
<1>17. ASSUME NEW x \in Threads, x # th PROVE OpFits(x)'
    <2>1. /\ op'[x].do = op[x].do /\ op'[x].name = op[x].name /\ op'[x].cols = op[x].cols
          /\ op'[x].at = op[x].at /\ op'[x].scheme = op[x].scheme /\ op'[x].data = op[x].data
        <3>1. CASE op'[x] = op[x]
            BY <3>1
        <3>2. CASE op'[x] = Met(op[x])
            <4> PICK r \in Ops : r = op[x]
                BY <1>10
            <4> QED
                BY <3>2, MetFacts
        <3> QED
            BY <1>11, <1>17, <3>1, <3>2
    <2>2. pc'[x] = pc[x]
        BY <1>13, <1>17
    <2>3. pc[x] = "idle" => op'[x] = op[x]
        BY <1>2, <1>17 DEF met, On, Busy
    <2>4. \A h \in Handles(x)' : /\ h.size # 0 => disk'[h.file] # None
                                 /\ h.size = 0 /\ pc'[x] # "hung" =>
                                      \A i \in Frames : ~Under(i, x, h.file)'
        BY <1>1, <1>15, <2>2 DEF TInv, OpFits, Under
    <2> QED
        BY <2>1, <2>2, <2>3, <2>4 DEF TInv, OpFits
<1>18. OpFits(th)'
    <2>1. Handles(th)' = {}
        BY <1>8, <1>9 DEF Handles
    <2> QED
        BY <1>8, <1>9, <1>13, <2>1 DEF OpFits, Creating, Dropping, Finding, Reading
<1> QED
    BY <1>5, <1>6, <1>7, <1>12, <1>16, <1>17, <1>18 DEF TInv

FramesOf(f) == {i \in Frames : frames[i] # None /\ frames[i].file = f}
LastOf(f) == CHOOSE i \in FramesOf(f) : \A j \in FramesOf(f) : j <= i

LEMMA LastFacts ==
    ASSUME NEW f, FramesOf(f) # {}
    PROVE  LastOf(f) \in FramesOf(f)
<1>1. FrameCount - 1 \in Nat
    BY PoolAssumption
<1>2. FramesOf(f) \in SUBSET (0 .. FrameCount - 1)
    BY DEF FramesOf, Frames
<1>3. \E i \in FramesOf(f) : \A j \in FramesOf(f) : j <= i
    BY <1>1, <1>2, Greatest
<1> QED
    BY <1>3 DEF LastOf

\* The pool writes a copy of every page it has.
LEMMA StopTypes ==
    ASSUME TInv, Stop
    PROVE  /\ TInv'
           /\ UNCHANGED <<dir, pc, op, made, spoiled>>
           /\ \A i \in Frames : frames'[i] = None
           /\ \A g \in Files : OldCopies(g) \/ ~InUse(g)'
<1> DEFINE d == [f \in Files |-> IF FramesOf(f) = {} THEN disk[f] ELSE frames[LastOf(f)].rows]
<1>1. /\ \A th \in Threads : pc[th] = "idle"
      /\ frames' = [i \in Frames |-> None]
      /\ hand' = 0
      /\ UNCHANGED <<dir, pc, op, made, spoiled, kills, requests>>
      /\ Disk(d)
    BY DEF Stop, FramesOf, LastOf
<1>2. ASSUME NEW i \in Frames PROVE ~Stuck(i)
    <2> SUFFICES ASSUME Stuck(i) PROVE FALSE
        OBVIOUS
    <2>1. frames[i] # None /\ frames[i].by # None
        BY DEF TInv, StoreFits, Waited, Stuck
    <2>2. frames[i].by \in Threads /\ pc[frames[i].by] = "hung"
        BY <2>1, FrameFacts DEF TInv, StoreFits, Keyed
    <2> QED
        BY <1>1, <2>2
<1>3. ASSUME NEW f \in Files, FramesOf(f) # {}
      PROVE  d[f] \in PageOf(f) /\ d[f] \in Copies(f) /\ disk[f] # None
    <2> PICK i : i = LastOf(f)
        OBVIOUS
    <2>1. i \in Frames /\ frames[i] # None /\ frames[i].file = f
        BY <1>3, LastFacts DEF FramesOf
    <2>2. d[f] = frames[i].rows
        BY <1>3
    <2>3. frames[i].rows \in PageOf(f) /\ frames[i].rows # None
        BY <1>2, <2>1, FrameFacts DEF TInv, StoreFits
    <2>4. frames[i].rows \in Copies(f)
        BY <2>1, <2>3, CopyInFrame
    <2>5. disk[f] # None
        BY <1>2, <2>1 DEF TInv, StoreFits, Backed
    <2> QED
        BY <2>2, <2>3, <2>4, <2>5
<1>4. \A f \in Files : FramesOf(f) = {} => d[f] = disk[f]
    OBVIOUS
<1>5. disk \in Pages
    BY DEF TInv, StoreFits
<1>6. d \in Pages
    <2>1. \A f \in Files : d[f] # None => d[f] \in PageOf(f)
        BY <1>3, <1>4, <1>5 DEF Pages
    <2>2. d \in [Files -> SchemePage \cup DataPage \cup {None}]
        <3>1. \A f \in Files : d[f] \in SchemePage \cup DataPage \cup {None}
            BY <2>1, PageFacts
        <3> QED
            BY <3>1
    <2> QED
        BY <2>1, <2>2 DEF Pages
<1> HIDE DEF d
<1>7. disk' \in Pages /\ NoLostPages' /\ \A f \in Files : InUse(f)' => disk'[f] = d[f]
    BY <1>1, <1>6, DiskFacts
<1>8. \A i \in Frames : frames'[i] = None
    BY <1>1
<1>9. StoreFits'
    <2>1. frames' \in Pools
        BY <1>1 DEF Pools
    <2>2. Backed' /\ Keyed' /\ Waited'
        BY <1>8 DEF Backed, Keyed, Waited, Stuck
    <2>3. hand' \in Frames
        BY <1>1, TurnedFacts DEF TInv, StoreFits
    <2> QED
        BY <1>1, <1>7, <2>1, <2>2, <2>3 DEF TInv, StoreFits
<1>10. \A th \in Threads : OpFits(th)'
    <2> SUFFICES ASSUME NEW th \in Threads PROVE OpFits(th)'
        OBVIOUS
    <2>1. pc'[th] = "idle" /\ op'[th] = NoOp
        BY <1>1 DEF TInv, OpFits
    <2> QED
        BY <2>1, IdleFits
<1>11. ASSUME NEW g \in Files, InUse(g)'
       PROVE  OldCopies(g)
    <2>1. disk'[g] = d[g]
        BY <1>7, <1>11
    <2>2. d[g] = disk[g] \/ (d[g] \in Copies(g) /\ disk[g] # None /\ d[g] # None)
        BY <1>3, <1>4, NoneFacts
    <2>3. \A p \in Copies(g)' : p = disk'[g]
        BY <1>8, CopyFactsAfter
    <2>4. \A p \in Copies(g)' : p # None
        BY CopyFactsAfter
    <2>5. \A p \in Copies(g)' : p \in Copies(g)
        BY <2>1, <2>2, <2>3, <2>4, CopyOnDisk
    <2> QED
        BY <2>1, <2>2, <2>5 DEF OldCopies
<1> QED
    BY <1>1, <1>8, <1>9, <1>10, <1>11 DEF TInv, ThreadsTyped, RestTyped

-----------------------------------------------------------------------------
LEMMA InitTypes == Init => TInv
<1> SUFFICES ASSUME Init PROVE TInv
    OBVIOUS
<1>1. \A th \in Threads : pc[th] = "idle" /\ op[th] = NoOp /\ Handles(th) = {}
    BY NoOpFacts DEF Init, Handles
<1>2. \A th \in Threads : OpFits(th)
    BY <1>1, NoOpFacts DEF OpFits, Creating, Dropping, Finding, Reading
<1>3. ThreadsTyped
    BY NoOpFacts DEF Init, ThreadsTyped, Labels
<1>4. RestTyped
    BY BoundsAssumption DEF Init, RestTyped
<1>5. StoreFits
    <2>1. dir \in Dirs /\ disk \in Pages /\ frames \in Pools
        BY DEF Init, Dirs, Pages, Pools
    <2>2. \A i \in Frames : frames[i] = None
        BY DEF Init
    <2>3. Backed /\ Keyed /\ Waited
        BY <2>2 DEF Backed, Keyed, Waited, Stuck
    <2>4. NoLostPages
        BY DEF Init, NoLostPages
    <2>5. hand \in Frames
        BY PoolAssumption DEF Init, Frames
    <2> QED
        BY <2>1, <2>3, <2>4, <2>5 DEF StoreFits
<1> QED
    BY <1>2, <1>3, <1>4, <1>5 DEF TInv

\* A request has columns only when it creates a table.
LEMMA RequestFacts ==
    ASSUME NEW th \in Threads,
           CreateTable(th) \/ DropTable(th) \/ InsertRow(th) \/ SelectAll(th)
    PROVE  \E n \in Names, cols \in Seq(Columns),
       do \in {"create", "drop", "insert", "select"}, first \in Labels :
              /\ \/ do = "create" /\ first = "check" /\ cols # <<>>
                 \/ do = "drop" /\ first = "forget"
                 \/ do = "insert" /\ first = "find"
                 \/ do = "select" /\ first = "find"
              /\ do # "create" => cols = <<>>
              /\ Start(th, do, n, cols, first)
<1>2. <<>> \in Seq(Columns) /\ {"check", "forget", "find"} \subseteq Labels
    BY DEF Labels, Creating, Dropping, Reading, Finding
<1>1. CASE CreateTable(th)
    <2>1. PICK n \in Names, s \in Schemas : Start(th, "create", n, s, "check")
        BY <1>1 DEF CreateTable
    <2>2. s \in Seq(Columns) /\ s # <<>>
        BY SchemasAssumption
    <2> QED
        BY <1>2, <2>1, <2>2
<1>3. CASE DropTable(th)
    BY <1>2, <1>3 DEF DropTable
<1>4. CASE InsertRow(th)
    BY <1>2, <1>4 DEF InsertRow
<1>5. CASE SelectAll(th)
    BY <1>2, <1>5 DEF SelectAll
<1> QED
    BY <1>1, <1>3, <1>4, <1>5

LEMMA TypesStay == TInv /\ UNCHANGED vars => TInv'
BY DEF vars, TInv, StoreFits, Backed, Keyed, Waited, NoLostPages, InUse, Under, Stuck,
       Handles, ThreadsTyped, RestTyped, OpFits

LEMMA NextKeepsTypes == TInv /\ [Next]_vars => TInv'
<1> SUFFICES ASSUME TInv, Next PROVE TInv'
    BY TypesStay
<1>1. CASE Dies
    BY <1>1, DiesTypes
<1>2. CASE Stop
    BY <1>2, StopTypes
<1>3. ASSUME NEW th \in Threads,
             CreateTable(th) \/ DropTable(th) \/ InsertRow(th) \/ SelectAll(th)
      PROVE  TInv'
    <2>1. PICK n \in Names, cols \in Seq(Columns),
       do \in {"create", "drop", "insert", "select"}, first \in Labels :
              /\ \/ do = "create" /\ first = "check" /\ cols # <<>>
                 \/ do = "drop" /\ first = "forget"
                 \/ do = "insert" /\ first = "find"
                 \/ do = "select" /\ first = "find"
              /\ Start(th, do, n, cols, first)
        BY <1>3, RequestFacts
    <2> QED
        BY <2>1, StartTypes
<1>4. ASSUME NEW th \in Threads, Work(th)
      PROVE  TInv'
    <2>1. CASE OpenScheme(th)
        BY <2>1, OpensSchemeTypes DEF OpenScheme
    <2>2. CASE LookScheme(th)
        BY <2>2, OpensSchemeTypes DEF LookScheme
    <2> QED
        BY <1>1, <1>4, <2>1, <2>2, CheckSchemeTypes, MakeSchemeTypes, AppendColumnTypes,
           MakeTableTypes, ForgetTypes, RemoveDataTypes, FindSchemeTypes,
           ReadColumnTypes, CloseSchemeTypes, OpenDataTypes, InsertTypes,
           ScanRowsTypes, EndScanTypes DEF Work
<1> QED
    BY <1>1, <1>2, <1>3, <1>4 DEF Next, Kill

LEMMA TypesHold == Spec => []TInv
<1> QED
    BY InitTypes, NextKeepsTypes, PTL DEF Spec

LEMMA TypesAreRight == TInv => TypeOK
<1> SUFFICES ASSUME TInv PROVE TypeOK
    OBVIOUS
<1>1. \A th \in Threads : pc[th] = "idle" <=> op[th] = NoOp
    BY NoOpFacts DEF TInv, OpFits
<1>2. \A i \in Frames : frames[i] # None => frames[i].file \in Files
    BY FrameFacts DEF TInv, StoreFits
<1> QED
    BY <1>1, <1>2 DEF TInv, StoreFits, RestTyped, Dirs, Backed, Keyed, TypeOK

-----------------------------------------------------------------------------
(* The inductive invariant: tables                                         *)

Begins(page, cols) ==
    Len(page) <= Len(cols) /\ \A i \in 1 .. Len(page) : page[i] = cols[i]

\* Rows that table t was given, in their order.
AddedTo(page, t) ==
    /\ \A i, j \in DOMAIN page : i < j => page[i].row < page[j].row
    /\ \A i \in DOMAIN page :
        /\ page[i].row \in 1 .. t.rows
        /\ Begins(page[i].read, t.cols) /\ Begins(page[i].written, t.cols)

Clean(n) == spoiled[n] \cap {"again", "torn"} = {}
Rewriting(th) == op[th].do \in {"create", "drop"}
PageThere(n) == \A f \in Files : dir[Data(n)] = f => disk[f] # None

\* A create or a drop that met nobody is alone, and one that met somebody leaves
\* its mark; who meets otherwise reads, or adds rows to a table that has some.
Alone(n) ==
    \A th \in On(n) : Rewriting(th) /\ op[th].alone => On(n) = {th}
NotAlone(n) ==
    \A th \in On(n) : Rewriting(th) /\ ~op[th].alone => "torn" \in spoiled[n]
Meeting(n) ==
    {"raced", "torn"} \cap spoiled[n] = {} =>
        \A x, y \in On(n) : x # y /\ op[x].do # "select" => PageThere(n)
SchemeMade(n) ==
    \A th \in On(n) : pc[th] \in {"open", "append", "table"} =>
        dir[Scheme(n)] # None \/ "torn" \in spoiled[n]
SchemeGone(n) ==
    \A th \in On(n) : pc[th] = "remove" /\ op[th].alone => dir[Scheme(n)] = None
SchemeFirst(n) ==
    \/ dir[Data(n)] = None
    \/ dir[Scheme(n)] # None
    \/ \E th \in On(n) : op[th].do = "drop"
    \/ "torn" \in spoiled[n]

Meets(n) ==
    /\ Alone(n) /\ NotAlone(n) /\ Meeting(n)
    /\ SchemeMade(n) /\ SchemeGone(n) /\ SchemeFirst(n)

\* The copies of a scheme and of the rows of a table.
SchemePages(n, cols) ==
    \A f \in Files : dir[Scheme(n)] = f => \A p \in Copies(f) : Begins(p, cols)
DataPages(n, t) ==
    \A f \in Files : dir[Data(n)] = f => \A p \in Copies(f) : AddedTo(p, t)

TableFits(n) ==
    IF made[n] = None
    THEN /\ dir[Data(n)] = None
         /\ spoiled[n] = {} /\ (\A th \in On(n) : pc[th] \notin {"open", "append", "table"}) =>
               dir[Scheme(n)] = None
    ELSE /\ dir[Data(n)] # None
         /\ SchemePages(n, made[n].cols) /\ DataPages(n, made[n])
         /\ (\A th \in On(n) : pc[th] # "remove") => dir[Scheme(n)] # None
         /\ \A f \in Files : dir[Scheme(n)] = f => disk[f] # None
         /\ made[n].rows > 0 => PageThere(n)

\* A scheme that nobody wrote to.
Fresh(f) == disk[f] = None /\ \A i \in Frames : frames[i] # None => frames[i].file # f

\* A scheme with the first columns of what th saves, in its frame or on the disk.
HasFirst(page, cols, k) == Begins(page, cols) /\ Len(page) = k
Saved(th, f, cols, k) ==
    /\ \A i \in Frames : frames[i] # None /\ frames[i].file = f =>
          frames[i].by = th /\ frames[i].rows # None /\ HasFirst(frames[i].rows, cols, k)
    /\ disk[f] # None /\ Begins(disk[f], cols)
    /\ \/ HasFirst(disk[f], cols, k)
       \/ \E i \in Frames : frames[i] # None /\ frames[i].file = f

CreatorFits(th, n) ==
    /\ pc[th] \in {"check", "make"} => dir[Scheme(n)] = None
    /\ pc[th] = "open" => \A f \in Files : dir[Scheme(n)] = f => Fresh(f)
    /\ pc[th] = "append" =>
        /\ dir[Scheme(n)] = op[th].scheme.file
        /\ op[th].scheme.size = 0 <=> op[th].at = 0
        /\ IF op[th].at = 0 THEN Fresh(op[th].scheme.file)
           ELSE Saved(th, op[th].scheme.file, op[th].cols, op[th].at)
    /\ pc[th] = "table" => /\ SchemePages(n, op[th].cols)
                           /\ \A f \in Files : dir[Scheme(n)] = f => disk[f] # None

ReaderFits(th, n) ==
    IF made[n] = None
    THEN op[th].data = None /\ (spoiled[n] = {} => pc[th] \notin {"look", "read", "data"})
    ELSE /\ Begins(op[th].cols, made[n].cols) /\ Begins(op[th].read, made[n].cols)
         /\ op[th].scheme # None =>
               op[th].scheme.file = dir[Scheme(n)] /\ op[th].scheme.size # 0
         /\ op[th].data # None =>
               /\ op[th].data.file = dir[Data(n)]
               /\ op[th].data.size = 0 /\ "raced" \notin spoiled[n] =>
                     disk[op[th].data.file] = None

WorkerFits(th, n) ==
    /\ pc[th] \in Creating => made[n] = None /\ CreatorFits(th, n)
    /\ pc[th] \in Reading => ReaderFits(th, n)

NameFits(n) ==
    /\ Meets(n)
    /\ Clean(n) => TableFits(n) /\ \A th \in On(n) : WorkerFits(th, n)

DInv == TInv /\ \A n \in Names : NameFits(n)

-----------------------------------------------------------------------------
(* What a step leaves to the other tables                                  *)

LEMMA FreshKept ==
    ASSUME NEW f, NEW th, OldCopies(f), Keeps(f, th), Fresh(f)
    PROVE  Fresh(f)'
BY DEF OldCopies, Keeps, Fresh

LEMMA SavedKept ==
    ASSUME NEW f, NEW th, NEW x, NEW cols, NEW k, x # th,
           OldCopies(f), Keeps(f, th), Saved(x, f, cols, k)
    PROVE  Saved(x, f, cols, k)'
<1>1. ASSUME NEW i \in Frames, frames[i] # None, frames[i].file = f
      PROVE  /\ frames[i].by = x /\ frames[i].rows # None /\ ~Stuck(i)
             /\ HasFirst(frames[i].rows, cols, k)
    BY <1>1 DEF Saved, Stuck
<1>2. ASSUME NEW i \in Frames, frames'[i] # None, frames'[i].file = f
      PROVE  frames'[i].by = x /\ frames'[i].rows # None /\ HasFirst(frames'[i].rows, cols, k)
    BY <1>1, <1>2 DEF Keeps
<1>3. disk'[f] = disk[f] \/ HasFirst(disk'[f], cols, k)
    BY <1>1 DEF Keeps
<1>4. disk'[f] # None /\ Begins(disk'[f], cols)
    BY <1>3 DEF Saved, OldCopies, HasFirst
<1>5. \/ HasFirst(disk'[f], cols, k)
      \/ \E i \in Frames : frames'[i] # None /\ frames'[i].file = f
    <2>1. CASE HasFirst(disk[f], cols, k)
        BY <1>3, <2>1
    <2>2. CASE \E i \in Frames : frames[i] # None /\ frames[i].file = f
        BY <1>1, <2>2 DEF Keeps
    <2> QED
        BY <2>1, <2>2 DEF Saved
<1>6. (disk[f])' = disk'[f]
    OBVIOUS
<1> QED
    BY <1>2, <1>4, <1>5 DEF Saved, HasFirst, Begins

\* A step of th on table n.
Works(th, n, fs) ==
    /\ TInv /\ TInv' /\ Touches(th, fs)
    /\ th \in On(n)
    /\ \A f \in fs : f[1] \in {Scheme(n), Data(n)}
    /\ \A m \in Names : m # n =>
          /\ dir'[Scheme(m)] = dir[Scheme(m)] /\ dir'[Data(m)] = dir[Data(m)]
          /\ made'[m] = made[m] /\ spoiled'[m] = spoiled[m]
    /\ \/ op'[th] = NoOp
       \/ op'[th].name = n /\ op'[th].do = op[th].do /\ op'[th].alone = op[th].alone

LEMMA OnFacts ==
    ASSUME NEW m, NEW x
    PROVE  /\ x \in On(m) <=> x \in Threads /\ pc[x] \notin {"idle", "hung"} /\ op[x].name = m
           /\ x \in On(m)' <=> x \in Threads /\ pc'[x] \notin {"idle", "hung"} /\ op'[x].name = m
BY DEF On, Busy

LEMMA OnAfter ==
    ASSUME NEW th \in Threads, NEW n \in Names, NEW fs, Works(th, n, fs)
    PROVE  /\ \A m \in Names : m # n => On(m)' = On(m) /\ th \notin On(m)
           /\ \A x : x # th => (x \in On(n)' <=> x \in On(n))
           /\ On(n)' \subseteq On(n)
           /\ \A x \in Threads : x # th => op'[x] = op[x] /\ pc'[x] = pc[x]
           /\ th \in On(n)' => op'[th].do = op[th].do /\ op'[th].alone = op[th].alone
<1>1. \A x \in Threads : x # th => op'[x] = op[x] /\ pc'[x] = pc[x]
    BY DEF Works, Touches, OthersStay
<1>2. \A m, x : x # th => (x \in On(m)' <=> x \in On(m))
    BY <1>1, OnFacts
<1>3. op'[th] = NoOp => pc'[th] = "idle"
    BY NoOpFacts DEF Works, TInv, OpFits
<1>4. op[th].name = n
    BY OnFacts DEF Works
<1>5. \A m : th \in On(m)' => m = n /\ op'[th].do = op[th].do /\ op'[th].alone = op[th].alone
    BY <1>3, OnFacts DEF Works
<1>6. \A m : m # n => th \notin On(m)
    BY <1>4, OnFacts
<1>7. \A m : m # n => \A x : x \in On(m)' <=> x \in On(m)
    BY <1>2, <1>5, <1>6
<1>8. \A m : m # n => On(m)' = On(m)
    <2> SUFFICES ASSUME NEW m, m # n PROVE On(m)' = On(m)
        OBVIOUS
    <2>1. On(m)' \subseteq On(m) /\ On(m) \subseteq On(m)'
        BY <1>7
    <2> QED
        BY <2>1
<1>9. On(n)' \subseteq On(n)
    <2>1. \A x : x \in On(n)' => x \in On(n)
        BY <1>2 DEF Works
    <2> QED
        BY <2>1
<1> QED
    BY <1>1, <1>2, <1>5, <1>6, <1>8, <1>9

\* The files of another table.
LEMMA OtherFiles ==
    ASSUME NEW th \in Threads, NEW n \in Names, NEW fs, Works(th, n, fs),
           NEW m \in Names, m # n, NEW f \in Files,
           dir[Scheme(m)] = f \/ dir[Data(m)] = f
    PROVE  OldCopies(f) /\ Keeps(f, th)
<1>1. /\ Scheme(m) \in Paths /\ Data(m) \in Paths
      /\ Scheme(m) # Scheme(n) /\ Scheme(m) # Data(n)
      /\ Data(m) # Data(n) /\ Data(m) # Scheme(n)
    BY PathFacts
<1>2. f # None /\ f[1] \in {Scheme(m), Data(m)} /\ dir[f[1]] = f
    BY <1>1, NoneFacts DEF Works, TInv, StoreFits, Dirs
<1>3. f \notin fs
    BY <1>1, <1>2 DEF Works
<1>4. dir'[f[1]] = f
    BY <1>2 DEF Works
<1>5. InUse(f)'
    BY <1>4, ReachedInUse
<1> QED
    BY <1>3, <1>5 DEF Works, Touches

LEMMA OtherMeets ==
    ASSUME NEW th \in Threads, NEW n \in Names, NEW fs, Works(th, n, fs),
           NEW m \in Names, m # n, Meets(m)
    PROVE  Meets(m)'
<1>1. /\ On(m)' = On(m) /\ th \notin On(m) /\ On(m) \subseteq Threads
      /\ \A x \in On(m) : op'[x] = op[x] /\ pc'[x] = pc[x]
    BY OnAfter DEF On
<1>2. /\ dir'[Scheme(m)] = dir[Scheme(m)] /\ dir'[Data(m)] = dir[Data(m)]
      /\ spoiled'[m] = spoiled[m]
    BY DEF Works
<1>3. Alone(m)' /\ NotAlone(m)' /\ SchemeMade(m)' /\ SchemeGone(m)' /\ SchemeFirst(m)'
    BY <1>1, <1>2 DEF Meets, Alone, NotAlone, SchemeMade, SchemeGone, SchemeFirst, Rewriting
<1>4. PageThere(m) => PageThere(m)'
    BY <1>2, OtherFiles DEF PageThere, OldCopies
<1>5. Meeting(m)'
    BY <1>1, <1>2, <1>4 DEF Meets, Meeting
<1> QED
    BY <1>3, <1>5 DEF Meets

-----------------------------------------------------------------------------
(* What a step changes                                                     *)

\* The operation goes on, or it is over.
GoesOn(th) == op'[th].name = op[th].name /\ op'[th].do = op[th].do /\ op'[th].alone = op[th].alone

LEMMA WorkerFacts ==
    ASSUME TInv, NEW th \in Threads, Work(th)
    PROVE  /\ pc[th] \notin {"idle", "hung"}
           /\ op[th].name \in Names /\ th \in On(op[th].name)
           /\ op[th] \in Ops /\ op \in [Threads -> Ops]
           /\ op[th].scheme # None => op[th].scheme.file[1] = Scheme(op[th].name)
           /\ op[th].data # None => op[th].data.file[1] = Data(op[th].name)
<1>1. pc[th] \notin {"idle", "hung"}
    BY DEF Work, CheckScheme, MakeScheme, OpenScheme, AppendColumn, MakeTable, Forget,
           RemoveData, FindScheme, LookScheme, ReadColumn, CloseScheme, OpenData, Insert,
           ScanRows, EndScan
<1> QED
    BY <1>1 DEF TInv, OpFits, On, Busy, ThreadsTyped

LEMMA ThrowsGoes ==
    ASSUME TInv, NEW th \in Threads, pc[th] \notin {"idle", "hung"}, Throws(th)
    PROVE  /\ op'[th] = NoOp /\ UNCHANGED <<dir, made>>
           /\ \A m \in Names : m # op[th].name => spoiled'[m] = spoiled[m]
           /\ spoiled[op[th].name] \subseteq spoiled'[op[th].name]
           /\ spoiled'[op[th].name] \subseteq spoiled[op[th].name] \cup {"cut"}
<1>1. op'[th] = NoOp
    BY ThrowsKeeps
<1>2. spoiled \in [Names -> SUBSET Reasons] /\ op[th].name \in Names
    BY DEF TInv, RestTyped, OpFits
<1> QED
    BY <1>1, <1>2 DEF Throws

LEMMA AppendGoesOn ==
    ASSUME TInv, NEW th \in Threads, AppendColumn(th) \/ CloseScheme(th) \/ ReadColumn(th)
    PROVE  GoesOn(th)
<1>1. op[th] \in Ops /\ op \in [Threads -> Ops]
    BY DEF TInv, ThreadsTyped
<1>2. CASE AppendColumn(th)
    BY <1>1, <1>2 DEF AppendColumn, GoesOn, Ops
<1>3. CASE CloseScheme(th)
    BY <1>1, <1>3 DEF CloseScheme, GoesOn, Ops
<1>4. CASE ReadColumn(th)
    BY <1>1, <1>4 DEF ReadColumn, Hangs, GoesOn, Ops
<1> QED
    BY <1>2, <1>3, <1>4

LEMMA OpensGoes ==
    ASSUME TInv, NEW th \in Threads, pc[th] \notin {"idle", "hung"},
           NEW label, OpensScheme(th, label) \/ OpenData(th)
    PROVE  /\ (op'[th] = NoOp) \/ GoesOn(th)
           /\ UNCHANGED <<dir, made>>
           /\ \A m \in Names : m # op[th].name => spoiled'[m] = spoiled[m]
<1>1. op[th] \in Ops /\ op \in [Threads -> Ops]
    BY DEF TInv, ThreadsTyped
<1>2. CASE OpensScheme(th, label)
    BY <1>1, <1>2, ThrowsGoes DEF OpensScheme, GoesOn, Ops
<1>3. CASE OpenData(th)
    BY <1>1, <1>3, ThrowsGoes DEF OpenData, GoesOn, Ops
<1> QED
    BY <1>2, <1>3

\* Everything but the removals and what makes files leaves the directory alone.
LEMMA Changes ==
    ASSUME TInv, NEW th \in Threads, Work(th), ~Dies, NEW n, n = op[th].name
    PROVE  /\ (op'[th] = NoOp) \/ GoesOn(th)
           /\ \A m \in Names : m # n =>
                 /\ dir'[Scheme(m)] = dir[Scheme(m)] /\ dir'[Data(m)] = dir[Data(m)]
                 /\ made'[m] = made[m] /\ spoiled'[m] = spoiled[m]
<1>1. /\ pc[th] \notin {"idle", "hung"} /\ n \in Names
      /\ dir \in Dirs /\ made \in [Names -> Tables \cup {None}]
      /\ spoiled \in [Names -> SUBSET Reasons]
      /\ op \in [Threads -> Ops] /\ op[th] \in Ops
    BY WorkerFacts DEF TInv, StoreFits, RestTyped
<1>2. \A m \in Names : Scheme(m) \in Paths /\ Data(m) \in Paths
    BY PathFacts
<1>3. \A m \in Names : m # n => /\ Scheme(m) # Scheme(n) /\ Data(m) # Data(n)
                                /\ Scheme(m) # Data(n) /\ Data(m) # Scheme(n)
    BY PathFacts
<1>4. CASE CheckScheme(th)
    BY <1>4 DEF CheckScheme, GoesOn
<1>5. CASE MakeScheme(th)
    BY <1>1, <1>2, <1>3, <1>5, ThrowsGoes DEF MakeScheme, GoesOn, Dirs
<1>6. CASE OpenScheme(th)
    BY <1>1, <1>6, OpensGoes DEF OpenScheme
<1>7. CASE LookScheme(th)
    BY <1>1, <1>7, OpensGoes DEF LookScheme
<1>8. CASE OpenData(th)
    BY <1>1, <1>8, OpensGoes
<1>9. CASE AppendColumn(th)
    BY <1>9, AppendGoesOn DEF AppendColumn
<1>10. CASE ReadColumn(th)
    BY <1>10, AppendGoesOn DEF ReadColumn, Hangs
<1>11. CASE CloseScheme(th)
    BY <1>11, AppendGoesOn DEF CloseScheme
<1>12. CASE MakeTable(th)
    <2>1. CASE Throws(th)
        BY <1>1, <2>1, ThrowsGoes
    <2>2. CASE ~Throws(th)
        <3>1. /\ dir' = [dir EXCEPT ![Data(n)] = NewFile(Data(n))]
              /\ made' = [made EXCEPT ![n] = [cols |-> op[th].cols, rows |-> 0]]
              /\ End(th) /\ spoiled' = spoiled
            BY <1>12, <2>2 DEF MakeTable
        <3> QED
            BY <1>1, <1>2, <1>3, <3>1, EndFacts DEF Dirs
    <2> QED
        BY <2>1, <2>2
<1>13. CASE Forget(th)
    BY <1>1, <1>2, <1>3, <1>13 DEF Forget, GoesOn, Dirs
<1>14. CASE RemoveData(th)
    <2>1. /\ dir' = [dir EXCEPT ![Data(n)] = None]
          /\ made' = [made EXCEPT ![n] = None]
          /\ spoiled' = [spoiled EXCEPT ![n] = IF op[th].alone THEN {} ELSE @]
          /\ End(th)
        BY <1>14 DEF RemoveData
    <2> QED
        BY <1>1, <1>2, <1>3, <2>1, EndFacts DEF Dirs
<1>15. CASE FindScheme(th)
    BY <1>1, <1>15 DEF FindScheme, GoesOn, Ops
<1>16. CASE Insert(th)
    BY <1>1, <1>16, EndFacts DEF Insert
<1>17. CASE ScanRows(th)
    BY <1>17 DEF ScanRows, Hangs, GoesOn
<1>18. CASE EndScan(th)
    BY <1>18, EndFacts DEF EndScan
<1> QED
    BY <1>4, <1>5, <1>6, <1>7, <1>8, <1>9, <1>10, <1>11, <1>12, <1>13, <1>14, <1>15, <1>16,
       <1>17, <1>18 DEF Work

LEMMA WorkWorks ==
    ASSUME TInv, NEW th \in Threads, Work(th)
    PROVE  Dies \/ \E fs : Works(th, op[th].name, fs)
<1> SUFFICES ASSUME ~Dies PROVE \E fs : Works(th, op[th].name, fs)
    OBVIOUS
<1> PICK n \in Names : n = op[th].name
    BY WorkerFacts
<1>1. /\ th \in On(n)
      /\ op[th].scheme # None => op[th].scheme.file[1] = Scheme(n)
      /\ op[th].data # None => op[th].data.file[1] = Data(n)
    BY WorkerFacts
<1>2. /\ \A m \in Names : m # n =>
          /\ dir'[Scheme(m)] = dir[Scheme(m)] /\ dir'[Data(m)] = dir[Data(m)]
          /\ made'[m] = made[m] /\ spoiled'[m] = spoiled[m]
      /\ \/ op'[th] = NoOp
         \/ op'[th].name = n /\ op'[th].do = op[th].do /\ op'[th].alone = op[th].alone
    BY Changes DEF GoesOn
<1>3. \E fs : /\ TInv' /\ Touches(th, fs)
              /\ \A f \in fs : f[1] \in {Scheme(n), Data(n)}
    <2>1. CASE \/ CheckScheme(th) \/ MakeScheme(th) \/ OpenScheme(th) \/ MakeTable(th)
               \/ Forget(th) \/ RemoveData(th) \/ FindScheme(th) \/ LookScheme(th)
               \/ OpenData(th) \/ EndScan(th)
        <3>1. TInv' /\ Touches(th, {})
            <4>1. CASE OpenScheme(th)
                BY <4>1, OpensSchemeTypes DEF OpenScheme
            <4>2. CASE LookScheme(th)
                BY <4>2, OpensSchemeTypes DEF LookScheme
            <4> QED
                BY <2>1, <4>1, <4>2, CheckSchemeTypes, MakeSchemeTypes, MakeTableTypes,
                   ForgetTypes, RemoveDataTypes, FindSchemeTypes, OpenDataTypes, EndScanTypes
        <3> QED
            BY <3>1
    <2>2. CASE AppendColumn(th) \/ ReadColumn(th) \/ CloseScheme(th)
        <3>1. TInv' /\ Touches(th, {op[th].scheme.file})
            BY <2>2, AppendColumnTypes, ReadColumnTypes, CloseSchemeTypes
        <3>2. op[th].scheme # None
            BY <2>2 DEF TInv, OpFits, AppendColumn, ReadColumn, CloseScheme
        <3> QED
            BY <1>1, <3>1, <3>2
    <2>3. CASE Insert(th) \/ ScanRows(th)
        <3>1. TInv' /\ Touches(th, {op[th].data.file})
            BY <2>3, InsertTypes, ScanRowsTypes
        <3>2. op[th].data # None
            BY <2>3 DEF TInv, OpFits, Insert, ScanRows
        <3> QED
            BY <1>1, <3>1, <3>2
    <2> QED
        BY <2>1, <2>2, <2>3 DEF Work
<1> PICK fs : /\ TInv' /\ Touches(th, fs)
              /\ \A f \in fs : f[1] \in {Scheme(n), Data(n)}
    BY <1>3
<1> QED
    BY <1>1, <1>2 DEF Works

-----------------------------------------------------------------------------
(* Requests that meet                                                      *)

\* What th's step may do to the marks of its table.
Marks(th, n) == spoiled[n] \subseteq spoiled'[n] \/ (pc[th] = "remove" /\ op[th].alone)

LEMMA OnPages ==
    ASSUME NEW th \in Threads, NEW n \in Names, NEW fs, Works(th, n, fs), PageThere(n),
           dir'[Data(n)] = dir[Data(n)]
    PROVE  PageThere(n)'
<1> SUFFICES ASSUME NEW f \in Files, dir'[Data(n)] = f PROVE disk'[f] # None
    BY DEF PageThere
<1>1. disk[f] # None
    BY DEF PageThere
<1>2. f # None /\ Data(n) \in Paths
    BY NoneFacts, PathFacts
<1>3. f[1] = Data(n)
    BY <1>2 DEF Works, TInv, StoreFits, Dirs
<1>4. InUse(f)'
    BY <1>3, ReachedInUse
<1> QED
    BY <1>1, <1>4 DEF Works, Touches

LEMMA AloneKept ==
    ASSUME NEW th \in Threads, NEW n \in Names, NEW fs, Works(th, n, fs), Meets(n), Marks(th, n)
    PROVE  Alone(n)' /\ NotAlone(n)'
<1>1. /\ \A x : x # th => (x \in On(n)' <=> x \in On(n))
      /\ On(n)' \subseteq On(n) /\ On(n) \subseteq Threads
      /\ \A x \in Threads : x # th => op'[x] = op[x]
      /\ th \in On(n)' => op'[th].do = op[th].do /\ op'[th].alone = op[th].alone
    BY OnAfter DEF On
<1>2. \A x \in On(n)' : x \in On(n) /\ op'[x].do = op[x].do /\ op'[x].alone = op[x].alone
    BY <1>1
<1>3. Alone(n)'
    <2>1. ASSUME NEW x \in On(n)', Rewriting(x)', op'[x].alone
          PROVE  On(n)' = {x}
        <3>1. On(n) = {x}
            BY <1>2, <2>1 DEF Meets, Alone, Rewriting
        <3>2. On(n)' \subseteq {x} /\ {x} \subseteq On(n)'
            BY <1>1, <2>1, <3>1
        <3> QED
            BY <3>2
    <2> QED
        BY <2>1 DEF Alone
<1>4. NotAlone(n)'
    <2>1. ASSUME NEW x \in On(n)', Rewriting(x)', ~op'[x].alone
          PROVE  "torn" \in spoiled'[n]
        <3>1. "torn" \in spoiled[n] /\ x \in On(n) /\ ~op[x].alone
            BY <1>2, <2>1 DEF Meets, NotAlone, Rewriting
        <3>2. CASE spoiled[n] \subseteq spoiled'[n]
            BY <3>1, <3>2
        <3>3. CASE pc[th] = "remove" /\ op[th].alone
            <4>1. Rewriting(th) /\ th \in On(n)
                BY <3>3 DEF TInv, OpFits, Dropping, Works, Rewriting
            <4>2. On(n) = {th}
                BY <3>3, <4>1 DEF Meets, Alone
            <4> QED
                BY <3>1, <3>3, <4>2
        <3> QED
            BY <3>2, <3>3 DEF Marks
    <2> QED
        BY <2>1 DEF NotAlone
<1> QED
    BY <1>3, <1>4

LEMMA SchemesKept ==
    ASSUME NEW th \in Threads, NEW n \in Names, NEW fs, Works(th, n, fs), Meets(n),
           spoiled[n] \subseteq spoiled'[n], op[th].do # "drop",
           dir'[Scheme(n)] = dir[Scheme(n)], dir'[Data(n)] = dir[Data(n)],
           pc'[th] \in {"open", "append", "table"} =>
               pc[th] \in {"open", "append", "table"} \/ dir[Scheme(n)] # None
    PROVE  Meets(n)'
<1>1. /\ \A x : x # th => (x \in On(n)' <=> x \in On(n))
      /\ On(n)' \subseteq On(n) /\ th \in On(n) /\ On(n) \subseteq Threads
      /\ \A x \in Threads : x # th => op'[x] = op[x] /\ pc'[x] = pc[x]
      /\ th \in On(n)' => op'[th].do = op[th].do /\ op'[th].alone = op[th].alone
    BY OnAfter DEF On, Works
<1>2. Alone(n)' /\ NotAlone(n)'
    BY AloneKept DEF Marks
<1>3. PageThere(n) => PageThere(n)'
    BY OnPages
<1>4. Meeting(n)'
    BY <1>1, <1>3 DEF Meets, Meeting
<1>5. SchemeMade(n)'
    BY <1>1 DEF Meets, SchemeMade
<1>6. SchemeGone(n)'
    <2> SUFFICES ASSUME NEW x \in On(n)', pc'[x] = "remove", op'[x].alone
                 PROVE  dir'[Scheme(n)] = None
        BY DEF SchemeGone
    <2>1. CASE x = th
        <3>1. op'[th].do = "drop"
            BY <2>1 DEF Works, TInv, OpFits, Dropping
        <3> QED
            BY <1>1, <2>1, <3>1
    <2>2. CASE x # th
        BY <1>1, <2>2 DEF Meets, SchemeGone
    <2> QED
        BY <2>1, <2>2
<1>7. SchemeFirst(n)'
    BY <1>1 DEF Meets, SchemeFirst
<1> QED
    BY <1>2, <1>4, <1>5, <1>6, <1>7 DEF Meets

\* A drop or a create that is over leaves nobody on the table, or its mark.
LEMMA MeetingAfter ==
    ASSUME NEW th \in Threads, NEW n \in Names, NEW fs, Works(th, n, fs), Meets(n),
           Marks(th, n), Rewriting(th)
    PROVE  Meeting(n)'
<1>1. On(n)' \subseteq On(n) /\ th \in On(n) /\ op[th].alone \in BOOLEAN
    BY OnAfter DEF Works, TInv, ThreadsTyped, Ops
<1>2. CASE op[th].alone
    <2>1. On(n) = {th}
        BY <1>1, <1>2 DEF Meets, Alone
    <2> QED
        BY <1>1, <2>1 DEF Meeting
<1>3. CASE ~op[th].alone
    BY <1>1, <1>3 DEF Meets, NotAlone, Marks, Meeting
<1> QED
    BY <1>1, <1>2, <1>3

LEMMA MakeSchemeMeets ==
    ASSUME TInv, NEW th \in Threads, NEW n \in Names, n = op[th].name,
           MakeScheme(th), ~Throws(th), NEW fs, Works(th, n, fs), Meets(n)
    PROVE  Meets(n)'
<1>1. /\ dir[Scheme(n)] = None
      /\ dir' = [dir EXCEPT ![Scheme(n)] = NewFile(Scheme(n))]
      /\ spoiled' = spoiled /\ pc' = [pc EXCEPT ![th] = "open"] /\ pc[th] = "make"
    BY DEF MakeScheme, CanCreate, Goto
<1>2. /\ dir'[Scheme(n)] # None /\ dir'[Data(n)] = dir[Data(n)]
    <2> PICK path \in Paths : path = Scheme(n)
        BY PathFacts
    <2>1. Data(n) \in Paths /\ Data(n) # path
        BY PathFacts
    <2> QED
        BY <1>1, <2>1, MakingDir, NewFileFacts
<1>3. op[th].do = "create" /\ Rewriting(th)
    BY <1>1 DEF TInv, OpFits, Creating, Rewriting
<1>4. /\ \A x : x # th => (x \in On(n)' <=> x \in On(n))
      /\ On(n)' \subseteq On(n) /\ th \in On(n) /\ On(n) \subseteq Threads
      /\ \A x \in Threads : x # th => op'[x] = op[x] /\ pc'[x] = pc[x]
      /\ th \in On(n)' => op'[th].do = op[th].do /\ op'[th].alone = op[th].alone
      /\ pc'[th] = "open"
    BY <1>1, OnAfter DEF On, Works, TInv, ThreadsTyped
<1>5. Alone(n)' /\ NotAlone(n)' /\ Meeting(n)'
    BY <1>1, <1>3, AloneKept, MeetingAfter DEF Marks
<1>6. SchemeMade(n)' /\ SchemeFirst(n)'
    BY <1>2 DEF SchemeMade, SchemeFirst
<1>7. SchemeGone(n)'
    <2> SUFFICES ASSUME NEW x \in On(n)', pc'[x] = "remove", op'[x].alone
                 PROVE  FALSE
        BY DEF SchemeGone
    <2>1. x # th /\ x \in On(n) /\ pc[x] = "remove" /\ op[x].alone
        BY <1>4
    <2>2. op[x].do = "drop"
        BY <1>4, <2>1 DEF TInv, OpFits, Dropping
    <2>3. On(n) = {x}
        BY <2>1, <2>2 DEF Meets, Alone, Rewriting
    <2> QED
        BY <1>4, <2>1, <2>3
<1> QED
    BY <1>5, <1>6, <1>7 DEF Meets

LEMMA MakeTableMeets ==
    ASSUME TInv, NEW th \in Threads, NEW n \in Names, n = op[th].name,
           MakeTable(th), ~Throws(th), NEW fs, Works(th, n, fs), Meets(n)
    PROVE  Meets(n)'
<1>1. /\ dir[Data(n)] = None /\ pc[th] = "table"
      /\ dir' = [dir EXCEPT ![Data(n)] = NewFile(Data(n))]
      /\ spoiled' = spoiled /\ End(th)
    BY DEF MakeTable, CanCreate
<1>2. dir'[Scheme(n)] = dir[Scheme(n)]
    BY <1>1, PathFacts DEF TInv, StoreFits, Dirs
<1>3. op[th].do = "create" /\ Rewriting(th)
    BY <1>1 DEF TInv, OpFits, Creating, Rewriting
<1>4. /\ \A x : x # th => (x \in On(n)' <=> x \in On(n))
      /\ th \in On(n) /\ On(n)' \subseteq Threads
      /\ \A x \in Threads : x # th => op'[x] = op[x] /\ pc'[x] = pc[x]
      /\ pc'[th] = "idle" /\ op'[th] = NoOp
    BY <1>1, OnAfter, EndFacts DEF On, Works
<1>5. th \notin On(n)'
    BY <1>4, OnFacts
<1>6. Alone(n)' /\ NotAlone(n)' /\ Meeting(n)'
    BY <1>1, <1>3, AloneKept, MeetingAfter DEF Marks
<1>7. dir[Scheme(n)] # None \/ "torn" \in spoiled[n]
    BY <1>1, <1>4 DEF Meets, SchemeMade
<1>8. SchemeMade(n)' /\ SchemeFirst(n)'
    BY <1>1, <1>2, <1>7 DEF SchemeMade, SchemeFirst
<1>9. SchemeGone(n)'
    BY <1>2, <1>4, <1>5 DEF Meets, SchemeGone
<1> QED
    BY <1>6, <1>8, <1>9 DEF Meets

LEMMA ForgetMeets ==
    ASSUME TInv, NEW th \in Threads, NEW n \in Names, n = op[th].name,
           Forget(th), NEW fs, Works(th, n, fs), Meets(n)
    PROVE  Meets(n)'
<1>1. /\ dir' = [dir EXCEPT ![Scheme(n)] = None] /\ pc[th] = "forget"
      /\ spoiled' = spoiled /\ op' = op /\ pc' = [pc EXCEPT ![th] = "remove"]
    BY DEF Forget, Goto
<1>2. dir'[Scheme(n)] = None
    BY <1>1, PathFacts DEF TInv, StoreFits, Dirs
<1>3. op[th].do = "drop" /\ Rewriting(th) /\ op[th].alone \in BOOLEAN
    BY <1>1 DEF TInv, OpFits, Dropping, Rewriting, ThreadsTyped, Ops
<1>4. th \in On(n)' /\ op'[th].do = "drop" /\ On(n)' \subseteq On(n) /\ th \in On(n)
      /\ pc'[th] = "remove"
    BY <1>1, <1>3, OnFacts, OnAfter DEF Works, TInv, ThreadsTyped
<1>5. Alone(n)' /\ NotAlone(n)' /\ Meeting(n)'
    BY <1>1, <1>3, AloneKept, MeetingAfter DEF Marks
<1>6. SchemeGone(n)' /\ SchemeFirst(n)'
    BY <1>2, <1>4 DEF SchemeGone, SchemeFirst
<1>7. SchemeMade(n)'
    <2>1. CASE op[th].alone
        <3>1. On(n) = {th}
            BY <1>3, <1>4, <2>1 DEF Meets, Alone
        <3> QED
            BY <1>4, <3>1 DEF SchemeMade
    <2>2. CASE ~op[th].alone
        BY <1>1, <1>3, <1>4, <2>2 DEF Meets, NotAlone, SchemeMade
    <2> QED
        BY <1>3, <2>1, <2>2
<1> QED
    BY <1>5, <1>6, <1>7 DEF Meets

LEMMA RemoveDataMeets ==
    ASSUME TInv, NEW th \in Threads, NEW n \in Names, n = op[th].name,
           RemoveData(th), NEW fs, Works(th, n, fs), Meets(n)
    PROVE  Meets(n)'
<1>1. /\ dir' = [dir EXCEPT ![Data(n)] = None] /\ pc[th] = "remove"
      /\ spoiled' = [spoiled EXCEPT ![n] = IF op[th].alone THEN {} ELSE @] /\ End(th)
    BY DEF RemoveData
<1>2. spoiled'[n] = IF op[th].alone THEN {} ELSE spoiled[n]
    BY <1>1 DEF TInv, RestTyped
<1>3. op[th].do = "drop" /\ Rewriting(th) /\ op[th].alone \in BOOLEAN
    BY <1>1 DEF TInv, OpFits, Dropping, Rewriting, ThreadsTyped, Ops
<1>4. /\ dir'[Data(n)] = None /\ dir'[Scheme(n)] = dir[Scheme(n)]
    BY <1>1, PathFacts DEF TInv, StoreFits, Dirs
<1>5. /\ \A x : x # th => (x \in On(n)' <=> x \in On(n))
      /\ th \in On(n) /\ On(n)' \subseteq Threads
      /\ \A x \in Threads : x # th => op'[x] = op[x] /\ pc'[x] = pc[x]
      /\ pc'[th] = "idle"
    BY <1>1, OnAfter, EndFacts DEF On, Works
<1>6. th \notin On(n)'
    BY <1>5, OnFacts
<1>7. Alone(n)' /\ NotAlone(n)' /\ Meeting(n)'
    BY <1>1, <1>2, <1>3, AloneKept, MeetingAfter DEF Marks
<1>8. SchemeFirst(n)'
    BY <1>4 DEF SchemeFirst
<1>9. SchemeMade(n)' /\ SchemeGone(n)'
    <2>1. CASE op[th].alone
        <3>1. On(n) = {th}
            BY <1>3, <1>5, <2>1 DEF Meets, Alone
        <3> QED
            BY <1>5, <1>6, <3>1 DEF SchemeMade, SchemeGone
    <2>2. CASE ~op[th].alone
        BY <1>2, <1>4, <1>5, <1>6, <2>2 DEF Meets, SchemeMade, SchemeGone
    <2> QED
        BY <1>3, <2>1, <2>2
<1> QED
    BY <1>7, <1>8, <1>9 DEF Meets


LEMMA OtherSteps ==
    ASSUME TInv, NEW th \in Threads, Work(th), ~Dies, NEW n \in Names, n = op[th].name,
           ~Forget(th), ~RemoveData(th), Throws(th) \/ (~MakeScheme(th) /\ ~MakeTable(th))
    PROVE  /\ UNCHANGED dir /\ spoiled[n] \subseteq spoiled'[n] /\ op[th].do # "drop"
           /\ op[th].do = "create" /\ pc'[th] \in {"open", "append", "table"} =>
                 pc[th] \in {"open", "append", "table"} \/ dir[Scheme(n)] # None
<1>0. /\ pc[th] \notin {"idle", "hung"} /\ pc[th] \in Labels /\ pc \in [Threads -> Labels]
      /\ (pc[th] \in Reading => op[th].do \in {"insert", "select"})
      /\ (pc[th] \in Creating => op[th].do = "create")
    BY WorkerFacts DEF TInv, OpFits, ThreadsTyped
<1>1. CASE Throws(th)
    <2>1. op[th].do # "drop"
        BY <1>0, <1>1 DEF Work, CheckScheme, MakeScheme, OpenScheme, AppendColumn, MakeTable,
           FindScheme, LookScheme, ReadColumn, CloseScheme, OpenData, Insert,
           ScanRows, EndScan, Creating, Reading, Finding
    <2>2. pc'[th] = "idle"
        BY <1>0, <1>1, ThrowsKeeps
    <2> QED
        BY <1>0, <1>1, <2>1, <2>2, ThrowsGoes
<1>2. CASE ~Throws(th)
    <2>1. CASE CheckScheme(th)
        BY <1>0, <2>1 DEF CheckScheme, Goto, Creating
    <2>2. CASE OpenScheme(th)
        BY <1>0, <1>2, <2>2 DEF OpenScheme, OpensScheme, Creating
    <2>3. CASE AppendColumn(th)
        BY <1>0, <2>3 DEF AppendColumn, Creating
    <2>4. CASE LookScheme(th)
        BY <1>0, <1>2, <2>4 DEF LookScheme, OpensScheme, Reading, Finding
    <2>5. CASE OpenData(th)
        BY <1>0, <1>2, <2>5 DEF OpenData, Reading
    <2>6. CASE FindScheme(th)
        BY <1>0, <2>6 DEF FindScheme, Reading, Finding
    <2>7. CASE ReadColumn(th)
        BY <1>0, <2>7 DEF ReadColumn, Hangs, Reading, Finding
    <2>8. CASE CloseScheme(th)
        BY <1>0, <2>8 DEF CloseScheme, Reading, Finding
    <2>9. CASE Insert(th)
        BY <1>0, <2>9 DEF Insert, Reading
    <2>10. CASE ScanRows(th)
        BY <1>0, <2>10 DEF ScanRows, Hangs, Reading
    <2>11. CASE EndScan(th)
        BY <1>0, <2>11 DEF EndScan, Reading
    <2> QED
        BY <1>2, <2>1, <2>2, <2>3, <2>4, <2>5, <2>6, <2>7, <2>8, <2>9, <2>10, <2>11 DEF Work
<1> QED
    BY <1>1, <1>2

LEMMA WorkMeets ==
    ASSUME TInv, NEW th \in Threads, Work(th), ~Dies, NEW n \in Names, n = op[th].name,
           NEW fs, Works(th, n, fs), Meets(n)
    PROVE  Meets(n)'
<1>1. CASE Forget(th)
    BY <1>1, ForgetMeets
<1>2. CASE RemoveData(th)
    BY <1>2, RemoveDataMeets
<1>3. CASE MakeScheme(th) /\ ~Throws(th)
    BY <1>3, MakeSchemeMeets
<1>4. CASE MakeTable(th) /\ ~Throws(th)
    BY <1>4, MakeTableMeets
<1>5. CASE /\ ~Forget(th) /\ ~RemoveData(th)
           /\ Throws(th) \/ (~MakeScheme(th) /\ ~MakeTable(th))
    <2>1. /\ UNCHANGED dir /\ spoiled[n] \subseteq spoiled'[n] /\ op[th].do # "drop"
          /\ op[th].do = "create" /\ pc'[th] \in {"open", "append", "table"} =>
                pc[th] \in {"open", "append", "table"} \/ dir[Scheme(n)] # None
        BY <1>5, OtherSteps
    <2>2. op[th].do # "create" => pc'[th] \notin {"open", "append", "table"}
        <3>1. pc'[th] \in Creating => op'[th].do = "create"
            BY DEF Works, TInv, OpFits
        <3> QED
            BY <3>1, NoOpFacts DEF Works, Creating
    <2> QED
        BY <2>1, <2>2, SchemesKept
<1> QED
    BY <1>1, <1>2, <1>3, <1>4, <1>5

-----------------------------------------------------------------------------
(* A request begins                                                        *)

Requests == {<<"create", "check">>, <<"drop", "forget">>, <<"insert", "find">>, <<"select", "find">>}

LEMMA JoinFacts ==
    ASSUME TInv, NEW th \in Threads, NEW n \in Names, NEW cols \in Seq(Columns), NEW do,
           NEW first, <<do, first>> \in Requests,
           NEW met \in SUBSET On(n), Joins(th, do, n, cols, first, met)
    PROVE  /\ th \notin On(n) /\ On(n) \subseteq Threads
           /\ \A x : x \in On(n)' <=> x = th \/ x \in On(n)
           /\ \A m \in Names : m # n => On(m)' = On(m) /\ th \notin On(m)
           /\ \A x \in Threads : x # th => pc'[x] = pc[x]
           /\ pc'[th] = first /\ op'[th] = Asked(do, n, cols, met)
           /\ op'[th].do = do /\ (op'[th].alone <=> met = {})
           /\ op'[th].cols = cols /\ op'[th].read = <<>> /\ op'[th].at = 0
           /\ op'[th].scheme = None /\ op'[th].data = None
           /\ \A x \in Threads : x # th =>
                 /\ op'[x].do = op[x].do /\ op'[x].name = op[x].name
                 /\ op'[x].cols = op[x].cols /\ op'[x].read = op[x].read
                 /\ op'[x].at = op[x].at
                 /\ op'[x].scheme = op[x].scheme /\ op'[x].data = op[x].data
                 /\ op'[x].alone = (op[x].alone /\ x \notin met)
           /\ spoiled[n] \subseteq spoiled'[n]
<1>1. do \in {"create", "drop", "insert", "select"} /\ first \notin {"idle", "hung"}
    BY DEF Requests
<1>2. /\ op'[th].do = do /\ op'[th].name = n /\ (op'[th].alone <=> met = {})
      /\ op'[th].cols = cols /\ op'[th].read = <<>> /\ op'[th].at = 0
      /\ op'[th].scheme = None /\ op'[th].data = None
    <2> PICK new : new = Asked(do, n, cols, met)
        OBVIOUS
    <2>1. /\ new.do = do /\ new.name = n /\ (new.alone <=> met = {})
          /\ new.cols = cols /\ new.read = <<>> /\ new.at = 0
          /\ new.scheme = None /\ new.data = None
        BY <1>1, AskedFacts
    <2>2. op'[th] = new
        BY DEF Joins
    <2> QED
        BY <2>1, <2>2
<1>3. pc'[th] = first /\ pc[th] = "idle" /\ \A x \in Threads : x # th => pc'[x] = pc[x]
    BY DEF Joins, TInv, ThreadsTyped
<1>4. ASSUME NEW x \in Threads, x # th
      PROVE  /\ op'[x].do = op[x].do /\ op'[x].name = op[x].name
             /\ op'[x].cols = op[x].cols /\ op'[x].read = op[x].read
             /\ op'[x].at = op[x].at
             /\ op'[x].scheme = op[x].scheme /\ op'[x].data = op[x].data
             /\ op'[x].alone = (op[x].alone /\ x \notin met)
    <2>1. op[x] \in Ops /\ op[x].alone \in BOOLEAN
        BY DEF TInv, ThreadsTyped, Ops
    <2>2. op'[x] = IF x \in met THEN Met(op[x]) ELSE op[x]
        BY <1>4 DEF Joins
    <2>3. CASE x \in met
        <3> PICK r \in Ops : r = op[x]
            BY <2>1
        <3> QED
            BY <2>2, <2>3, MetFacts
    <2>4. CASE x \notin met
        BY <2>1, <2>2, <2>4
    <2> QED
        BY <2>3, <2>4
<1>5. th \notin On(n) /\ On(n) \subseteq Threads
    BY <1>3, OnFacts DEF On
<1>6. \A x : x \in On(n)' <=> x = th \/ x \in On(n)
    BY <1>1, <1>2, <1>3, <1>4, OnFacts
<1>7. ASSUME NEW m \in Names, m # n PROVE On(m)' = On(m) /\ th \notin On(m)
    <2>1. th \notin On(m)' /\ th \notin On(m)
        BY <1>2, <1>3, <1>7, OnFacts
    <2>2. \A x : x \in On(m)' <=> x \in On(m)
        BY <1>3, <1>4, <2>1, OnFacts
    <2>3. On(m)' \subseteq On(m) /\ On(m) \subseteq On(m)'
        BY <2>2
    <2> QED
        BY <2>1, <2>3
<1>8. spoiled[n] \subseteq spoiled'[n]
    BY DEF Joins
<1>9. op'[th] = Asked(do, n, cols, met)
    BY DEF Joins
<1> QED
    BY <1>2, <1>3, <1>4, <1>5, <1>6, <1>7, <1>8, <1>9

\* Who may meet a request, and the mark when somebody may not.
LEMMA MetWho ==
    ASSUME TInv, NEW th \in Threads, NEW n \in Names, NEW cols \in Seq(Columns), NEW do,
           NEW first, <<do, first>> \in Requests,
           NEW met \in SUBSET On(n), Joins(th, do, n, cols, first, met)
    PROVE  /\ \A x \in On(n) : Rewriting(x) \/ do \in {"create", "drop"} => x \in met
           /\ met # {} => "torn" \in spoiled'[n] \/ "raced" \in spoiled'[n]
           /\ \A x \in met : Rewriting(x) => "torn" \in spoiled'[n]
           /\ met # {} /\ do \in {"create", "drop"} => "torn" \in spoiled'[n]
           /\ \A x \in On(n) : x \in met \/ (op[x].do = "select" /\ do = "select") \/ PageThere(n)
<1>1. \A x : x \in met <=> x \in On(n) /\ ~MayMeet(n, op[x].do, do)
    BY DEF Joins
<1>2. \A x \in On(n) : x \in Threads /\ x # th
    BY JoinFacts
<1>3. \A x \in On(n) : Rewriting(x) \/ do \in {"create", "drop"} => x \in met
    BY <1>1 DEF MayMeet, Rewriting
<1>4. \A x \in On(n) : x \in met \/ (op[x].do = "select" /\ do = "select") \/ PageThere(n)
    <2> SUFFICES ASSUME NEW x \in On(n), MayMeet(n, op[x].do, do)
                 PROVE  (op[x].do = "select" /\ do = "select") \/ PageThere(n)
        BY <1>1
    <2>1. CASE {op[x].do, do} = {"select"}
        BY <2>1
    <2>2. CASE dir[Data(n)] # None /\ disk[dir[Data(n)]] # None
        BY <2>2 DEF PageThere
    <2> QED
        BY <2>1, <2>2 DEF MayMeet
<1> DEFINE rows == \A x \in met \cup {th} :
                       (IF x = th THEN do ELSE op[x].do) \in {"select", "insert"}
<1>5. met # {} => spoiled'[n] = spoiled[n] \cup (IF rows THEN {"raced"} ELSE {"torn"})
          \cup (IF do = "create" /\ {dir[Data(n)], dir[Scheme(n)]} # {None}
                THEN {"again"} ELSE {})
    BY DEF Joins
<1>6. \A x \in met : Rewriting(x) => ~rows
    BY <1>2 DEF Rewriting
<1>7. do \in {"create", "drop"} => ~rows
    OBVIOUS
<1> HIDE DEF rows
<1> QED
    BY <1>3, <1>4, <1>5, <1>6, <1>7

LEMMA StartMeets ==
    ASSUME TInv, NEW th \in Threads, NEW n \in Names, NEW cols \in Seq(Columns), NEW do,
           NEW first, <<do, first>> \in Requests,
           NEW met \in SUBSET On(n), Joins(th, do, n, cols, first, met), Meets(n)
    PROVE  Meets(n)'
<1>1. /\ th \notin On(n) /\ On(n) \subseteq Threads
      /\ \A x : x \in On(n)' <=> x = th \/ x \in On(n)
      /\ \A x \in Threads : x # th => pc'[x] = pc[x]
      /\ pc'[th] = first /\ op'[th].do = do /\ (op'[th].alone <=> met = {})
      /\ \A x \in Threads : x # th =>
                /\ op'[x].do = op[x].do
                /\ op'[x].alone = (op[x].alone /\ x \notin met)
      /\ spoiled[n] \subseteq spoiled'[n]
    BY JoinFacts
<1>2. /\ \A x \in On(n) : Rewriting(x) \/ do \in {"create", "drop"} => x \in met
      /\ met # {} => "torn" \in spoiled'[n] \/ "raced" \in spoiled'[n]
      /\ \A x \in met : Rewriting(x) => "torn" \in spoiled'[n]
      /\ met # {} /\ do \in {"create", "drop"} => "torn" \in spoiled'[n]
      /\ \A x \in On(n) : x \in met \/ (op[x].do = "select" /\ do = "select") \/ PageThere(n)
    BY MetWho
<1>3. UNCHANGED <<dir, disk>>
    BY DEF Joins
<1>4. Alone(n)'
    <2>1. ASSUME NEW x \in On(n)', Rewriting(x)', op'[x].alone
          PROVE  On(n)' = {x}
        <3>1. x = th /\ do \in {"create", "drop"} /\ met = {}
            BY <1>1, <1>2, <2>1 DEF Rewriting
        <3>2. On(n)' \subseteq {x} /\ {x} \subseteq On(n)'
            BY <1>1, <1>2, <3>1
        <3> QED
            BY <3>2
    <2> QED
        BY <2>1 DEF Alone
<1>5. NotAlone(n)'
    <2>1. ASSUME NEW x \in On(n)', Rewriting(x)', ~op'[x].alone
          PROVE  "torn" \in spoiled'[n]
        <3>1. CASE x = th
            BY <1>1, <1>2, <2>1, <3>1 DEF Rewriting
        <3>2. CASE x # th
            BY <1>1, <1>2, <2>1, <3>2 DEF Rewriting
        <3> QED
            BY <3>1, <3>2
    <2> QED
        BY <2>1 DEF NotAlone
<1>6. Meeting(n)'
    <2> SUFFICES ASSUME {"raced", "torn"} \cap spoiled'[n] = {},
                        NEW x \in On(n)', NEW y \in On(n)', x # y, op'[x].do # "select"
                 PROVE  PageThere(n)'
        BY DEF Meeting
    <2>1. met = {}
        BY <1>2
    <2>2. {"raced", "torn"} \cap spoiled[n] = {}
        BY <1>1
    <2>3. PageThere(n)
        <3>1. CASE x = th
            BY <1>1, <1>2, <2>1, <3>1
        <3>2. CASE y = th
            BY <1>1, <1>2, <2>1, <3>2
        <3>3. CASE x # th /\ y # th
            BY <1>1, <2>2, <3>3 DEF Meets, Meeting
        <3> QED
            BY <3>1, <3>2, <3>3
    <2> QED
        BY <1>3, <2>3 DEF PageThere
<1>7. first \notin {"open", "append", "table", "remove"}
    BY DEF Requests
<1>8. SchemeMade(n)'
    BY <1>1, <1>3, <1>7 DEF Meets, SchemeMade
<1>9. SchemeGone(n)'
    BY <1>1, <1>3, <1>7 DEF Meets, SchemeGone
<1>10. SchemeFirst(n)'
    <2>1. \A x \in On(n) : op[x].do = "drop" => x \in On(n)' /\ op'[x].do = "drop"
        BY <1>1
    <2> QED
        BY <1>1, <1>3, <2>1 DEF Meets, SchemeFirst
<1> QED
    BY <1>4, <1>5, <1>6, <1>8, <1>9, <1>10 DEF Meets

LEMMA StartOthers ==
    ASSUME TInv, NEW th \in Threads, NEW n \in Names, NEW cols \in Seq(Columns), NEW do,
           NEW first, <<do, first>> \in Requests,
           NEW met \in SUBSET On(n), Joins(th, do, n, cols, first, met),
           NEW m \in Names, m # n
    PROVE  /\ UNCHANGED <<dir, disk, frames, made>> /\ spoiled'[m] = spoiled[m]
           /\ On(m)' = On(m)
           /\ \A x \in On(m) : op'[x] = op[x] /\ pc'[x] = pc[x]
<1>1. /\ On(m)' = On(m) /\ th \notin On(m)
      /\ \A x \in Threads : x # th => pc'[x] = pc[x]
    BY JoinFacts
<1>2. \A x \in On(m) : x \in Threads /\ x # th /\ x \notin met
    BY <1>1, OnFacts
<1>3. \A x \in On(m) : op'[x] = op[x]
    BY <1>2 DEF Joins
<1> QED
    BY <1>1, <1>2, <1>3 DEF Joins

LEMMA StartOthersMeets ==
    ASSUME NEW m \in Names, UNCHANGED <<dir, disk>>, spoiled'[m] = spoiled[m], On(m)' = On(m),
           \A x \in On(m) : op'[x] = op[x] /\ pc'[x] = pc[x],
           Meets(m)
    PROVE  Meets(m)'
<1>1. Alone(m)' /\ NotAlone(m)'
    BY DEF Meets, Alone, NotAlone, Rewriting
<1>2. Meeting(m)'
    BY DEF Meets, Meeting, PageThere
<1>3. SchemeMade(m)' /\ SchemeGone(m)' /\ SchemeFirst(m)'
    BY DEF Meets, SchemeMade, SchemeGone, SchemeFirst
<1> QED
    BY <1>1, <1>2, <1>3 DEF Meets

-----------------------------------------------------------------------------
(* The process ends                                                        *)

LEMMA DiesMarks ==
    ASSUME TInv, Dies, NEW n \in Names
    PROVE  /\ On(n)' = {}
           /\ spoiled[n] \subseteq spoiled'[n]
           /\ \A th \in On(n) : op[th].do = "drop" => "torn" \in spoiled'[n]
           /\ \A th \in On(n) : op[th].do \in {"create", "insert"} => "cut" \in spoiled'[n]
<1>1. On(n)' = {}
    <2>1. \A x : x \notin On(n)'
        BY DiesTypes, OnFacts
    <2> QED
        BY <2>1
<1> DEFINE doing == {op[th].do : th \in On(n)}
           lost == \E i \in Frames :
                  /\ frames[i] # None
                  /\ frames[i].file \in {dir[Data(n)], dir[Scheme(n)]}
                  /\ frames[i].rows # disk[frames[i].file]
<1>2. spoiled'[n] = spoiled[n] \cup (IF "drop" \in doing THEN {"torn"} ELSE {})
                        \cup (IF lost \/ doing \cap {"create", "insert"} # {}
                              THEN {"cut"} ELSE {})
    BY DEF Dies
<1> HIDE DEF lost
<1>3. \A th \in On(n) : op[th].do \in doing
    OBVIOUS
<1> HIDE DEF doing
<1> QED
    BY <1>1, <1>2, <1>3

LEMMA DiesMeets ==
    ASSUME TInv, Dies, NEW n \in Names, Meets(n)
    PROVE  Meets(n)'
<1>1. /\ On(n)' = {} /\ spoiled[n] \subseteq spoiled'[n] /\ UNCHANGED dir
      /\ \A th \in On(n) : op[th].do = "drop" => "torn" \in spoiled'[n]
    BY DiesTypes, DiesMarks
<1>2. SchemeFirst(n)'
    BY <1>1 DEF Meets, SchemeFirst
<1> QED
    BY <1>1, <1>2 DEF Meets, Alone, NotAlone, Meeting, SchemeMade, SchemeGone

LEMMA StopMeets ==
    ASSUME TInv, Stop, NEW n \in Names, Meets(n)
    PROVE  Meets(n)'
<1>1. UNCHANGED <<dir, pc, op, spoiled>> /\ \A x \in Threads : pc[x] = "idle"
    BY DEF Stop
<1>2. On(n) = {} /\ On(n)' = {}
    BY <1>1 DEF On, Busy
<1> QED
    BY <1>1, <1>2 DEF Meets, Alone, NotAlone, Meeting, SchemeMade, SchemeGone, SchemeFirst

-----------------------------------------------------------------------------
MeetInv == TInv /\ \A n \in Names : Meets(n)

LEMMA MeetsHold ==
    ASSUME MeetInv, Next
    PROVE  MeetInv'
<1>1. TInv' /\ TInv
    BY NextKeepsTypes DEF MeetInv
<1> SUFFICES ASSUME NEW m \in Names PROVE Meets(m)'
    BY <1>1 DEF MeetInv
<1>2. Meets(m)
    BY DEF MeetInv
<1>3. CASE Dies
    BY <1>1, <1>2, <1>3, DiesMeets
<1>4. CASE Stop
    BY <1>1, <1>2, <1>4, StopMeets
<1>5. ASSUME NEW th \in Threads,
             CreateTable(th) \/ DropTable(th) \/ InsertRow(th) \/ SelectAll(th)
      PROVE  Meets(m)'
    <2>1. PICK n \in Names, cols \in Seq(Columns),
       do \in {"create", "drop", "insert", "select"}, first \in Labels :
              /\ \/ do = "create" /\ first = "check" /\ cols # <<>>
                 \/ do = "drop" /\ first = "forget"
                 \/ do = "insert" /\ first = "find"
                 \/ do = "select" /\ first = "find"
              /\ Start(th, do, n, cols, first)
        BY <1>5, RequestFacts
    <2>2. PICK met \in SUBSET On(n) : Joins(th, do, n, cols, first, met)
        BY <1>1, <2>1, StartTypes
    <2>3. <<do, first>> \in Requests
        BY <2>1 DEF Requests
    <2>4. CASE m = n
        BY <1>1, <1>2, <2>2, <2>3, <2>4, StartMeets
    <2>5. CASE m # n
        <3>1. /\ UNCHANGED <<dir, disk, frames, made>> /\ spoiled'[m] = spoiled[m]
              /\ On(m)' = On(m)
              /\ \A x \in On(m) : op'[x] = op[x] /\ pc'[x] = pc[x]
            BY <1>1, <2>2, <2>3, <2>5, StartOthers
        <3> QED
            BY <1>2, <3>1, StartOthersMeets
    <2> QED
        BY <2>4, <2>5
<1>6. ASSUME NEW th \in Threads, Work(th), ~Dies
      PROVE  Meets(m)'
    <2> PICK n \in Names : n = op[th].name
        BY <1>1, <1>6, WorkerFacts
    <2>1. PICK fs : Works(th, n, fs)
        BY <1>1, <1>6, WorkWorks
    <2> QED
        BY <1>1, <1>2, <1>6, <2>1, OtherMeets, WorkMeets
<1> QED
    BY <1>3, <1>4, <1>5, <1>6 DEF Next, Kill

LEMMA InitMeets == Init => MeetInv
<1> SUFFICES ASSUME Init PROVE MeetInv
    OBVIOUS
<1>1. TInv
    BY InitTypes
<1>2. \A n : On(n) = {}
    BY DEF Init, On, Busy
<1>3. \A n \in Names : dir[Data(n)] = None
    BY PathFacts DEF Init
<1> QED
    BY <1>1, <1>2, <1>3 DEF MeetInv, Meets, Alone, NotAlone, Meeting, SchemeMade, SchemeGone,
       SchemeFirst

LEMMA MeetsStay == MeetInv /\ UNCHANGED vars => MeetInv'
<1> SUFFICES ASSUME MeetInv, UNCHANGED vars PROVE MeetInv'
    OBVIOUS
<1>1. TInv'
    BY TypesStay DEF MeetInv
<1>2. ASSUME NEW n \in Names PROVE Meets(n)'
    <2>1. Meets(n) /\ On(n)' = On(n) /\ UNCHANGED <<dir, disk, op, pc, spoiled>>
        BY DEF MeetInv, On, Busy, vars
    <2> QED
        BY <2>1, StartOthersMeets
<1> QED
    BY <1>1, <1>2 DEF MeetInv

\* Whatever is killed and whoever meets, a table without a scheme comes only from
\* a drop that is under way, was killed between its two removals or met another
\* request: neither a create that is cut nor any number of requests on other
\* tables leaves one.
THEOREM TablesHaveSchemes == Spec => []SchemeBeforeTable
<1>1. Init => MeetInv
    BY InitMeets
<1>2. MeetInv /\ [Next]_vars => MeetInv'
    BY MeetsHold, MeetsStay
<1>3. MeetInv => SchemeBeforeTable
    BY DEF MeetInv, Meets, SchemeFirst, SchemeBeforeTable
<1> QED
    BY <1>1, <1>2, <1>3, PTL DEF Spec

-----------------------------------------------------------------------------
(* Tables that nobody writes to                                            *)

NoMaking(n) == \A th \in On(n) : pc[th] \notin {"open", "append", "table"}
NoRemoving(n) == \A th \in On(n) : pc[th] # "remove"
OldPages(n) == \A f \in Files : dir[Scheme(n)] = f \/ dir[Data(n)] = f => OldCopies(f)
SameFiles(n) == dir'[Scheme(n)] = dir[Scheme(n)] /\ dir'[Data(n)] = dir[Data(n)]

LEMMA FileFacts ==
    ASSUME TInv, NEW n \in Names
    PROVE  /\ dir[Scheme(n)] \in Files \cup {None} /\ dir[Data(n)] \in Files \cup {None}
           /\ dir[Scheme(n)] # None => dir[Scheme(n)][1] = Scheme(n)
           /\ dir[Data(n)] # None => dir[Data(n)][1] = Data(n)
BY PathFacts DEF TInv, StoreFits, Dirs

LEMMA BeginsFacts == \A cols \in Seq(Columns) : Begins(<<>>, cols)
BY DEF Begins

LEMMA TableKept ==
    ASSUME TInv, NEW n \in Names, TableFits(n), SameFiles(n), OldPages(n),
           made'[n] = made[n], spoiled[n] \subseteq spoiled'[n],
           NoMaking(n)' => NoMaking(n), NoRemoving(n)' => NoRemoving(n)
    PROVE  TableFits(n)'
<1>1. CASE made[n] = None
    <2>1. spoiled'[n] = {} => spoiled[n] = {}
        OBVIOUS
    <2> QED
        BY <1>1, <2>1 DEF TableFits, SameFiles, NoMaking
<1>2. CASE made[n] # None
    <2>1. \A f \in Files : dir'[Scheme(n)] = f \/ dir'[Data(n)] = f => OldCopies(f)
        BY DEF OldPages, SameFiles
    <2>2. SchemePages(n, made[n].cols)'
        BY <1>2, <2>1 DEF TableFits, SameFiles, SchemePages, OldCopies
    <2>3. DataPages(n, made[n])'
        BY <1>2, <2>1 DEF TableFits, SameFiles, DataPages, OldCopies
    <2>4. PageThere(n) => PageThere(n)'
        BY <2>1 DEF SameFiles, PageThere, OldCopies
    <2>5. \A f \in Files : dir'[Scheme(n)] = f => disk'[f] # None
        BY <1>2, <2>1 DEF TableFits, SameFiles, OldCopies
    <2> QED
        BY <1>2, <2>2, <2>3, <2>4, <2>5 DEF TableFits, SameFiles, NoRemoving
<1> QED
    BY <1>1, <1>2

\* What a reader of a table needs of it.
LEMMA ReaderKept ==
    ASSUME TInv, NEW n \in Names, SameFiles(n), NEW x \in Threads,
           op'[x] = op[x], pc'[x] = pc[x],
           (made[n] = None /\ made'[n] = None)
               \/ (made[n] # None /\ made'[n] # None /\ made'[n].cols = made[n].cols),
           spoiled[n] \subseteq spoiled'[n],
           \/ OldPages(n)
           \/ op[x].data # None /\ "raced" \notin spoiled'[n] => op[x].data.size # 0,
           ReaderFits(x, n)
    PROVE  ReaderFits(x, n)'
<1>1. CASE made[n] = None
    BY <1>1 DEF ReaderFits
<1>2. CASE made[n] # None
    <2>1. \A f \in Files : dir[Data(n)] = f /\ OldPages(n) /\ disk[f] = None => disk'[f] = None
        BY DEF OldPages, OldCopies
    <2>2. op[x].data # None => op[x].data.file \in Files
        BY DEF TInv, ThreadsTyped, Ops, Handle
    <2> PICK f : f = op[x].data.file
        OBVIOUS
    <2>3. op[x].data # None => f = dir[Data(n)]
        BY <1>2 DEF ReaderFits
    <2>4. op[x].data # None /\ op[x].data.size = 0 /\ "raced" \notin spoiled'[n] => disk'[f] = None
        BY <1>2, <2>1, <2>2, <2>3 DEF ReaderFits
    <2> QED
        BY <1>2, <2>4 DEF ReaderFits, SameFiles
<1> QED
    BY <1>1, <1>2

LEMMA CreatorKept ==
    ASSUME TInv, NEW th, NEW x \in Threads, x # th, NEW n \in Names, SameFiles(n),
           op'[x] = op[x], pc'[x] = pc[x],
           \A f \in Files : dir[Scheme(n)] = f => OldCopies(f) /\ Keeps(f, th),
           CreatorFits(x, n)
    PROVE  CreatorFits(x, n)'
<1>1. pc[x] = "open" => \A f \in Files : dir'[Scheme(n)] = f => Fresh(f)'
    BY FreshKept DEF CreatorFits, SameFiles
<1>2. pc[x] = "append" =>
        /\ dir'[Scheme(n)] = op[x].scheme.file
        /\ op[x].scheme.size = 0 <=> op[x].at = 0
        /\ IF op[x].at = 0 THEN Fresh(op[x].scheme.file)'
           ELSE Saved(x, op[x].scheme.file, op[x].cols, op[x].at)'
    <2> SUFFICES ASSUME pc[x] = "append"
                 PROVE  /\ dir'[Scheme(n)] = op[x].scheme.file
                        /\ op[x].scheme.size = 0 <=> op[x].at = 0
                        /\ IF op[x].at = 0 THEN Fresh(op[x].scheme.file)'
                           ELSE Saved(x, op[x].scheme.file, op[x].cols, op[x].at)'
        OBVIOUS
    <2>1. op[x].scheme.file \in Files
        BY DEF TInv, OpFits, ThreadsTyped, Ops, Handle
    <2>2. dir[Scheme(n)] = op[x].scheme.file
        BY DEF CreatorFits
    <2> PICK f \in Files : f = op[x].scheme.file
        BY <2>1
    <2>3. OldCopies(f) /\ Keeps(f, th)
        BY <2>2
    <2>4. op[x].at = 0 => Fresh(f)'
        BY <2>3, FreshKept DEF CreatorFits
    <2> PICK cols, k : cols = op[x].cols /\ k = op[x].at
        OBVIOUS
    <2>5. op[x].at # 0 => Saved(x, f, cols, k)
        BY DEF CreatorFits
    <2>6. op[x].at # 0 => Saved(x, f, cols, k)'
        BY <2>3, <2>5, SavedKept
    <2>7. f' = f /\ cols' = cols /\ k' = k
        OBVIOUS
    <2> QED
        BY <2>2, <2>4, <2>6 DEF CreatorFits, SameFiles
<1>3. pc[x] = "table" => /\ SchemePages(n, op[x].cols)'
                         /\ \A f \in Files : dir'[Scheme(n)] = f => disk'[f] # None
    BY DEF CreatorFits, SameFiles, SchemePages, OldCopies
<1> QED
    BY <1>1, <1>2, <1>3 DEF CreatorFits, SameFiles

\* Another table.
Untouched(m, th) ==
    /\ SameFiles(m) /\ made'[m] = made[m] /\ spoiled'[m] = spoiled[m] /\ On(m)' = On(m)
    /\ \A x \in On(m) : x # th /\ op'[x] = op[x] /\ pc'[x] = pc[x]
    /\ \A f \in Files : dir[Scheme(m)] = f \/ dir[Data(m)] = f => OldCopies(f) /\ Keeps(f, th)

LEMMA UntouchedFits ==
    ASSUME TInv, NEW m \in Names, NEW th, Untouched(m, th), NameFits(m), Meets(m)'
    PROVE  NameFits(m)'
<1>1. OldPages(m)
    BY DEF Untouched, OldPages
<1>2. (NoMaking(m)' => NoMaking(m)) /\ (NoRemoving(m)' => NoRemoving(m))
    BY DEF Untouched, NoMaking, NoRemoving
<1>3. Clean(m)' = Clean(m)
    BY DEF Untouched, Clean
<1>4. Clean(m) => TableFits(m)'
    BY <1>1, <1>2, TableKept DEF Untouched, NameFits
<1>5. ASSUME Clean(m), NEW x \in On(m) PROVE WorkerFits(x, m)'
    <2>1. x \in Threads /\ x # th /\ op'[x] = op[x] /\ pc'[x] = pc[x]
        BY <1>5 DEF Untouched, On
    <2>2. WorkerFits(x, m)
        BY <1>5 DEF NameFits
    <2>3. pc[x] \in Reading => ReaderFits(x, m)'
        BY <1>1, <2>1, <2>2, ReaderKept DEF WorkerFits, Untouched
    <2>4. pc[x] \in Creating => CreatorFits(x, m)'
        BY <2>1, <2>2, CreatorKept DEF WorkerFits, Untouched
    <2> QED
        BY <2>1, <2>2, <2>3, <2>4 DEF WorkerFits, Untouched
<1> QED
    BY <1>3, <1>4, <1>5 DEF NameFits, Untouched

LEMMA OtherFits ==
    ASSUME NEW th \in Threads, NEW n \in Names, NEW fs, Works(th, n, fs),
           NEW m \in Names, m # n, NameFits(m)
    PROVE  NameFits(m)'
<1>1. Untouched(m, th)
    <2>1. /\ On(m)' = On(m) /\ th \notin On(m) /\ On(m) \subseteq Threads
          /\ \A x \in On(m) : op'[x] = op[x] /\ pc'[x] = pc[x]
        BY OnAfter DEF On
    <2>2. \A f \in Files : dir[Scheme(m)] = f \/ dir[Data(m)] = f => OldCopies(f) /\ Keeps(f, th)
        BY OtherFiles
    <2> QED
        BY <2>1, <2>2 DEF Untouched, Works, SameFiles
<1>2. Meets(m)'
    BY OtherMeets DEF NameFits
<1> QED
    BY <1>1, <1>2, UntouchedFits DEF Works

\* A create or a drop that met nobody is the only one on its table.
LEMMA OnlyOne ==
    ASSUME TInv, NEW n \in Names, Meets(n), Clean(n), NEW x \in On(n), Rewriting(x)
    PROVE  On(n) = {x} /\ op[x].alone
<1>1. op[x].alone \in BOOLEAN
    BY DEF TInv, ThreadsTyped, Ops, On
<1> QED
    BY <1>1 DEF Meets, Alone, NotAlone, Clean

-----------------------------------------------------------------------------
(* Steps that only read                                                    *)

LEMMA Looks ==
    ASSUME TInv, NEW th \in Threads, pc[th] # "hung", NEW h \in Handles(th), h.size # 0,
           NEW by \in {th, None}, Access(th, h.file, disk, <<>>, by)
    PROVE  OldCopies(h.file) /\ Page(th, h.file, disk) \in Copies(h.file)
<1>1. Goes(th, h.file, disk) /\ h.file \in Files
    BY ReaderGoes
<1> PICK f \in Files : f = h.file
    BY <1>1
<1>2. <<>> \in PageOf(f)
    BY PageFacts
<1>3. PICK i \in Frames, page \in PageOf(f) :
         page = Page(th, f, disk) /\ Loads(i, th, f, disk, page, <<>>, by)
    BY <1>1, <1>2, AccessLoads DEF TInv
<1> QED
    BY <1>1, <1>3, LooksCopies DEF TInv

LEMMA OldFromTouches ==
    ASSUME TInv, NEW th, NEW n \in Names, NEW fs, Touches(th, fs), SameFiles(n),
           \A f \in fs : OldCopies(f)
    PROVE  OldPages(n)
<1> SUFFICES ASSUME NEW f \in Files, dir[Scheme(n)] = f \/ dir[Data(n)] = f
             PROVE  OldCopies(f)
    BY DEF OldPages
<1>1. dir'[f[1]] = f
    BY FileFacts, NoneFacts DEF SameFiles
<1>2. InUse(f)'
    BY <1>1, ReachedInUse
<1> QED
    BY <1>2 DEF Touches

LEMMA ReaderStep ==
    ASSUME NEW th \in Threads, NEW n \in Names, NEW fs, Works(th, n, fs),
           NameFits(n), Meets(n)', op[th].do \in {"insert", "select"},
           SameFiles(n), OldPages(n), made'[n] = made[n], spoiled[n] \subseteq spoiled'[n],
           Clean(n) /\ TableFits(n) /\ WorkerFits(th, n) /\ th \in On(n)' => ReaderFits(th, n)'
    PROVE  NameFits(n)'
<1> SUFFICES ASSUME Clean(n)'
             PROVE  TableFits(n)' /\ \A x \in On(n)' : WorkerFits(x, n)'
    BY DEF NameFits
<1>1. Clean(n)
    BY DEF Clean
<1>2. TableFits(n) /\ \A x \in On(n) : WorkerFits(x, n)
    BY <1>1 DEF NameFits
<1>3. /\ \A x : x # th => (x \in On(n)' <=> x \in On(n))
      /\ th \in On(n) /\ On(n) \subseteq Threads /\ On(n)' \subseteq On(n)
      /\ \A x \in Threads : x # th => op'[x] = op[x] /\ pc'[x] = pc[x]
      /\ th \in On(n)' => op'[th].do = op[th].do
    BY OnAfter DEF On, Works
<1>4. \A x \in On(n) : ~Rewriting(x)
    <2> SUFFICES ASSUME NEW x \in On(n), Rewriting(x) PROVE FALSE
        OBVIOUS
    <2>1. On(n) = {x}
        BY <1>1, OnlyOne DEF Works, NameFits
    <2> QED
        BY <1>3, <2>1 DEF Rewriting
<1>5. \A x \in On(n) : pc[x] \notin Creating /\ pc[x] \notin Dropping
    BY <1>3, <1>4 DEF Works, TInv, OpFits, Rewriting
<1>6. th \in On(n)' => pc'[th] \notin Creating /\ pc'[th] \notin Dropping
    BY <1>3 DEF Works, TInv, OpFits
<1>7. NoMaking(n) /\ NoRemoving(n)
    BY <1>5 DEF NoMaking, NoRemoving, Creating, Dropping
<1>8. TableFits(n)'
    BY <1>2, <1>7, TableKept DEF Works
<1>9. ASSUME NEW x \in On(n)', x # th PROVE WorkerFits(x, n)'
    <2>1. x \in On(n) /\ x \in Threads /\ op'[x] = op[x] /\ pc'[x] = pc[x]
        BY <1>3, <1>9
    <2>2. pc[x] \notin Creating /\ WorkerFits(x, n)
        BY <1>2, <1>5, <2>1
    <2>3. (made[n] = None /\ made'[n] = None)
               \/ (made[n] # None /\ made'[n] # None /\ made'[n].cols = made[n].cols)
        OBVIOUS
    <2>4. ReaderFits(x, n) => ReaderFits(x, n)'
        BY <2>1, <2>3, ReaderKept DEF Works
    <2> QED
        BY <2>1, <2>2, <2>4 DEF WorkerFits
<1>10. th \in On(n)' => WorkerFits(th, n)'
    BY <1>1, <1>2, <1>3, <1>6 DEF WorkerFits
<1> QED
    BY <1>8, <1>9, <1>10

LEMMA EndsReading ==
    ASSUME NEW th \in Threads, NEW n \in Names, NEW fs, Works(th, n, fs), Touches(th, {}),
           NameFits(n), Meets(n)', op[th].do \in {"insert", "select"},
           UNCHANGED dir, made'[n] = made[n], spoiled[n] \subseteq spoiled'[n],
           pc'[th] = "idle"
    PROVE  NameFits(n)'
<1>1. SameFiles(n) /\ OldPages(n)
    BY OldFromTouches DEF SameFiles, Works
<1>2. th \notin On(n)'
    BY OnFacts
<1> QED
    BY <1>1, <1>2, ReaderStep

LEMMA NoMakingHere ==
    ASSUME TInv, NEW n \in Names, Meets(n), Clean(n), NEW th \in On(n),
           op[th].do \in {"insert", "select"}
    PROVE  NoMaking(n)
<1> SUFFICES ASSUME NEW x \in On(n), pc[x] \in {"open", "append", "table"} PROVE FALSE
    BY DEF NoMaking
<1>1. op[x].do = "create"
    BY DEF On, TInv, OpFits, Creating
<1>2. On(n) = {x}
    BY <1>1, OnlyOne DEF Rewriting
<1> QED
    BY <1>1, <1>2

LEMMA FindSchemeFits ==
    ASSUME NEW th \in Threads, NEW n \in Names, NEW fs, Works(th, n, fs), n = op[th].name,
           NameFits(n), Meets(n)', FindScheme(th), ~Dies
    PROVE  NameFits(n)'
<1>1. /\ pc[th] = "find" /\ dir[Scheme(n)] # None
      /\ op' = [op EXCEPT ![th].cols = <<>>] /\ pc' = [pc EXCEPT ![th] = "look"]
      /\ UNCHANGED <<dir, disk, frames, made, spoiled>>
    BY DEF FindScheme, Goto
<1>2. TInv /\ op[th].do \in {"insert", "select"} /\ pc'[th] = "look"
    BY <1>1 DEF Works, TInv, OpFits, Reading, Finding, ThreadsTyped
<1>3. SameFiles(n) /\ OldPages(n)
    BY <1>1 DEF SameFiles, OldPages, OldCopies, Copies
<1>4. /\ op'[th].cols = <<>> /\ op'[th].read = op[th].read
      /\ op'[th].scheme = op[th].scheme /\ op'[th].data = op[th].data
    <2>1. op[th] \in Ops /\ op \in [Threads -> Ops] /\ <<>> \in Seq(Columns)
        BY <1>2 DEF TInv, ThreadsTyped
    <2> PICK r \in Ops : r = op[th]
        BY <2>1
    <2>2. op'[th] = [r EXCEPT !.cols = <<>>]
        BY <1>1, <2>1
    <2> QED
        BY <2>1, <2>2, ColsUpdate
<1>5. ASSUME Clean(n), TableFits(n), ReaderFits(th, n) PROVE ReaderFits(th, n)'
    <2>1. CASE made[n] = None
        <3>1. NoMaking(n)
            BY <1>2, <1>5, NoMakingHere DEF Works, NameFits
        <3>2. spoiled[n] # {}
            BY <1>1, <1>5, <2>1, <3>1 DEF TableFits, NoMaking
        <3> QED
            BY <1>1, <1>4, <1>5, <2>1, <3>2 DEF ReaderFits
    <2>2. CASE made[n] # None
        <3>1. made[n].cols \in Seq(Columns)
            BY <1>2, <2>2 DEF TInv, RestTyped, Tables
        <3>2. Begins(op'[th].cols, made[n].cols)
            BY <1>4, <3>1, BeginsFacts
        <3> QED
            BY <1>1, <1>4, <1>5, <2>2, <3>2 DEF ReaderFits
    <2> QED
        BY <2>1, <2>2
<1>6. pc[th] \in Reading
    BY <1>1 DEF Reading, Finding
<1> QED
    BY <1>1, <1>2, <1>3, <1>5, <1>6, ReaderStep DEF WorkerFits

LEMMA LookSchemeFits ==
    ASSUME NEW th \in Threads, NEW n \in Names, NEW fs, Works(th, n, fs), n = op[th].name,
           NameFits(n), Meets(n)', LookScheme(th)
    PROVE  NameFits(n)'
<1>1. pc[th] = "look"
    BY DEF LookScheme
<1>2. TInv /\ op[th].do \in {"insert", "select"} /\ op[th] \in Ops /\ op \in [Threads -> Ops]
    BY <1>1 DEF Works, TInv, OpFits, Reading, Finding, ThreadsTyped
<1>3. CASE Throws(th)
    BY <1>1, <1>2, <1>3, ThrowsKeeps, ThrowsGoes, EndsReading
<1>4. CASE ~Throws(th)
    <2>1. /\ dir[Scheme(n)] # None
          /\ op' = [op EXCEPT ![th].scheme = NewHandle(Scheme(n))]
          /\ pc' = [pc EXCEPT ![th] = "read"]
          /\ UNCHANGED <<dir, disk, frames, hand, made, spoiled>>
        BY <1>4 DEF LookScheme, OpensScheme, CanOpen, Goto
    <2> PICK h : h = NewHandle(Scheme(n))
        OBVIOUS
    <2>2. /\ h \in Handle /\ h.file = dir[Scheme(n)] /\ dir[Scheme(n)] \in Files
          /\ h.size = 0 <=> disk[dir[Scheme(n)]] = None
        BY <1>2, <2>1, PathFacts, NewHandleFacts
    <2>3. SameFiles(n) /\ OldPages(n)
        BY <2>1 DEF SameFiles, OldPages, OldCopies, Copies
    <2>4. /\ op'[th].cols = op[th].cols /\ op'[th].read = op[th].read
          /\ op'[th].scheme = h /\ op'[th].data = op[th].data
        <3> PICK r \in Ops : r = op[th]
            BY <1>2
        <3>1. op'[th] = [r EXCEPT !.scheme = h]
            BY <1>2, <2>1
        <3> QED
            BY <2>2, <3>1, SchemeUpdate
    <2>5. ASSUME TableFits(n), ReaderFits(th, n) PROVE ReaderFits(th, n)'
        <3>1. CASE made[n] = None
            BY <1>1, <2>1, <2>4, <2>5, <3>1 DEF ReaderFits
        <3>2. CASE made[n] # None
            <4>1. disk[dir[Scheme(n)]] # None
                BY <2>2, <2>5, <3>2 DEF TableFits
            <4> QED
                BY <2>1, <2>2, <2>4, <2>5, <3>2, <4>1 DEF ReaderFits
        <3> QED
            BY <3>1, <3>2
    <2>6. pc[th] \in Reading
        BY <1>1 DEF Reading, Finding
    <2> QED
        BY <1>2, <2>1, <2>3, <2>5, <2>6, ReaderStep DEF WorkerFits
<1> QED
    BY <1>3, <1>4

LEMMA OpenDataFits ==
    ASSUME NEW th \in Threads, NEW n \in Names, NEW fs, Works(th, n, fs), n = op[th].name,
           NameFits(n), Meets(n)', OpenData(th)
    PROVE  NameFits(n)'
<1>1. pc[th] = "data"
    BY DEF OpenData
<1>2. TInv /\ op[th].do \in {"insert", "select"} /\ op[th] \in Ops /\ op \in [Threads -> Ops]
    BY <1>1 DEF Works, TInv, OpFits, Reading, Finding, ThreadsTyped
<1>3. CASE Throws(th)
    BY <1>1, <1>2, <1>3, ThrowsKeeps, ThrowsGoes, EndsReading
<1>4. CASE ~Throws(th)
    <2>1. /\ dir[Data(n)] # None
          /\ op' = [op EXCEPT ![th].data = NewHandle(Data(n))]
          /\ UNCHANGED <<dir, disk, frames, hand, made, spoiled>>
        BY <1>4 DEF OpenData, CanOpen
    <2> PICK h : h = NewHandle(Data(n))
        OBVIOUS
    <2>2. /\ h \in Handle /\ h.file = dir[Data(n)] /\ dir[Data(n)] \in Files
          /\ h.size = 0 <=> disk[dir[Data(n)]] = None
        BY <1>2, <2>1, PathFacts, NewHandleFacts
    <2>3. SameFiles(n) /\ OldPages(n)
        BY <2>1 DEF SameFiles, OldPages, OldCopies, Copies
    <2>4. /\ op'[th].cols = op[th].cols /\ op'[th].read = op[th].read
          /\ op'[th].data = h /\ op'[th].scheme = op[th].scheme
        <3> PICK r \in Ops : r = op[th]
            BY <1>2
        <3>1. op'[th] = [r EXCEPT !.data = h]
            BY <1>2, <2>1
        <3> QED
            BY <2>2, <3>1, DataUpdate
    <2>5. ASSUME TableFits(n), ReaderFits(th, n) PROVE ReaderFits(th, n)'
        <3>1. made[n] # None
            BY <2>1, <2>5 DEF TableFits
        <3> QED
            BY <2>1, <2>2, <2>4, <2>5, <3>1 DEF ReaderFits
    <2>6. pc[th] \in Reading
        BY <1>1 DEF Reading, Finding
    <2> QED
        BY <1>2, <2>1, <2>3, <2>5, <2>6, ReaderStep DEF WorkerFits
<1> QED
    BY <1>3, <1>4


LEMMA AppendBegins ==
    ASSUME NEW cols \in Seq(Columns), NEW page \in Seq(Columns), NEW all \in Seq(Columns),
           Begins(cols, all), Begins(page, all), Len(cols) + 1 \in DOMAIN page
    PROVE  Begins(Append(cols, page[Len(cols) + 1]), all)
<1> PICK new : new = Append(cols, page[Len(cols) + 1])
    OBVIOUS
<1>1. Len(cols) \in Nat /\ Len(page) \in Nat /\ Len(all) \in Nat
    OBVIOUS
<1>2. /\ Len(new) = Len(cols) + 1 /\ new[Len(cols) + 1] = page[Len(cols) + 1]
      /\ \A i \in 1 .. Len(cols) : new[i] = cols[i]
    OBVIOUS
<1>3. Len(cols) + 1 \in 1 .. Len(page) /\ page[Len(cols) + 1] = all[Len(cols) + 1]
    BY DEF Begins
<1>4. Len(new) <= Len(all)
    BY <1>1, <1>2, <1>3 DEF Begins
<1>5. ASSUME NEW i \in 1 .. Len(new) PROVE new[i] = all[i]
    <2>1. i = Len(cols) + 1 \/ i \in 1 .. Len(cols)
        BY <1>1, <1>2
    <2> QED
        BY <1>2, <1>3, <2>1 DEF Begins
<1> QED
    BY <1>4, <1>5 DEF Begins

LEMMA HangsFits ==
    ASSUME NEW th \in Threads, NEW n \in Names, NEW fs, Works(th, n, fs), n = op[th].name,
           NameFits(n), Meets(n)', pc[th] \in {"read", "scan"}, NEW h \in Handles(th), Hangs(th, h)
    PROVE  NameFits(n)'
<1>1. TInv /\ op[th].do \in {"insert", "select"}
    BY DEF Works, TInv, OpFits, Reading, Finding
<1>2. UNCHANGED <<dir, op, made, spoiled>> /\ pc'[th] = "hung"
    BY <1>1 DEF Hangs, Goto, TInv, ThreadsTyped
<1>3. \A g \in Files : InUse(g)' => OldCopies(g)
    BY <1>1, HangsTypes
<1>4. SameFiles(n) /\ OldPages(n)
    <2>1. SameFiles(n)
        BY <1>2 DEF SameFiles
    <2>2. ASSUME NEW f \in Files, dir[Scheme(n)] = f \/ dir[Data(n)] = f
          PROVE  OldCopies(f)
        <3>1. dir'[f[1]] = f
            BY <1>1, <1>2, <2>2, FileFacts, NoneFacts
        <3> QED
            BY <1>3, <3>1, ReachedInUse
    <2> QED
        BY <2>1, <2>2 DEF OldPages
<1>5. th \notin On(n)'
    BY <1>2, OnFacts
<1> QED
    BY <1>1, <1>2, <1>4, <1>5, ReaderStep

LEMMA ReadColumnFits ==
    ASSUME NEW th \in Threads, NEW n \in Names, NEW fs, Works(th, n, fs), n = op[th].name,
           NameFits(n), Meets(n)', ReadColumn(th)
    PROVE  NameFits(n)'
<1>1. pc[th] = "read"
    BY DEF ReadColumn
<1>2. /\ TInv /\ op[th].do \in {"insert", "select"} /\ op[th] \in Ops /\ op \in [Threads -> Ops]
      /\ op[th].scheme # None
    BY <1>1 DEF Works, TInv, OpFits, Reading, Finding, ThreadsTyped
<1> PICK r \in Ops : r = op[th]
    BY <1>2
<1> PICK h : h = r.scheme
    OBVIOUS
<1>3. h \in Handles(th) /\ h \in Handle /\ h.file \in Files
    BY <1>2 DEF Handles, Ops, Handle
<1>4. CASE Hangs(th, h)
    BY <1>1, <1>3, <1>4, HangsFits
<1>5. CASE ~Hangs(th, h)
    <2> PICK page : page = Page(th, h.file, disk)
        OBVIOUS
    <2>1. /\ h.size # 0 /\ Len(r.cols) + 1 \in DOMAIN page
          /\ op' = [op EXCEPT ![th].cols = Append(@, page[Len(r.cols) + 1])]
          /\ UNCHANGED <<dir, pc, made, spoiled>>
          /\ Access(th, h.file, disk, <<>>, th)
        BY <1>5 DEF ReadColumn
    <2>2. OldCopies(h.file) /\ page \in Copies(h.file)
        BY <1>1, <1>2, <1>3, <2>1, Looks
    <2>3. Touches(th, {h.file}) /\ SameFiles(n)
        BY <1>2, <2>1, ReadColumnTypes DEF SameFiles
    <2>4. OldPages(n)
        BY <1>2, <2>2, <2>3, OldFromTouches
    <2>5. h.file[1] = Scheme(n) /\ page \in Seq(Columns)
        <3>1. h.file[1] = Scheme(n)
            BY <1>2 DEF TInv, OpFits
        <3>2. page \in PageOf(h.file)
            BY <1>2, <1>3, <2>2, CopiesTyped DEF TInv
        <3> QED
            BY <1>3, <3>1, <3>2, PageFacts DEF SchemePage
    <2> PICK c : c = Append(r.cols, page[Len(r.cols) + 1])
        OBVIOUS
    <2>6. c \in Seq(Columns)
        <3>1. r.cols \in Seq(Columns)
            BY DEF Ops
        <3>2. page[Len(r.cols) + 1] \in Columns
            BY <2>1, <2>5
        <3> QED
            BY <3>1, <3>2
    <2>7. /\ op'[th].cols = c /\ op'[th].read = r.read
          /\ op'[th].scheme = h /\ op'[th].data = r.data
        <3>1. op'[th] = [r EXCEPT !.cols = c]
            BY <1>2, <2>1
        <3> QED
            BY <2>6, <3>1, ColsUpdate
    <2>8. ASSUME TableFits(n), ReaderFits(th, n) PROVE ReaderFits(th, n)'
        <3>1. CASE made[n] = None
            BY <1>1, <2>1, <2>7, <2>8, <3>1 DEF ReaderFits
        <3>2. CASE made[n] # None
            <4>1. made[n].cols \in Seq(Columns) /\ r.cols \in Seq(Columns)
                BY <1>2, <3>2 DEF TInv, RestTyped, Tables, Ops
            <4>2. Begins(r.cols, made[n].cols) /\ Begins(r.read, made[n].cols)
                BY <2>8, <3>2 DEF ReaderFits
            <4>3. dir[Scheme(n)] = h.file
                BY <1>2, <2>8, <3>2 DEF ReaderFits
            <4>4. Begins(page, made[n].cols)
                BY <1>3, <2>2, <2>8, <3>2, <4>3 DEF TableFits, SchemePages
            <4>5. Begins(c, made[n].cols)
                BY <2>1, <2>5, <4>1, <4>2, <4>4, AppendBegins
            <4>6. r.data # None =>
                     /\ r.data.file = dir[Data(n)]
                     /\ r.data.size = 0 /\ "raced" \notin spoiled[n] => disk'[r.data.file] = None
                <5>1. r.data # None =>
                        /\ r.data.file \in Files
                        /\ r.data.file = dir[Data(n)]
                        /\ r.data.size = 0 /\ "raced" \notin spoiled[n] => disk[r.data.file] = None
                    BY <2>8, <3>2 DEF ReaderFits, Ops, Handle
                <5> PICK f : f = r.data.file
                    OBVIOUS
                <5>2. r.data # None => OldCopies(f)
                    BY <2>4, <5>1 DEF OldPages
                <5> QED
                    BY <5>1, <5>2 DEF OldCopies
            <4> QED
                BY <2>1, <2>7, <3>2, <4>2, <4>3, <4>5, <4>6 DEF ReaderFits
        <3> QED
            BY <3>1, <3>2
    <2>9. pc[th] \in Reading
        BY <1>1 DEF Reading, Finding
    <2> QED
        BY <1>2, <2>1, <2>3, <2>4, <2>8, <2>9, ReaderStep DEF WorkerFits
<1> QED
    BY <1>4, <1>5

LEMMA CloseSchemeFits ==
    ASSUME NEW th \in Threads, NEW n \in Names, NEW fs, Works(th, n, fs), n = op[th].name,
           NameFits(n), Meets(n)', CloseScheme(th)
    PROVE  NameFits(n)'
<1>1. pc[th] = "read"
    BY DEF CloseScheme
<1>2. /\ TInv /\ op[th].do \in {"insert", "select"} /\ op[th] \in Ops /\ op \in [Threads -> Ops]
      /\ op[th].scheme # None
    BY <1>1 DEF Works, TInv, OpFits, Reading, Finding, ThreadsTyped
<1> PICK r \in Ops : r = op[th]
    BY <1>2
<1> PICK h : h = r.scheme
    OBVIOUS
<1>3. h \in Handles(th) /\ h \in Handle /\ h.file \in Files
    BY <1>2 DEF Handles, Ops, Handle
<1>4. /\ h.size # 0
      /\ op' = [op EXCEPT ![th].scheme = None, ![th].at = r.at + 1,
                   ![th].read = IF r.at + 1 = 1 THEN r.cols ELSE @]
      /\ UNCHANGED <<dir, made, spoiled>>
      /\ Access(th, h.file, disk, <<>>, None)
    BY DEF CloseScheme
<1>5. OldCopies(h.file)
    BY <1>1, <1>2, <1>3, <1>4, Looks
<1>6. Touches(th, {h.file}) /\ SameFiles(n)
    BY <1>2, <1>4, CloseSchemeTypes DEF SameFiles
<1>7. OldPages(n)
    BY <1>2, <1>5, <1>6, OldFromTouches
<1> PICK c : c = IF r.at + 1 = 1 THEN r.cols ELSE r.read
    OBVIOUS
<1>8. c \in Seq(Columns) /\ r.at + 1 \in Nat
    BY DEF Ops
<1>9. /\ op'[th].cols = r.cols /\ op'[th].read = c
      /\ op'[th].scheme = None /\ op'[th].data = r.data
    <2> PICK a : a = r.at + 1
        OBVIOUS
    <2>1. op'[th] = [r EXCEPT !.scheme = None, !.at = a, !.read = c]
        BY <1>2, <1>4
    <2>2. op'[th] = LookedUp(r, a, c)
        BY <2>1 DEF LookedUp
    <2> QED
        BY <1>8, <2>2, LookedUpFacts
<1>10. ASSUME TableFits(n), ReaderFits(th, n) PROVE ReaderFits(th, n)'
    <2>1. CASE made[n] = None
        BY <1>1, <1>4, <1>9, <1>10, <2>1 DEF ReaderFits
    <2>2. CASE made[n] # None
        <3>1. r.data # None =>
                 /\ r.data.file = dir[Data(n)]
                 /\ r.data.size = 0 /\ "raced" \notin spoiled[n] => disk'[r.data.file] = None
            <4>1. r.data # None =>
                    /\ r.data.file \in Files
                    /\ r.data.file = dir[Data(n)]
                    /\ r.data.size = 0 /\ "raced" \notin spoiled[n] => disk[r.data.file] = None
                BY <1>10, <2>2 DEF ReaderFits, Ops, Handle
            <4> PICK f : f = r.data.file
                OBVIOUS
            <4>2. r.data # None => OldCopies(f)
                BY <1>7, <4>1 DEF OldPages
            <4> QED
                BY <4>1, <4>2 DEF OldCopies
        <3>2. Begins(r.cols, made[n].cols) /\ Begins(c, made[n].cols)
            BY <1>10, <2>2 DEF ReaderFits
        <3> QED
            BY <1>4, <1>9, <2>2, <3>1, <3>2 DEF ReaderFits
    <2> QED
        BY <2>1, <2>2
<1>11. pc[th] \in Reading
    BY <1>1 DEF Reading, Finding
<1> QED
    BY <1>2, <1>4, <1>6, <1>7, <1>10, <1>11, ReaderStep DEF WorkerFits

LEMMA ScanRowsFits ==
    ASSUME NEW th \in Threads, NEW n \in Names, NEW fs, Works(th, n, fs), n = op[th].name,
           NameFits(n), Meets(n)', ScanRows(th), ~Dies
    PROVE  NameFits(n)'
<1>1. pc[th] = "scan"
    BY DEF ScanRows
<1>2. /\ TInv /\ op[th].do \in {"insert", "select"} /\ op[th] \in Ops /\ op[th].data # None
    BY <1>1 DEF Works, TInv, OpFits, Reading, Finding, ThreadsTyped
<1> PICK h : h = op[th].data
    OBVIOUS
<1>3. h \in Handles(th) /\ h \in Handle /\ h.file \in Files
    BY <1>2 DEF Handles, Ops, Handle
<1>4. CASE Hangs(th, h)
    BY <1>1, <1>3, <1>4, HangsFits
<1>5. CASE ~Hangs(th, h)
    <2>1. /\ h.size # 0 /\ UNCHANGED <<dir, op, made, spoiled>>
          /\ Access(th, h.file, disk, <<>>, th)
        BY <1>5 DEF ScanRows
    <2>2. OldCopies(h.file)
        BY <1>1, <1>2, <1>3, <2>1, Looks
    <2>3. Touches(th, {h.file}) /\ SameFiles(n)
        BY <1>2, <2>1, ScanRowsTypes DEF SameFiles
    <2>4. OldPages(n)
        BY <1>2, <2>2, <2>3, OldFromTouches
    <2>5. ASSUME TableFits(n), ReaderFits(th, n) PROVE ReaderFits(th, n)'
        <3>1. made[n] # None
            BY <1>2, <2>5 DEF ReaderFits
        <3> QED
            BY <2>1, <2>5, <3>1 DEF ReaderFits
    <2>6. pc[th] \in Reading
        BY <1>1 DEF Reading
    <2> QED
        BY <1>2, <2>1, <2>3, <2>4, <2>5, <2>6, ReaderStep DEF WorkerFits
<1> QED
    BY <1>4, <1>5

LEMMA EndScanFits ==
    ASSUME NEW th \in Threads, NEW n \in Names, NEW fs, Works(th, n, fs), n = op[th].name,
           NameFits(n), Meets(n)', EndScan(th)
    PROVE  NameFits(n)'
<1>1. pc[th] = "end" /\ End(th) /\ UNCHANGED <<dir, made, spoiled>>
    BY DEF EndScan
<1>2. TInv /\ op[th].do \in {"insert", "select"} /\ pc'[th] = "idle"
    BY <1>1, EndFacts DEF Works, TInv, OpFits, Reading, Finding
<1> QED
    BY <1>1, <1>2, EndScanTypes, EndsReading

-----------------------------------------------------------------------------
(* A row is added                                                          *)

LEMMA AddedFacts ==
    ASSUME NEW t \in Tables, NEW u \in Tables, u.cols = t.cols, u.rows = t.rows + 1,
           NEW page \in DataPage, AddedTo(page, t),
           NEW row \in [row : Nat, read : Seq(Columns), written : Seq(Columns)],
           row.row = t.rows + 1, Begins(row.read, t.cols), Begins(row.written, t.cols)
    PROVE  AddedTo(page, u) /\ AddedTo(page \o <<row>>, u)
<1>1. t.rows \in Nat /\ u.rows = t.rows + 1 /\ Len(page) \in Nat
    BY DEF Tables, DataPage
<1>2. /\ \A i, j \in DOMAIN page : i < j => page[i].row < page[j].row
      /\ \A i \in DOMAIN page : /\ page[i].row \in 1 .. t.rows
                                /\ Begins(page[i].read, t.cols)
                                /\ Begins(page[i].written, t.cols)
    BY DEF AddedTo
<1>3. DOMAIN page = 1 .. Len(page)
    BY DEF DataPage
<1>4. \A i \in DOMAIN page : page[i].row \in 1 .. u.rows
    BY <1>1, <1>2
<1>5. AddedTo(page, u)
    BY <1>2, <1>4 DEF AddedTo
<1> PICK new : new = page \o <<row>>
    OBVIOUS
<1>6. /\ DOMAIN new = 1 .. Len(page) + 1
      /\ \A i \in 1 .. Len(page) : new[i] = page[i]
      /\ new[Len(page) + 1] = row
    BY DEF DataPage
<1>7. \A i \in DOMAIN new : i = Len(page) + 1 \/ i \in DOMAIN page
    BY <1>1, <1>3, <1>6
<1>8. \A i \in DOMAIN new : /\ new[i].row \in 1 .. u.rows
                            /\ Begins(new[i].read, u.cols)
                            /\ Begins(new[i].written, u.cols)
    <2> SUFFICES ASSUME NEW i \in DOMAIN new
                 PROVE  /\ new[i].row \in 1 .. u.rows
                        /\ Begins(new[i].read, u.cols) /\ Begins(new[i].written, u.cols)
        OBVIOUS
    <2>1. CASE i = Len(page) + 1
        BY <1>1, <1>6, <2>1
    <2>2. CASE i \in DOMAIN page
        BY <1>2, <1>3, <1>4, <1>6, <2>2
    <2> QED
        BY <1>7, <2>1, <2>2
<1>9. \A i, j \in DOMAIN new : i < j => new[i].row < new[j].row
    <2> SUFFICES ASSUME NEW i \in DOMAIN new, NEW j \in DOMAIN new, i < j
                 PROVE  new[i].row < new[j].row
        OBVIOUS
    <2>1. i \in DOMAIN page /\ new[i] = page[i]
        BY <1>1, <1>3, <1>6, <1>7
    <2>2. CASE j = Len(page) + 1
        BY <1>1, <1>2, <1>6, <2>1, <2>2
    <2>3. CASE j \in DOMAIN page
        BY <1>2, <1>3, <1>6, <2>1, <2>3
    <2> QED
        BY <1>7, <2>2, <2>3
<1> QED
    BY <1>5, <1>8, <1>9 DEF AddedTo

LEMMA AddedEmpty == \A t : AddedTo(<<>>, t)
BY DEF AddedTo

\* What comes on the pages of a table when th writes to it.
LEMMA PutPages ==
    ASSUME TInv, NEW th \in Threads, NEW f \in Files, NEW d, Goes(th, f, d),
           NEW added \in PageOf(f), NEW by \in {th, None}, Access(th, f, d, added, by)
    PROVE  \E page \in PageOf(f) :
              /\ page \in Copies(f) \/ page = <<>>
              /\ \A p \in Copies(f)' : p \in Copies(f) \/ p = <<>> \/ p = page \o added
              /\ disk'[f] # None
<1>1. PICK i \in Frames, page \in PageOf(f) :
         page = Page(th, f, d) /\ Loads(i, th, f, d, page, added, by)
    BY AccessLoads DEF TInv
<1> QED
    BY <1>1, LoadsCopies DEF TInv, Zeros

LEMMA InsertTable ==
    ASSUME NEW th \in Threads, NEW n \in Names, NEW fs, Works(th, n, fs),
           NameFits(n), Clean(n), pc[th] = "insert", made[n] # None,
           SameFiles(n), NEW f \in Files, f = dir[Data(n)], Touches(th, {f}),
           NEW t \in Tables, t = made'[n],
           SchemePages(n, t.cols), \A p \in Copies(f)' : AddedTo(p, t), disk'[f] # None
    PROVE  TableFits(n)'
<1>1. TInv /\ TableFits(n)
    BY DEF Works, NameFits
<1>2. \A g \in Files : dir[Scheme(n)] = g => OldCopies(g)
    <2> SUFFICES ASSUME NEW g \in Files, dir[Scheme(n)] = g PROVE OldCopies(g)
        OBVIOUS
    <2>1. g[1] = Scheme(n) /\ f[1] = Data(n)
        BY <1>1, FileFacts, NoneFacts
    <2>2. InUse(g)'
        BY <2>1, ReachedInUse DEF SameFiles
    <2> QED
        BY <2>1, <2>2, PathFacts DEF Touches
<1>3. SchemePages(n, t.cols)'
    BY <1>2 DEF SchemePages, SameFiles, OldCopies
<1>4. DataPages(n, t)' /\ PageThere(n)'
    BY DEF DataPages, PageThere, SameFiles
<1>5. \A g \in Files : dir'[Scheme(n)] = g => disk'[g] # None
    BY <1>1, <1>2 DEF TableFits, SameFiles, OldCopies
<1>6. dir'[Data(n)] # None /\ dir'[Scheme(n)] # None
    <2>1. dir[Data(n)] # None
        BY NoneFacts
    <2>2. dir[Scheme(n)] # None
        <3> SUFFICES ASSUME NEW x \in On(n), pc[x] = "remove" PROVE FALSE
            BY <1>1 DEF TableFits
        <3>1. op[x].do = "drop"
            BY <1>1 DEF TInv, OpFits, On, Dropping
        <3>2. On(n) = {x}
            BY <1>1, <3>1, OnlyOne DEF NameFits, Rewriting
        <3> QED
            BY <3>2 DEF Works
    <2> QED
        BY <2>1, <2>2 DEF SameFiles
<1>7. made'[n] # None
    BY NoneFacts
<1>8. SchemePages(n, made[n].cols)' /\ DataPages(n, made[n])'
    BY <1>3, <1>4
<1> QED
    BY <1>4, <1>5, <1>6, <1>7, <1>8 DEF TableFits

LEMMA InsertFits ==
    ASSUME NEW th \in Threads, NEW n \in Names, NEW fs, Works(th, n, fs), n = op[th].name,
           NameFits(n), Meets(n)', Insert(th), ~Dies
    PROVE  NameFits(n)'
<1>1. pc[th] = "insert" /\ UNCHANGED <<dir, spoiled>> /\ End(th)
    BY DEF Insert
<1>2. /\ TInv /\ op[th].do = "insert" /\ op[th] \in Ops /\ op[th].data # None
      /\ pc'[th] = "idle"
    BY <1>1, EndFacts DEF Works, TInv, OpFits, ThreadsTyped
<1> SUFFICES ASSUME Clean(n)
             PROVE  TableFits(n)' /\ \A x \in On(n)' : WorkerFits(x, n)'
    BY <1>1 DEF NameFits, Clean
<1> PICK h : h = op[th].data
    OBVIOUS
<1>3. /\ h \in Handle /\ h.file \in Files /\ h.file[1] = Data(n)
      /\ <<RowOf(th, n)>> \in PageOf(h.file) /\ <<>> \in PageOf(h.file)
      /\ Goes(th, h.file, PutDisk(h))
      /\ \/ /\ made' = [made EXCEPT ![n] = WithRow(@)]
            /\ Access(th, h.file, PutDisk(h), <<RowOf(th, n)>>, None)
         \/ /\ made' = made
            /\ Access(th, h.file, PutDisk(h), <<>>, None)
    BY <1>2, InsertFacts
<1> PICK f \in Files : f = h.file
    BY <1>3
<1>4. Touches(th, {f}) /\ SameFiles(n)
    BY <1>1, <1>2, InsertTypes DEF SameFiles
<1>5. /\ TableFits(n) /\ ReaderFits(th, n)
      /\ \A x \in On(n) : WorkerFits(x, n)
    BY <1>1 DEF NameFits, WorkerFits, Reading, Works
<1>6. made[n] # None /\ dir[Data(n)] = f
    BY <1>2, <1>5 DEF ReaderFits
<1> PICK t \in Tables : t = made[n]
    BY <1>2, <1>6 DEF TInv, RestTyped
<1>7. /\ Begins(op[th].cols, t.cols) /\ Begins(op[th].read, t.cols)
      /\ \A p \in Copies(f) : AddedTo(p, t)
      /\ SchemePages(n, t.cols)
    BY <1>5, <1>6 DEF ReaderFits, TableFits, DataPages
<1>8. PageOf(f) = DataPage
    BY <1>3, PageFacts
<1> PICK u : u = made'[n]
    OBVIOUS
<1>9. u \in Tables /\ u.cols = t.cols /\ disk'[f] # None /\ \A p \in Copies(f)' : AddedTo(p, u)
    <2>1. CASE /\ made' = [made EXCEPT ![n] = WithRow(@)]
               /\ Access(th, f, PutDisk(h), <<RowOf(th, n)>>, None)
        <3> PICK row : row = RowOf(th, n)
            OBVIOUS
        <3>1. /\ row \in [row : Nat, read : Seq(Columns), written : Seq(Columns)]
              /\ row.row = t.rows + 1 /\ row.read = op[th].read /\ row.written = op[th].cols
            BY <1>2, <1>6 DEF RowOf, Tables, Ops
        <3>2. u = [t EXCEPT !.rows = @ + 1]
            BY <1>2, <1>6, <2>1 DEF WithRow, TInv, RestTyped
        <3>3. u \in Tables /\ u.cols = t.cols /\ u.rows = t.rows + 1
            BY <3>2 DEF Tables
        <3>4. PICK page \in PageOf(f) :
                 /\ page \in Copies(f) \/ page = <<>>
                 /\ \A p \in Copies(f)' : p \in Copies(f) \/ p = <<>> \/ p = page \o <<row>>
                 /\ disk'[f] # None
            <4> PICK d : d = PutDisk(h)
                OBVIOUS
            <4>0. PICK added : added = <<row>>
                OBVIOUS
            <4>1. Goes(th, f, d) /\ added \in PageOf(f) /\ Access(th, f, d, added, None)
                BY <1>3, <2>1, <4>0
            <4>2. TInv /\ None \in {th, None}
                BY <1>2
            <4>3. \E p \in PageOf(f) :
                    /\ p \in Copies(f) \/ p = <<>>
                    /\ \A q \in Copies(f)' : q \in Copies(f) \/ q = <<>> \/ q = p \o added
                    /\ disk'[f] # None
                BY <4>1, <4>2, PutPages
            <4> QED
                BY <4>0, <4>3
        <3>5. \A p \in Copies(f) : p \in DataPage /\ AddedTo(p, t)
            BY <1>2, <1>7, <1>8, CopiesTyped DEF TInv
        <3>6. page \in DataPage /\ AddedTo(page, t)
            BY <1>8, <3>4, <3>5, AddedEmpty
        <3>7. \A p \in DataPage : AddedTo(p, t) => AddedTo(p, u) /\ AddedTo(p \o <<row>>, u)
            BY <1>7, <3>1, <3>3, AddedFacts
        <3> QED
            BY <3>3, <3>4, <3>5, <3>6, <3>7, AddedEmpty
    <2>2. CASE made' = made /\ Access(th, f, PutDisk(h), <<>>, None)
        <3>1. PICK page \in PageOf(f) :
                 /\ page \in Copies(f) \/ page = <<>>
                 /\ \A p \in Copies(f)' : p \in Copies(f) \/ p = <<>> \/ p = page \o <<>>
                 /\ disk'[f] # None
            <4> PICK d : d = PutDisk(h)
                OBVIOUS
            <4>0. PICK added : added = <<>>
                OBVIOUS
            <4>1. Goes(th, f, d) /\ added \in PageOf(f) /\ Access(th, f, d, added, None)
                BY <1>3, <2>2, <4>0
            <4>2. TInv /\ None \in {th, None}
                BY <1>2
            <4>3. \E p \in PageOf(f) :
                    /\ p \in Copies(f) \/ p = <<>>
                    /\ \A q \in Copies(f)' : q \in Copies(f) \/ q = <<>> \/ q = p \o added
                    /\ disk'[f] # None
                BY <4>1, <4>2, PutPages
            <4> QED
                BY <4>0, <4>3
        <3>2. page \o <<>> = page
            BY <1>8 DEF DataPage
        <3> QED
            BY <1>7, <2>2, <3>1, <3>2, AddedEmpty
    <2> QED
        BY <1>3, <2>1, <2>2
<1>10. TableFits(n)'
    BY <1>1, <1>4, <1>6, <1>7, <1>9, InsertTable
<1>11. /\ \A x : x # th => (x \in On(n)' <=> x \in On(n))
       /\ th \in On(n) /\ On(n) \subseteq Threads /\ th \notin On(n)'
       /\ \A x \in Threads : x # th => op'[x] = op[x] /\ pc'[x] = pc[x]
    BY <1>2, OnAfter, OnFacts DEF On, Works
<1>12. ASSUME NEW x \in On(n)' PROVE WorkerFits(x, n)'
    <2>1. x \in On(n) /\ x \in Threads /\ x # th /\ op'[x] = op[x] /\ pc'[x] = pc[x]
        BY <1>11, <1>12
    <2>2. pc[x] \notin Creating
        <3> SUFFICES ASSUME pc[x] \in Creating PROVE FALSE
            OBVIOUS
        <3>1. op[x].do = "create"
            BY <1>2, <2>1 DEF TInv, OpFits
        <3>2. On(n) = {x}
            BY <1>2, <2>1, <3>1, OnlyOne DEF NameFits, Rewriting
        <3> QED
            BY <1>11, <2>1, <3>2
    <2>3. pc[x] \in Reading => ReaderFits(x, n)'
        <3> SUFFICES ASSUME pc[x] \in Reading PROVE ReaderFits(x, n)'
            OBVIOUS
        <3>1. ReaderFits(x, n)
            BY <1>5, <2>1 DEF WorkerFits
        <3>2. op[x].data # None /\ "raced" \notin spoiled'[n] => op[x].data.size # 0
            <4> SUFFICES ASSUME op[x].data # None, "raced" \notin spoiled[n], op[x].data.size = 0
                         PROVE  FALSE
                BY <1>1
            <4>1. disk[f] = None
                BY <1>6, <3>1 DEF ReaderFits
            <4>2. {"raced", "torn"} \cap spoiled[n] = {}
                BY DEF Clean
            <4>3. PageThere(n)
                BY <1>2, <1>11, <2>1, <4>2 DEF NameFits, Meets, Meeting
            <4> QED
                BY <1>6, <4>1, <4>3 DEF PageThere
        <3>3. made'[n] # None /\ made'[n].cols = made[n].cols
            BY <1>9, NoneFacts
        <3> QED
            BY <1>1, <1>2, <1>4, <1>6, <2>1, <3>1, <3>2, <3>3, ReaderKept
    <2> QED
        BY <2>1, <2>2, <2>3 DEF WorkerFits
<1> QED
    BY <1>10, <1>12

-----------------------------------------------------------------------------
(* A table is made or dropped                                              *)

LEMMA RewriterStep ==
    ASSUME NEW th \in Threads, NEW n \in Names, NEW fs, Works(th, n, fs),
           NameFits(n), Meets(n)', Rewriting(th), spoiled[n] \subseteq spoiled'[n],
           Clean(n) /\ On(n) = {th} /\ TableFits(n) /\ WorkerFits(th, n) =>
               TableFits(n)' /\ (th \in On(n)' => WorkerFits(th, n)')
    PROVE  NameFits(n)'
<1> SUFFICES ASSUME Clean(n)'
             PROVE  TableFits(n)' /\ \A x \in On(n)' : WorkerFits(x, n)'
    BY DEF NameFits
<1>1. Clean(n)
    BY DEF Clean
<1>2. On(n) = {th}
    BY <1>1, OnlyOne DEF Works, NameFits
<1>3. TableFits(n) /\ WorkerFits(th, n)
    BY <1>1, <1>2 DEF NameFits
<1>4. \A x \in On(n)' : x = th
    BY <1>2, OnAfter
<1> QED
    BY <1>1, <1>2, <1>3, <1>4

LEMMA CheckSchemeFits ==
    ASSUME NEW th \in Threads, NEW n \in Names, NEW fs, Works(th, n, fs), n = op[th].name,
           NameFits(n), Meets(n)', CheckScheme(th)
    PROVE  NameFits(n)'
<1>1. /\ pc[th] = "check" /\ UNCHANGED <<dir, disk, frames, op, made, spoiled>>
      /\ pc' = [pc EXCEPT ![th] = IF dir[Scheme(n)] = None THEN "make" ELSE "open"]
    BY DEF CheckScheme, Goto
<1>2. TInv /\ Rewriting(th) /\ "check" \in Creating
    BY <1>1 DEF Works, TInv, OpFits, Creating, Rewriting
<1>3. ASSUME TableFits(n), WorkerFits(th, n)
      PROVE  TableFits(n)' /\ WorkerFits(th, n)'
    <2>1. dir[Scheme(n)] = None /\ made[n] = None
        BY <1>1, <1>2, <1>3 DEF WorkerFits, CreatorFits
    <2>2. pc'[th] = "make"
        BY <1>1, <1>2, <2>1 DEF TInv, ThreadsTyped
    <2>3. TableFits(n)'
        BY <1>1, <1>3, <2>1 DEF TableFits
    <2>4. WorkerFits(th, n)'
        BY <1>1, <2>1, <2>2 DEF WorkerFits, CreatorFits, Reading, Finding
    <2> QED
        BY <2>3, <2>4
<1> QED
    BY <1>1, <1>2, <1>3, RewriterStep

\* A create without descriptors leaves its mark, and no other throws.
LEMMA ThrowsCut ==
    ASSUME NEW th \in Threads, NEW n \in Names, NEW fs, Works(th, n, fs), n = op[th].name,
           NameFits(n), Meets(n)', pc[th] \in Creating, Throws(th),
           Clean(n) /\ WorkerFits(th, n) => dir[Scheme(n)] = None \/ Full
    PROVE  NameFits(n)'
<1>1. TInv /\ op[th].do = "create" /\ Rewriting(th) /\ pc[th] \notin {"idle", "hung"}
    BY DEF Works, TInv, OpFits, Creating, Rewriting
<1>2. /\ UNCHANGED <<dir, made>> /\ pc'[th] = "idle"
      /\ spoiled[n] \subseteq spoiled'[n]
    BY <1>1, ThrowsKeeps, ThrowsGoes
<1>3. th \notin On(n)'
    BY <1>2, OnFacts
<1>4. ASSUME Clean(n), TableFits(n), WorkerFits(th, n) PROVE TableFits(n)'
    <2>1. made[n] = None
        BY <1>4 DEF WorkerFits
    <2>2. dir[Scheme(n)] = None \/ spoiled'[n] # {}
        <3>1. CASE Full
            <4>1. spoiled' = [spoiled EXCEPT ![n] = @ \cup {"cut"}]
                BY <1>1, <3>1 DEF Throws
            <4> QED
                BY <1>1, <4>1 DEF TInv, RestTyped
        <3> QED
            BY <1>4, <3>1
    <2> QED
        BY <1>2, <1>4, <2>1, <2>2 DEF TableFits
<1> QED
    BY <1>1, <1>2, <1>3, <1>4, RewriterStep

LEMMA MakeSchemeFits ==
    ASSUME NEW th \in Threads, NEW n \in Names, NEW fs, Works(th, n, fs), n = op[th].name,
           NameFits(n), Meets(n)', MakeScheme(th)
    PROVE  NameFits(n)'
<1>1. pc[th] = "make"
    BY DEF MakeScheme
<1>2. TInv /\ Rewriting(th) /\ pc[th] \in Creating
    BY <1>1 DEF Works, TInv, OpFits, Creating, Rewriting
<1>3. CASE Throws(th)
    <2>1. WorkerFits(th, n) => dir[Scheme(n)] = None
        BY <1>1, <1>2 DEF WorkerFits, CreatorFits
    <2> QED
        BY <1>2, <1>3, <2>1, ThrowsCut
<1>4. CASE ~Throws(th)
    <2> PICK path \in Paths : path = Scheme(n)
        BY PathFacts
    <2>1. /\ dir[path] = None /\ dir' = [dir EXCEPT ![path] = NewFile(path)]
          /\ pc' = [pc EXCEPT ![th] = "open"]
          /\ UNCHANGED <<disk, frames, hand, op, made, spoiled>>
        BY <1>4 DEF MakeScheme, CanCreate, Goto
    <2> PICK f : f = NewFile(path)
        OBVIOUS
    <2>2. f \in Files /\ ~InUse(f)
        BY <1>2, <2>1, NewFileFacts
    <2>3. dir'[path] = f /\ dir'[Data(n)] = dir[Data(n)]
        <3>1. Data(n) \in Paths /\ Data(n) # path
            BY PathFacts
        <3> QED
            BY <1>2, <2>1, <3>1 DEF TInv, StoreFits, Dirs
    <2>4. Fresh(f)
        <3>1. disk[f] = None
            BY <1>2, <2>2 DEF TInv, StoreFits, NoLostPages
        <3>2. \A i \in Frames : frames[i] # None => frames[i].file # f
            BY <2>2 DEF InUse
        <3> QED
            BY <3>1, <3>2 DEF Fresh
    <2>5. Fresh(f)'
        BY <2>1, <2>4 DEF Fresh
    <2>6. pc'[th] = "open" /\ th \in On(n)'
        BY <1>2, <2>1, OnFacts DEF TInv, ThreadsTyped, Works
    <2>7. ASSUME TableFits(n), WorkerFits(th, n)
          PROVE  TableFits(n)' /\ WorkerFits(th, n)'
        <3>1. made[n] = None
            BY <1>2, <2>7 DEF WorkerFits
        <3>2. TableFits(n)'
            BY <2>1, <2>3, <2>6, <2>7, <3>1 DEF TableFits
        <3>3. WorkerFits(th, n)'
            BY <2>1, <2>3, <2>5, <2>6, <3>1 DEF WorkerFits, CreatorFits, Reading, Finding
        <3> QED
            BY <3>2, <3>3
    <2> QED
        BY <1>2, <2>1, <2>7, RewriterStep
<1> QED
    BY <1>3, <1>4

LEMMA SchemeThere ==
    ASSUME NEW n \in Names, Meets(n), Clean(n), NEW th \in On(n),
           pc[th] \in {"open", "append", "table"}
    PROVE  dir[Scheme(n)] # None
BY DEF Meets, SchemeMade, Clean

LEMMA OpenSchemeFits ==
    ASSUME NEW th \in Threads, NEW n \in Names, NEW fs, Works(th, n, fs), n = op[th].name,
           NameFits(n), Meets(n)', OpenScheme(th)
    PROVE  NameFits(n)'
<1>1. pc[th] = "open"
    BY DEF OpenScheme
<1>2. /\ TInv /\ Rewriting(th) /\ pc[th] \in Creating
      /\ op[th] \in Ops /\ op \in [Threads -> Ops] /\ op[th].at = 0
    BY <1>1 DEF Works, TInv, OpFits, Creating, Rewriting, ThreadsTyped
<1>3. Clean(n) => dir[Scheme(n)] # None
    BY <1>1, SchemeThere DEF Works, NameFits
<1>4. CASE ~CanOpen(Scheme(n))
    <2>1. Throws(th)
        BY <1>4 DEF OpenScheme, OpensScheme
    <2>2. Clean(n) => Full
        BY <1>3, <1>4 DEF CanOpen
    <2> QED
        BY <1>2, <2>1, <2>2, ThrowsCut
<1>5. CASE CanOpen(Scheme(n))
    <2>1. /\ dir[Scheme(n)] # None
          /\ op' = [op EXCEPT ![th].scheme = NewHandle(Scheme(n))]
          /\ pc' = [pc EXCEPT ![th] = "append"]
          /\ UNCHANGED <<dir, disk, frames, hand, made, spoiled>>
        BY <1>5 DEF OpenScheme, OpensScheme, CanOpen, Goto
    <2> PICK h : h = NewHandle(Scheme(n))
        OBVIOUS
    <2>2. /\ h \in Handle /\ h.file = dir[Scheme(n)] /\ dir[Scheme(n)] \in Files
          /\ h.size = 0 <=> disk[dir[Scheme(n)]] = None
        BY <1>2, <2>1, PathFacts, NewHandleFacts
    <2>3. op'[th].at = 0 /\ op'[th].scheme = h
        <3> PICK r \in Ops : r = op[th]
            BY <1>2
        <3>1. op'[th] = [r EXCEPT !.scheme = h]
            BY <1>2, <2>1
        <3> QED
            BY <1>2, <2>2, <3>1, SchemeUpdate
    <2>4. pc'[th] = "append" /\ th \in On(n)'
        <3>1. pc'[th] = "append"
            BY <1>2, <2>1 DEF TInv, ThreadsTyped
        <3>2. op'[th].do # "nothing"
            BY <3>1 DEF Works, TInv, OpFits, Creating
        <3>3. op'[th].name = n
            BY <3>2, NoOpFacts DEF Works
        <3> QED
            BY <3>1, <3>3, OnFacts
    <2>5. ASSUME TableFits(n), WorkerFits(th, n)
          PROVE  TableFits(n)' /\ WorkerFits(th, n)'
        <3>1. made[n] = None /\ Fresh(h.file)
            BY <1>1, <1>2, <2>2, <2>5 DEF WorkerFits, CreatorFits
        <3>2. h.size = 0
            BY <2>2, <3>1 DEF Fresh
        <3>3. Fresh(h.file)'
            <4> PICK f : f = h.file
                OBVIOUS
            <4>1. Fresh(f)'
                BY <2>1, <3>1 DEF Fresh
            <4> QED
                BY <4>1
        <3>4. TableFits(n)'
            BY <2>1, <2>4, <2>5, <3>1 DEF TableFits
        <3>5. CreatorFits(th, n)'
            BY <2>1, <2>2, <2>3, <2>4, <3>2, <3>3 DEF CreatorFits
        <3>6. WorkerFits(th, n)'
            BY <2>1, <2>4, <3>1, <3>5 DEF WorkerFits, Reading, Finding
        <3> QED
            BY <3>4, <3>6
    <2> QED
        BY <1>2, <2>1, <2>5, RewriterStep
<1> QED
    BY <1>4, <1>5


LEMMA HasFirstMore ==
    ASSUME NEW cols \in Seq(Columns), NEW page \in Seq(Columns), NEW k \in Nat,
           k + 1 \in 1 .. Len(cols), HasFirst(page, cols, k)
    PROVE  HasFirst(page \o <<cols[k + 1]>>, cols, k + 1)
<1> PICK c : c = cols[k + 1]
    OBVIOUS
<1>1. c \in Columns /\ Len(page) = k /\ \A i \in 1 .. k : page[i] = cols[i]
    BY DEF HasFirst, Begins
<1> PICK new : new = page \o <<c>>
    OBVIOUS
<1>2. /\ Len(new) = k + 1 /\ new[k + 1] = c
      /\ \A i \in 1 .. k : new[i] = page[i]
    BY <1>1
<1>3. \A i \in 1 .. k + 1 : i = k + 1 \/ i \in 1 .. k
    OBVIOUS
<1>4. \A i \in 1 .. Len(new) : new[i] = cols[i]
    BY <1>1, <1>2, <1>3
<1> QED
    BY <1>2, <1>4 DEF HasFirst, Begins

\* The scheme after one more column: its only frame has it, the disk may not.
Newest(i, f, cols, k, by) ==
    /\ frames'[i] # None /\ frames'[i].file = f /\ frames'[i].by = by
    /\ frames'[i].rows # None /\ HasFirst(frames'[i].rows, cols, k)
    /\ \A j \in Frames : frames'[j] # None /\ frames'[j].file = f => j = i
    /\ disk'[f] # None /\ Begins(disk'[f], cols)

LEMMA SavedMore ==
    ASSUME TInv, NEW th \in Threads, NEW f \in Files, NEW d, Goes(th, f, d),
           PageOf(f) = SchemePage,
           NEW cols \in Seq(Columns), NEW k \in Nat, k + 1 \in 1 .. Len(cols),
           NEW by \in {th, None}, Access(th, f, d, <<cols[k + 1]>>, by),
           \/ k = 0 /\ Fresh(f)
           \/ k # 0 /\ Saved(th, f, cols, k) /\ d = disk
    PROVE  \E i \in Frames : Newest(i, f, cols, k + 1, by)
<1>0. cols[k + 1] \in Columns
    OBVIOUS
<1>01. <<cols[k + 1]>> \in PageOf(f)
    BY <1>0 DEF SchemePage
<1>1. PICK i \in Frames, page \in PageOf(f) :
         page = Page(th, f, d) /\ Loads(i, th, f, d, page, <<cols[k + 1]>>, by)
    <2> PICK added \in PageOf(f) : added = <<cols[k + 1]>>
        BY <1>01
    <2> QED
        BY AccessLoads DEF TInv
<1>2. d[f] # None /\ d \in Pages /\ StoreFits
    BY DiskBefore DEF Goes, TInv
<1>3. Begins(d[f], cols) /\ (k = 0 => d[f] = <<>>)
    <2>1. CASE k = 0
        <3>1. disk[f] = None
            BY <2>1 DEF Fresh, Saved
        <3>2. d[f] = <<>>
            BY <1>2, <3>1, DiskBefore
        <3> QED
            BY <3>2, BeginsFacts
    <2>2. CASE k # 0
        BY <2>2 DEF Saved
    <2> QED
        BY <2>1, <2>2
<1>4. \A j \in Frames : frames[j] # None /\ frames[j].file = f =>
          Under(j, th, f) /\ HasFirst(frames[j].rows, cols, k)
    BY DEF Fresh, Saved, Under
<1>5. /\ HasFirst(page, cols, k)
      /\ \A j \in Frames : frames[j] # None /\ frames[j].file = f => j = i
      /\ Disk(d) \/ (Dumped(d, f) \in Pages /\ Dumped(d, f)[f] = d[f] /\ Disk(Dumped(d, f)))
    <2>1. CASE Under(i, th, f) /\ frames[i].rows = page /\ Disk(d)
        <3>1. HasFirst(page, cols, k)
            BY <1>4, <2>1 DEF Under
        <3>2. \A j \in Frames : Under(j, th, f) => j = i
            BY <1>2, <2>1, NoneFacts DEF StoreFits, Keyed, Under
        <3> QED
            BY <1>4, <2>1, <3>1, <3>2
    <2>2. CASE ~Cached(th, f) /\ page = Dumped(d, f)[f] /\ Disk(Dumped(d, f))
        <3>1. \A j \in Frames : ~(frames[j] # None /\ frames[j].file = f)
            BY <1>4, <2>2 DEF Cached
        <3>2. Dumped(d, f) \in Pages /\ Dumped(d, f)[f] = d[f]
            BY <1>2, <3>1, DumpedFacts DEF StoreFits
        <3>3. HasFirst(d[f], cols, k)
            <4>1. CASE k = 0
                BY <1>3, <4>1 DEF HasFirst
            <4>2. CASE k # 0
                BY <3>1, <4>2 DEF Saved
            <4> QED
                BY <4>1, <4>2
        <3> QED
            BY <2>2, <3>1, <3>2, <3>3
    <2> QED
        BY <1>1, <2>1, <2>2 DEF Loads
<1> PICK new : new = page \o <<cols[k + 1]>>
    OBVIOUS
<1>6. HasFirst(new, cols, k + 1)
    BY <1>5, HasFirstMore DEF SchemePage
<1>7. \A j \in Frames : frames'[j] = IF j = i THEN [file |-> f, by |-> by, rows |-> new]
                                     ELSE frames[j]
    BY <1>1, <1>2 DEF Loads, StoreFits, Pools
<1>8. frames'[i] # None /\ new # None
    <2>1. new \in PageOf(f)
        BY <1>1 DEF Loads
    <2>2. [file |-> f, by |-> by, rows |-> new] \in FrameRecords
        BY <2>1 DEF FrameRecords
    <2> QED
        BY <1>7, <2>1, <2>2, NoneFacts
<1>9. disk'[f] = d[f]
    <2>1. InUse(f)'
        BY <1>7, <1>8, ReachedInUse
    <2> QED
        BY <1>2, <1>5, <2>1, DiskFacts
<1>10. frames'[i].file = f /\ frames'[i].by = by /\ frames'[i].rows = new
    BY <1>7
<1>11. \A j \in Frames : frames'[j] # None /\ frames'[j].file = f => j = i
    BY <1>5, <1>7
<1>12. disk'[f] # None /\ Begins(disk'[f], cols)
    BY <1>2, <1>3, <1>9
<1>13. Newest(i, f, cols, k + 1, by)
    BY <1>6, <1>8, <1>10, <1>11, <1>12 DEF Newest
<1> QED
    BY <1>13

LEMMA AppendColumnFits ==
    ASSUME NEW th \in Threads, NEW n \in Names, NEW fs, Works(th, n, fs), n = op[th].name,
           NameFits(n), Meets(n)', AppendColumn(th)
    PROVE  NameFits(n)'
<1>1. TInv
    BY DEF Works
<1>2. PICK r : r = op[th]
    OBVIOUS
<1>3. PICK h : h = r.scheme
    OBVIOUS
<1> PICK by \in {th, None} : by = IF r.at + 1 = Len(r.cols) THEN None ELSE th
    OBVIOUS
<1>4. /\ r \in Ops /\ h \in Handle /\ h.file \in Files /\ h.file[1] = Scheme(n)
      /\ r.at \in Nat /\ r.at + 1 \in 1 .. Len(r.cols) /\ r.cols \in Seq(Columns)
      /\ Goes(th, h.file, PutDisk(h))
      /\ Access(th, h.file, PutDisk(h), <<r.cols[r.at + 1]>>, by)
    BY <1>1, <1>2, <1>3, AppendColumnFacts DEF Ops
<1>5. /\ pc[th] = "append" /\ UNCHANGED <<dir, made, spoiled>>
      /\ pc' = [pc EXCEPT ![th] = IF r.at + 1 = Len(r.cols) THEN "table" ELSE "append"]
      /\ op' = [op EXCEPT ![th].at = r.at + 1,
                   ![th].scheme = IF r.at + 1 = Len(r.cols) THEN None ELSE [h EXCEPT !.size = 1]]
    BY <1>2, <1>3 DEF AppendColumn, Goto
<1>6. op[th].do = "create" /\ Rewriting(th) /\ pc[th] \in Creating
    BY <1>1, <1>5 DEF TInv, OpFits, Creating, Rewriting
<1>7. pc'[th] = IF r.at + 1 = Len(r.cols) THEN "table" ELSE "append"
    BY <1>1, <1>5 DEF TInv, ThreadsTyped
<1>8. /\ op'[th].cols = r.cols /\ op'[th].at = r.at + 1
      /\ op'[th].scheme = IF r.at + 1 = Len(r.cols) THEN None ELSE [h EXCEPT !.size = 1]
    <2> PICK a \in Nat : a = r.at + 1
        BY <1>4
    <2> PICK g : g = IF a = Len(r.cols) THEN None ELSE [h EXCEPT !.size = 1]
        OBVIOUS
    <2>1. g \in Handle \cup {None}
        BY <1>4 DEF Handle
    <2>2. op'[th] = [r EXCEPT !.at = a, !.scheme = g]
        BY <1>1, <1>2, <1>5 DEF TInv, ThreadsTyped
    <2>3. op'[th] = Appended(r, a, g)
        BY <2>2 DEF Appended
    <2> QED
        BY <1>4, <2>1, <2>3, AppendedFacts
<1>9. th \in On(n)'
    <2>1. op'[th].do # "nothing"
        BY <1>7 DEF Works, TInv, OpFits, Creating
    <2> QED
        BY <1>7, <2>1, NoOpFacts, OnFacts DEF Works
<1> PICK f \in Files : f = h.file
    BY <1>4
<1>10. ASSUME TableFits(n), WorkerFits(th, n)
       PROVE  TableFits(n)' /\ WorkerFits(th, n)'
    <2>1. /\ made[n] = None /\ dir[Scheme(n)] = f
          /\ h.size = 0 <=> r.at = 0
          /\ IF r.at = 0 THEN Fresh(f) ELSE Saved(th, f, r.cols, r.at)
        BY <1>2, <1>3, <1>5, <1>6, <1>10 DEF WorkerFits, CreatorFits
    <2>2. \E i \in Frames : Newest(i, f, r.cols, r.at + 1, by)
        <3> PICK d : d = PutDisk(h)
            OBVIOUS
        <3> PICK cols \in Seq(Columns), k \in Nat : cols = r.cols /\ k = r.at
            BY <1>4
        <3>1. PageOf(f) = SchemePage
            BY <1>4, PageFacts
        <3>2. k # 0 => d = disk
            BY <2>1 DEF PutDisk
        <3>3. Goes(th, f, d) /\ Access(th, f, d, <<cols[k + 1]>>, by) /\ k + 1 \in 1 .. Len(cols)
            BY <1>4
        <3>4. \E i \in Frames : Newest(i, f, cols, k + 1, by)
            BY <1>1, <2>1, <3>1, <3>2, <3>3, SavedMore
        <3> QED
            BY <3>4
    <2> PICK i \in Frames : Newest(i, f, r.cols, r.at + 1, by)
        BY <2>2
    <2>3. TableFits(n)'
        BY <1>5, <1>7, <1>9, <1>10, <2>1 DEF TableFits
    <2>4. CASE r.at + 1 = Len(r.cols)
        <3>1. \A p \in Copies(f)' : Begins(p, r.cols)
            BY CopyFactsAfter DEF Newest, HasFirst
        <3>2. SchemePages(n, r.cols)' /\ \A g \in Files : dir'[Scheme(n)] = g => disk'[g] # None
            BY <1>5, <2>1, <3>1 DEF SchemePages, Newest
        <3>3. CreatorFits(th, n)'
            BY <1>7, <1>8, <2>4, <3>2 DEF CreatorFits
        <3> QED
            BY <1>5, <1>7, <2>1, <2>3, <2>4, <3>3 DEF WorkerFits, Reading, Finding
    <2>5. CASE r.at + 1 # Len(r.cols)
        <3>1. Saved(th, f, r.cols, r.at + 1)'
            BY <2>5, <1>2 DEF Newest, Saved
        <3>2. op'[th].scheme = [h EXCEPT !.size = 1]
            BY <1>8, <2>5
        <3>3. op'[th].scheme.file = f /\ op'[th].scheme.size = 1
            BY <1>4, <3>2 DEF Handle
        <3>4. CreatorFits(th, n)'
            BY <1>4, <1>5, <1>7, <1>8, <2>1, <2>5, <3>1, <3>3 DEF CreatorFits
        <3> QED
            BY <1>5, <1>7, <2>1, <2>3, <2>5, <3>4 DEF WorkerFits, Reading, Finding
    <2> QED
        BY <2>4, <2>5
<1> QED
    BY <1>5, <1>6, <1>10, RewriterStep

LEMMA MakeTableFits ==
    ASSUME NEW th \in Threads, NEW n \in Names, NEW fs, Works(th, n, fs), n = op[th].name,
           NameFits(n), Meets(n)', MakeTable(th)
    PROVE  NameFits(n)'
<1>1. pc[th] = "table"
    BY DEF MakeTable
<1>2. TInv /\ Rewriting(th) /\ pc[th] \in Creating
    BY <1>1 DEF Works, TInv, OpFits, Creating, Rewriting
<1> PICK path \in Paths : path = Data(n)
    BY PathFacts
<1>3. CASE ~CanCreate(path)
    <2>1. Throws(th)
        BY <1>3 DEF MakeTable
    <2>2. Clean(n) /\ WorkerFits(th, n) => Full
        <3> SUFFICES ASSUME Clean(n), WorkerFits(th, n), ~Full PROVE FALSE
            OBVIOUS
        <3>1. made[n] = None /\ TableFits(n)
            BY <1>2 DEF WorkerFits, NameFits
        <3> QED
            BY <1>3, <3>1 DEF TableFits, CanCreate
    <2> QED
        BY <1>2, <2>1, <2>2, ThrowsCut
<1>4. CASE CanCreate(path)
    <2>1. /\ dir[path] = None /\ dir' = [dir EXCEPT ![path] = NewFile(path)]
          /\ made' = [made EXCEPT ![n] = [cols |-> op[th].cols, rows |-> 0]]
          /\ End(th) /\ UNCHANGED <<disk, frames, spoiled>>
        BY <1>4 DEF MakeTable, CanCreate
    <2> PICK f : f = NewFile(path)
        OBVIOUS
    <2>2. f \in Files /\ ~InUse(f) /\ f # None
        BY <1>2, <2>1, NewFileFacts
    <2>3. dir'[path] = f /\ dir'[Scheme(n)] = dir[Scheme(n)]
        <3>1. Scheme(n) \in Paths /\ Scheme(n) # path
            BY PathFacts
        <3> QED
            BY <1>2, <2>1, <3>1 DEF TInv, StoreFits, Dirs
    <2>4. \A p \in Copies(f)' : FALSE
        <3>1. disk[f] = None
            BY <1>2, <2>2 DEF TInv, StoreFits, NoLostPages
        <3>2. \A i \in Frames : frames[i] # None => frames[i].file # f
            BY <2>2 DEF InUse
        <3> QED
            BY <2>1, <3>1, <3>2, CopyFactsAfter
    <2>5. th \notin On(n)'
        BY <1>2, <2>1, EndFacts, OnFacts
    <2>6. ASSUME Clean(n), On(n) = {th}, TableFits(n), WorkerFits(th, n)
          PROVE  TableFits(n)'
        <3> PICK cols : cols = op[th].cols
            OBVIOUS
        <3> PICK t : t = [cols |-> cols, rows |-> 0]
            OBVIOUS
        <3>1. made'[n] = t /\ t.cols = cols /\ t.rows = 0
            BY <1>2, <2>1 DEF TInv, RestTyped
        <3>2. t # None
            <4>1. t \in Tables
                BY <1>2 DEF TInv, ThreadsTyped, Ops, Tables
            <4> QED
                BY <4>1, NoneFacts
        <3>3. /\ SchemePages(n, cols)
              /\ \A g \in Files : dir[Scheme(n)] = g => disk[g] # None
            BY <1>1, <1>2, <2>6 DEF WorkerFits, CreatorFits
        <3>4. SchemePages(n, cols)'
            BY <2>1, <2>3, <3>3 DEF SchemePages, Copies
        <3>5. DataPages(n, t)'
            BY <2>3, <2>4 DEF DataPages
        <3>6. dir'[Scheme(n)] # None
            BY <1>1, <2>3, <2>6, SchemeThere DEF NameFits
        <3>7. SchemePages(n, made[n].cols)' /\ DataPages(n, made[n])'
            BY <3>1, <3>4, <3>5
        <3> QED
            BY <2>1, <2>2, <2>3, <3>1, <3>2, <3>3, <3>6, <3>7 DEF TableFits
    <2> QED
        BY <1>2, <2>1, <2>5, <2>6, RewriterStep
<1> QED
    BY <1>3, <1>4

LEMMA ForgetFits ==
    ASSUME NEW th \in Threads, NEW n \in Names, NEW fs, Works(th, n, fs), n = op[th].name,
           NameFits(n), Meets(n)', Forget(th)
    PROVE  NameFits(n)'
<1>1. /\ pc[th] = "forget" /\ dir' = [dir EXCEPT ![Scheme(n)] = None]
      /\ pc' = [pc EXCEPT ![th] = "remove"] /\ UNCHANGED <<op, made, spoiled>>
    BY DEF Forget, Goto
<1>2. TInv /\ Rewriting(th)
    BY <1>1 DEF Works, TInv, OpFits, Dropping, Rewriting
<1>3. Touches(th, {})
    BY <1>2, ForgetTypes
<1>4. dir'[Scheme(n)] = None /\ dir'[Data(n)] = dir[Data(n)]
    BY <1>1, <1>2, PathFacts DEF TInv, StoreFits, Dirs
<1>5. pc'[th] = "remove" /\ th \in On(n)'
    BY <1>1, <1>2, OnFacts DEF TInv, ThreadsTyped, Works
<1>6. \A f \in Files : dir[Data(n)] = f => OldCopies(f)
    <2> SUFFICES ASSUME NEW f \in Files, dir[Data(n)] = f PROVE OldCopies(f)
        OBVIOUS
    <2>1. dir'[f[1]] = f
        BY <1>2, <1>4, FileFacts, NoneFacts
    <2>2. InUse(f)'
        BY <2>1, ReachedInUse
    <2> QED
        BY <1>3, <2>2 DEF Touches
<1>7. ASSUME TableFits(n) PROVE TableFits(n)'
    <2>1. CASE made[n] = None
        BY <1>1, <1>4, <1>7, <2>1 DEF TableFits
    <2>2. CASE made[n] # None
        <3>1. SchemePages(n, made[n].cols)'
            BY <1>4, NoneFacts DEF SchemePages
        <3>2. DataPages(n, made[n])'
            BY <1>1, <1>4, <1>6, <1>7, <2>2 DEF TableFits, DataPages, OldCopies
        <3>3. PageThere(n) => PageThere(n)'
            BY <1>4, <1>6 DEF PageThere, OldCopies
        <3>4. \A g \in Files : dir'[Scheme(n)] = g => disk'[g] # None
            BY <1>4, NoneFacts
        <3> QED
            BY <1>1, <1>4, <1>5, <1>7, <2>2, <3>1, <3>2, <3>3, <3>4 DEF TableFits
    <2> QED
        BY <2>1, <2>2
<1>8. WorkerFits(th, n)'
    BY <1>5 DEF WorkerFits, Creating, Reading, Finding
<1> QED
    BY <1>1, <1>2, <1>7, <1>8, RewriterStep

LEMMA RemoveDataFits ==
    ASSUME NEW th \in Threads, NEW n \in Names, NEW fs, Works(th, n, fs), n = op[th].name,
           NameFits(n), Meets(n)', RemoveData(th)
    PROVE  NameFits(n)'
<1>1. /\ pc[th] = "remove" /\ dir' = [dir EXCEPT ![Data(n)] = None]
      /\ made' = [made EXCEPT ![n] = None]
      /\ spoiled' = [spoiled EXCEPT ![n] = IF op[th].alone THEN {} ELSE @] /\ End(th)
    BY DEF RemoveData
<1>2. TInv /\ Rewriting(th) /\ op[th].alone \in BOOLEAN
    BY <1>1 DEF Works, TInv, OpFits, Dropping, Rewriting, ThreadsTyped, Ops
<1>3. spoiled'[n] = (IF op[th].alone THEN {} ELSE spoiled[n]) /\ made'[n] = None
    BY <1>1, <1>2 DEF TInv, RestTyped
<1>4. dir'[Data(n)] = None /\ dir'[Scheme(n)] = dir[Scheme(n)]
    BY <1>1, <1>2, PathFacts DEF TInv, StoreFits, Dirs
<1>5. CASE ~op[th].alone
    BY <1>2, <1>3, <1>5 DEF NameFits, Meets, NotAlone, Clean, Works
<1>6. CASE op[th].alone
    <2>1. On(n) = {th} /\ dir[Scheme(n)] = None
        BY <1>1, <1>2, <1>6 DEF NameFits, Meets, Alone, SchemeGone, Works
    <2>2. th \notin On(n)'
        BY <1>1, <1>2, EndFacts, OnFacts
    <2>3. On(n)' = {}
        BY <2>1, <2>2, OnAfter
    <2>4. TableFits(n)'
        BY <1>3, <1>4, <2>1 DEF TableFits
    <2> QED
        BY <2>3, <2>4 DEF NameFits
<1> QED
    BY <1>2, <1>5, <1>6

-----------------------------------------------------------------------------
(* A request begins                                                        *)

\* Whoever reads a table goes on when another request joins.
LEMMA ReaderJoined ==
    ASSUME TInv, NEW n \in Names, NEW x \in Threads, UNCHANGED <<dir, disk, made>>,
           spoiled[n] \subseteq spoiled'[n], pc'[x] = pc[x],
           op'[x].cols = op[x].cols, op'[x].read = op[x].read,
           op'[x].scheme = op[x].scheme, op'[x].data = op[x].data,
           ReaderFits(x, n)
    PROVE  ReaderFits(x, n)'
<1>1. spoiled'[n] = {} => spoiled[n] = {}
    OBVIOUS
<1>2. CASE made[n] = None
    BY <1>1, <1>2 DEF ReaderFits
<1>3. CASE made[n] # None
    BY <1>3 DEF ReaderFits
<1> QED
    BY <1>2, <1>3

LEMMA StartFits ==
    ASSUME TInv, NEW th \in Threads, NEW n \in Names, NEW cols \in Seq(Columns), NEW do,
           NEW first, <<do, first>> \in Requests, do # "create" => cols = <<>>,
           NEW met \in SUBSET On(n), Joins(th, do, n, cols, first, met),
           NameFits(n), Meets(n)'
    PROVE  NameFits(n)'
<1>1. /\ th \notin On(n) /\ On(n) \subseteq Threads
      /\ \A x : x \in On(n)' <=> x = th \/ x \in On(n)
      /\ pc'[th] = first /\ op'[th].do = do
      /\ op'[th].cols = cols /\ op'[th].read = <<>>
      /\ op'[th].scheme = None /\ op'[th].data = None
      /\ \A x \in Threads : x # th =>
            /\ pc'[x] = pc[x]
            /\ op'[x].cols = op[x].cols /\ op'[x].read = op[x].read
            /\ op'[x].scheme = op[x].scheme /\ op'[x].data = op[x].data
      /\ spoiled[n] \subseteq spoiled'[n]
    BY JoinFacts
<1>2. /\ \A x \in On(n) : Rewriting(x) \/ do \in {"create", "drop"} => x \in met
      /\ \A x \in met : Rewriting(x) => "torn" \in spoiled'[n]
      /\ met # {} /\ do \in {"create", "drop"} => "torn" \in spoiled'[n]
    BY MetWho
<1>3. UNCHANGED <<dir, disk, frames, made>>
    BY DEF Joins
<1> SUFFICES ASSUME Clean(n)'
             PROVE  TableFits(n)' /\ \A x \in On(n)' : WorkerFits(x, n)'
    BY DEF NameFits
<1>4. "torn" \notin spoiled'[n] /\ "again" \notin spoiled'[n]
    BY DEF Clean
<1>5. Clean(n)
    BY <1>1, <1>4 DEF Clean
<1>6. TableFits(n) /\ \A x \in On(n) : WorkerFits(x, n)
    BY <1>5 DEF NameFits
<1>7. \A x \in On(n) : ~Rewriting(x)
    BY <1>2, <1>4
<1>8. \A x \in On(n) : pc[x] \notin Creating
    BY <1>1, <1>7 DEF TInv, OpFits, Rewriting
<1>9. first \notin {"open", "append", "table", "remove"}
    BY DEF Requests
<1>10. TableFits(n)'
    <2>1. SameFiles(n) /\ OldPages(n)
        BY <1>3 DEF SameFiles, OldPages, OldCopies, Copies
    <2>2. (NoMaking(n)' => NoMaking(n)) /\ (NoRemoving(n)' => NoRemoving(n))
        BY <1>1 DEF NoMaking, NoRemoving
    <2> QED
        BY <1>1, <1>3, <1>6, <2>1, <2>2, TableKept
<1>11. ASSUME NEW x \in On(n)', x # th PROVE WorkerFits(x, n)'
    <2>1. x \in On(n) /\ x \in Threads
        BY <1>1, <1>11
    <2>2. pc'[x] = pc[x] /\ pc[x] \notin Creating
        BY <1>1, <1>8, <1>11, <2>1
    <2>3. ReaderFits(x, n) => ReaderFits(x, n)'
        BY <1>1, <1>3, <1>11, <2>1, ReaderJoined
    <2>4. WorkerFits(x, n)
        BY <1>6, <2>1
    <2> QED
        BY <2>2, <2>3, <2>4 DEF WorkerFits
<1>12. WorkerFits(th, n)'
    <2>1. CASE do = "create"
        <3>1. first = "check"
            BY <2>1 DEF Requests
        <3>2. dir[Data(n)] = None /\ dir[Scheme(n)] = None
            BY <1>4, <2>1 DEF Joins
        <3>3. made[n] = None
            BY <1>6, <3>2 DEF TableFits
        <3>4. CreatorFits(th, n)'
            BY <1>1, <1>3, <3>1, <3>2 DEF CreatorFits
        <3>5. pc'[th] \notin Reading
            BY <1>1, <3>1 DEF Reading, Finding
        <3> QED
            BY <1>3, <3>3, <3>4, <3>5 DEF WorkerFits
    <2>2. CASE do = "drop"
        <3>1. pc'[th] \notin Creating /\ pc'[th] \notin Reading
            BY <1>1, <2>2 DEF Requests, Creating, Reading, Finding
        <3> QED
            BY <3>1 DEF WorkerFits
    <2>3. CASE do \notin {"create", "drop"}
        <3>1. first = "find" /\ cols = <<>>
            BY <2>3 DEF Requests
        <3>2. ASSUME made[n] = None PROVE ReaderFits(th, n)'
            BY <1>1, <1>3, <3>1, <3>2 DEF ReaderFits
        <3>3. ASSUME made[n] # None PROVE ReaderFits(th, n)'
            <4>1. made[n].cols \in Seq(Columns)
                BY <3>3 DEF TInv, RestTyped, Tables
            <4>2. Begins(op'[th].cols, made[n].cols) /\ Begins(op'[th].read, made[n].cols)
                BY <1>1, <3>1, <4>1, BeginsFacts
            <4> QED
                BY <1>1, <1>3, <3>1, <3>3, <4>2 DEF ReaderFits
        <3>4. pc'[th] \notin Creating
            BY <1>1, <3>1 DEF Creating
        <3> QED
            BY <3>2, <3>3, <3>4 DEF WorkerFits
    <2> QED
        BY <2>1, <2>2, <2>3
<1> QED
    BY <1>10, <1>11, <1>12

LEMMA StartOthersFits ==
    ASSUME TInv, NEW th \in Threads, NEW n \in Names, NEW cols \in Seq(Columns), NEW do,
           NEW first, <<do, first>> \in Requests,
           NEW met \in SUBSET On(n), Joins(th, do, n, cols, first, met),
           NEW m \in Names, m # n, NameFits(m), Meets(m)'
    PROVE  NameFits(m)'
<1>1. /\ UNCHANGED <<dir, disk, frames, made>> /\ spoiled'[m] = spoiled[m]
      /\ On(m)' = On(m)
      /\ \A x \in On(m) : op'[x] = op[x] /\ pc'[x] = pc[x]
    BY StartOthers
<1>2. th \notin On(m)
    BY JoinFacts
<1>3. \A f \in Files : OldCopies(f) /\ Keeps(f, th)
    BY <1>1 DEF OldCopies, Copies, Keeps, Stuck
<1>4. Untouched(m, th)
    BY <1>1, <1>2, <1>3 DEF Untouched, SameFiles
<1> QED
    BY <1>4, UntouchedFits

-----------------------------------------------------------------------------
(* The process ends                                                        *)

LEMMA DiesFits ==
    ASSUME TInv, Dies, NEW n \in Names, NameFits(n), Meets(n)'
    PROVE  NameFits(n)'
<1>1. /\ TInv' /\ UNCHANGED <<dir, made>>
      /\ \A i \in Frames : frames'[i] = None
      /\ \A g \in Files : dir[g[1]] = g => disk'[g] = disk[g]
    BY DiesTypes
<1>2. /\ On(n)' = {} /\ spoiled[n] \subseteq spoiled'[n]
      /\ \A th \in On(n) : op[th].do = "drop" => "torn" \in spoiled'[n]
      /\ \A th \in On(n) : op[th].do \in {"create", "insert"} => "cut" \in spoiled'[n]
    BY DiesMarks
<1> SUFFICES ASSUME Clean(n)' PROVE TableFits(n)'
    BY <1>2 DEF NameFits
<1>3. Clean(n) /\ "torn" \notin spoiled'[n]
    BY <1>2 DEF Clean
<1>4. TableFits(n)
    BY <1>3 DEF NameFits
<1>5. NoRemoving(n)
    BY <1>2, <1>3, OnFacts DEF NoRemoving, TInv, OpFits, Dropping
<1>6. spoiled'[n] = {} => NoMaking(n)
    BY <1>2, OnFacts DEF NoMaking, TInv, OpFits, Creating
<1>7. OldPages(n)
    <2> SUFFICES ASSUME NEW f \in Files, dir[Scheme(n)] = f \/ dir[Data(n)] = f
                 PROVE  OldCopies(f)
        BY DEF OldPages
    <2>1. dir[f[1]] = f
        BY FileFacts, NoneFacts
    <2>2. disk'[f] = disk[f]
        BY <1>1, <2>1
    <2> QED
        BY <1>1, <2>2 DEF OldCopies, Copies
<1>8. CASE made[n] = None
    BY <1>1, <1>2, <1>4, <1>6, <1>8 DEF TableFits, NoMaking
<1>9. CASE made[n] # None
    <2>1. ASSUME NEW f \in Files, dir[Scheme(n)] = f \/ dir[Data(n)] = f
          PROVE  disk'[f] = disk[f] /\ Copies(f)' \subseteq Copies(f)
        <3>1. dir[f[1]] = f
            BY <2>1, FileFacts, NoneFacts
        <3>2. disk'[f] = disk[f]
            BY <1>1, <3>1
        <3> QED
            BY <1>1, <3>2 DEF Copies
    <2>2. SchemePages(n, made[n].cols)' /\ DataPages(n, made[n])'
        BY <1>1, <1>4, <1>9, <2>1 DEF TableFits, SchemePages, DataPages
    <2>3. PageThere(n) => PageThere(n)'
        BY <1>1, <2>1 DEF PageThere
    <2>4. \A f \in Files : dir'[Scheme(n)] = f => disk'[f] # None
        BY <1>1, <1>4, <1>9, <2>1 DEF TableFits
    <2> QED
        BY <1>1, <1>4, <1>5, <1>9, <2>2, <2>3, <2>4 DEF TableFits, NoRemoving
<1> QED
    BY <1>8, <1>9

LEMMA StopFits ==
    ASSUME TInv, Stop, NEW n \in Names, NameFits(n), Meets(n)'
    PROVE  NameFits(n)'
<1>1. /\ TInv' /\ UNCHANGED <<dir, pc, op, made, spoiled>>
      /\ \A g \in Files : OldCopies(g) \/ ~InUse(g)'
    BY StopTypes
<1>2. On(n) = {} /\ On(n)' = {}
    <2>1. \A x \in Threads : pc[x] = "idle" /\ pc'[x] = "idle"
        BY DEF Stop
    <2> QED
        BY <2>1 DEF On, Busy
<1>3. OldPages(n)
    <2> SUFFICES ASSUME NEW f \in Files, dir[Scheme(n)] = f \/ dir[Data(n)] = f
                 PROVE  OldCopies(f)
        BY DEF OldPages
    <2>1. dir'[f[1]] = f
        BY <1>1, FileFacts, NoneFacts
    <2> QED
        BY <1>1, <2>1 DEF InUse
<1>4. SameFiles(n) /\ NoMaking(n) /\ NoRemoving(n)
    BY <1>1, <1>2 DEF SameFiles, NoMaking, NoRemoving
<1>5. Clean(n)' = Clean(n)
    BY <1>1 DEF Clean
<1>6. Clean(n) => TableFits(n)'
    BY <1>1, <1>3, <1>4, TableKept DEF NameFits
<1> QED
    BY <1>2, <1>5, <1>6 DEF NameFits

-----------------------------------------------------------------------------
(* Every step keeps the invariant                                          *)

LEMMA WorkFits ==
    ASSUME NEW th \in Threads, NEW n \in Names, NEW fs, Works(th, n, fs), n = op[th].name,
           NameFits(n), Meets(n)', Work(th), ~Dies
    PROVE  NameFits(n)'
BY CheckSchemeFits, MakeSchemeFits, OpenSchemeFits, AppendColumnFits, MakeTableFits,
   ForgetFits, RemoveDataFits, FindSchemeFits, LookSchemeFits, ReadColumnFits,
   CloseSchemeFits, OpenDataFits, InsertFits, ScanRowsFits, EndScanFits DEF Work

LEMMA DInvHolds ==
    ASSUME DInv, Next
    PROVE  DInv'
<1>1. TInv /\ TInv'
    BY NextKeepsTypes DEF DInv
<1>2. MeetInv'
    BY MeetsHold DEF DInv, MeetInv, NameFits
<1> SUFFICES ASSUME NEW m \in Names PROVE NameFits(m)'
    BY <1>1 DEF DInv
<1>3. NameFits(m) /\ Meets(m)'
    BY <1>2 DEF DInv, MeetInv
<1>4. CASE Dies
    BY <1>1, <1>3, <1>4, DiesFits
<1>5. CASE Stop
    BY <1>1, <1>3, <1>5, StopFits
<1>6. ASSUME NEW th \in Threads,
             CreateTable(th) \/ DropTable(th) \/ InsertRow(th) \/ SelectAll(th)
      PROVE  NameFits(m)'
    <2>1. PICK n \in Names, cols \in Seq(Columns),
       do \in {"create", "drop", "insert", "select"}, first \in Labels :
              /\ \/ do = "create" /\ first = "check" /\ cols # <<>>
                 \/ do = "drop" /\ first = "forget"
                 \/ do = "insert" /\ first = "find"
                 \/ do = "select" /\ first = "find"
              /\ do # "create" => cols = <<>>
              /\ Start(th, do, n, cols, first)
        BY <1>6, RequestFacts
    <2>2. PICK met \in SUBSET On(n) : Joins(th, do, n, cols, first, met)
        BY <1>1, <2>1, StartTypes
    <2>3. <<do, first>> \in Requests
        BY <2>1 DEF Requests
    <2>4. CASE m = n
        BY <1>1, <1>3, <2>1, <2>2, <2>3, <2>4, StartFits
    <2>5. CASE m # n
        BY <1>1, <1>3, <2>2, <2>3, <2>5, StartOthersFits
    <2> QED
        BY <2>4, <2>5
<1>7. ASSUME NEW th \in Threads, Work(th), ~Dies
      PROVE  NameFits(m)'
    <2> PICK n \in Names : n = op[th].name
        BY <1>1, <1>7, WorkerFacts
    <2>1. PICK fs : Works(th, n, fs)
        BY <1>1, <1>7, WorkWorks
    <2>2. CASE m = n
        BY <1>3, <1>7, <2>1, <2>2, WorkFits
    <2>3. CASE m # n
        BY <1>3, <2>1, <2>3, OtherFits
    <2> QED
        BY <2>2, <2>3
<1> QED
    BY <1>4, <1>5, <1>6, <1>7 DEF Next, Kill

LEMMA DInvStay ==
    ASSUME DInv, UNCHANGED vars
    PROVE  DInv'
<1>1. TInv' /\ TInv
    BY TypesStay DEF DInv
<1>2. MeetInv'
    BY MeetsStay DEF DInv, MeetInv, NameFits
<1> SUFFICES ASSUME NEW m \in Names PROVE NameFits(m)'
    BY <1>1 DEF DInv
<1>3. UNCHANGED <<dir, disk, frames, made, op, pc>> /\ spoiled'[m] = spoiled[m]
    BY DEF vars
<1>4. On(m)' = On(m) /\ Clean(m)' = Clean(m)
    BY <1>3 DEF On, Busy, Clean
<1>5. TableFits(m) => TableFits(m)'
    BY <1>3, <1>4 DEF TableFits, SchemePages, DataPages, Copies, PageThere
<1>6. \A x : WorkerFits(x, m) => WorkerFits(x, m)'
    BY <1>3 DEF WorkerFits, ReaderFits, CreatorFits, Fresh, Saved, SchemePages, Copies
<1> QED
    BY <1>2, <1>4, <1>5, <1>6 DEF DInv, MeetInv, NameFits

LEMMA InitFits == Init => DInv
<1> SUFFICES ASSUME Init PROVE DInv
    OBVIOUS
<1>1. TInv /\ \A n \in Names : Meets(n)
    BY InitMeets DEF MeetInv
<1>2. \A n : On(n) = {}
    BY DEF Init, On, Busy
<1>3. \A n \in Names : dir[Data(n)] = None /\ dir[Scheme(n)] = None /\ made[n] = None
    BY PathFacts DEF Init
<1>4. \A n \in Names : TableFits(n)
    BY <1>3 DEF TableFits
<1> QED
    BY <1>1, <1>2, <1>4 DEF DInv, NameFits

LEMMA FitsHold == Spec => []DInv
<1>1. DInv /\ [Next]_vars => DInv'
    BY DInvHolds, DInvStay
<1> QED
    BY <1>1, InitFits, PTL DEF Spec

-----------------------------------------------------------------------------
(* Theorems                                                                *)

LEMMA BeginsIsPrefix ==
    ASSUME NEW X, NEW s \in Seq(X), NEW t \in Seq(X), Begins(s, t)
    PROVE  IsPrefix(s, t)
BY DEF Begins, IsPrefix, SubSeq

\* The types, and the keys of the frames: an open handle finds at most one frame,
\* and no frame belongs to a handle that is closed.
THEOREM TypeCorrect == Spec => []TypeOK
BY TypesHold, TypesAreRight, PTL

\* In a pool of any size, stale frames written back and pages allocated twice
\* lose rows and columns, and never bring in any the table was not given.
THEOREM OnlyWhatWasGiven == Spec => []NothingInvented
<1>1. DInv => NothingInvented
    <2> SUFFICES ASSUME DInv, NEW n \in Names, made[n] # None, Clean(n)
                 PROVE  /\ dir[Scheme(n)] # None =>
                             \A page \in Copies(dir[Scheme(n)]) : IsPrefix(page, made[n].cols)
                        /\ dir[Data(n)] # None =>
                             \A page \in Copies(dir[Data(n)]) :
                                /\ \A i, j \in DOMAIN page : i < j => page[i].row < page[j].row
                                /\ \A i \in DOMAIN page :
                                    /\ page[i].row \in 1 .. made[n].rows
                                    /\ IsPrefix(page[i].read, made[n].cols)
                                    /\ IsPrefix(page[i].written, made[n].cols)
        BY DEF NothingInvented, Clean
    <2>1. TInv /\ TableFits(n)
        BY DEF DInv, NameFits
    <2>2. made[n].cols \in Seq(Columns)
        BY <2>1 DEF TInv, RestTyped, Tables
    <2>3. ASSUME dir[Scheme(n)] # None, NEW page \in Copies(dir[Scheme(n)])
          PROVE  IsPrefix(page, made[n].cols)
        <3> PICK f \in Files : f = dir[Scheme(n)] /\ f[1] = Scheme(n)
            BY <2>1, <2>3, FileFacts
        <3>1. page \in Seq(Columns)
            BY <2>1, <2>3, CopiesTyped, PageFacts DEF SchemePage, TInv
        <3>2. Begins(page, made[n].cols)
            BY <2>1, <2>3 DEF TableFits, SchemePages
        <3> QED
            BY <2>2, <3>1, <3>2, BeginsIsPrefix
    <2>4. ASSUME dir[Data(n)] # None, NEW page \in Copies(dir[Data(n)])
          PROVE  /\ \A i, j \in DOMAIN page : i < j => page[i].row < page[j].row
                 /\ \A i \in DOMAIN page :
                     /\ page[i].row \in 1 .. made[n].rows
                     /\ IsPrefix(page[i].read, made[n].cols)
                     /\ IsPrefix(page[i].written, made[n].cols)
        <3> PICK f \in Files : f = dir[Data(n)] /\ f[1] = Data(n)
            BY <2>1, <2>4, FileFacts
        <3>1. page \in DataPage
            BY <2>1, <2>4, CopiesTyped, PageFacts DEF TInv
        <3>2. AddedTo(page, made[n])
            BY <2>1, <2>4 DEF TableFits, DataPages
        <3>3. ASSUME NEW i \in DOMAIN page
              PROVE  IsPrefix(page[i].read, made[n].cols) /\ IsPrefix(page[i].written, made[n].cols)
            <4>1. page[i] \in [row : Nat, read : Seq(Columns), written : Seq(Columns)]
                <5>1. \A X : \A s \in Seq(X) : \A k \in DOMAIN s : s[k] \in X
                    OBVIOUS
                <5> QED
                    BY <3>1, <3>3, <5>1 DEF DataPage
            <4>2. page[i].read \in Seq(Columns) /\ page[i].written \in Seq(Columns)
                BY <4>1
            <4> QED
                BY <2>2, <3>2, <3>3, <4>2, BeginsIsPrefix DEF AddedTo
        <3> QED
            BY <3>2, <3>3 DEF AddedTo
    <2> QED
        BY <2>3, <2>4
<1> QED
    BY <1>1, FitsHold, PTL

\* Only a reader hangs, on an open file it found without a page.
LEMMA WhoHangs ==
    ASSUME TInv, Next, NEW th \in Threads, pc[th] # "hung", pc'[th] = "hung"
    PROVE  /\ th \in On(op[th].name) /\ op[th].name \in Names
           /\ \/ pc[th] = "read" /\ op[th].scheme.size = 0
              \/ pc[th] = "scan" /\ op[th].data.size = 0
<1>1. pc \in [Threads -> Labels]
    BY DEF TInv, ThreadsTyped
<1>2. ~Dies
    BY DEF Dies
<1>3. ~Stop
    BY DEF Stop
<1>4. ASSUME NEW x \in Threads,
             CreateTable(x) \/ DropTable(x) \/ InsertRow(x) \/ SelectAll(x)
      PROVE  FALSE
    BY <1>1, <1>4 DEF CreateTable, DropTable, InsertRow, SelectAll, Start
<1>5. PICK x \in Threads : Work(x)
    BY <1>2, <1>3, <1>4 DEF Next, Kill
<1>6. x = th
    BY <1>2, <1>5, WorkWorks DEF Works, Touches, OthersStay
<1>7. /\ pc[th] \in Labels \ {"idle", "hung"} /\ th \in On(op[th].name)
      /\ op[th].name \in Names
    BY <1>1, <1>5, <1>6, WorkerFacts
<1>8. ~Throws(th)
    BY <1>1 DEF Throws, End, Goto
<1>9. \/ ReadColumn(th) /\ Hangs(th, op[th].scheme)
      \/ ScanRows(th) /\ Hangs(th, op[th].data)
    <2>1. CASE FindScheme(th)
        BY <1>1, <1>2, <2>1 DEF FindScheme, Goto
    <2>2. CASE CloseScheme(th)
        <3>1. \/ op[th].do = "insert" /\ op[th].at \in {0, 1}
              \/ op[th].do = "select" /\ op[th].at \in {0, 1, 2}
            BY <1>1, <2>2 DEF CloseScheme, TInv, OpFits, Reading, Finding
        <3> QED
            BY <1>1, <2>2, <3>1 DEF CloseScheme, Goto, AfterLookup
    <2>3. CASE ReadColumn(th)
        BY <2>3 DEF ReadColumn
    <2>4. CASE ScanRows(th)
        BY <1>1, <1>2, <2>4 DEF ScanRows, Goto
    <2>5. CASE CheckScheme(th) \/ MakeScheme(th) \/ OpenScheme(th) \/ AppendColumn(th) \/ MakeTable(th)
        BY <1>1, <1>8, <2>5 DEF CheckScheme, MakeScheme, OpenScheme, OpensScheme, AppendColumn,
           MakeTable, Goto, End
    <2>6. CASE Forget(th) \/ RemoveData(th) \/ LookScheme(th) \/ OpenData(th) \/ EndScan(th)
        BY <1>1, <1>8, <2>6 DEF Forget, RemoveData, LookScheme, OpensScheme, OpenData, EndScan,
           Goto, End
    <2>7. CASE Insert(th)
        BY <1>1, <1>2, <2>7 DEF Insert, Goto, End
    <2> QED
        BY <1>5, <1>6, <2>1, <2>2, <2>3, <2>4, <2>5, <2>6, <2>7 DEF Work
<1> QED
    BY <1>7, <1>9 DEF ReadColumn, ScanRows, Hangs

\* A request never hangs but at a table that has had no row yet, or one that a
\* kill, a second create or a meeting has spoiled.
THEOREM HangsExplained == Spec => HangsOnEmpty
<1>1. ASSUME DInv, Next, NEW th \in Threads, pc[th] # "hung", pc'[th] = "hung",
             NEW n \in Names, n = op[th].name, spoiled[n] = {}
      PROVE  pc[th] = "scan" /\ made[n].rows = 0
    <2>1. /\ th \in On(n)
          /\ \/ pc[th] = "read" /\ op[th].scheme.size = 0
             \/ pc[th] = "scan" /\ op[th].data.size = 0
        BY <1>1, WhoHangs DEF DInv
    <2>2. TInv /\ TableFits(n) /\ WorkerFits(th, n)
        BY <1>1, <2>1 DEF DInv, NameFits, Clean
    <2>3. ReaderFits(th, n)
        BY <2>1, <2>2 DEF WorkerFits, Reading, Finding
    <2>4. CASE pc[th] = "read"
        <3>1. op[th].scheme # None
            BY <2>2, <2>4 DEF TInv, OpFits
        <3> QED
            BY <1>1, <2>1, <2>3, <2>4, <3>1 DEF ReaderFits
    <2>5. CASE pc[th] = "scan"
        <3>1. op[th].data # None /\ op[th].data.size = 0
            BY <2>1, <2>2, <2>5 DEF TInv, OpFits
        <3>2. made[n] # None /\ op[th].data.file = dir[Data(n)] /\ disk[op[th].data.file] = None
            BY <1>1, <2>3, <3>1 DEF ReaderFits
        <3>3. op[th].data \in Handle
            BY <2>2, <3>1 DEF TInv, ThreadsTyped, Ops
        <3> PICK f \in Files : f = op[th].data.file
            BY <3>3 DEF Handle
        <3>4. ~PageThere(n)
            BY <3>2 DEF PageThere
        <3>5. made[n].rows \in Nat
            BY <2>2, <3>2 DEF TInv, RestTyped, Tables
        <3> QED
            BY <2>2, <2>5, <3>2, <3>4, <3>5 DEF TableFits
    <2> QED
        BY <2>1, <2>4, <2>5
<1>2. DInv /\ [Next]_vars =>
          [\A th \in Threads : pc[th] # "hung" /\ pc'[th] = "hung" =>
              LET n == op[th].name
              IN  spoiled[n] # {} \/ (pc[th] = "scan" /\ made[n].rows = 0)]_vars
    BY <1>1, WhoHangs DEF DInv
<1>3. DInv /\ [Next]_vars =>
          [\A th \in Threads : pc[th] # "hung" /\ pc'[th] = "hung" =>
              LET n == op[th].name
              IN  \/ spoiled[n] # {}
                  \/ pc[th] = "scan" /\ made[n].rows = 0]_vars
    BY <1>2
<1> QED
    BY <1>3, FitsHold, PTL DEF Spec, HangsOnEmpty
=============================================================================
