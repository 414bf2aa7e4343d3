-------------------------------- MODULE BTree --------------------------------
(***************************************************************************)
(* The B-tree index (lib/sql/btree.cpp on the page layouts of              *)
(* lib/sql/btree_page.h).                                                  *)
(*                                                                         *)
(* Page 0 holds the number of the root page.  A leaf holds sorted pairs    *)
(* and the numbers of its neighbours; an inner page holds separators and   *)
(* children, the key of its first entry being unused.  An inner page that  *)
(* is full is never split, the insert throws: so the root is a leaf or the *)
(* one inner page in use, and no page is used again once it was dropped.   *)
(*                                                                         *)
(* "leaf" gives every page of the file its content as a leaf; a page never *)
(* set up as one is all zeros.                                             *)
(***************************************************************************)
EXTENDS Integers, Sequences, SequencesExt

CONSTANTS
    Keys, Rids,
    NoRid,
    LeafMax,        \* pairs that fit in a leaf
    InnerMax,       \* entries that fit in an inner page
    MaxPages,       \* bound: pages of the file
    Removes         \* whether the caller removes keys

ASSUME KeysAssumption == Keys \subseteq Nat \ {0}
ASSUME RidsAssumption == NoRid \notin Rids
\* BTreeLeafPage::split of a full page with an odd number of pairs writes one
\* pair beyond the new page: not modelled.
ASSUME LeafAssumption == LeafMax \in Nat \ {0} /\ LeafMax % 2 = 0
ASSUME InnerAssumption == InnerMax \in Nat /\ InnerMax >= 3
ASSUME PagesAssumption == MaxPages \in Nat /\ MaxPages >= 2
ASSUME SwitchAssumption == Removes \in BOOLEAN

VARIABLES
    root,           \* the root page, as page 0 has it
    inner,          \* the entries of the root, <<>> when it is a leaf
    leaf,           \* page -> [entries, prev, next]
    pageCount,      \* pages allocated
    removed,        \* what the last remove returned
    threw           \* whether the last operation threw

vars == <<root, inner, leaf, pageCount, removed, threw>>

Pages == 0 .. MaxPages - 1
InvalidPage == -1
InvalidKey == 0

Pair == [key : Keys, rid : Rids]
ZeroPage == [entries |-> <<>>, prev |-> 0, next |-> 0]
FreshRoot == [entries |-> <<>>, prev |-> InvalidPage, next |-> InvalidPage]

Init ==
    /\ root = 1
    /\ inner = <<>>
    /\ leaf = [p \in Pages |-> IF p = 1 THEN FreshRoot ELSE ZeroPage]
    /\ pageCount = 2
    /\ removed = FALSE
    /\ threw = FALSE

-----------------------------------------------------------------------------
\* The first entry from position "from" whose key is not below k, or the
\* position after the last.
LowerBound(s, k, from) ==
    CHOOSE i \in from .. Len(s) + 1 :
        /\ i <= Len(s) => s[i].key >= k
        /\ \A j \in from .. i - 1 : s[j].key < k

\* The first separator not below k; the key of entry 1 is none.
InnerLowerBound(k) == LowerBound(inner, k, 2)

\* The entry of the root an operation descends through: the last one for a
\* key above all separators.
Child(k) ==
    LET i == InnerLowerBound(k) IN IF i > Len(inner) THEN Len(inner) ELSE i

LeafOf(k) == IF inner = <<>> THEN root ELSE inner[Child(k)].child

Lookup(k) ==
    LET s == leaf[LeafOf(k)].entries
        i == LowerBound(s, k, 1)
    IN  IF i <= Len(s) /\ s[i].key = k THEN s[i].rid ELSE NoRid

Put(s, k, r) == InsertAt(s, LowerBound(s, k, 1), [key |-> k, rid |-> r])
MaxKey(pages, p) == Last(pages[p].entries).key

\* Mutant: one pair too many fits.
FullLate(p) == Len(leaf[p].entries) > LeafMax

Full(p) == Len(leaf[p].entries) = LeafMax

\* The index is unique (IIndex::isUnique): its callers insert a key once.
\* BTree::insert itself does not look.
MayInsert(k) == Lookup(k) = NoRid

\* What stays in a leaf that is split, and what moves.
Low(s) == SubSeq(s, 1, Len(s) \div 2)
High(s) == SubSeq(s, Len(s) \div 2 + 1, Len(s))

\* Mutants: the old leaf is linked to the new one before that has taken over
\* its next; the key always goes to the left half.
SplitLinkedFirst(p, q, k, r) ==
    LET s == leaf[p].entries
        right == Last(Low(s)).key < k
    IN  [leaf EXCEPT
            ![p] = [@ EXCEPT !.entries = IF right THEN Low(s) ELSE Put(Low(s), k, r),
                             !.next = q],
            ![q] = [entries |-> IF right THEN Put(High(s), k, r) ELSE High(s),
                    prev |-> p, next |-> q]]
SplitThenLeft(p, q, k, r) ==
    LET s == leaf[p].entries
    IN  [leaf EXCEPT
            ![p] = [@ EXCEPT !.entries = Put(Low(s), k, r), !.next = q],
            ![q] = [entries |-> High(s), prev |-> p, next |-> leaf[p].next]]

\* The upper half of leaf p moves to the new leaf q behind it, the pair goes
\* to the half it belongs to.  The leaf behind q keeps p for its prev.
Split(p, q, k, r) ==
    LET s == leaf[p].entries
        right == Last(Low(s)).key < k
    IN  [leaf EXCEPT
            ![p] = [@ EXCEPT !.entries = IF right THEN Low(s) ELSE Put(Low(s), k, r),
                             !.next = q],
            ![q] = [entries |-> IF right THEN Put(High(s), k, r) ELSE High(s),
                    prev |-> p, next |-> leaf[p].next]]

\* Entries of the root: of page p, put in at position i, taken out.
Entry(k, p) == [key |-> k, child |-> p]
WithEntry(entries, i, k, p) == InsertAt(entries, i, Entry(k, p))
WithoutEntry(i) == RemoveAt(inner, i)

\* BTree::insert where the leaf has room.
InsertInLeaf(k, r) ==
    /\ MayInsert(k)
    /\ ~Full(LeafOf(k))
    /\ leaf' = [leaf EXCEPT ![LeafOf(k)].entries = Put(@, k, r)]
    /\ threw' = FALSE
    /\ UNCHANGED <<root, inner, pageCount, removed>>

\* BTree::insert into a full root leaf: it becomes the first and the second
\* child of a new root.
SplitRoot(k, r) ==
    LET p == root
        q == pageCount
    IN  /\ MayInsert(k)
        /\ inner = <<>> /\ Full(p)
        /\ pageCount + 2 <= MaxPages
        /\ leaf' = Split(p, q, k, r)
        /\ inner' = <<Entry(InvalidKey, p), Entry(MaxKey(leaf', p), p),
                      Entry(MaxKey(leaf', q), q)>>
        /\ root' = pageCount + 1
        /\ pageCount' = pageCount + 2
        /\ threw' = FALSE
        /\ UNCHANGED removed

\* Mutant: the separator of the left half stays.
SplitLeafOldKey(k, r) ==
    LET i == Child(k)
        q == pageCount
    IN  /\ MayInsert(k)
        /\ inner # <<>> /\ Full(inner[i].child)
        /\ Len(inner) < InnerMax
        /\ pageCount < MaxPages
        /\ leaf' = Split(inner[i].child, q, k, r)
        /\ inner' = WithEntry(inner, i + 1, MaxKey(leaf', q), q)
        /\ pageCount' = pageCount + 1
        /\ threw' = FALSE
        /\ UNCHANGED <<root, removed>>

\* BTree::insert into a full leaf below the root.
SplitLeaf(k, r) ==
    LET i == Child(k)
        p == inner[i].child
        q == pageCount
    IN  /\ MayInsert(k)
        /\ inner # <<>> /\ Full(p)
        /\ Len(inner) < InnerMax
        /\ pageCount < MaxPages
        /\ leaf' = Split(p, q, k, r)
        /\ inner' = WithEntry([inner EXCEPT ![i].key = MaxKey(leaf', p)],
                              i + 1, MaxKey(leaf', q), q)
        /\ pageCount' = pageCount + 1
        /\ threw' = FALSE
        /\ UNCHANGED <<root, removed>>

\* BTree::insert when the root is full too: "ni error!" is thrown after the
\* leaf was split and its separator lowered, and no entry leads to the upper
\* half.
SplitThrows(k, r) ==
    LET i == Child(k)
        p == inner[i].child
    IN  /\ MayInsert(k)
        /\ inner # <<>> /\ Full(p)
        /\ Len(inner) = InnerMax
        /\ pageCount < MaxPages
        /\ leaf' = Split(p, pageCount, k, r)
        /\ inner' = [inner EXCEPT ![i].key = MaxKey(leaf', p)]
        /\ pageCount' = pageCount + 1
        /\ threw' = TRUE
        /\ UNCHANGED <<root, removed>>

-----------------------------------------------------------------------------
\* BTree::remove of a key that is not there.
RemoveNothing(k) ==
    /\ Removes
    /\ Lookup(k) = NoRid
    /\ removed' = FALSE
    /\ threw' = FALSE
    /\ UNCHANGED <<root, inner, leaf, pageCount>>

\* The leaf p without its first pair with key k.
Taken(p, k) ==
    [leaf EXCEPT ![p].entries = RemoveAt(@, LowerBound(@, k, 1))]

\* BTree::remove where the leaf keeps a pair, or is the root.
RemovePair(k) ==
    LET p == LeafOf(k) IN
    /\ Removes
    /\ Lookup(k) # NoRid
    /\ Len(leaf[p].entries) > 1 \/ inner = <<>>
    /\ leaf' = Taken(p, k)
    /\ removed' = TRUE
    /\ threw' = FALSE
    /\ UNCHANGED <<root, inner, pageCount>>

\* The chain without leaf p, as far as p knows its neighbours.
Unlinked(pages, p) ==
    [x \in Pages |->
        [pages[x] EXCEPT !.next = IF x = pages[p].prev THEN pages[p].next ELSE @,
                         !.prev = IF x = pages[p].next THEN pages[p].prev ELSE @]]

EmptiesLeaf(k) ==
    /\ Removes
    /\ Lookup(k) # NoRid
    /\ inner # <<>>
    /\ Len(leaf[LeafOf(k)].entries) = 1

\* BTree::remove of the last pair of a leaf: the leaf leaves the chain and the
\* root.  The first entry of the root still names the first leaf, emptied or
\* not.
RemoveLeaf(k) ==
    /\ EmptiesLeaf(k)
    /\ Len(inner) > 2
    /\ leaf' = Unlinked(Taken(LeafOf(k), k), LeafOf(k))
    /\ inner' = WithoutEntry(Child(k))
    /\ removed' = TRUE
    /\ threw' = FALSE
    /\ UNCHANGED <<root, pageCount>>

\* BTree::remove of the last pair of all: the tree starts again with a new
\* leaf.
RemoveLast(k) ==
    /\ EmptiesLeaf(k)
    /\ Len(inner) = 2
    /\ pageCount < MaxPages
    /\ leaf' = [Unlinked(Taken(LeafOf(k), k), LeafOf(k))
                   EXCEPT ![pageCount] = FreshRoot]
    /\ inner' = <<>>
    /\ root' = pageCount
    /\ pageCount' = pageCount + 1
    /\ removed' = TRUE
    /\ threw' = FALSE

Next ==
    \E k \in Keys :
        \/ \E r \in Rids :
            \/ InsertInLeaf(k, r)
            \/ SplitRoot(k, r)
            \/ SplitLeaf(k, r)
            \/ SplitThrows(k, r)
        \/ RemoveNothing(k)
        \/ RemovePair(k)
        \/ RemoveLeaf(k)
        \/ RemoveLast(k)

Spec == Init /\ [][Next]_vars

-----------------------------------------------------------------------------
(* The full scan                                                           *)

\* BTree::read starts at the first entry of the root.
FirstLeaf == IF inner = <<>> THEN root ELSE inner[1].child

\* The leaves nextRow visits, no more than there are pages: it follows the next
\* numbers and stops at a leaf without pairs.
Visited ==
    LET path[n \in 0 .. MaxPages - 1] ==
            IF n = 0 THEN <<FirstLeaf>>
            ELSE LET before == path[n - 1]
                     last == leaf[Last(before)]
                 IN  IF Len(before) = n /\ last.entries # <<>> /\ last.next # InvalidPage
                     THEN Append(before, last.next) ELSE before
    IN  path[MaxPages - 1]

Scan == FlattenSeq([i \in DOMAIN Visited |-> leaf[Visited[i]].entries])

-----------------------------------------------------------------------------
(* Properties                                                              *)

\* Type invariant: the ranges of the tree's state; no leaf and no inner page
\* holds more than fits.
TypeOK ==
    /\ root \in Pages
    /\ inner \in Seq([key : Keys \cup {InvalidKey}, child : Pages])
    /\ Len(inner) <= InnerMax
    /\ leaf \in [Pages -> [entries : Seq(Pair), prev : Pages \cup {InvalidPage},
                           next : Pages \cup {InvalidPage}]]
    /\ \A p \in Pages : Len(leaf[p].entries) <= LeafMax
    /\ pageCount \in 2 .. MaxPages
    /\ removed \in BOOLEAN
    /\ threw \in BOOLEAN

\* Every descent ends where its key belongs: the separators ascend, a leaf
\* holds what lies between its separator and the one before, no leaf below the
\* root is empty, and none is reached twice.
SeparatorsBound ==
    inner # <<>> =>
        /\ Len(inner) >= 2
        /\ \A i, j \in 2 .. Len(inner) :
              i < j => /\ inner[i].key < inner[j].key
                       /\ inner[i].child # inner[j].child
        /\ \A i \in 2 .. Len(inner) :
              LET s == leaf[inner[i].child].entries IN
              /\ s # <<>>
              /\ i > 2 => inner[i - 1].key < s[1].key
              /\ i < Len(inner) => Last(s).key <= inner[i].key

\* The pairs that lookup finds are a map that inserts and removes change as
\* module Index says: no split, no removal of a leaf and no new root loses,
\* doubles or moves a pair, and an insert that throws only loses some.
Promise == INSTANCE Index WITH index <- [k \in Keys |-> Lookup(k)]
ImplementsIndex == Promise!Spec

\* Every leaf with pairs is below the root: no insert has thrown.
NoLeafLost ==
    \A p \in Pages \ {root} :
        leaf[p].entries # <<>> => \E i \in 2 .. Len(inner) : inner[i].child = p

\* A scan returns every pair of the index.
FullScan ==
    LET scanned == {e.key : e \in ToSet(Scan)}
    IN  \A k \in Keys : Lookup(k) # NoRid => k \in scanned

\* Every page but the metadata page is the root or below it: no leaf was ever
\* emptied and no insert threw.
AllPagesInUse == pageCount = IF inner = <<>> THEN 2 ELSE Len(inner) + 1

\* What a scan returns is in the index, in the order of the keys and once: a
\* chain that removals have cut or left pointing at dropped leaves never leads
\* back, and never to a leaf with pairs that lookup does not find.  Until a
\* leaf is dropped it returns every pair, whatever was inserted and removed
\* before: splits link the leaves in key order.
ScanIsSound ==
    LET scan == Scan IN
    /\ NoLeafLost =>
        /\ \A i \in DOMAIN scan : Lookup(scan[i].key) = scan[i].rid
        /\ \A i \in 1 .. Len(scan) - 1 : scan[i].key < scan[i + 1].key
    /\ AllPagesInUse => FullScan
=============================================================================
