------------------------------ MODULE SkipList -------------------------------
(***************************************************************************)
(* The ordered half of the in-memory index (internal/engine/skiplist.go),  *)
(* as a value.  Keys are positive numbers.  next[x] holds the pointers of  *)
(* node x, lowest level first; 0 is the head where a pointer starts and    *)
(* nil where it ends.  The entry a node carries is in module Index.        *)
(***************************************************************************)
EXTENDS Naturals, Sequences, FiniteSetsExt, Functions

CONSTANT MaxLevel   \* slMaxLevel

ASSUME SkipListAssumption == MaxLevel \in Nat \ {0}

Head0 == 0
Nil == 0

newSkiplist == [level |-> 1, n |-> 0, next |-> [x \in {Head0} |-> [i \in 1..MaxLevel |-> Nil]]]

\* The node on level i, from node x on, after which a node with the given key
\* belongs: the inner loop of insert, remove and seek.
Advance(sl, x, i, key) ==
  LET from[y \in DOMAIN sl.next] ==
        IF sl.next[y][i] # Nil /\ sl.next[y][i] < key THEN from[sl.next[y][i]] ELSE y
  IN  from[x]

\* prev: where the search for key leaves each level, from the top down.
Prev(sl, key) ==
  LET prev[i \in 1..sl.level] ==
        Advance(sl, IF i = sl.level THEN Head0 ELSE prev[i + 1], i, key)
  IN  prev

\* seek: the first node whose key is at least key, Nil if there is none.
seek(sl, key) == sl.next[Prev(sl, key)[1]][1]

\* insert of a key, on the levels 1..lvl if it is new.  randomLevel may return
\* any level.
insert(sl, key, lvl) ==
  LET prev == [i \in 1..lvl |-> IF i <= sl.level THEN Prev(sl, key)[i] ELSE Head0]
      linked == [x \in DOMAIN sl.next |->
                   [i \in DOMAIN sl.next[x] |->
                      IF i <= lvl /\ prev[i] = x THEN key ELSE sl.next[x][i]]]
      mine == [i \in 1..lvl |-> sl.next[prev[i]][i]]
  IN  IF seek(sl, key) = key THEN sl
      ELSE [level |-> Max({lvl, sl.level}), n |-> sl.n + 1,
            next |-> [x \in DOMAIN sl.next \cup {key} |-> IF x = key THEN mine ELSE linked[x]]]

\* A mutation of remove: the node is unlinked on the lowest level only.
removeLowest(sl, key) ==
  LET prev == Prev(sl, key)
  IN  IF seek(sl, key) # key THEN sl
      ELSE [sl EXCEPT !.n = @ - 1, !.next = [x \in DOMAIN @ \ {key} |->
              [i \in DOMAIN @[x] |-> IF i = 1 /\ prev[i] = x THEN @[key][i] ELSE @[x][i]]]]

\* remove: unlink the node of key on every level it is on, and drop the levels
\* that are left empty.
remove(sl, key) ==
  LET prev == Prev(sl, key)
      next == [x \in DOMAIN sl.next \ {key} |->
                 [i \in DOMAIN sl.next[x] |->
                    IF i <= sl.level /\ prev[i] = x /\ sl.next[x][i] = key
                      THEN sl.next[key][i] ELSE sl.next[x][i]]]
  IN  IF seek(sl, key) # key THEN sl
      ELSE [level |-> Max({1} \cup {i \in 1..sl.level : next[Head0][i] # Nil}),
            n |-> sl.n - 1, next |-> next]

\* scan: the keys visited from start to end, 0 for "to the last key".
scan(sl, start, end) ==
  LET on[x \in DOMAIN sl.next] ==
        IF x = Nil \/ (end # 0 /\ x > end) THEN <<>> ELSE <<x>> \o on[sl.next[x][1]]
  IN  on[seek(sl, start)]

\* The list is one: on every level of it pointers lead to a node of that level
\* with a larger key, and levels above it are empty.
WellFormed(sl) ==
  /\ Head0 \in DOMAIN sl.next /\ Len(sl.next[Head0]) = MaxLevel /\ sl.level \in 1..MaxLevel
  /\ \A x \in DOMAIN sl.next : \A i \in DOMAIN sl.next[x] :
       LET y == sl.next[x][i]
       IN  y = Nil \/ (y \in DOMAIN sl.next /\ y > x /\ i <= Len(sl.next[y]) /\ i <= sl.level)
==============================================================================
