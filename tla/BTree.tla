------------------------------- MODULE BTree -------------------------------
(***************************************************************************)
(* The B+ tree of the btree workload (btree1.c).  A call of insert or      *)
(* delete is one step for the leaf and one for each level its recursion    *)
(* (insert_into_parent, delete_entry) climbs; `call` is the pending        *)
(* recursive call.                                                         *)
(*                                                                         *)
(* A node's arrays are sequences: num_keys is Len(keys), ptrs are the      *)
(* valid pointers, and a leaf's pointers[order - 1] is `next`.  A key has  *)
(* at most one live record, which carries the key's name.                  *)
(***************************************************************************)
EXTENDS Integers, Sequences, FiniteSets, SequencesExt

CONSTANTS
  Key,          \* a finite set of integers
  Value, Absent,
  Repeated,     \* the keys that callers insert with every value ...
  Usual,        \* ... and the only value that the others get
  Orders,       \* the values of the global `order` (at least MIN_ORDER = 3)
  PoolSize      \* the bound on the nodes the slabs provide

ASSUME OrdersAssumption == \A o \in Orders : o \in Nat /\ o >= 3
ASSUME InputsAssumption == Repeated \subseteq Key /\ Usual \in Value
ASSUME AbsentAssumption == Absent \notin Value

Inputs == {i \in Key \X Value : i[2] = Usual \/ i[1] \in Repeated}

NULL == 0
NodePool == 1 .. PoolSize

VARIABLES
  order,
  root,
  node,       \* the nodes
  free,       \* free_nodes
  rec,        \* the value in the record of a key, Absent if it has none
  call,       \* the pending recursive call
  unwind      \* the nodes coalesce_nodes frees when that call returns

vars == <<order, root, node, free, rec, call, unwind>>

Idle == [op |-> "none"]
Blank == [leaf |-> FALSE, keys |-> <<>>, ptrs |-> <<>>, parent |-> NULL, next |-> NULL]

Init ==
  /\ order \in Orders
  /\ root = NULL
  /\ node = [n \in NodePool |-> Blank]
  /\ free = NodePool
  /\ rec = [k \in Key |-> Absent]
  /\ call = Idle
  /\ unwind = {}

-----------------------------------------------------------------------------
(* Searching. *)

\* The index of the first key above, or not below, k, or one past the last key.
FirstAbove(keys, k) ==
  LET i == SelectInSeq(keys, LAMBDA x : k < x) IN IF i = 0 THEN Len(keys) + 1 ELSE i
FirstNotBelow(keys, k) ==
  LET i == SelectInSeq(keys, LAMBDA x : k <= x) IN IF i = 0 THEN Len(keys) + 1 ELSE i

ChildFor(n, k) == node[n].ptrs[FirstAbove(node[n].keys, k)]

find_leaf(k) ==
  LET descend[n \in NodePool] == IF node[n].leaf THEN n ELSE descend[ChildFor(n, k)]
  IN IF root = NULL THEN NULL ELSE descend[root]

find(k) ==
  LET leaf == find_leaf(k) IN
  IF leaf # NULL /\ Contains(node[leaf].keys, k)
  THEN rec[node[leaf].ptrs[SelectInSeq(node[leaf].keys, LAMBDA x : x = k)]]
  ELSE Absent

\* The leaves from n on.
Chain(n) ==
  LET from[m \in NodePool \cup {NULL}] == IF m = NULL THEN <<>> ELSE <<m>> \o from[node[m].next]
  IN from[n]

ChainKeys(n) == LET chain == Chain(n) IN FlattenSeq([i \in DOMAIN chain |-> node[chain[i]].keys])

\* find_range gives up when the leaf for key_start has no key in the range.
find_range(lo, hi) ==
  LET n == find_leaf(lo) IN
  IF n = NULL \/ \A i \in DOMAIN node[n].keys : node[n].keys[i] < lo
  THEN <<>>
  ELSE SelectSeq(ChainKeys(n), LAMBDA k : lo <= k /\ k <= hi)

cut(length) == IF length % 2 = 0 THEN length \div 2 ELSE length \div 2 + 1

-----------------------------------------------------------------------------
(* Insertion. *)
Alloc == CHOOSE n \in free : \A m \in free : n <= m

Adopt(h, p) ==   \* every child of p points up to p
  [x \in NodePool |-> IF Contains(h[p].ptrs, x) THEN [h[x] EXCEPT !.parent = p] ELSE h[x]]

Return == call' = Idle

\* insert: a duplicate only gets the new value.
insert_duplicate(k, v) ==
  /\ find(k) # Absent
  /\ rec' = [rec EXCEPT ![k] = v]
  /\ UNCHANGED <<order, root, node, free, call, unwind>>

start_new_tree(k, v) ==
  /\ root = NULL
  /\ rec' = [rec EXCEPT ![k] = v]
  /\ root' = Alloc
  /\ free' = free \ {Alloc}
  /\ node' = [node EXCEPT ![Alloc] = [Blank EXCEPT !.leaf = TRUE, !.keys = <<k>>, !.ptrs = <<k>>]]
  /\ UNCHANGED <<order, call, unwind>>

\* A leaf with key k and its record in their place.
WithEntry(leaf, k) ==
  LET i == FirstNotBelow(leaf.keys, k) IN
  [leaf EXCEPT !.keys = InsertAt(@, i, k), !.ptrs = InsertAt(@, i, k)]

insert_into_leaf(k, v) ==
  LET leaf == find_leaf(k) IN
  /\ root # NULL /\ find(k) = Absent
  /\ Len(node[leaf].keys) < order - 1
  /\ rec' = [rec EXCEPT ![k] = v]
  /\ node' = [node EXCEPT ![leaf] = WithEntry(@, k)]
  /\ UNCHANGED <<order, root, free, call, unwind>>

\* The halves of a split array, and the link from the left leaf to the new one.
Lower(s, split) == SubSeq(s, 1, split)
UpperSkipping(s, split) == SubSeq(s, split + 2, Len(s))
Upper(s, split) == SubSeq(s, split + 1, Len(s))

LinkMissing(n, new) == n
Link(n, new) == [n EXCEPT !.next = new]

insert_into_leaf_after_splitting(k, v) ==
  LET leaf  == find_leaf(k)
      temp  == WithEntry(node[leaf], k)
      split == cut(order - 1)
      new   == Alloc
      left  == [temp EXCEPT !.keys = Lower(@, split), !.ptrs = Lower(@, split)]
      right == [temp EXCEPT !.keys = Upper(@, split), !.ptrs = Upper(@, split)]
  IN
  /\ root # NULL /\ find(k) = Absent
  /\ Len(node[leaf].keys) = order - 1
  /\ rec' = [rec EXCEPT ![k] = v]
  /\ free' = free \ {new}
  /\ node' = [node EXCEPT ![leaf] = Link(left, new), ![new] = right]
  /\ call' = [op |-> "insert_into_parent", left |-> leaf, key |-> right.keys[1], right |-> new]
  /\ UNCHANGED <<order, root, unwind>>

Insert(k, v) ==
  /\ call = Idle
  /\ \/ insert_duplicate(k, v)
     \/ start_new_tree(k, v)
     \/ insert_into_leaf(k, v)
     \/ insert_into_leaf_after_splitting(k, v)

Parent == node[call.left].parent
LeftIndex == SelectInSeq(node[Parent].ptrs, LAMBDA p : p = call.left)   \* get_left_index
WithChild(n) ==
  [n EXCEPT !.keys = InsertAt(@, LeftIndex, call.key), !.ptrs = InsertAt(@, LeftIndex + 1, call.right)]

insert_into_new_root ==
  /\ call.op = "insert_into_parent" /\ Parent = NULL
  /\ root' = Alloc
  /\ free' = free \ {Alloc}
  /\ node' = Adopt([node EXCEPT ![Alloc] = [Blank EXCEPT !.keys = <<call.key>>,
                                                         !.ptrs = <<call.left, call.right>>]], Alloc)
  /\ Return
  /\ UNCHANGED <<order, rec, unwind>>

insert_into_node ==
  /\ call.op = "insert_into_parent" /\ Parent # NULL
  /\ Len(node[Parent].keys) < order - 1
  /\ node' = [node EXCEPT ![Parent] = WithChild(@)]
  /\ Return
  /\ UNCHANGED <<order, root, free, rec, unwind>>

insert_into_node_after_splitting ==
  LET temp  == WithChild(node[Parent])
      split == cut(order)
      new   == Alloc
  IN
  /\ call.op = "insert_into_parent" /\ Parent # NULL
  /\ Len(node[Parent].keys) = order - 1
  /\ free' = free \ {new}
  /\ node' = Adopt([node EXCEPT
                      ![Parent].keys = Lower(temp.keys, split - 1),
                      ![Parent].ptrs = Lower(temp.ptrs, split),
                      ![new] = [temp EXCEPT !.keys = Upper(@, split), !.ptrs = Upper(@, split)]], new)
  /\ call' = [op |-> "insert_into_parent", left |-> Parent, key |-> temp.keys[split], right |-> new]
  /\ UNCHANGED <<order, root, rec, unwind>>

-----------------------------------------------------------------------------
(* Deletion. *)
Delete(k) ==
  /\ call = Idle /\ find(k) # Absent
  /\ call' = [op |-> "delete_entry", n |-> find_leaf(k), key |-> k, ptr |-> k, record |-> k]
  /\ UNCHANGED <<order, root, node, free, rec, unwind>>

remove_entry_from_node(n, k, p) ==
  [n EXCEPT !.keys = RemoveAt(@, SelectInSeq(@, LAMBDA x : x = k)),
            !.ptrs = RemoveAt(@, SelectInSeq(@, LAMBDA x : x = p))]

\* The nodes after delete_entry has removed its entry, and its node.
Removed == [node EXCEPT ![call.n] = remove_entry_from_node(@, call.key, call.ptr)]
Shrunk == Removed[call.n]

\* The calls return: coalesce_nodes frees its nodes, delete the record.
ReturnFreeingRoot(h, more) ==
  /\ free' = free \cup more
  /\ node' = [n \in NodePool |-> IF n \in unwind \cup more THEN Blank ELSE h[n]]
  /\ rec' = [rec EXCEPT ![call.record] = Absent]
  /\ unwind' = {}
  /\ Return

ReturnFreeing(h, more) ==
  /\ free' = free \cup unwind \cup more
  /\ node' = [n \in NodePool |-> IF n \in unwind \cup more THEN Blank ELSE h[n]]
  /\ rec' = [rec EXCEPT ![call.record] = Absent]
  /\ unwind' = {}
  /\ Return

DeleteFromRoot ==    \* adjust_root
  /\ call.op = "delete_entry" /\ call.n = root
  /\ IF Shrunk.keys # <<>>
     THEN root' = root /\ ReturnFreeing(Removed, {})
     ELSE /\ root' = IF Shrunk.leaf THEN NULL ELSE Shrunk.ptrs[1]
          /\ ReturnFreeing(IF Shrunk.leaf THEN Removed
                           ELSE [Removed EXCEPT ![Shrunk.ptrs[1]].parent = NULL], {root})
  /\ UNCHANGED order

MinKeysHalf(n) == IF n.leaf THEN cut(order - 1) ELSE cut(order - 1) - 1
MinKeys(n) == IF n.leaf THEN cut(order - 1) ELSE cut(order) - 1

DeleteSimple ==
  /\ call.op = "delete_entry" /\ call.n # root
  /\ Len(Shrunk.keys) >= MinKeys(Shrunk)
  /\ ReturnFreeing(Removed, {})
  /\ UNCHANGED <<order, root>>

\* get_neighbor_index and what delete_entry derives from it.
Position  == SelectInSeq(node[Shrunk.parent].ptrs, LAMBDA p : p = call.n)
Leftmost  == Position = 1
KPrimeIndex == IF Leftmost THEN 1 ELSE Position - 1
KPrime    == node[Shrunk.parent].keys[KPrimeIndex]
Neighbor  == node[Shrunk.parent].ptrs[IF Leftmost THEN 2 ELSE Position - 1]
Capacity  == IF Shrunk.leaf THEN order ELSE order - 1
Underflow ==
  /\ call.op = "delete_entry" /\ call.n # root
  /\ Len(Shrunk.keys) < MinKeys(Shrunk)
Fits == Len(node[Neighbor].keys) + Len(Shrunk.keys) < Capacity

Merged(l, r) ==
  IF l.leaf THEN [l EXCEPT !.keys = @ \o r.keys, !.ptrs = @ \o r.ptrs, !.next = r.next]
  ELSE [l EXCEPT !.keys = @ \o <<KPrime>> \o r.keys, !.ptrs = @ \o r.ptrs]

coalesce_nodes ==
  LET left  == IF Leftmost THEN call.n ELSE Neighbor
      right == IF Leftmost THEN Neighbor ELSE call.n
      h     == [Removed EXCEPT ![left] = Merged(Removed[left], Removed[right])]
  IN
  /\ Underflow /\ Fits
  /\ node' = IF Shrunk.leaf THEN h ELSE Adopt(h, left)
  /\ unwind' = unwind \cup {right}
  /\ call' = [op |-> "delete_entry", n |-> Shrunk.parent, key |-> KPrime, ptr |-> right,
              record |-> call.record]
  /\ UNCHANGED <<order, root, free, rec>>

\* n after taking the neighbour's nearest entry, the neighbour without it, and
\* the separator between them.
Taken(nb) ==
  LET last == Len(nb.keys) IN
  IF Leftmost
  THEN [n   |-> [Shrunk EXCEPT !.keys = Append(@, IF Shrunk.leaf THEN nb.keys[1] ELSE KPrime),
                               !.ptrs = Append(@, nb.ptrs[1])],
        nb  |-> [nb EXCEPT !.keys = Tail(@), !.ptrs = Tail(@)],
        sep |-> IF Shrunk.leaf THEN nb.keys[2] ELSE nb.keys[1]]
  ELSE [n   |-> [Shrunk EXCEPT !.keys = <<IF Shrunk.leaf THEN nb.keys[last] ELSE KPrime>> \o @,
                               !.ptrs = <<Last(nb.ptrs)>> \o @],
        nb  |-> [nb EXCEPT !.keys = Front(@), !.ptrs = Front(@)],
        sep |-> nb.keys[last]]

SeparatorStale(nb) == KPrime
Separator(nb) == Taken(nb).sep

redistribute_nodes ==
  LET nb == node[Neighbor]
      h  == [Removed EXCEPT ![call.n] = Taken(nb).n, ![Neighbor] = Taken(nb).nb,
                            ![Shrunk.parent].keys[KPrimeIndex] = Separator(nb)]
  IN
  /\ Underflow /\ ~Fits
  /\ ReturnFreeing(IF Shrunk.leaf THEN h ELSE Adopt(h, call.n), {})
  /\ UNCHANGED <<order, root>>

-----------------------------------------------------------------------------
Next ==
  \/ \E k \in Key : Delete(k)
  \/ \E i \in Inputs : Insert(i[1], i[2])
  \/ insert_into_new_root \/ insert_into_node \/ insert_into_node_after_splitting
  \/ DeleteFromRoot \/ DeleteSimple \/ coalesce_nodes \/ redistribute_nodes

Spec == Init /\ [][Next]_vars

-----------------------------------------------------------------------------
\* The nodes below (and with) those of S, level by level.
Depths == 0 .. PoolSize \div 2
Children(L) == UNION {ToSet(node[n].ptrs) : n \in {m \in L : ~node[m].leaf}}
Level(S) ==
  LET level[d \in Depths] == IF d = 0 THEN S \ {NULL} ELSE Children(level[d - 1])
  IN [d \in Depths |-> level[d]]
Below(S) == UNION Range(Level(S))

LeftmostLeaf ==
  LET down[n \in NodePool] == IF node[n].leaf THEN n ELSE down[node[n].ptrs[1]]
  IN IF root = NULL THEN NULL ELSE down[root]

\* The tree keeps the shape the documentation of `node` and `order` gives it
\* (btree1.c:161-210) between calls: the leaves are on one level, every node
\* but the root is at least half full, none is over-full, and the parent
\* pointers, which insert_into_parent and delete_entry climb by, are right.
Shape ==
  call = Idle =>
    LET level == Level({root})
        nodes == UNION Range(level)
    IN
    /\ \A d \in Depths : \A m, n \in level[d] : node[m].leaf <=> node[n].leaf
    /\ root # NULL => node[root].parent = NULL /\ node[root].keys # <<>>
    /\ \A n \in nodes :
         /\ Len(node[n].keys) <= order - 1
         /\ node[n].leaf /\ n # root => 2 * Len(node[n].keys) >= order - 1
         /\ ~node[n].leaf => /\ Len(node[n].ptrs) = Len(node[n].keys) + 1
                             /\ n # root => 2 * Len(node[n].ptrs) >= order
                             /\ \A c \in ToSet(node[n].ptrs) : node[c].parent = n

\* Between calls a search from the root finds every record that the leaves
\* hold, and its value: the separators are right after any sequence of
\* splits, merges and borrowings (find, btree1.c:597-625).
SearchFinds ==
  call = Idle => \A k \in Key : find(k) = rec[k]

\* The keys in the leaves, without those a merge has emptied.
LeafKeys == UNION {ToSet(node[n].keys) : n \in {m \in NodePool \ unwind : node[m].leaf}}

\* The leaf chain holds the keys of all leaves in ascending order at every
\* moment, in the middle of a split or a merge too; find_range walks it
\* (btree1.c:542-549).
ChainAscends ==
  LET keys == ChainKeys(LeftmostLeaf) IN
  /\ ToSet(keys) = LeafKeys
  /\ \A i, j \in DOMAIN keys : i < j => keys[i] < keys[j]

\* A node is in the tree, on the free list, or about to be linked in or freed,
\* and only one of these: free_node never gets a node that is still reached,
\* and none is lost (btree1.c:643-668, 1285-1287).
NoNodeLostOrShared ==
  LET tree    == Below({root})
      pending == IF call.op = "insert_into_parent" THEN Below({call.right}) ELSE {}
  IN
  /\ tree \cup pending \cup free \cup unwind = NodePool
  /\ (tree \cup pending) \cap free = {} /\ free \cap unwind = {}
  /\ pending \cap tree = {}
  /\ call = Idle => unwind = {}

\* The tree implements a dictionary: each call changes the entry of its key,
\* in one step, and no other entry is ever lost, duplicated or changed while
\* nodes are split, merged and refilled.
Abstract ==
  LET keys == LeafKeys IN [k \in Key |-> IF k \in keys THEN rec[k] ELSE Absent]
Dict == INSTANCE Dictionary WITH dict <- Abstract
ImplementsDictionary == Dict!Spec

\* "Finds keys and their pointers, if present, in the range specified by
\* key_start and key_end, inclusive" (btree1.c:529-530).
RangeComplete ==
  call = Idle =>
    \A lo, hi \in Key :
      ToSet(find_range(lo, hi)) = {k \in Key : rec[k] # Absent /\ lo <= k /\ k <= hi}
=============================================================================
