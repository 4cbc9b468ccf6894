------------------------------- MODULE Lookup -------------------------------
(***************************************************************************)
(* Longest prefix match, three times: longest_prefix_match of the routers  *)
(* (08-router) walks a list; 10-lookup has a binary trie, and a trie of    *)
(* Stride bits per level that is packed into the arrays of a poptrie.      *)
(*                                                                         *)
(* A trie is the set of its nodes, each the path that leads to it; nodes   *)
(* of the poptrie are numbers.  A few bits stand for the 32 of an address,  *)
(* Stride for 4.  Prefixes have no bits beyond their length (a poptrie     *)
(* writes past its arrays for some that have), and the arrays come zeroed  *)
(* from the kernel: only 8 bytes of them are cleared.                      *)
(***************************************************************************)
EXTENDS Naturals, Sequences, FiniteSets, SequencesExt

CONSTANTS Stride, None,
  Lines  \* bounds the lines of the table, for every width of addresses
ASSUME Sizes == Stride \in Nat \ {0} /\ \A w \in DOMAIN Lines : w \in Nat /\ w % Stride = 0

VARIABLES
  width,   \* bits of an address
  table,   \* the lines read, which are also the list rtable
  iptree,  \* isIP of each node of the binary trie
  multi,   \* mask[] of each node of the other, with isIP where it is set
  pop      \* the poptrie: N and L, once it is built
vars == <<width, table, iptree, multi, pop>>

Bits(n) == [1..n -> {0, 1}]
Address == Bits(width)
Prefix == UNION {Bits(n) : n \in 0..width}

Larger(m, n) == IF m > n THEN m ELSE n
Greatest(S) == CHOOSE n \in S : \A k \in S : k <= n

(***************************************************************************)
(* rtable: the first of the longest of the entries that match.             *)
(***************************************************************************)
\* mutant: the last match is taken
MutBetter(best, e) == TRUE

Better(best, e) == best = None \/ Len(best) < Len(e)

LongestPrefixMatch(dst) ==
  FoldLeft(LAMBDA best, e : IF IsPrefix(e, dst) /\ Better(best, e) THEN e ELSE best, None, table)

(***************************************************************************)
(* trie_tree.c.  A node without a prefix has isIP 0, as has the prefix of  *)
(* length 0.                                                               *)
(***************************************************************************)
InsertTrieNode(e) ==
  [n \in DOMAIN iptree \cup {SubSeq(e, 1, k) : k \in 0..Len(e)} |->
     IF n = e THEN Len(e) ELSE IF n \in DOMAIN iptree THEN iptree[n] ELSE 0]

TrieLookup(ip) ==
  LET found == {k \in 0..width : SubSeq(ip, 1, k) \in DOMAIN iptree /\ iptree[SubSeq(ip, 1, k)] # 0}
  IN IF found = {} THEN 0 ELSE iptree[SubSeq(ip, 1, Greatest(found))]

(***************************************************************************)
(* poptrie.c, the trie of Stride bits.                                     *)
(***************************************************************************)
Key == 0..2^Stride - 1
ValueOf(bits) == FoldLeft(LAMBDA v, b : 2 * v + b, 0, bits)
Digit(path, level) == ValueOf(SubSeq(path, Stride * (level - 1) + 1, Stride * level))
Digits(path, n) == [l \in 1..n |-> Digit(path, l)]

\* the slots of the last node: those that begin with the rest of the prefix
Slots(e, level) ==
  LET free == Stride * level - Len(e)
      first == Digit(e \o [i \in 1..Stride |-> 0], level)
      count == IF Len(e) % Stride = 0 THEN 1 ELSE 2^free
  IN first..first + count - 1

\* mutant: a shorter prefix that comes later overwrites a longer one
MutMask(old, new) == new

Mask(old, new) == Larger(old, new)

Node == [k \in Key |-> [isIP |-> FALSE, mask |-> 0]]
InsertMultiTrieNode(e) ==
  LET level == IF Len(e) = 0 THEN 1 ELSE (Len(e) + Stride - 1) \div Stride
      path == Digits(e, level - 1)
      grown == [n \in DOMAIN multi \cup {SubSeq(path, 1, l) : l \in 0..level - 1} |->
                  IF n \in DOMAIN multi THEN multi[n] ELSE Node]
  IN [grown EXCEPT ![path] =
        [k \in Key |-> IF k \in Slots(e, level)
                       THEN [isIP |-> TRUE, mask |-> Mask(@[k].mask, Len(e))] ELSE @[k]]]

(***************************************************************************)
(* build_poptrie.  dfs_build numbers the children of a node together, and  *)
(* its leaves, before it descends into each child.                         *)
(***************************************************************************)
Child(path) == {k \in Key : Append(path, k) \in DOMAIN multi}
Leaf(path) == {k \in Key : multi[path][k].isIP}

RECURSIVE DfsBuild(_, _, _)
DfsBuild(path, ind, t) ==
  LET node == [leafvec |-> Leaf(path), vector |-> Child(path),
               base0 |-> Len(t.L), base1 |-> t.alloc_node]
      here == [N |-> [t.N EXCEPT ![ind] = node],
               L |-> t.L \o [i \in 1..Cardinality(Leaf(path)) |->
                               multi[path][SetToSortSeq(Leaf(path), <)[i]].mask],
               alloc_node |-> t.alloc_node + Cardinality(Child(path))]
  IN FoldLeft(LAMBDA u, k : DfsBuild(Append(path, k),
                                     node.base1 + Cardinality({c \in Child(path) : c <= k}) - 1, u),
              here, SetToSortSeq(Child(path), <))

BuildPoptrie ==
  DfsBuild(<<>>, 0, [N |-> [i \in 0..Cardinality(DOMAIN multi) - 1 |-> None], L |-> <<>>, alloc_node |-> 1])

Popcnt(S, v) == Cardinality({k \in S : k <= v})

\* the nodes a lookup goes through
RECURSIVE PoptrieLookup(_, _, _, _)
PoptrieLookup(ip, ind, level, ret) ==
  LET v == Digit(ip, level)
      n == pop.N[ind]
      found == IF v \in n.leafvec THEN pop.L[n.base0 + Popcnt(n.leafvec, v)] ELSE ret
  IN IF v \in n.vector
     THEN PoptrieLookup(ip, n.base1 + Popcnt(n.vector, v) - 1, level + 1, found)
     ELSE found

Init ==
  /\ width \in DOMAIN Lines
  /\ table = <<>>
  /\ iptree = (<<>> :> 0) /\ multi = (<<>> :> Node)
  /\ pop = None

\* a line of the table is read
Insert(e) ==
  /\ pop = None /\ Len(table) < Lines[width]
  /\ table' = Append(table, e)
  /\ iptree' = InsertTrieNode(e)
  /\ multi' = InsertMultiTrieNode(e)
  /\ UNCHANGED <<width, pop>>

Build ==
  /\ pop = None
  /\ pop' = BuildPoptrie
  /\ UNCHANGED <<width, table, iptree, multi>>

Next == Build \/ \E e \in Prefix : Insert(e)
Spec == Init /\ [][Next]_vars
-----------------------------------------------------------------------------
TypeOK ==
  /\ \A e \in {table[i] : i \in DOMAIN table} : e \in Prefix
  /\ \A n \in DOMAIN iptree : iptree[n] \in 0..width
  /\ \A n \in DOMAIN multi : Len(n) < Larger(1, width \div Stride)

(***************************************************************************)
(* Every lookup is the longest match, whatever the order of the lines; and *)
(* no match and the match of length 0 are not told apart by the tries.     *)
(***************************************************************************)
Lengths(ip) == {Len(e) : e \in {f \in {table[i] : i \in DOMAIN table} : IsPrefix(f, ip)}}
ListFinds(ip) ==
  LET e == LongestPrefixMatch(ip)
  IN IF Lengths(ip) = {} THEN e = None ELSE IsPrefix(e, ip) /\ Len(e) = Greatest(Lengths(ip))
TriesFind(ip) ==
  LET n == Greatest(Lengths(ip) \cup {0})
  IN TrieLookup(ip) = n /\ PoptrieLookup(ip, 0, 1, 0) = n

AllLongest ==
  /\ TypeOK
  /\ \A ip \in Address : ListFinds(ip) /\ (pop # None => TriesFind(ip))
=============================================================================
