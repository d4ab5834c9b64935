--------------------------------- MODULE Mmr ---------------------------------
(***************************************************************************)
(* The Merkle mountain range of reward vouchers (mmr): only the peaks are  *)
(* kept, and the Merkle paths a wallet follows are patched at every push.  *)
(* A hash is the term it hashes, so two hashes agree exactly when they are *)
(* built from the same leaves in the same places.                          *)
(***************************************************************************)
EXTENDS Integers, Sequences, FiniteSets, Maps

CONSTANT MaxHeight   \* MAX_HEIGHT

VARIABLES roots,     \* the peaks, the top of the stack last
          paths,     \* tracked leaf index -> its siblings, from the bottom
          leaves     \* (history) every element pushed, in order

mmrVars == <<roots, paths, leaves>>

Element(v) == [leaf |-> v]
Compress(l, r) == [left |-> l, right |-> r]

EmptySubtreeRoot[h \in 1..MaxHeight] ==
  IF h = 1 THEN Element(0) ELSE Compress(EmptySubtreeRoot[h - 1], EmptySubtreeRoot[h - 1])

IsLeftChild(leaf, h) == (leaf \div 2 ^ (h - 1)) % 2 = 0

AreSiblingsAt(a, b, h) ==
  LET x == a \div 2 ^ (h - 1)
      y == b \div 2 ^ (h - 1)
  IN x # y /\ x \div 2 = y \div 2

SiblingHeight(a, b) == CHOOSE h \in 1..MaxHeight : AreSiblingsAt(a, b, h)

NumLeaves(h) == 2 ^ (h - 1)

(* len *)
LeafCount == LET sum[i \in 0..Len(roots)] ==
                   IF i = 0 THEN 0 ELSE sum[i - 1] + NumLeaves(roots[i].height)
             IN sum[Len(roots)]

Full == roots # <<>> /\ roots[Len(roots)].height = MaxHeight

(* The peak a push meets after m merges. *)
Peak(m) == roots[Len(roots) - m]

(* The peaks a new leaf is merged with are those of heights 1, 2, .. at    *)
(* the top of the stack.                                                   *)
Merges == CHOOSE m \in 0..Len(roots) :
            /\ \A i \in 1..m : Peak(i - 1).height = i
            /\ m < Len(roots) => Peak(m).height # m + 1

(* The subtree that holds the new leaf, after m merges. *)
LastRoot(elem) == LET last[m \in 0..Len(roots)] ==
                        IF m = 0 THEN elem ELSE Compress(Peak(m - 1).root, last[m - 1])
                  IN last

(* push *)
Pushed(elem) == Append(SubSeq(roots, 1, Len(roots) - Merges),
                       [root |-> LastRoot(elem)[Merges], height |-> Merges + 1])

(* The hashes update_paths_above_merge precomputes: the subtree of the new *)
(* leaf at each height, its right half empty where it has none.            *)
SubtreeHashes(elem) ==
  LET leaf == LeafCount
      left == [h \in (Merges + 1)..MaxHeight |->
                 Cardinality({g \in (Merges + 1)..h : ~IsLeftChild(leaf, g)})]
      hash[h \in 1..MaxHeight] ==
        IF h <= Merges + 1 THEN LastRoot(elem)[h - 1]
        ELSE IF IsLeftChild(leaf, h - 1)
             THEN Compress(hash[h - 1], EmptySubtreeRoot[h - 1])
             ELSE Compress(Peak(Merges + left[h - 1] - 1).root, hash[h - 1])
  IN hash

(* The siblings of the new leaf. *)
NewPath(elem) ==
  LET leaf == LeafCount
      lefts(h) == Cardinality({g \in (Merges + 1)..h : ~IsLeftChild(leaf, g)})
  IN [h \in 1..(MaxHeight - 1) |->
        IF h <= Merges THEN Peak(h - 1).root
        ELSE IF IsLeftChild(leaf, h) THEN EmptySubtreeRoot[h]
        ELSE Peak(Merges + lefts(h) - 1).root]

(* The paths are patched at the merges only. *)
UpdatePathFaulty(path, at, elem) ==
  [h \in 1..(MaxHeight - 1) |->
     IF h <= Merges /\ AreSiblingsAt(LeafCount, at, h) THEN LastRoot(elem)[h - 1] ELSE path[h]]

(* update_paths_at_merge at every merge, then update_paths_above_merge.    *)
UpdatePath(path, at, elem) ==
  [h \in 1..(MaxHeight - 1) |->
     IF h <= Merges /\ AreSiblingsAt(LeafCount, at, h) THEN LastRoot(elem)[h - 1]
     ELSE IF h > Merges /\ SiblingHeight(LeafCount, at) = h THEN SubtreeHashes(elem)[h]
     ELSE path[h]]

(* push_with_paths; a caller that does not follow the new leaf drops its   *)
(* path.                                                                   *)
PushWithPaths(keep) ==
  /\ ~Full
  /\ LET elem == Element(Len(leaves) + 1)
         patched == [at \in DOMAIN paths |-> UpdatePath(paths[at], at, elem)]
     IN /\ roots' = Pushed(elem)
        /\ paths' = IF keep THEN With(patched, LeafCount, NewPath(elem)) ELSE patched
        /\ leaves' = Append(leaves, elem)

(* A path that is no longer followed. *)
Forget(at) == paths' = Without(paths, {at}) /\ UNCHANGED <<roots, leaves>>

MmrInit == roots = <<>> /\ paths = <<>> /\ leaves = <<>>
MmrNext == \/ \E keep \in BOOLEAN : PushWithPaths(keep)
           \/ \E at \in DOMAIN paths : Forget(at)
MmrSpec == MmrInit /\ [][MmrNext]_mmrVars

(* frontier_root: the peaks folded from the lowest up, each padded with    *)
(* empty subtrees to the height of the next.                               *)
FrontierRoot ==
  LET n == Len(roots)
      pad(root, from, to) ==
        LET padded[h \in from..to] ==
              IF h = from THEN root ELSE Compress(padded[h - 1], EmptySubtreeRoot[h - 1])
        IN padded[to]
      folded[i \in 1..n] ==
        IF i = n THEN [root |-> roots[n].root, height |-> roots[n].height]
        ELSE [root |-> Compress(roots[i].root,
                                pad(folded[i + 1].root, folded[i + 1].height, roots[i].height)),
              height |-> roots[i].height + 1]
  IN IF n = 0 THEN EmptySubtreeRoot[MaxHeight]
     ELSE pad(folded[1].root, folded[1].height, MaxHeight)

(* MerklePath::root *)
PathRoot(path, at, leaf) ==
  LET current[h \in 0..(MaxHeight - 1)] ==
        IF h = 0 THEN leaf
        ELSE IF IsLeftChild(at, h) THEN Compress(current[h - 1], path[h])
        ELSE Compress(path[h], current[h - 1])
  IN current[MaxHeight - 1]

-----------------------------------------------------------------------------
(* The reference: the perfect tree over the leaves, padded with the empty  *)
(* value.                                                                  *)
TreeRoot ==
  LET node[h \in 1..MaxHeight] ==
        [i \in 0..(2 ^ (MaxHeight - h) - 1) |->
           IF h = 1 THEN IF i < Len(leaves) THEN leaves[i + 1] ELSE Element(0)
           ELSE Compress(node[h - 1][2 * i], node[h - 1][2 * i + 1])]
  IN node[MaxHeight][0]

(* The peaks stand for the padded tree of all the leaves: frontier_root is *)
(* its root.                                                               *)
FrontierIsTheTree == FrontierRoot = TreeRoot

(* Every path that has been followed since its leaf was pushed, whatever   *)
(* paths were followed or dropped beside it, still proves its leaf under   *)
(* the current root ("All paths in `paths` are updated in-place so they    *)
(* remain valid").                                                         *)
PathsStayValid ==
  \A at \in DOMAIN paths : PathRoot(paths[at], at, leaves[at + 1]) = TreeRoot

(* The peaks and every followed path agree with the tree over the leaves.  *)
MmrMatchesTree == FrontierIsTheTree /\ PathsStayValid
=============================================================================
