------------------------------ MODULE BlockTree ------------------------------
(***************************************************************************)
(* The block tree of consensus/cryptarchia-engine (struct Branches).       *)
(*                                                                         *)
(* A header id is a hash of the header, and the header contains the id of  *)
(* the parent: an id stands for the whole history of its block.  A block   *)
(* is therefore modelled by its history, the sequence of the headers from  *)
(* the child of genesis up to the block itself, and genesis by << >>.      *)
(* Parent, length and ancestry are then functions of the block, exactly as *)
(* they are functions of a (collision-free) id in the code.  A header is a *)
(* record with at least a field "slot".                                    *)
(***************************************************************************)
EXTENDS Naturals, Sequences, FiniteSets

Genesis == << >>

Length(b) == Len(b)

\* The ancestor of b of length n.
AtLength(b, n) == SubSeq(b, 1, n)

ParentOf(b) == AtLength(b, Len(b) - 1)

\* Slot::genesis() is slot 0.
SlotOf(b) == IF b = Genesis THEN 0 ELSE b[Len(b)].slot

\* a is b or one of its ancestors.
IsAncestor(a, b) ==
  /\ Len(a) <= Len(b)
  /\ \A i \in 1..Len(a) : a[i] = b[i]

\* The blocks that repeated calls of Branches::parent visit from b in the
\* tree T, b included: the walk ends below the oldest block of T, whose
\* parent is itself (genesis) or was pruned.
Walk(T, b) ==
  {b} \cup {a \in T : /\ IsAncestor(a, b)
                      /\ \A n \in Len(a)..(Len(b) - 1) : AtLength(b, n) \in T}

\* T is one tree with root r: its blocks descend from r through blocks of T.
Rooted(T, r) ==
  /\ r \in T
  /\ \A b \in T :
       /\ IsAncestor(r, b)
       /\ \A n \in Len(r)..Len(b) : AtLength(b, n) \in T

\* The longest and the shortest block of a non-empty set of blocks of one chain.
Highest(S) == CHOOSE b \in S : \A c \in S : Len(c) <= Len(b)
Lowest(S)  == CHOOSE b \in S : \A c \in S : Len(b) <= Len(c)

\* Branches::lca answers None exactly when HasLca is false; its callers
\* "expect" an answer.
HasLca(T, b1, b2) == Walk(T, b1) \cap Walk(T, b2) # {}
Lca(T, b1, b2)    == Highest(Walk(T, b1) \cap Walk(T, b2))

\* Branches::walk_back_before: the first block of the walk at or before slot,
\* or the oldest block of the tree.
WalkBackBefore(T, b, slot) ==
  LET before == {a \in Walk(T, b) : SlotOf(a) <= slot}
  IN  IF before = {} THEN Lowest(Walk(T, b)) ELSE Highest(before)

\* Branches::walk_back_to_block: the blocks of the walk from b down to target,
\* target excluded, or down to the oldest block of the tree.
WalkBackTo(T, b, target) ==
  IF target \in Walk(T, b)
  THEN {a \in Walk(T, b) : Len(a) > Len(target)}
  ELSE Walk(T, b)

\* Branches::lib_to_tip_blocks
LibToTip(T, lib, tip) ==
  IF lib \in Walk(T, tip)
  THEN {a \in Walk(T, tip) : Len(a) >= Len(lib)}
  ELSE Walk(T, tip)

==============================================================================
