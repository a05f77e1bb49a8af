------------------------------ MODULE AvlTree ------------------------------
(***************************************************************************)
(* The balanced tree of utility/avl_tree.cpp, which holds the open files   *)
(* of a task and the objects of the event interfaces.  A tree is <<>> or   *)
(* <<key, value, height, left, right>>; the functions that return the new  *)
(* root of a subtree are operators that return the new subtree.            *)
(***************************************************************************)
EXTENDS Integers, Sequences

CONSTANTS Keys,   \* avlkey, a set of integers
          Values  \* avlval, never 0: pointers

Nil == <<>>

Key(n) == n[1]
Value(n) == n[2]
Left(n) == n[4]
Right(n) == n[5]

CALC_HEIGHT(n) == IF n = Nil THEN 0 ELSE n[3]
CALC_BALANCE(n) == IF n = Nil THEN 0 ELSE CALC_HEIGHT(Left(n)) - CALC_HEIGHT(Right(n))

\* The node with its height brought up to date.
Node(k, v, l, r) ==
  LET hl == CALC_HEIGHT(l)
      hr == CALC_HEIGHT(r)
  IN  <<k, v, 1 + (IF hl > hr THEN hl ELSE hr), l, r>>

AVLAllocateNode(k, v) == Node(k, v, Nil, Nil)

AVLRotationsRight(y) ==
  LET x == Left(y)
  IN  Node(Key(x), Value(x), Left(x), Node(Key(y), Value(y), Right(x), Right(y)))

AVLRotationsLeft(x) ==
  LET y == Right(x)
  IN  Node(Key(y), Value(y), Node(Key(x), Value(x), Left(x), Left(y)), Right(y))

WithLeft(n, l) == Node(Key(n), Value(n), l, Right(n))
WithRight(n, r) == Node(Key(n), Value(n), Left(n), r)

(***************************************************************************)
(* The four cases of rebalancing.  outsideLeft and outsideRight say that   *)
(* the higher child leans to the outside, which allocation decides by the  *)
(* key it added and removal by the balance of the child.                   *)
(***************************************************************************)
Rebalance(n, outsideLeft, outsideRight) ==
  CASE CALC_BALANCE(n) > 1 /\ outsideLeft -> AVLRotationsRight(n)
    [] CALC_BALANCE(n) > 1 /\ ~outsideLeft ->
         AVLRotationsRight(WithLeft(n, AVLRotationsLeft(Left(n))))
    [] CALC_BALANCE(n) < -1 /\ outsideRight -> AVLRotationsLeft(n)
    [] CALC_BALANCE(n) < -1 /\ ~outsideRight ->
         AVLRotationsLeft(WithRight(n, AVLRotationsRight(Right(n))))
    [] OTHER -> n

RECURSIVE AVLAllocateL(_, _, _)
AVLAllocateL(node, k, v) ==
  IF node = Nil THEN AVLAllocateNode(k, v)
  ELSE LET n == IF k < Key(node) THEN WithLeft(node, AVLAllocateL(Left(node), k, v))
                                 ELSE WithRight(node, AVLAllocateL(Right(node), k, v))
       IN  Rebalance(n, Left(n) # Nil /\ k < Key(Left(n)), Right(n) # Nil /\ k > Key(Right(n)))

RECURSIVE AVLMinKeyNode(_)
AVLMinKeyNode(n) == IF Left(n) = Nil THEN n ELSE AVLMinKeyNode(Left(n))

\* The double rotation is forgotten when the left child leans to the right.
MutantRebalanceRemoved(n) ==
  Rebalance(n, TRUE, CALC_BALANCE(Right(n)) <= 0)

RebalanceRemoved(n) ==
  Rebalance(n, CALC_BALANCE(Left(n)) >= 0, CALC_BALANCE(Right(n)) <= 0)

(***************************************************************************)
(* A node with one child takes over the contents of the child; one with    *)
(* two takes key and value of its successor, which is removed instead.     *)
(***************************************************************************)
RECURSIVE AVLUnregisterL(_, _)
AVLUnregisterL(root, k) ==
  IF root = Nil THEN Nil
  ELSE LET n == CASE k < Key(root) -> WithLeft(root, AVLUnregisterL(Left(root), k))
                  [] k > Key(root) -> WithRight(root, AVLUnregisterL(Right(root), k))
                  [] k = Key(root) /\ Left(root) = Nil -> Right(root)
                  [] k = Key(root) /\ Left(root) # Nil /\ Right(root) = Nil -> Left(root)
                  [] OTHER ->
                       LET next == AVLMinKeyNode(Right(root))
                       IN  Node(Key(next), Value(next), Left(root),
                                AVLUnregisterL(Right(root), Key(next)))
       IN  IF n = Nil THEN Nil ELSE RebalanceRemoved(n)

NoValue == 0

RECURSIVE AVLLookup(_, _)
AVLLookup(root, k) ==
  CASE root = Nil -> NoValue
    [] root # Nil /\ k > Key(root) -> AVLLookup(Right(root), k)
    [] root # Nil /\ k < Key(root) -> AVLLookup(Left(root), k)
    [] OTHER -> Value(root)

VARIABLES first,  \* *AVLfirstPtr
          map     \* history: what was allocated and not unregistered, by key

vars == <<first, map>>

Init ==
  /\ first = Nil
  /\ map = [k \in Keys |-> NoValue]

\* A duplicate key would halt; the callers allocate only keys that are free.
AVLAllocate(k, v) ==
  /\ AVLLookup(first, k) = NoValue
  /\ first' = AVLAllocateL(first, k, v)
  /\ map' = [map EXCEPT ![k] = v]

\* Also of a key that is not there, which changes nothing.
AVLUnregister(k) ==
  /\ first' = AVLUnregisterL(first, k)
  /\ map' = [map EXCEPT ![k] = NoValue]

Next ==
  \/ \E k \in Keys, v \in Values : AVLAllocate(k, v)
  \/ \E k \in Keys : AVLUnregister(k)

Spec == Init /\ [][Next]_vars

-----------------------------------------------------------------------------

RECURSIVE Height(_)
Height(n) ==
  IF n = Nil THEN 0
  ELSE LET l == Height(Left(n))
           r == Height(Right(n))
       IN  1 + (IF l > r THEN l ELSE r)

\* The subtrees of n.
RECURSIVE Subtrees(_)
Subtrees(n) == IF n = Nil THEN {} ELSE {n} \cup Subtrees(Left(n)) \cup Subtrees(Right(n))

(***************************************************************************)
(* After any sequence of AVLAllocate and AVLUnregister, AVLLookup finds    *)
(* exactly what was allocated and not unregistered, no key is there twice, *)
(* and in every subtree the recorded heights are right and differ by at    *)
(* most one, so that no lookup takes more than logarithmically many steps. *)
(***************************************************************************)
TreeIsMap ==
  /\ \A k \in Keys : AVLLookup(first, k) = map[k]
  /\ \A m, n \in Subtrees(first) : Key(m) = Key(n) => m = n
  /\ \A n \in Subtrees(first) :
       /\ CALC_HEIGHT(n) = Height(n)
       /\ CALC_BALANCE(n) \in -1 .. 1
=============================================================================
