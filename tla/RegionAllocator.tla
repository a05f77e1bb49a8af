-------------------------- MODULE RegionAllocator --------------------------
(***************************************************************************)
(* What the page allocator promises its callers, with no word on how the   *)
(* free blocks are found: a granted region consists of blocks nobody else  *)
(* holds, a released region can be granted again, and a request is refused *)
(* only when no run of blocks could satisfy it.                            *)
(***************************************************************************)
EXTENDS Integers

CONSTANTS Blocks,      \* the blocks the allocator manages
          Reserved,    \* blocks that are never granted
          Requests     \* the region sizes callers ask for

VARIABLES regions,     \* regions granted and not yet released
          refused      \* 0, or the size of the request that was refused

spec_vars == <<regions, refused>>

BlocksOf(r) == r.start .. (r.start + r.size - 1)

Held == Reserved \cup UNION {BlocksOf(r) : r \in regions}

Grantable(r) == BlocksOf(r) \subseteq Blocks \ Held

RegionSet == [start : Nat, size : Requests]

Init == regions = {} /\ refused = 0

Grant(r) ==
    /\ refused = 0
    /\ Grantable(r)
    /\ regions' = regions \cup {r}
    /\ UNCHANGED refused

Release(r) ==
    /\ refused = 0
    /\ regions' = regions \ {r}
    /\ UNCHANGED refused

Refuse(n) ==
    /\ refused = 0
    /\ \A b \in Blocks : ~ Grantable([start |-> b, size |-> n])
    /\ refused' = n
    /\ UNCHANGED regions

Next ==
    \/ \E b \in Blocks, n \in Requests : Grant([start |-> b, size |-> n])
    \/ \E r \in regions : Release(r)
    \/ \E n \in Requests : Refuse(n)

Spec == Init /\ [][Next]_spec_vars
============================================================================
