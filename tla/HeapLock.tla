------------------------------ MODULE HeapLock ------------------------------
(***************************************************************************)
(* The lock of the heap: liballoc_lock takes the lock of the virtual and   *)
(* then of the physical bitmap, each with a loop that waits and a store    *)
(* that is not part of the test.  Two contexts use the heap: the main loop *)
(* of the kernel, and the interrupt handlers (keyboard, mouse), which      *)
(* enter through interrupt gates and so run to completion before the main  *)
(* loop takes another step.                                                *)
(***************************************************************************)
EXTENDS Integers

CONSTANT Pages    \* bound: the pages the heap can ask for

ASSUME PagesAssumption == Pages \subseteq Nat

Contexts == {"main", "irq"}

Locks == {"virtual", "physical"}

VARIABLES pc,       \* where each context is in malloc, free or realloc
          lock,     \* the field Bitmap.lock of both bitmaps
          in_irq,   \* a handler is running: interrupts are disabled
          used,     \* pages whose bit in the physical bitmap is set
          found,    \* the page find_free_region returned to each context
          owns      \* pages each context took and has not given back

vars == <<pc, lock, in_irq, used, found, owns>>

NoPage == -1

Init ==
    /\ pc = [c \in Contexts |-> "idle"]
    /\ lock = [l \in Locks |-> FALSE]
    /\ in_irq = FALSE
    /\ used = {}
    /\ found = [c \in Contexts |-> NoPage]
    /\ owns = [c \in Contexts |-> {}]

Memory == <<used, found, owns>>

Runs(c) == IF c = "irq" THEN in_irq ELSE ~ in_irq

Goto(c, from, to) ==
    /\ Runs(c)
    /\ pc[c] = from
    /\ pc' = [pc EXCEPT ![c] = to]

Call(c) == Goto(c, "idle", "wait_virtual") /\ UNCHANGED <<lock, in_irq, Memory>>

(***************************************************************************)
(* spinlock: the loop ends when it reads the lock as free.                 *)
(***************************************************************************)
\* Planted bug: the lock is not waited for.
spinlock_no_wait(c, l, from, to) ==
    /\ Goto(c, from, to)
    /\ UNCHANGED <<lock, in_irq, Memory>>

spinlock(c, l, from, to) ==
    /\ ~ lock[l]
    /\ Goto(c, from, to)
    /\ UNCHANGED <<lock, in_irq, Memory>>

SetLock(c, l, value, from, to) ==
    /\ Goto(c, from, to)
    /\ lock' = [lock EXCEPT ![l] = value]
    /\ UNCHANGED <<in_irq, Memory>>

virtual_spinlock_acquire(c) ==
    \/ spinlock(c, "virtual", "wait_virtual", "set_virtual")
    \/ SetLock(c, "virtual", TRUE, "set_virtual", "wait_physical")
    \/ spinlock(c, "physical", "wait_physical", "set_physical")
    \/ SetLock(c, "physical", TRUE, "set_physical", "locked")

(***************************************************************************)
(* Inside the lock malloc may need pages, which are found first and marked *)
(* afterwards; free may give pages back; or neither is necessary.          *)
(***************************************************************************)
find_free_region(c) ==
    /\ Goto(c, "locked", "mark")
    /\ \E p \in Pages \ used : found' = [found EXCEPT ![c] = p]
    /\ UNCHANGED <<lock, in_irq, used, owns>>

mark_blocks(c) ==
    /\ Goto(c, "mark", "unlock")
    /\ used' = used \cup {found[c]}
    /\ owns' = [owns EXCEPT ![c] = @ \cup {found[c]}]
    /\ found' = [found EXCEPT ![c] = NoPage]
    /\ UNCHANGED <<lock, in_irq>>

physical_free(c) ==
    /\ Goto(c, "locked", "unlock")
    /\ \E p \in owns[c] :
        /\ used' = used \ {p}
        /\ owns' = [owns EXCEPT ![c] = @ \ {p}]
    /\ UNCHANGED <<lock, in_irq, found>>

no_pages_needed(c) == Goto(c, "locked", "unlock") /\ UNCHANGED <<lock, in_irq, Memory>>

InHeap(c) ==
    find_free_region(c) \/ mark_blocks(c) \/ physical_free(c) \/ no_pages_needed(c)

\* Planted bug: the physical lock is released first and the virtual one kept.
virtual_spinlock_release_half(c) ==
    \/ SetLock(c, "physical", FALSE, "unlock", "release_physical")
    \/ SetLock(c, "physical", FALSE, "release_physical", "idle")

virtual_spinlock_release(c) ==
    \/ SetLock(c, "virtual", FALSE, "unlock", "release_physical")
    \/ SetLock(c, "physical", FALSE, "release_physical", "idle")

(***************************************************************************)
(* An interrupt is taken between any two steps of the main loop; the       *)
(* handler returns when it is not inside the heap.                         *)
(***************************************************************************)
interrupt == ~ in_irq /\ in_irq' = TRUE /\ UNCHANGED <<pc, lock, Memory>>

iretq ==
    /\ in_irq
    /\ pc["irq"] = "idle"
    /\ in_irq' = FALSE
    /\ UNCHANGED <<pc, lock, Memory>>

Next ==
    \/ \E c \in Contexts : Call(c)
    \/ \E c \in Contexts : virtual_spinlock_acquire(c)
    \/ \E c \in Contexts : InHeap(c)
    \/ \E c \in Contexts : virtual_spinlock_release(c)
    \/ interrupt
    \/ iretq

(***************************************************************************)
(* The processor keeps executing whichever context it is in, and handlers  *)
(* finish their calls; interrupts themselves need not arrive.              *)
(***************************************************************************)
Fairness ==
    /\ \A c \in Contexts :
        /\ SF_vars(virtual_spinlock_acquire(c))
        /\ SF_vars(InHeap(c))
        /\ SF_vars(virtual_spinlock_release(c))
    /\ SF_vars(iretq)

Spec == Init /\ [][Next]_vars /\ Fairness

-----------------------------------------------------------------------------
(***************************************************************************)
(* Types of the lock state.                                                *)
(***************************************************************************)
TypeOK ==
    /\ pc \in [Contexts -> {"idle", "wait_virtual", "set_virtual", "wait_physical",
                            "set_physical", "locked", "mark", "unlock",
                            "release_physical"}]
    /\ lock \in [Locks -> BOOLEAN]
    /\ in_irq \in BOOLEAN
    /\ used \subseteq Pages
    /\ found \in [Contexts -> Pages \cup {NoPage}]
    /\ owns \in [Contexts -> SUBSET Pages]

(***************************************************************************)
(* The page a context found under the lock is still free when it marks it, *)
(* although an interrupt can be taken in between: the heap never hands the *)
(* same page to the main loop and to a handler.                            *)
(***************************************************************************)
FoundPageStaysFree ==
    /\ \A c \in Contexts : found[c] # NoPage => found[c] \notin used
    /\ owns["main"] \cap owns["irq"] = {}

(***************************************************************************)
(* A handler that waits for the lock waits for the main loop, which cannot *)
(* run before the handler returns: the locks are only ever held by a       *)
(* context that is between liballoc_lock and liballoc_unlock.              *)
(***************************************************************************)
Holding(c, l) ==
    pc[c] \in (IF l = "virtual"
               THEN {"wait_physical", "set_physical", "locked", "mark", "unlock"}
               ELSE {"locked", "mark", "unlock", "release_physical"})

LockHasHolder == \A l \in Locks : lock[l] <=> \E c \in Contexts : Holding(c, l)

(***************************************************************************)
(* liballoc.h:60, "return 0 if the lock was acquired successfully.         *)
(* Anything else is failure": a call of liballoc_lock returns.             *)
(***************************************************************************)
LockReturns ==
    \A c \in Contexts : pc[c] = "wait_virtual" ~> pc[c] = "locked"
=============================================================================
