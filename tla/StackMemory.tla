---------------------------- MODULE StackMemory ----------------------------
(***************************************************************************)
(* native/posix/mjs_stack.c, with the commit of mjs_vm.c and the wrapper   *)
(* NativeStack of mojito_sys/memory/stack.mojo: guarded reservations, the  *)
(* registry that remembers their sizes, and the committed span a handle    *)
(* accounts for.  Sizes are in pages; the lowest page is the guard.        *)
(***************************************************************************)
EXTENDS Naturals, Sequences

CONSTANTS
  Owners,      \* holders of NativeStack handles
  NoBase,
  Bases,       \* addresses mmap gives out
  Guard,       \* guard_bytes, in pages
  MaxUsable,   \* bound: largest reservation asked for
  FirstCap     \* registry slots of the first allocation

ASSUME StackAssumption ==
  /\ NoBase \notin Bases
  /\ Guard \in Nat \ {0} /\ MaxUsable \in Nat \ {0} /\ FirstCap \in Nat \ {0}

VARIABLES
  mem,              \* page protections of the mapping at each base
  resv, resv_cap,   \* g_resv: base and total; g_resv_len is Len(resv)
  stack             \* the handle of each owner: base, usable, committed

stackVars == <<mem, resv, resv_cap, stack>>

Unmapped == <<>>
NoStack == [base |-> NoBase, usable |-> 0, committed |-> 0]

StackInit ==
  /\ mem = [b \in Bases |-> Unmapped]
  /\ resv = <<>> /\ resv_cap = 0
  /\ stack = [o \in Owners |-> NoStack]

\* total pages, of which the top n can be used.
Pages(total, n) == [p \in 1..total |-> IF p > total - n THEN "rw" ELSE "none"]

Committed(commit, usable) == IF commit > usable THEN usable ELSE commit

-----------------------------------------------------------------------------
FreeSlots == {i \in DOMAIN resv : resv[i].base = NoBase}
CapFor(len) == IF len < resv_cap THEN resv_cap
               ELSE IF resv_cap = 0 THEN FirstCap ELSE 2 * resv_cap

\* mjs_stack_alloc and NativeStack.create: map, commit the top, record.  When
\* a step fails the ones before it are undone and nothing has changed.
StackAlloc(o, b, usable, commit) ==
  LET entry == [base |-> b, total |-> Guard + usable] IN
  /\ stack[o] = NoStack /\ mem[b] = Unmapped
  /\ mem' = [mem EXCEPT ![b] = Pages(Guard + usable, Committed(commit, usable))]
  /\ \/ /\ FreeSlots # {}
        /\ \E i \in FreeSlots : /\ \A j \in FreeSlots : i <= j
                                /\ resv' = [resv EXCEPT ![i] = entry]
        /\ UNCHANGED resv_cap
     \/ /\ FreeSlots = {}
        /\ resv' = Append(resv, entry)
        /\ resv_cap' = CapFor(Len(resv))
  /\ stack' = [stack EXCEPT ![o] = [base |-> b, usable |-> usable,
                                    committed |-> Committed(commit, usable)]]

\* mjs_vm_commit of the pages first..last of a handle's mapping.
Commit(o, first, last) ==
  mem' = [mem EXCEPT ![stack[o].base] =
            [p \in DOMAIN @ |-> IF p \in first..last THEN "rw" ELSE @[p]]]

\* The highest page that is not committed yet.
Frontier(o) == Guard + stack[o].usable - stack[o].committed

\* Mutant: the span starts one page too low.
GrowLow(o, n) ==
  /\ stack[o] # NoStack /\ n <= stack[o].usable - stack[o].committed
  /\ Commit(o, Frontier(o) - n, Frontier(o) - 1)
  /\ stack' = [stack EXCEPT ![o].committed = @ + n]
  /\ UNCHANGED <<resv, resv_cap>>

\* NativeStack.grow by n pages: the committed span is extended downward.  A
\* request beyond the reservation, or one mprotect refuses, changes nothing.
Grow(o, n) ==
  /\ stack[o] # NoStack /\ n <= stack[o].usable - stack[o].committed
  /\ Commit(o, Frontier(o) - n + 1, Frontier(o))
  /\ stack' = [stack EXCEPT ![o].committed = @ + n]
  /\ UNCHANGED <<resv, resv_cap>>

\* mjs_stack_free: the total of the first entry with this base is unmapped.
StackFree(o) ==
  /\ stack[o] # NoStack
  /\ \E i \in DOMAIN resv :
        /\ resv[i].base = stack[o].base
        /\ \A j \in DOMAIN resv : resv[j].base = stack[o].base => i <= j
        /\ mem' = [mem EXCEPT ![stack[o].base] = SubSeq(@, resv[i].total + 1, Len(@))]
        /\ resv' = [resv EXCEPT ![i] = [base |-> NoBase, total |-> 0]]
  /\ stack' = [stack EXCEPT ![o] = NoStack]
  /\ UNCHANGED resv_cap

-----------------------------------------------------------------------------
\* Memory agrees with the books, across slot reuse and addresses given out
\* again: a handle's mapping has its guard and its uncommitted pages sealed
\* and exactly the span it accounts for accessible, the registry holds its
\* size once, and nothing is mapped or recorded for anyone else.
StackIsSound ==
  /\ \A o \in Owners : stack[o] # NoStack =>
       /\ mem[stack[o].base] = Pages(Guard + stack[o].usable, stack[o].committed)
       /\ \E i \in DOMAIN resv :
            /\ resv[i] = [base |-> stack[o].base, total |-> Guard + stack[o].usable]
            /\ \A j \in DOMAIN resv : resv[j].base = stack[o].base => j = i
  /\ \A b \in Bases :
       (mem[b] # Unmapped \/ \E i \in DOMAIN resv : resv[i].base = b) =>
         \E o \in Owners : stack[o].base = b
  /\ Len(resv) <= resv_cap
==============================================================================
