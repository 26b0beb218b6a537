--------------------------------- MODULE Tls ---------------------------------
(***************************************************************************)
(* native/posix/mjs_tls.c: thread-local storage keys.  Public ids are      *)
(* never reused; each maps to a slot of a registry that holds a host key,  *)
(* and the host reuses its keys.  create makes its host key before it      *)
(* takes g_tls_lock, destroy deletes one after it gave the lock back, get  *)
(* and set hold the lock over the host call.                               *)
(***************************************************************************)
EXTENDS Naturals, Sequences, FiniteSets

CONSTANTS
  Threads, Values, None,
  Keys,        \* host keys, pthread_key_t
  MaxIds,      \* bound: ids minted
  InitCap      \* slots of the first allocation

Ids == 1..MaxIds

ASSUME TlsAssumption ==
  /\ MaxIds \in Nat /\ InitCap \in Nat \ {0}
  /\ None \notin Threads /\ None \notin Values /\ None \notin Keys

VARIABLES
  lock,                      \* holder of g_tls_lock
  slots, g_cap, g_next_id,   \* the registry; g_len is Len(slots)
  host,                      \* host keys that exist
  bound,                     \* thread-specific value of each host key
  pc, call,                  \* the threads: place, and the locals of the call
  meant                      \* history: what a thread bound under an id

registry == <<slots, g_cap, g_next_id>>
vars == <<lock, registry, host, bound, pc, call, meant>>

Slot == [id : Nat, key : Keys, live : BOOLEAN]
Ops == {"none", "create", "get", "set", "destroy"}
NoCall == [op |-> "none", id |-> 0, val |-> None, key |-> None]

Init ==
  /\ lock = None
  /\ slots = <<>> /\ g_cap = 0 /\ g_next_id = 1
  /\ host = {}
  /\ bound = [t \in Threads |-> [k \in Keys |-> None]]
  /\ pc = [t \in Threads |-> "idle"] /\ call = [t \in Threads |-> NoCall]
  /\ meant = [t \in Threads |-> [i \in Ids |-> None]]

Goto(t, place) == pc' = [pc EXCEPT ![t] = place]
Return(t) == Goto(t, "idle") /\ call' = [call EXCEPT ![t] = NoCall]

-----------------------------------------------------------------------------
\* Creates under way, counted against the bound on ids.
Minting == {t \in Threads : pc[t] \in {"entry", "locked"} /\ call[t].op = "create"}

\* pthread_key_create: a host key that is free, unbound in every thread.
KeyCreate(t, k) ==
  /\ pc[t] = "idle" /\ k \notin host
  /\ g_next_id + Cardinality(Minting) <= MaxIds
  /\ host' = host \cup {k}
  /\ bound' = [u \in Threads |-> [bound[u] EXCEPT ![k] = None]]
  /\ call' = [call EXCEPT ![t] = [op |-> "create", id |-> 0, val |-> None, key |-> k]]
  /\ Goto(t, "entry")
  /\ UNCHANGED <<lock, registry, meant>>

\* get, set and destroy are called with any id: live, stale or never minted.
Call(t, o, i, v) ==
  /\ pc[t] = "idle" /\ o \in {"get", "set", "destroy"}
  /\ o # "set" => v = None
  /\ call' = [call EXCEPT ![t] = [op |-> o, id |-> i, val |-> v, key |-> None]]
  /\ Goto(t, "entry")
  /\ UNCHANGED <<lock, registry, host, bound, meant>>

Lock(t) ==
  /\ pc[t] = "entry" /\ lock = None
  /\ lock' = t
  /\ Goto(t, "locked")
  /\ UNCHANGED <<registry, host, bound, call, meant>>

-----------------------------------------------------------------------------
Dead == {i \in DOMAIN slots : ~slots[i].live}
Minted(t) == [id |-> g_next_id, key |-> call[t].key, live |-> TRUE]

\* Mutant: doubling without a first allocation.
Doubled == 2 * g_cap

\* tls_grow
Grown == IF g_cap = 0 THEN InitCap ELSE 2 * g_cap

\* The rest of mjs_tls_create: the first dead slot, or one more.
MintReuse(t) ==
  /\ pc[t] = "locked" /\ call[t].op = "create" /\ g_next_id <= MaxIds
  /\ \E i \in Dead : /\ \A j \in Dead : i <= j
                     /\ slots' = [slots EXCEPT ![i] = Minted(t)]
  /\ g_next_id' = g_next_id + 1
  /\ lock' = None /\ Return(t)
  /\ UNCHANGED <<g_cap, host, bound, meant>>

MintAppend(t) ==
  /\ pc[t] = "locked" /\ call[t].op = "create" /\ g_next_id <= MaxIds
  /\ Dead = {}
  /\ slots' = Append(slots, Minted(t))
  /\ g_cap' = IF Len(slots) = g_cap THEN Grown ELSE g_cap
  /\ g_next_id' = g_next_id + 1
  /\ lock' = None /\ Return(t)
  /\ UNCHANGED <<host, bound, meant>>

\* No slot, and no memory for more: the host key is deleted again.
MintFails(t) ==
  /\ pc[t] = "locked" /\ call[t].op = "create"
  /\ Dead = {} /\ Len(slots) = g_cap
  /\ lock' = None /\ Goto(t, "delete")
  /\ UNCHANGED <<registry, host, bound, call, meant>>

\* Mutant: a stale id finds the slot it once had.
FindsDead(i) == {s \in DOMAIN slots : slots[s].id = i}

\* tls_find
tls_find(i) == {s \in DOMAIN slots : slots[s].live /\ slots[s].id = i}

NotFound(t) ==
  /\ pc[t] = "locked" /\ call[t].op # "create"
  /\ tls_find(call[t].id) = {}
  /\ lock' = None /\ Return(t)
  /\ UNCHANGED <<registry, host, bound, meant>>

\* Mutant: the lock is given back before the host call.
FindUnlocks(t) ==
  /\ pc[t] = "locked" /\ call[t].op \in {"get", "set"}
  /\ \E s \in tls_find(call[t].id) : call' = [call EXCEPT ![t].key = slots[s].key]
  /\ lock' = None /\ Goto(t, "use")
  /\ UNCHANGED <<registry, host, bound, meant>>

\* mjs_tls_get and mjs_tls_set have found the slot.
Find(t) ==
  /\ pc[t] = "locked" /\ call[t].op \in {"get", "set"}
  /\ \E s \in tls_find(call[t].id) : call' = [call EXCEPT ![t].key = slots[s].key]
  /\ Goto(t, "use")
  /\ UNCHANGED <<lock, registry, host, bound, meant>>

\* pthread_getspecific: the call returns bound[t][call[t].key].
Get(t) ==
  /\ pc[t] = "use" /\ call[t].op = "get"
  /\ lock' = None /\ Return(t)
  /\ UNCHANGED <<registry, host, bound, meant>>

\* pthread_setspecific, which may fail for want of memory.
Set(t) ==
  /\ pc[t] = "use" /\ call[t].op = "set"
  /\ \/ /\ bound' = [bound EXCEPT ![t][call[t].key] = call[t].val]
        /\ meant' = [meant EXCEPT ![t][call[t].id] = call[t].val]
     \/ UNCHANGED <<bound, meant>>
  /\ lock' = None /\ Return(t)
  /\ UNCHANGED <<registry, host>>

\* Mutant: the slot of a destroyed key stays live until the host call.
RetireLate(t) ==
  /\ pc[t] = "locked" /\ call[t].op = "destroy"
  /\ \E s \in tls_find(call[t].id) : call' = [call EXCEPT ![t].key = slots[s].key]
  /\ lock' = None /\ Goto(t, "delete")
  /\ UNCHANGED <<registry, host, bound, meant>>

\* mjs_tls_destroy, the locked part, and the host call after it.
Retire(t) ==
  /\ pc[t] = "locked" /\ call[t].op = "destroy"
  /\ \E s \in tls_find(call[t].id) :
        /\ call' = [call EXCEPT ![t].key = slots[s].key]
        /\ slots' = [slots EXCEPT ![s].live = FALSE]
  /\ lock' = None /\ Goto(t, "delete")
  /\ UNCHANGED <<g_cap, g_next_id, host, bound, meant>>

KeyDelete(t) ==
  /\ pc[t] = "delete"
  /\ host' = host \ {call[t].key}
  /\ Return(t)
  /\ UNCHANGED <<lock, registry, bound, meant>>

\* A thread ends; the host runs the destructors and drops its values.  A new
\* thread takes its name.
Exit(t) ==
  /\ pc[t] = "idle"
  /\ bound' = [bound EXCEPT ![t] = [k \in Keys |-> None]]
  /\ meant' = [meant EXCEPT ![t] = [i \in Ids |-> None]]
  /\ UNCHANGED <<lock, registry, host, pc, call>>

-----------------------------------------------------------------------------
Step(t) ==
  \/ Lock(t) \/ MintReuse(t) \/ MintAppend(t) \/ MintFails(t)
  \/ NotFound(t) \/ Find(t) \/ Get(t) \/ Set(t) \/ Retire(t) \/ KeyDelete(t)
  \/ Exit(t)
  \/ \E k \in Keys : KeyCreate(t, k)
  \/ \E o \in Ops, i \in Ids, v \in Values \cup {None} : Call(t, o, i, v)

Next == \E t \in Threads : Step(t)

Spec == Init /\ [][Next]_vars

-----------------------------------------------------------------------------
\* Types; the registry fits its allocation, and ids stay below the next one.
TypeOK ==
  /\ lock \in Threads \cup {None}
  /\ slots \in Seq(Slot) /\ g_cap \in Nat /\ Len(slots) <= g_cap
  /\ g_next_id \in Nat \ {0}
  /\ \A s \in DOMAIN slots : slots[s].id \in Ids /\ slots[s].id < g_next_id
  /\ host \subseteq Keys
  /\ bound \in [Threads -> [Keys -> Values \cup {None}]]
  /\ pc \in [Threads -> {"idle", "entry", "locked", "use", "delete"}]
  /\ call \in [Threads -> [op : Ops, id : Ids \cup {0}, val : Values \cup {None},
                           key : Keys \cup {None}]]
  /\ meant \in [Threads -> [Ids -> Values \cup {None}]]

\* A call on its way that owns its host key: a create that has not minted an
\* id yet, and a call about to delete the key.
OwnsKey(t) ==
  \/ pc[t] = "delete"
  \/ pc[t] \in {"entry", "locked"} /\ call[t].op = "create"

Owners(k) ==
  {<<"slot", s>> : s \in {x \in DOMAIN slots : slots[x].live /\ slots[x].key = k}}
  \cup {<<"call", t>> : t \in {x \in Threads : OwnsKey(x) /\ call[x].key = k}}

\* A host key that exists is owned by exactly one live slot or one call, and
\* one that does not by none: no live id names a deleted key, no two ids
\* share one, none is deleted twice and none is lost.
KeyHasOneOwner ==
  \A k \in Keys : IF k \in host THEN \E o \in Owners(k) : Owners(k) = {o}
                               ELSE Owners(k) = {}

\* A get or set that has looked its id up works on a host key that exists
\* and that holds, in its thread, what the thread last bound under that id
\* (nothing when it never did): never a deleted key, and never the value of
\* the id that had the host key before.
ReachesOwnValue ==
  \A t \in Threads : pc[t] = "use" =>
     call[t].key \in host /\ bound[t][call[t].key] = meant[t][call[t].id]
==============================================================================
