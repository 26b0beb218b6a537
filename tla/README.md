# mojito-sys: TLA+ models, checks and proofs

mojito-sys is the OS substrate of the mojito async runtime: a C layer
(`native/posix/*.c`, header `native/include/mojito_sys.h`) of threads,
synchronisation, memory, execution contexts and I/O readiness, with thin Mojo
wrappers (`mojito_sys/**`).  This directory models the parts of it that carry
state and concurrency, checks them with TLC on small instances, and proves the
central ones with TLAPS for every instance.

Run from this directory: `tlc -config MCNativeSem.cfg MCNativeSem` (likewise the
other `.cfg` files), `tlapm NativeSemProofs.tla` (likewise the other
`*Proofs.tla`).

## Inventory

| part | state | operations | hard part | what makes it correct |
|---|---|---|---|---|
| mutex + condvar (`mjs_mutex.c`, `mjs_condvar.c`) | owner, queue of sleepers | lock, unlock, wait, wait_until, signal, broadcast, destroy | spurious wakes, barging | what pthreads promise, no more |
| semaphore (`mjs_sem.c`) | `int count` under a pair | post, wait, wait_until, try_wait, destroy | lost wakeups, timeout against post, destroy against the last post, overflow | linearizable counting semaphore; bounded waits return |
| event (`mjs_event.c`) | `int signaled` under a pair | signal, wait, wait_until, destroy | coalesced signals wake nobody; expiry parity | linearizable auto-reset event |
| atomic wait (`mjs_atomic_wait.c`) | 256 slots: pair, list of stack-resident records | wait_on, wake_one, wake_all | colliding addresses, wake against timeout, dangling records | implements a futex |
| threads (`mjs_thread.c`) | per handle: refs, state, status; the owner's pointer | spawn, trampoline, join, detach | child ending before spawn returns, failed join, who frees | freed once by the last; status delivered |
| TLS (`mjs_tls.c`) | locked registry of keys; ids never reused, host keys are | create, get, set, destroy | destroy against get and set; a host key reused | a dead id never reaches a reused key |
| epoll (`mjs_epoll.c`) | 256-slot fd table with tombstones, eventfd | register, modify, unregister, wait, wake, close | probe chains, full table, descriptor reuse, wake against drain | the table agrees with the kernel's set |
| kqueue (`mjs_poller.c`) | kernel filters, user event | register, modify, unregister, wait, wake, close | two filters changed in turn | filters and tokens are what was registered |
| io_uring (`mjs_iouring.c`) | fd table, sequence numbers, SQ/CQ, what create acquired | create, register, unregister, wait, drain, wake, close | stale completions, re-arming, full SQ, short submits, unwinding | no slot goes deaf; events go to the live registration |
| contexts (`ms_context.c`, `*.S`) | life cycle DEAD / EMPTY / RUNNING / SUSPENDED / FINISHED, return target | init, capture, switch, finish, destroy | two threads racing to resume one context | one runner per context |
| stacks (`mjs_stack.c`, `stack.mojo`) | reservations, registry of sizes, committed span, guard | alloc, grow, free | reuse of slots and addresses | guard sealed, registry and memory agree |
| VM (`mjs_vm.c`) | none of its own | reserve, commit, decommit, protect, release | | commit only, as grow uses it |
| time, fd ownership, cpu, sockets, abi | none of their own, or one flag | | | not modelled |

Interaction: the semaphore, the event and every slot of the atomic-wait table
are composed from one mutex and one condvar (`WaitFrame`); epoll and kqueue are
two implementations of one contract, of which a build has one (`Pollers`); a
fiber is a context on a stack of its own (`FiberStacks`).

## Modules

| module | role |
|---|---|
| `MutexCondVar` | the pthread pair: `owner`, `parked`, `woken`; one operator per `mjs_mutex_*` / `mjs_condvar_*` call |
| `WaitFrame` | the shape shared by all calls built on a pair: lock, body, sleep-and-retest loop, unlock; `pc`, `op`, `rc` (the C local), `handle`; what holds of it at every step (`FrameInv`) |
| `NativeSem`, `NativeEvent`, `AtomicWait` | the three components: the guarded datum and the steps that touch it |
| `CountingSemaphore`, `AutoResetEvent`, `Futex` | what each promises: every call takes effect at one instant |
| `ThreadHandle` | `mjs_thread.c`: reference count, state, the owner's pointer, the child's life |
| `Tls` | `mjs_tls.c`: the registry and its lock, the host's keys and values |
| `ReadinessPoller` | what the readiness backends share: descriptors and their readiness, the reactor's wait, the events handed out; what a delivery must be |
| `EpollPoller`, `KqueuePoller` | the backends, each with the kernel object it drives |
| `Pollers` | the backend of a platform, the other one a stub; why a wait may return empty-handed; fairness and the two liveness properties |
| `IoUring` | `mjs_iouring.c`: the table, the two queues, the kernel between them |
| `Contexts` | `ms_context.c` and the switch backends: the life-cycle word, and the switch step by step |
| `StackMemory` | `mjs_stack.c`, `mjs_vm_commit`, `NativeStack`: mappings page by page and the registry |
| `FiberStacks` | contexts on stacks: create, destroy, grow, free |
| `MC*` | instances for TLC |
| `AtomicWaitFifo` | `AtomicWait` with a history of arrivals |
| `NativeSemProofs`, `NativeEventProofs`, `AtomicWaitProofs` | inductive invariants, safety and refinement theorems |
| `ThreadHandleProofs`, `TlsProofs`, `FiberStacksProofs`, `PollersProofs`, `IoUringProofs` | inductive invariants and safety theorems |

How code becomes steps.  A critical section is not one step: acquiring the mutex,
the body (which reads or writes the datum), the condvar signal, the unlock and
the return are separate, so other threads run between them whenever the code
allows it.  A condition wait is two steps (sleep, return with the mutex) with a
signal, a spurious wake or the deadline between them.  A woken thread competes
for the mutex with fresh arrivals.  A body runs in one step even where the
code has several statements, because the mutex is held and no other thread can
see the difference.  In `AtomicWait` a record that a wake did not mark is unlinked at
the same step as the loop's next decision, for the same reason.

Steps that can only be taken with a NULL argument, a failed allocation or a
failing pthread call on a valid object change nothing and are left out.  The
exceptions are the failures the code reacts to: `mjs_mutex_destroy` on a held
mutex, `pthread_join` (self-join and mutual join), `pthread_detach`, the
allocations and system calls that `mjs_tls_create` and `mjs_iouring_create`
have to undo, and the kernel calls of the pollers.

Destroy is modelled as the hand-off the code has to survive: the destroying
thread has seen every permit (token) there will be and its waiters are joined,
but the thread whose post (signal) it received may still be inside that call.

`ThreadHandle`: one thread at a time may use `*t`, as the wrapper's "movable but
NOT copyable" demands; it may be the owner, a sibling or the child itself.  Two
threads calling join and detach on the same `*t` at the same time are outside
the contract and not modelled.

`Tls`: create makes its host key before it takes the lock and destroy deletes
one after giving it back, so both have steps outside the lock; get and set hold
it across the host call, as two steps (look up, use).  The host hands out keys
that were deleted.  `meant` is a history variable: what each thread bound under
each public id.

Pollers: one reactor thread is inside a call at a time, which is how the wrapper
hands the poller out (`mut self`); wakes, readiness and the closing and reuse of
descriptor numbers come from outside at any step.  A register is two steps (the
kernel's set and then the table; one filter and then the other) and so is a wait
(the kernel returns a batch, the code turns it into events).  The batch holds
what the kernel saw when it returned, which may be stale when it is handed out.
`EpollPoller` keeps the table slot by slot with its tombstones, and the word
that the code reads at the probe's sentinel index, one past the table, which in
`struct mjs_epoller` is half of the first token (`LowWord`).  A timeout becomes
milliseconds as the code does it: the sum that rounds it up is a word that wraps
(`Word`, with `WordMax` for `UINT64_MAX`), the quotient is clamped to `IntMax`.
A register
whose second kqueue filter is refused leaves the descriptor `Half`
registered: no promise is made about it until a later call succeeds.

`IoUring`: entering the kernel is a sequence of steps, one request each, that
can fail at the first, stop short, or be followed by a sleep.  Completions are
let in only while the reactor is in the kernel; one that arrives elsewhere
queues behind the tail the drain has already read, so that nothing tells it
from one arriving first thing in the next entry.  A completion carries its
user_data, 0 for removals as the code leaves it.  Each accepted register gets a
token of its own; the sequence number serves.  The table has no tombstones, as
in the code; `cut` is a history variable: a slot was emptied that lies on the
probe of a descriptor in a later slot (`Severs`).

`Contexts`: the switch is four steps as the assembly has them (validate, demote
the context that is left, arm the target with an exclusive store, write the
return target and land), so that two threads can both have seen a target
suspended.  Losing the store goes back to the validation, which traps if the
target now runs.  A trap ends the process.  `Serialized` is the header's contract
on callers (`mojito_sys.h:688`): a switch out of a context and one into it do not
overlap; two into one context may, and are what the exclusive store is for.
`FiberStacks` adds what callers owe: a fiber is destroyed when no thread is on
it, its stack freed when its record cannot be resumed.  Two more narrowings of
the callers: a thread captures its own record and from its own stack (the
capture of `ms_context.c` arms any record it is given as suspended, a destroyed
or finished one too), and a fiber's stack starts with at least one page
committed (`mjs_stack_alloc` accepts none, `mjs_stack.c:142`; such a fiber
faults when it is first resumed, unless its stack was grown before).  The stack
registry is
"deliberately unsynchronized" (`mjs_stack.c:57`): its calls are atomic here.
Sizes are in whole pages; the byte arithmetic in front of them, which rejects
wrap-around, is left out.

## Runs

| run | instance | shows |
|---|---|---|
| `sem` | 3 threads, 0 initial permits, at most 2 posts | `TypeOK`, `NoLostWakeup`, `PermitsConserved`, `NoUseAfterDestroy`, `ImplementsCounting`; `PermitIsTaken`, `TimedWaitReturns` under fairness |
| `event` | 3 threads, at most 3 signals | `TypeOK`, `NoLostWakeup`, `NoUseAfterDestroy`, `ImplementsAutoReset`; `TokenIsTaken` under fairness |
| `atomic_wait` | 2 sleepers, 1 waker, 2 addresses in one slot, 2 values | `TypeOK`, `RecordsAreLive`, `ImplementsFutex`; `MarkedReturns` under fairness |
| `thread_handle` | first thread and 2 children, 2 statuses | `TypeOK`, `FreedByTheLast`, `NothingOutlivesExit`, `FailedJoinLeavesJoinable`, `JoinGetsStatus` |
| `tls` | 2 threads, 2 host keys, 3 ids, 1 value | `TypeOK`, `KeyHasOneOwner`, `ReachesOwnValue` |
| `pollers` | 2 descriptors, 2 tokens, a table of 2 slots with one home slot, batch of 2, 3 timeouts; kqueue with 1 descriptor | `TypeOK`, `EpollMapped`, `KqueueMapped`, `ZeroEventsMeanWakeOrTimeout`, `DeliveredIsRegistered`; `DueIsDelivered`, `WakeIsSeen` under fairness |
| `iouring` | 2 descriptors with one home slot, a ring of 2 entries, cap 1, 2 sequence numbers, 2 rare events | `TypeOK`, `CountIsExact`, `ArmedIsOutstanding`, `EventIsCurrent`, `NothingLeaks`; `WakeEndsWait` under fairness |
| `fibers` | 2 fibers, 2 threads, 2 addresses, up to 2 usable pages | `OneRunner`, `RunsOnMappedStack`, `StackIsSound` |
| `atomic_wait_fifo` | as `atomic_wait` | violated: wake_one is not FIFO |
| `epoll_tokens` | as `pollers`, tokens that are descriptor numbers | violated: `DeliveredIsRegistered` |
| `iouring_lost` | as `iouring`, 3 sequence numbers, no rare events | violated: a registration disappears |
| `iouring_upsert` | as `iouring`, 3 sequence numbers, no rare events | violated: `LastTokenWins` |

Bounds.  Three threads are a sleeper, a thread that posts and one that steals or
sleeps too: the smallest number at which a wake can go to the wrong thread.  Two
posts (three signals) allow one in flight while another is consumed, and a
coalesced signal between two that are not.  The calls are not bounded otherwise:
threads wait, time out and try again for ever.  `INT_MAX` is small in TLC, and
arbitrary in the proofs.

`tls`: three ids over two host keys force a host key to be used by a second id
while calls on the first are under way; `InitCap` 1 makes the registry grow.
`pollers`: with both descriptors at home in one slot of two, an entry is
displaced, stands behind a tombstone, and the table runs out of empty slots; up
to three events compete for a batch of two.  `MaxWakes` bounds the eventfd's
counter.  `NsPerMs` scales a millisecond to ten nanoseconds, `WordMax` a word to
63 and `IntMax` the longest sleep to three milliseconds, so that of the three
timeouts one is below a millisecond (5), one is clamped (45) and one wraps when
it is rounded up (60).
`iouring`: `MaxRare` bounds the number of failed and short enters, failed polls
and timed waits; `MaxSeq` the sequence numbers.  A ring of two entries is full
after one upsert, so that every -EAGAIN path occurs.  Both descriptors have the
same home slot, as two whose numbers differ by a multiple of 128 have in the
code: the second is displaced and found by probing, and emptying the first slot
cuts it off.  The upsert of a displaced descriptor needs a third slot
(`Entries` = 3, `MaxSeq` = 3, `MaxRare` = 1): that instance passes too, with 1.8
million states, and the theorem covers it.
`fibers`: fibers, threads and addresses are interchangeable (symmetry).  Two of
each let two threads race for one fiber while the other fiber's memory is
recycled; `FirstCap` 1 makes the registry grow.

Deadlock checking is off where the system may stop: a waiter without a post, a
program whose threads have all ended, a closed poller, a trapped process, or a
model that has used up a bound.  In `tls` it is on.

Fairness.  A thread inside a call keeps running (weak fairness of its own
steps).  For the semaphore and the atomic wait, a thread that keeps contending
for the mutex gets it in the end (strong fairness of lock and of the condvar's
return), which pthread mutexes give in practice and without which no lock-based
code has any progress; the event needs only weak fairness.  In `sem` a deadline
passes: once it has, every further sleep of that call ends by it.  In `pollers`
the reactor calls wait again and again, as a reactor does (strong fairness of
entering, since other calls come in between), and a kernel that is asked again
and again reports each pending event in the end (strong fairness of a return
that includes it): both kernels keep their ready events in a queue.  In
`iouring` the kernel takes requests that were submitted and completes the wake
poll when its eventfd is readable (weak fairness).  No fairness is assumed of
spurious wakes, of new calls otherwise, of posts, signals, stores or wakes.

### What the four violations show

* `mjs_atomic_wait.c:37` says "FIFO wake choice within an address, like the
  kernel's queue."  A waiter whose condvar returns without a mark is linked again
  at the tail (lines 203-230), behind waiters that came later.  Every wake for
  another address of the slot does that to it.
* `mjs_epoll.c:82` says callers must treat the probe's sentinel as -ENOSPC
  "rather than accessing the table out-of-bounds".  `mjs_epoll_unregister` (line
  251) does not test for it.  When the table has no empty slot and the descriptor
  is absent it reads the low word of `table_tok[0]`, and if that happens to be the
  descriptor's number it overwrites it: the registration in slot 0 is then
  delivered with a token nobody registered.  With tokens that are no descriptor
  numbers (`pollers`) the read is harmless.
* `mjs_iouring.c:695` says completions the table does not know are "consumed and
  ignored".  Removals complete with user_data 0, which is also the `r_seqs` of a
  slot that fired and waits to be armed again, so a failed removal that is drained
  after another descriptor's event retires that descriptor's registration.

* `mojito_sys.h:1235` says "Re-registration of a live fd UPSERTS (last
  interests+token win)".  `mjs_iouring_unregister` empties a slot of the
  linear-probed table without a tombstone (line 618), and so does the drain when
  it retires one (line 670).  An entry displaced by the removed one is no longer
  found: the next register of its descriptor adds a second slot, and both polls
  deliver, the first with the old token; a later unregister removes only one of
  the two.  It needs two descriptors that differ by a multiple of the table
  size.  `iouring` checks, and `EventsAreCurrent` proves, that nothing else leads
  to it: as long as no probe chain was cut (`cut`), the last token wins.

Three more without a run of their own:

* `mojito_sys.h:556` and `mjs_sem.c:62` say the count never is negative.
  `mjs_sem_post` increments without a bound, so a semaphore with `INT_MAX`
  permits goes to `INT_MIN` (signed overflow; compiled at `-O2` the increment in
  memory wraps, which is what `AsInt` says).  `NativeSem` with `Initial` = 2,
  `MaxPosts` = 1 and `IntMax` = 2 violates `CountNeverNegative`.
* `mjs_epoll_wait` adds 999999 to the timeout before it divides (line 282).  For
  a timeout within a millisecond of `UINT64_MAX`, as a caller that means "for
  ever" may pass, the sum wraps and the wait returns nothing at once, which is
  the spinning reactor that the comment above the line wants to prevent.
  `ZeroEventsMeanWakeOrTimeout` names this case (`Wraps`); without that disjunct
  the run violates it.
* The same wait ends after `INT_MAX` milliseconds (25 days) at the latest (line
  283): an empty return does not mean that a longer timeout has passed
  (`Longest`).  kqueue sleeps every timeout in full.

## Proofs

All proofs hold for every set of threads (finite for the semaphore, the event
and the atomic wait), fibers, descriptors, tokens and addresses, every table
size and hash, and every bound on posts, signals, ids, pages, wakes or sequence
numbers.  They assume what the modules name (`NoThreadAssumption`,
`SemAssumption`, `EventAssumption`, `TableAssumption`, `ThreadAssumption`,
`TlsAssumption`, `ContextsAssumption`, `StackAssumption`, `FibersAssumption`,
`PollerAssumption`, `EpollAssumption`, `KqueueAssumption`, `RingAssumption`): the
types of the constants, and that `None` and its like are no member of the sets
they stand beside.  Some theorems have a hypothesis of their own, each the
condition under which a flaw described above cannot happen:

* `PermitsFit` (semaphore): initial permits plus posts are at most `INT_MAX`.
  With it `CountNeverNegative` is a theorem; without it, it is violated.
* `TokensAreOpaque` (epoll, and the properties both backends share): no token
  reads as a descriptor's number; `epoll_tokens` is the violation without it.
  `KqueueIsMapped` does not need it.

The io_uring theorems have no hypothesis: they hold for every hash, collisions
included.

*Frame* (`WaitFrame`).  `FrameInv` says that the mutex owner is the thread
whose code is in the critical section, that those in the condvar's queue or on
their way out of it are the waiters whose code is there, and that a thread
between the halves of destroy sees a handle no longer live.  The lemmas that open
`NativeSemProofs` and, word for word, `NativeEventProofs` say how each kind of
step acts on `FrameInv` and on `Coming`, the threads on their way to the
predicate.  `AtomicWaitProofs` needs only the first of these and states it in
two lemmas (`FrameStep`, `CriticalFrame`).

*Semaphore.*  `NoLostWakeup` (each resident permit is matched by a thread in
`Coming` while anybody sleeps) is inductive only if a post still before its
increment does not count as coming: it raises the debt and the credit together.
`NoUseAfterDestroy` needs three more facts.  `PostsAccounted`: posts begun =
increments + posts before their increment.  `PermitsConserved`.
`NewPermitStays`: a post inside its critical section after the increment
implies `count >= 1`, since nobody can take it away.  A destroying thread has
acquired `Initial + called` permits, so the count is 0 and no post is before its
increment; then by `NewPermitStays` none is after it with the mutex held.

*Event.*  The same shape with `TokensAccounted` (an inequality: coalesced signals
produce no token of their own) and `TokenStays`.

*Refinement.*  The call of a thread takes effect at `PostAdd`, `Take`, `GiveUp` or
`Busy` (event: `Store`, `Coalesce`, `Take`, `GiveUp`); every other step is a
stutter.  `StatusInv` is the extra invariant: a status other than 0 belongs to a
bounded acquire, at a point where it can be.

*Atomic wait.*  `RecordsAreLive` speaks of the list and of the threads asleep,
and is not inductive: it says nothing of a thread that has been woken and has
not got the mutex back, nor of a marked record.  The invariant adds `MarkedLive`
(a marked record's frame is still there), `SleepersFound` (whoever is inside
the condvar wait, asleep or not, is linked or marked), `StatusInv`, and
`WaitersSleep`, from which the bound on the list's length follows with the
injection of the list into the sleepers.  The list is walked with `Only`, which
gives the j-th record left by its rank among those kept, where the standard
`SelectSeq` is recursive; `OnlySelects` in `MCAtomicWait` compares the two.
`OnlyKeeps` (what is left is the records of the set, each once) rests on
`RankExists`: a function on 0..m that starts at 0 and grows by at most one
takes every value up to its last.  That is an induction, done as a
least-counterexample argument from the well-foundedness of the naturals
(`LeastElement`, `ClimbsOnto`), which needs no operator parameter.  For the
refinement, a wait joins the waiters when it links, and leaves them at `Differs`,
`GivenUp` or when it is marked; a wake takes effect at `Mark`, whose count is
right because the abstract waiters of an address are its linked records
(`WaitersAreLinked`: nobody else can be half way, the mutex is held).

`atomic_wait_fifo` shows that wakes are not FIFO in the order of arrival.  What
holds instead is proved: `KeepsItsPlace` (a record is overtaken only when its own
thread links it again) and `WakesInOrder` (no wake passes over a linked record
of its address).

*Thread handles.*  `FreedByTheLast` is not inductive: it does not say that the
count is exact.  `RefInv` does (one reference for a child that has not ended, one
for the owner), with `CallInv` (no two calls on one handle, made by a running
thread that holds `*t` until the call consumes it), so that the owner's reference
is one and is dropped once.  `LifeInv` adds that it is given up only with the
pthread joined or detached, `JoinInv` that a reaped child has stored its status,
and `DetachInv` that a handle being detached is not JOINED, which
`FailedJoinLeavesJoinable` needs when the pthread's state is overwritten.

*Thread-local storage.*  A get or set that is about to use a host key must find
it still the key of its id.  That is `UseInv`; it is preserved because retiring a
slot needs the lock, which the call holds (`LockInv`).  `OwnInv` says whose a
host key is: one live slot's, or that of one create before it is recorded or one
destroy before it is deleted.  So a key that the host hands out again is in no
live slot.  `IdInv` (no two live slots with one id) and `ValueInv` (the host key
of a live id holds in each thread what the thread bound under that id, and a new
key nothing) then give `ReachesOwnValue`.

*Contexts.*  `OneRunner` says that no two threads run one context.  A thread in
the middle of a switch runs no context by its own account and still uses the
stack it leaves, so the invariant speaks of `At(t)`, the context a thread runs or
has not finished leaving: no two threads are at one.  `LandInv` is what the
exclusive store gives: a target that is armed is nobody's, and one thread's to
land on.  That does not cover a switch back to a thread's own context, whose
record may be in any state: there it is `TicketInv`, the return target naming a
thread is held by one context somebody is at, and only while nobody is at that
thread.  `SwitchInv` carries the callers' contract `Serialized`.

*Stacks.*  `StackIsSound` needs `HandleInv`: no two handles share a mapping, and
each has its first page committed.  `RunsOnMappedStack` relates the two halves
through `HeldInv`: a fiber that can be resumed, or that somebody is at, has its
stack.  No step of a thread makes a fiber `Held` that was not, so it is enough
that destroy and free look.

*Pollers.*  `EpollMapped` rests on `TableInv`: a descriptor is in one slot at
most and no empty slot lies between its home slot and it, which tombstones are
for; and on `Agree`, which says of every descriptor except the one a call is half
way through (`Changing`) that the kernel's set, the table and the caller's last
registration say the same.  For that one, `Fits`: the slot the call probed for
is still right when the kernel has answered.  With the table full the
probe's sentinel compares a token with a descriptor; under `TokensAreOpaque` it
never matches.  `KqueueInv` is the same for filters changed one after the
other.  `BatchInv` says what a batch that the kernel returned is worth once
descriptors have been closed and reopened, `WaitInv` why the kernel returned.
`RoundedUp` is the arithmetic of timeouts: the milliseconds cover the timeout, or
are the most there are, or the sum has wrapped.

*io_uring.*  `NothingLeaks`: what create holds is a prefix of the stages, and
each exit of the ladder undoes exactly that prefix.  `CountIsExact` needs
`CallInv`: what a call found out about its slot before it entered the kernel
is still so when it comes back, whatever the kernel did; each way of filling or
emptying a slot then moves the count by one (`CountMoves`).  `ArmedIsOutstanding`
is not inductive: it says nothing of requests that belong to no slot.
`Accounted` counts, for every sequence number, requests, armed polls and
undrained completions (`Outstanding`).  No number has two, those not yet handed
out have none, no two live slots share one, the number of a call on its way is no
slot's and has one (none while its flush is under way), a live slot's has one, and
so has the eventfd's if it is armed.  The kernel's steps move what is outstanding
from one place to another; a removal that finds a poll turns it into a
completion, which is where "no number has two" is used.  A wait that runs out
of room spends a number it did not stage, so "not yet handed out" is about
`next_seq`, and the numbers it did stage are those of the slots whose rank was
below the room left (`Rank`, `RankOnto`).  `EventIsCurrent`: as long as nothing
was cut, `ChainInv` holds: a descriptor is in one slot at most, no slot on the
way to it is empty, and next to it is the token of its last register.  A register
in flight still has the slot where its probe stopped (`StopsAt`), since only its
own end moves the table; so its descriptor is nowhere else (`NowhereElse`), and
an upsert changes the one entry there is.  Emptying a slot that is on no other
probe leaves the other chains whole (`ChainsStayWhole`).

`RegistrationSurvives` is violated; `ArmedRegistrationSurvives` is the part of it
that is true, and proved for every hash: of a slot whose poll is out (`r_seqs` not
0) the registration ends only by the unregister of its descriptor or with a failed
completion of that very poll.  So the flaw reaches the slots whose poll has fired
and that wait to be armed again, and no others.

Only model-checked: the liveness properties, which are outside the prover
(`PermitIsTaken`, `TimedWaitReturns`, `TokenIsTaken`, `MarkedReturns`,
`DueIsDelivered`, `WakeIsSeen`, `WakeEndsWait`), and that `Only` is `SelectSeq`.
Every safety property of a passing run is a theorem.

## Not modelled, and what is left

* `mjs_mutex_try_lock` (no caller in the library); the Linux futex backend of
  atomic wait, which is the kernel's own (`Futex` states what it does); the
  wrapper's loop `wait_until_changed`, which keeps no state.
* Register save and restore, the finish hook, the wrapper's cookie in
  `context.mojo`.  The wrapper's `switch` checks only the context it leaves; a
  bad target reaches the C layer, which traps.
* `mjs_vm.c` other than commit: each call is one system call on kernel state.
* Two threads inside one poller at once.  The wrapper's `mut self` keeps them
  apart; the C layer has no lock and says nothing of it either way, and a test
  registers from four threads through the raw handle
  (`tests/s6/io/epoll/conformance.mojo:53`).  What the unlocked table does then is
  not covered by these models.
* The byte arithmetic of `mjs_stack_alloc`, which rejects sizes that wrap.
* Time (saturating arithmetic, one clock query), `OwnedFd` (one flag, one
  owner), sockets, CPU queries, the ABI helpers: no state machine.  Tests,
  benchmarks, the spike and build tooling.

Worth proving next: that the shared contracts of the pollers follow from an
abstract poller that both backends implement, which is not stated yet.
