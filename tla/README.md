# xMach: a verification development of the Mach kernel

The repository holds the Mach 4 kernel (`src/kernel`), the Lites Unix server
(`src/lites`) and their build tools. This directory models the parts in which
threads, processors, interrupts and messages meet: TLA+ modules, TLC
configurations that check them on small instances, and TLAPS proofs for every
instance where a proof is in reach. `PROJECT.json` lists the parts of the
system, maps every definition to the source lines it stands for, and names the
hazards the properties are about.

## The system and its modules

Tasks talk by messages sent to ports. A task names a port by an entry of its
space, which gives it rights (`IpcRight`); rights travel in messages, receive
rights included, which must not close a circle (`IpcCircularity`). Messages wait
in the queue of a port or of its port set, and threads wait for messages or for
room (`IpcMqueue`). Waiting, waking, stopping and ending of threads is the
scheduler's (`Sched`). Memory is copied lazily, by chains of objects that page
faults, forks, and the pageout daemon rearrange (`VmObject`, `VmFault`). Address
maps are guarded by complex locks (`RWLock`).

| module | what it models | source, under `src/kernel/generic/kernel` |
|---|---|---|
| `RWLock` | complex locks: read, write, upgrade, downgrade, recursion, sleeping and spinning | `kern/lock.c`, `kern/lock.h` |
| `RWLockAbstract` | what an upgradable reader/writer lock promises | |
| `RWLockProofs`, `RWLockRefinement` | its invariants and its refinement, proved | |
| `IpcMqueue` | message queues, port sets, blocking, timeouts | `ipc/ipc_mqueue.c`, `ipc/ipc_pset.c`, `ipc/ipc_port.c`, `kern/ipc_sched.c`, `kern/mach_clock.c` |
| `Sched` | thread states, dispatching, suspend, halt, abort, terminate | `kern/sched_prim.c`, `kern/thread.c`, `kern/ast.c` |
| `SchedLemmas`, `SchedThreads`, `SchedProofs` | its invariants, proved: what the routines do, the steps of threads, the steps of processors and the theorems | |
| `FoldInduction` | induction over finite sets, and what a fold over a set is | |
| `IpcRight` | rights, entries, notifications, port and space death | `ipc/ipc_right.c`, `ipc/ipc_port.c`, `ipc/ipc_notify.c`, `ipc/ipc_space.c`, `ipc/ipc_kmsg.c`, `ipc/mach_port.c` |
| `IpcCircularity` | `ipc_port_check_circularity`, lock by lock | `ipc/ipc_port.c` |
| `IpcCircularityProofs` | its invariants, proved | |
| `VmObject` | memory objects: shadow, copy, collapse, terminate | `vm/vm_object.c` |
| `VmFault` | page faults, forks, unmapping, pageout over those objects | `vm/vm_fault.c`, `vm/vm_map.c`, `vm/vm_pageout.c` |
| `VmMemory` | what virtual memory promises tasks | |
| `MC...` | instances for TLC: symmetry sets, sets of calls | |

In every module a step is what one thread does while it holds a lock (or locks
it holds together); where it drops all locks and has more to do, its `pc`, job or
state says what. A variable commented as history is read by properties only.
`panic` records a panic or a failed assertion and ends the behaviour.

## Complex locks

State: the fields of `struct lock`, the place of each thread in a routine (`pc`),
who sleeps (`asleep`), and as history the holds of each thread. Each stretch
under the interlock is one step. Clients use the package as it is meant: they
release what they hold, upgrade a read hold, and ask for no read lock they have.
The widths of the counters (16 and 12 bits) are kept; `RWLockAssumption` says
that threads and nesting fit.

* Run `rwlock` (3 threads, 3 nested holds): a writer is alone (`Exclusion`); the
  counters agree with the holds although `lock_done` guesses what it releases
  (`FieldsMatchHolds`); nobody sleeps on a condition that has become false
  (`NoLostWakeup`); `lock_set_recursive` does not panic (`NoPanic`); every step is
  one of `RWLockAbstract` (`Implements`): nobody holds the lock between the two
  halves of an upgrade; sleepers wake and upgraders get the lock (`SleepersWake`,
  `UpgradeCompletes`). Three threads are the writer, the upgrader and the reader
  that all wait at once.
* Fairness: a thread inside the package goes on, which spinning and the wakeup
  guarantee (`WF Inside`); clients release what they hold (`WF lock_done`), and
  undo recursion and nesting whenever they repeatedly could (`SF`). A thread that
  loses every race for the bit starves; the code does not prevent it and no
  property denies it.

**Proved** for every set of threads and every nesting bound the widths admit:
type correctness, exclusion, the counters, no lost wakeup, no panic
(`RWLockProofs`), and the refinement (`RWLockRefinement`). The inductive
invariant `IInv` adds who is behind the flag bits: at most one thread owns
`want_write` and at most one `want_upgrade`, at which `pc`, holding what. Without
it exclusion is not inductive: a thread draining readers owns the bit but no
hold, and only its uniqueness keeps a second writer out. The counters need lemmas
about sums over finite sets of threads (`HoldsUp`, `CountReads`). The refinement
maps a pending upgrade to the set `Upgraders`, and has a lemma per abstract action.

## Message queues

State: per port `ip_msgcount`, `ip_qlimit`, `ip_seqno`, `ip_pset`, `ip_blocked`; the
messages and waiting receivers of each port and set; per thread `ith_state`,
`ith_kmsg`, `ith_msize`, its wait and its timer. `MP = FALSE` is the kernel for one
processor, where only the clock comes between the steps of a thread; `MP = TRUE`
the one for several. A message is its port, size and number in order of
acceptance. `MaxSends` bounds the messages accepted.

* `mq_mp` (several processors, two ports, a set, buffers smaller than messages,
  circular messages, late timers): each accepted message is delivered once and in
  order, whatever happens to sets and receive rights (`MessagesInOrder`);
  `ip_msgcount` is exact though decremented late (`MsgCountExact`); a thread is in a
  wait queue exactly while its state says so (`QueuedAsRecorded`), and never waits
  beside a message (`NobodyWaitsForNothing`).
* `mq_calls_end` (one processor, two senders, limits 0, 1 and 2): for every free
  slot of a port with blocked senders a sender is on its way (`NoStrandedSender`),
  no panic, calls with a timeout return (`TimeoutsEnd`), and blocked senders return
  while the receivers keep receiving (`SendersGetThrough`).
* Fairness: runnable threads run and the clock ticks. Both liveness properties
  leave out a sender that is roused for ever for a slot that is gone each time:
  it blocks again with its full timeout.
* Bounds: two senders are needed for a slot to be stolen, one beyond the limit to
  block; two ports and a set for a queue with messages of both. With a third message
  and the limits 0 and 1, so that the count gets above both limits beside a blocked
  sender, `mq_calls_end` was checked once, with the same outcome (19,476 states).

## Threads and scheduling

State: per thread the flags of `thread->state`, `suspend_count`,
`user_stop_count`, `wait_event`, `wake_active`, its ASTs and the call it is in; per
processor the current thread, the one switched from and not yet dispatched, and
the one promised to it while idle; the run queue, and the reaper's queue. Any
thread of the run queue may be chosen, which covers every priority.

* `sched_up` (one processor, two threads and the reaper, every call): the hold
  count is exact through every failure of `thread_halt` (`HoldsCounted`), no panic, a
  halted thread runs again only when the last hold is gone (`HaltedStaysPut`), every
  call returns unless its caller is suspended, or halted by a thread that is
  (`CallsReturn`).
* `sched_mp` (two processors, three threads): a runnable thread is in exactly one
  place (`RunnableInOnePlace`), whoever sleeps until a thread stops will be told
  (`SleeperIsKnown`), `thread_setrun`, `thread_wakeup_prim` and `assert_wait` find
  what they assert (`AssertionsHold`), and of two threads that abort each other one
  gives way (`NoHaltCycle`).
* `sched_forgotten_halter` is a violation, see Findings.
* Fairness: a processor goes on with what it has begun (`WF`); a runnable thread is
  chosen if it could be again and again, a thread in the kernel gets on whenever
  it has the processor again and again, and events occur (`SF`): the quantum and
  aging give each runnable thread its turn.
* Bounds: three threads are two halters and a target, the least in which one
  halter waits for the other. `MaxStops` bounds `user_stop_count`.

**Proved** for any number of threads, processors and events and any set of calls:
the properties of `sched_mp` but `NoHaltCycle`. `SchedAssumption` says that there are finitely
many threads and that threads, events, `None` and the reaper's queue are different
things, as their addresses are. None of the three is inductive, and none is without
the others; `IInv` is their strengthening (checked by TLC on the instances of
`sched_up` and `sched_mp` before it was proved). Its parts, in `SchedLemmas`:

* `Placed`: TH_RUN exactly while the thread is somewhere, and in one place. Whoever
  starts a thread relies on its flags alone, without looking at the processors.
* `Local`: TH_WAIT goes with a `wait_event`, so that a wakeup finds only waiters.
* `Awake`: what can be picked to run, or executes, does not wait. A thread that
  waits and is TH_RUN is on its way out of its processor; `EndWait` must not start
  it, and `thread_dispatch` requeues it if the wait is over by then.
* `Promised`: only a dispatching processor has a `next_thread`; an idle one can be
  given a thread without losing another.
* `WakeLast`: a processor with a thread to dispatch has no wakeup to finish, so
  `thread_dispatch` never overwrites one, which `Sleepers` needs.
* `Sleepers`: a sleeper on `wake_active` is known, in every state but those inside
  `thread_wakeup_prim`, which ends with no sleeper left.

`thread_wakeup_prim` is a fold over the waiting threads. `FoldInduction` proves
induction over the subsets of a finite set from the well-founded subset order, with
the claim given as a set, and with it that a fold is the one function with its
recursion equation. `WakeupLoop` unfolds `thread_wakeup_prim` so, and `WakeupCore`
follows it thread by thread to the end, where no one waits for the event any more.

## Port rights

State: each space's entries (type, user references, request), each port's rights
and reference counts, its receiver or the message its receive right is in, its
requests, its messages, and for each thread the jobs it still has to do with the
rights in its hands. The cascade of a port's death is a list of such jobs.

* `right_calls` (one thread, two spaces, two ports, four calls out of all but sending,
  receiving and the death of a space; 524,128 states): send rights are counted
  (`RightsCounted`), entries stay sound up to the limit of user references
  (`EntriesSound`), a no-senders notification is sent when owed (`NoSendersOwed`),
  dead-name requests and entries match (`RequestsMatch`). The code does not keep
  three of these when `mach_port_mod_refs` drops the receive right of an entry with
  a send right and the port goes to its backup (finding 3). The history fields
  `ghosts` and `orphans` of a port record that: the first counts the send rights
  given up without being counted down, the second the slots left without an entry.
  `RightsCounted` adds the ghosts, `RequestsMatch` says that the orphans and no other
  slots have no entry, and `NoSendersOwed` leaves out ports with ghosts.
* `right_survivor` is a violation, see Findings: `NoSendersTold`, which leaves nothing
  out.
* `right_races` (two threads; three sends, receives or port-destroyed requests, with
  and without memory for the notification; the death of both spaces at any point):
  references stay exact (`RefsCounted`), nothing is left over, not even a circle of
  ports in transit to each other (`NoLeak`), one receive right per living port, which
  goes to its backup or dies (`OneReceiveRight`), and every cascade ends once the calls
  do (`Drains`). Fairness: a thread goes on with its work.
* Bounds: two spaces and two ports suffice for rights to cross; the limit of user
  references is 3 so that it is met; `MaxCalls` bounds the calls, but for the death of
  a space, which each dies once; one slot of the request table makes requests
  compete. Calls are bounded, so the runs of this part and the next do not check
  deadlock.

## Circles of ports in transit

`IpcRight` takes the check for circles as one step; `IpcCircularity` has it lock by
lock, with the quick path, the lock of multiple ports, the walk along the chain and
the unlocking, against others that send, receive and destroy the ports of the chain.

* `circularity` (three ports, two threads, three sends): no circle (`NoCircle`), the
  assertions hold (`Asserts`), a right is refused only if it would close a circle
  (`RefusedIfCircular`), every check returns (`CheckReturns`) with fair threads: no two
  of them wait for each other's locks.

**Proved** for any sets of ports and threads: all but `CheckReturns`
(`IpcCircularityProofs`). The invariant `IInv` says what a thread holds while it
walks: the ports it has locked form a chain from the destination to `base`. A chain
is described by sets closed under `dest`, not by induction: `Linked` (every locked
port but the last is in transit to a locked port) and `Leads` (every closed part
with the destination holds `base`). The new edge closes no circle because a circle
through it would be a closed part of the chain without its end, contradicting
`Leads` (`EnterMakesNoCircle`).

## Virtual memory

`VmObject` has the objects: `ref_count`, `shadow`, `copy`, `use_shared_copy`,
`shadowed`, pager, `paging_in_progress` and one page each (fictitious, absent or
real; busy; dirty; its data), and what copying, collapsing and terminating do to
the chains. `VmFault` has the steps of `vm_fault` and `vm_fault_page` from one lock
to the next, `vm_map_fork` with the inheritance copy and share, unmapping, the
pageout daemon and the answers of the default pager, and stores by tasks, over maps
of one entry. The timestamp of a map is kept as whether it is still the one a
fault saw. `VmMemory` is the promise: a word per map, changed by the stores of the
maps that share it and by nothing else.

* `vm_cow` (two threads, three maps, two page frames, five objects; four faults,
  forks, unmappings or unforced pageouts; from fresh memory, or from memory shared
  by two maps and copied to a third, resident or paged out; 293,519 states): no
  assertion of the objects fails (`NoPanic`), reference counts are exact
  (`CountsRight`), nobody waits for a page that is not busy (`WaitersWake`), a page is
  writable only by those who own it and after its copy has the data
  (`WritersAlone`), and all of it implements `VmMemory` (`Implements`). Deadlock is
  checked: no thread is stuck on a page, a lock or a shortage.
* `vm_clean_lost` is a violation, see Findings.
* Bounds: two threads are a fault and what gets in between; three maps are two that
  share and one with a copy; two frames make every fault of a copy run into a
  shortage; five objects are the most that live at once here (with four, a fault
  finds none). Checked once with larger bounds, with the same outcome: five
  counted operations of one thread from every start, four operations of two
  threads without counting unmappings (2.1 million states).

Where the code leaves a hole, the model records it by name in `hole` (or as the
panic `unreferenced`), and the properties say nothing after it:

* *late*: between the check of `copy` in `vm_fault` (`vm_fault.c:1445`) and
  `PMAP_ENTER`, with the object unlocked, a sharer forks a copy: the mapping is
  entered writable, though the copy lacks the page. The same if a new copy object
  has the address of the old.
* *missed*: a push restarts the faults that wait below the copy object
  (`vm_fault.c:1063`), not one awakened before that has yet to take the lock.
* *lost*: the finding below.
* *unreferenced*: the pageout daemon collapses an object without a reference,
  against the comment at `vm_object.c:2398`; collapse unlocks it and it may die.

Two more, met while reading and outside the properties: unmapping a shared entry
removes mappings of the object's own pages only, so a read-only mapping of a page
further down the chain stays (`vm_map.c:1611`); and a fault on an object whose pager
is not ready waits for `PAGER_READY` (`vm_fault.c:612`), which only the pager's own
answer signals (`memory_object.c:970`) or the end of the object (`vm_object.c:789`).
With one page to an object the page is busy for as long as that lasts, and the model
waits for the page instead.

With one page to an object `vm_object_collapse` always finds a page in the upper
object, so the page-by-page comparison of the bypass is met in one outcome only.

## Findings

1. `sched_forgotten_halter` (`thread.c:1083`): a halter that itself puts the thread at
   its clean point does not wake a second halter that sleeps in `thread_halt`, which
   stays asleep though "someone else" has completed the halt.
2. `vm_clean_lost` (`vm_fault.c:878`): a page copied up by a write fault is not marked
   dirty. If the chain is collapsed so that it is the only copy, and the daemon
   takes it before the task stores, it is freed as clean, and the task reads what is
   further down the chain.
3. `right_survivor` (`ipc_right.c:1097`): `mach_port_mod_refs` drops the receive right of
   an entry that has a send right too. `ipc_right_delta` makes it a dead name and
   leaves `ip_srights`, the no-senders and the dead-name request alone "because the
   port is destroyed first"; but a port with a backup is not destroyed. It lives on
   with `ip_srights` too high, and no no-senders request is ever answered.
One more, without a run of its own. `thread_halt` looks for AST_HALT on its caller
only if it may fail (`thread.c:937`), since otherwise "this operation can never cause a
deadlock" (line 968). On two processors a thread that is being aborted, and has yet
to see its AST, may terminate the one that aborts it. Each has suspended the other;
both wake from `thread_dowait` and stay suspended for ever. With
`<<"terminate", t1, t2>>` added to the calls `Mixed` of `sched_mp`, TLC finds
`NoHaltCycle` violated.

Properties checked for one processor only, because the model for several does not
have them: `NoPanic` of `IpcMqueue` (`ipc_mqueue_send` calls `thread_go` for a receiver
after unlocking the queue, and `thread_timeout` does not see that its timer was
cancelled; either may end a later wait of the thread) and `HoldsCounted` and
`NoPanic` of `Sched` (a thread takes AST_HALT while the halt is called off, and halts
itself without a hold). `CallsReturn` too is for one processor:
two threads never abort each other at the same time there (on two they do, and
`NoHaltCycle` covers it), and a thread that is to stop stops before it makes another
call. On two processors it may be resumed before it has stopped, by itself or by a
third thread; `thread_resume` does not wake `wake_active`, and the caller of
`thread_suspend` sleeps until the thread next stops, which may be never.
`NoPanic` of `RWLock` is about threads that took the lock by `lock_write`: one that
upgraded has `want_upgrade` set instead of `want_write`, and `lock_set_recursive` would
panic; the callers (`vm_map_pageable`, `vm_fault_unwire`) come with a lock taken by
`vm_map_lock`. `NoStrandedSender` is checked without circular messages: a
roused sender whose message is circular drops it and wakes nobody else.

## Proved, and only model-checked

Proofs cover the locks, the circles, and the places, wakeups and assertions of the
scheduler. They are for every instance; all else is checked by TLC on the instances
above:

* Liveness: out of the prover's reach.
* `NoHaltCycle` of `Sched` depends on the calls made: it is about aborts. `HoldsCounted` and
  `NoPanic` hold on one processor only (see above).
  Their proof would need, next to `IInv`, that no other thread gets between the
  steps of a halter, and who has set each AST_HALT. `HaltedStaysPut` needs
  `HoldsCounted`.
* `IpcMqueue`: sequences of messages and waiters, numbered in order of acceptance.
  Folds over sequences would need an induction like that of `FoldInduction`.
* `IpcRight`: its jobs are sequences that a dying port makes longer, and its
  invariants are counts over all entries, messages and jobs at once.
* `VmFault`: its invariants rest on counts of holders (`CountsRight`) that every
  step changes, along chains of objects.

## Not modelled

* Virtual memory: external pagers, wired pages, objects of several pages,
  interrupted waits, error and locked pages, entries of several sizes (clipping),
  `vm_map_copyin` and `vm_map_copyout`. Several pages or a second entry put the
  races above out of TLC's reach; the rest is another protocol, with tasks.
* Messages: headers and out-of-line memory, message-accepted requests, fast paths.
* Names: the layout of entry tables and trees; `IpcRight` takes a space as a function.
* Scheduler: priorities, processor sets, kernel stacks, thread creation.
* Zones, timer lists, event counters: short sections under one lock, taken as
  atomic by the modules above.
* Machine-dependent code, devices, debugger, MIG, boot programs: hardware, register
  I/O, compilers and sequential start-up code.
* C threads and Lites: a user-level library whose correctness lies in its assembly,
  and 4.4BSD code under a master lock (file systems, sockets, protocols), a
  system of its own and by far most of the lines of the repository.
