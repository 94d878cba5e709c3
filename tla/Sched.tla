------------------------------- MODULE Sched --------------------------------
(***************************************************************************)
(* The state of a thread (kern/thread.h: TH_RUN, TH_WAIT, TH_SUSP,         *)
(* TH_UNINT, TH_HALTED) and everything that changes it: blocking, waking   *)
(* and dispatching (kern/sched_prim.c), and suspending, halting, aborting  *)
(* and terminating other threads (kern/thread.c, kern/ast.c).              *)
(*                                                                         *)
(* A step is what a processor does while it holds a thread lock.  A        *)
(* processor carries the thread it runs and the one it switched from and   *)
(* has yet to dispatch.  Kernel code is not preempted: with one processor  *)
(* a thread keeps it until it calls thread_block.  Priorities are          *)
(* abstracted to a free choice among the threads on the run queue.         *)
(***************************************************************************)
EXTENDS Integers, FiniteSets, FiniteSetsExt

CONSTANTS
  Threads, Cpus,
  Events,      \* what threads wait for, besides one another
  None,        \* THREAD_NULL, event 0; as a current thread, the idle thread
  Reaper,      \* the reaper thread, or None
  Waits,       \* the kinds of waits for events that occur ...
  Waiters,     \* ... and the threads that wait
  Calls,       \* the calls that occur: <<op, caller, target>>
  MaxStops     \* bound on user_stop_count

ASSUME SchedAssumption ==
  /\ IsFiniteSet(Threads)
  /\ Threads \cap Events = {}
  /\ None \notin Threads \cup Events \cup {"reaper_queue"}
  /\ "reaper_queue" \notin Threads \cup Events
  /\ Reaper \in Threads \cup {None}
  /\ Waits \subseteq {"wait", "wait_uninterruptibly"}
  /\ Waiters \subseteq Threads
  /\ Calls \subseteq {"suspend", "resume", "abort", "terminate"}
                      \X Threads \X Threads
  /\ MaxStops \in Nat

VARIABLES
  thread,        \* the fields of each thread, see ThreadType
  runq,          \* the threads on the run queue
  cpu,           \* the fields of each processor, see CpuType
  reaper_queue,
  panic

vars == <<thread, runq, cpu, reaper_queue, panic>>

Flags == {"RUN", "WAIT", "SUSP", "UNINT", "HALTED"}

(***************************************************************************)
(* wait_event is an event, the reaper's queue, or a thread t that stands   *)
(* for &t->wake_active.                                                    *)
(***************************************************************************)
WaitEvents == Events \cup Threads \cup {"reaper_queue"}

CpuType == [cur    : Threads \cup {None},   \* the current thread
            old    : Threads \cup {None},   \* for thread_dispatch
            next   : Threads \cup {None},   \* next_thread
            wake   : Threads \cup {None},   \* for thread_wakeup(&wake_active)
            status : {"running", "choosing", "idle", "dispatching"}]

(***************************************************************************)
(* user        at the boundary to user mode, where ASTs are taken          *)
(* kernel      inside a system call                                        *)
(* halt_self   in ast_taken, before thread_halt_self                       *)
(* exiting     in thread_halt_self, queued for the reaper                  *)
(* zombie      thread_halt_self has blocked with walking_zombie            *)
(* halt_woke, halt_again  in thread_halt, while another thread is halting  *)
(* dowait, dowait_woke    in thread_dowait                                 *)
(* failed      in thread_halt, thread_dowait has failed                    *)
(* release     before thread_release                                       *)
(* clear, cleared         in thread_halt, around clear_wait                *)
(* stopped     in thread_halt, the wait is cleared                         *)
(* held        thread_halt has succeeded                                   *)
(* reaper, reaped         in reaper_thread_continue                        *)
(***************************************************************************)
PC == {"user", "kernel", "halt_self", "exiting", "zombie",
       "halt_woke", "halt_again", "dowait", "dowait_woke", "failed",
       "release", "clear", "cleared", "stopped", "held", "reaper", "reaped"}

NoJob == [op |-> "none", target |-> None, event |-> None]

Jobs == [op : {"none", "suspend", "abort", "terminate", "reap"},
         target : Threads \cup {None}, event : WaitEvents \cup {None}]

ThreadType ==
  [state : SUBSET Flags,
   wait_event : WaitEvents \cup {None},
   wait_result : {"awakened", "interrupted"},
   wake_active : BOOLEAN,
   suspend_count : Int,   \* see HoldsCounted
   user_stop_count : 0..MaxStops,
   ast : SUBSET {"HALT", "TERMINATE"},
   active : BOOLEAN,
   clean : BOOLEAN,       \* swap_func is a nice continuation
   pc : PC,               \* where the thread continues
   blocking : BOOLEAN,    \* after a call of thread_block
   job : Jobs,            \* its call on another thread
   dead : BOOLEAN]        \* its reference to itself was dropped

(***************************************************************************)
(* dispatch  panic("thread_dispatch") or panic("thread_invoke")            *)
(* wakeup    panic("thread_wakeup")                                        *)
(* assert    panic("assert_wait: already asserted event")                  *)
(* setrun    assert(th->runq == RUN_QUEUE_NULL)                            *)
(* halt      panic("thread_halt")                                          *)
(* zombie    panic("the zombie walks!")                                    *)
(* destroyed panic("unstopped thread destroyed!")                          *)
(***************************************************************************)
Panics == {"none", "dispatch", "wakeup", "assert", "setrun", "halt",
           "zombie", "destroyed"}

IdleCpu == [cur |-> None, old |-> None, next |-> None, wake |-> None,
            status |-> "idle"]

NewThread(t) ==
  [state |-> {"RUN"}, wait_event |-> None, wait_result |-> "awakened",
   wake_active |-> FALSE, suspend_count |-> 0, user_stop_count |-> 0,
   ast |-> {}, active |-> TRUE, clean |-> TRUE,
   pc |-> IF t = Reaper THEN "reaper" ELSE "user",
   blocking |-> FALSE, job |-> NoJob, dead |-> FALSE]

(* Every thread was created, suspended, and then resumed; none has run. *)
Init ==
  /\ thread = [t \in Threads |-> NewThread(t)]
  /\ runq = Threads
  /\ cpu = [c \in Cpus |-> IdleCpu]
  /\ reaper_queue = {}
  /\ panic = "none"

-----------------------------------------------------------------------------
(***************************************************************************)
(* The state as one record s, of which each routine is a function.         *)
(***************************************************************************)
Now == [thread |-> thread, runq |-> runq, cpu |-> cpu, panic |-> panic]

Becomes(s) == /\ thread' = s.thread /\ runq' = s.runq
              /\ cpu' = s.cpu /\ panic' = s.panic

SetThread(s, t, fields) == [s EXCEPT !.thread[t] = fields]

SetCpu(s, c, fields) == [s EXCEPT !.cpu[c] = fields]

Goto(s, u, label) == SetThread(s, u, [s.thread[u] EXCEPT !.pc = label])

(* An idle processor takes the thread at once, or the run queue does. *)
thread_setrun(s, t) ==
  LET idle == {c \in Cpus : s.cpu[c].status = "idle"}
      c == CHOOSE c \in idle : TRUE
  IN IF t \in s.runq THEN [s EXCEPT !.panic = "setrun"]
     ELSE IF idle # {}
     THEN SetCpu(s, c, [s.cpu[c] EXCEPT !.next = t,
                                        !.status = "dispatching"])
     ELSE [s EXCEPT !.runq = @ \cup {t}]

assert_wait(s, u, event, interruptible) ==
  IF s.thread[u].wait_event # None THEN [s EXCEPT !.panic = "assert"]
  ELSE SetThread(s, u, [s.thread[u] EXCEPT
         !.wait_event = event,
         !.state = @ \cup (IF interruptible THEN {"WAIT"}
                           ELSE {"WAIT", "UNINT"})])

thread_block(s, u, label, nice) ==
  SetThread(s, u, [s.thread[u] EXCEPT !.blocking = TRUE, !.pc = label,
                                      !.clean = nice])

thread_sleep(s, u, event, label) ==
  thread_block(assert_wait(s, u, event, TRUE), u, label, FALSE)

Suspendable(f) == "SUSP" \in f /\ "UNINT" \notin f

(* As EndWait, but starts a thread that has not left its processor yet. *)
MutEndWait(s, t, result) ==
  LET f == s.thread[t].state
      g == f \ {"WAIT"}
      x == [s.thread[t] EXCEPT !.wait_result = result, !.state = g]
  IN IF Suspendable(f) THEN SetThread(s, t, x)
     ELSE thread_setrun(SetThread(s, t, [x EXCEPT !.state = g \cup {"RUN"}]), t)

(* The switch on thread->state that clear_wait and thread_wakeup_prim      *)
(* share: a sleeping thread is started unless it is suspended.             *)
EndWait(s, t, result) ==
  LET f == s.thread[t].state
      g == f \ {"WAIT"}
      x == [s.thread[t] EXCEPT !.wait_result = result, !.state = g]
  IN IF "RUN" \in f \/ Suspendable(f) THEN SetThread(s, t, x)
     ELSE thread_setrun(SetThread(s, t, [x EXCEPT !.state = g \cup {"RUN"}]), t)

NoEvent(s, t) == SetThread(s, t, [s.thread[t] EXCEPT !.wait_event = None])

WakeOne(s, t, result) ==
  IF "WAIT" \notin s.thread[t].state THEN [s EXCEPT !.panic = "wakeup"]
  ELSE EndWait(NoEvent(s, t), t, result)

thread_wakeup_prim(s, event, result) ==
  FoldSet(LAMBDA t, r : WakeOne(r, t, result), s,
          {t \in Threads : s.thread[t].wait_event = event})

(* As clear_wait, but leaves the thread on the queue of the event. *)
MutClearWait(s, t, event, result) ==
  IF s.thread[t].wait_event # event \/ "WAIT" \notin s.thread[t].state THEN s
  ELSE EndWait(s, t, result)

(* clear_wait once it holds the locks of the wait queue of "event" and of  *)
(* the thread: someone else may have ended that wait by now.               *)
clear_wait(s, t, event, result) ==
  IF s.thread[t].wait_event # event THEN s
  ELSE IF "WAIT" \notin s.thread[t].state THEN NoEvent(s, t)
  ELSE EndWait(NoEvent(s, t), t, result)

thread_hold(s, t) ==
  SetThread(s, t, [s.thread[t] EXCEPT !.suspend_count = @ + 1,
                                      !.state = @ \cup {"SUSP"}])

(* The last of those who hold a thread lets it run again. *)
thread_release(s, t) ==
  LET count == s.thread[t].suspend_count - 1
      f == s.thread[t].state \ {"SUSP", "HALTED"}
      x == [s.thread[t] EXCEPT !.suspend_count = count]
  IN IF count # 0 THEN SetThread(s, t, x)
     ELSE IF f \cap {"WAIT", "RUN"} # {}
     THEN SetThread(s, t, [x EXCEPT !.state = f])
     ELSE thread_setrun(SetThread(s, t, [x EXCEPT !.state = f \cup {"RUN"}]), t)

-----------------------------------------------------------------------------
(***************************************************************************)
(* Processors.  Busy(c): c has a thread to dispatch or a wakeup to finish. *)
(***************************************************************************)
Busy(c) == cpu[c].old # None \/ cpu[c].wake # None

(* c is in thread_block: of its current thread, or of its idle thread. *)
InBlock(c, status) ==
  /\ panic = "none" /\ ~Busy(c) /\ cpu[c].status = status
  /\ cpu[c].cur # None => thread[cpu[c].cur].blocking

(* The continuation of a thread that has exited is walking_zombie. *)
Walks(s, t) == IF s.thread[t].pc = "zombie" THEN "zombie" ELSE s.panic

(* thread_invoke marks the thread it starts interruptible. *)
Invoke(s, c, new) ==
  LET old == s.cpu[c].cur
      r == SetCpu(s, c, [s.cpu[c] EXCEPT !.old = old, !.cur = new])
      q == IF old = None THEN r
           ELSE SetThread(r, old, [r.thread[old] EXCEPT !.blocking = FALSE])
  IN IF new = None THEN q
     ELSE [SetThread(q, new, [q.thread[new] EXCEPT !.state = @ \ {"UNINT"}])
             EXCEPT !.panic = Walks(s, new)]

Switch(c, new) ==
  /\ InBlock(c, "running") /\ new \in runq
  /\ Becomes(Invoke([Now EXCEPT !.runq = @ \ {new}], c, new))
  /\ UNCHANGED reaper_queue

(* thread_select: nothing else is runnable and the current thread still is. *)
Stay(c) ==
  /\ InBlock(c, "running") /\ runq = {} /\ cpu[c].cur # None
  /\ thread[cpu[c].cur].state = {"RUN"}
  /\ LET t == cpu[c].cur
     IN Becomes([SetThread(Now, t, [thread[t] EXCEPT !.blocking = FALSE])
                   EXCEPT !.panic = Walks(Now, t)])
  /\ UNCHANGED reaper_queue

(* choose_pset_thread finds the run queue empty and unlocks it ... *)
Choose(c) ==
  /\ InBlock(c, "running") /\ runq = {}
  /\ cpu[c].cur # None => thread[cpu[c].cur].state # {"RUN"}
  /\ Becomes(SetCpu(Now, c, [cpu[c] EXCEPT !.status = "choosing"]))
  /\ UNCHANGED reaper_queue

(* ... and then sets the processor idle. *)
GoIdle(c) ==
  /\ InBlock(c, "choosing")
  /\ Becomes(Invoke(SetCpu(Now, c, [cpu[c] EXCEPT !.status = "idle"]),
                    c, None))
  /\ UNCHANGED reaper_queue

(* idle_thread_continue: dispatched by thread_setrun. *)
IdleDispatched(c) ==
  /\ panic = "none" /\ ~Busy(c) /\ cpu[c].cur = None
  /\ cpu[c].status = "dispatching"
  /\ Becomes(Invoke(SetCpu(Now, c, [cpu[c] EXCEPT !.status = "running",
                                                  !.next = None]),
                    c, cpu[c].next))
  /\ UNCHANGED reaper_queue

(* idle_thread_continue: not dispatched, but there is something to run. *)
IdleNotices(c) ==
  /\ panic = "none" /\ ~Busy(c) /\ cpu[c].cur = None
  /\ cpu[c].status = "idle" /\ runq # {}
  /\ Becomes(SetCpu(Now, c, [cpu[c] EXCEPT !.status = "running"]))
  /\ UNCHANGED reaper_queue

(* As ToSuspend, without a thread that has halted itself. *)
MutToSuspend == {{"RUN", "SUSP"}, {"RUN", "WAIT", "SUSP"}}

ToSuspend == {{"RUN", "SUSP"}, {"RUN", "SUSP", "HALTED"},
              {"RUN", "WAIT", "SUSP"}}
ToRequeue == {{"RUN", "SUSP", "UNINT"}, {"RUN", "UNINT"}, {"RUN"}}
ToSleep   == {{"RUN", "WAIT", "SUSP", "UNINT"}, {"RUN", "WAIT", "UNINT"},
              {"RUN", "WAIT"}}

(* As Dispatched, but whoever waits for t to stop is not woken. *)
MutDispatched(s, c, t) ==
  LET f == s.thread[t].state
      x == [s.thread[t] EXCEPT !.state = f \ {"RUN"}]
  IN IF f \in ToSuspend
     THEN SetThread(s, t, [x EXCEPT !.wake_active = FALSE])
     ELSE IF f \in ToRequeue THEN thread_setrun(s, t)
     ELSE IF f \in ToSleep THEN SetThread(s, t, x)
     ELSE [s EXCEPT !.panic = "dispatch"]

(* Those who wait for t to stop are woken once t is unlocked. *)
WakeLater(s, c, t) ==
  SetCpu(SetThread(s, t, [s.thread[t] EXCEPT !.wake_active = FALSE]), c,
         [s.cpu[c] EXCEPT !.wake = IF s.thread[t].wake_active THEN t ELSE None])

Dispatched(s, c, t) ==
  LET f == s.thread[t].state
      x == [s.thread[t] EXCEPT !.state = f \ {"RUN"}]
  IN IF f \in ToSuspend THEN WakeLater(SetThread(s, t, x), c, t)
     ELSE IF f \in ToRequeue THEN thread_setrun(s, t)
     ELSE IF f \in ToSleep THEN SetThread(s, t, x)
     ELSE [s EXCEPT !.panic = "dispatch"]

thread_dispatch(c) ==
  /\ panic = "none" /\ cpu[c].old # None
  /\ Becomes(Dispatched(SetCpu(Now, c, [cpu[c] EXCEPT !.old = None]),
                        c, cpu[c].old))
  /\ UNCHANGED reaper_queue

(* thread_wakeup(&wake_active), with the thread already unlocked. *)
FinishWake(c) ==
  /\ panic = "none" /\ cpu[c].old = None /\ cpu[c].wake # None
  /\ Becomes(thread_wakeup_prim(SetCpu(Now, c, [cpu[c] EXCEPT !.wake = None]),
                                cpu[c].wake, "awakened"))
  /\ UNCHANGED reaper_queue

-----------------------------------------------------------------------------
(***************************************************************************)
(* Threads.  Runs(u, label): u has a processor and stands at label.        *)
(***************************************************************************)
Runs(u, label) ==
  /\ panic = "none"
  /\ thread[u].pc = label /\ ~thread[u].blocking
  /\ \E c \in Cpus : cpu[c].cur = u /\ ~Busy(c)

MP == Cardinality(Cpus) > 1

(* u may enter the kernel.  An AST reaches a thread that is running on     *)
(* another processor late, and one that is about to run at once.           *)
MayCall(u) ==
  /\ Runs(u, "user")
  /\ MP \/ (thread[u].ast = {} /\ "SUSP" \notin thread[u].state)

(* A system call that waits, for the first time or again. *)
Wait(u, event, interruptible, nice) ==
  /\ (IF interruptible THEN "wait" ELSE "wait_uninterruptibly") \in Waits
  /\ u \in Waiters /\ (MayCall(u) \/ Runs(u, "kernel"))
  /\ Becomes(thread_block(assert_wait(Now, u, event, interruptible),
                          u, "kernel", nice))
  /\ UNCHANGED reaper_queue

SyscallReturn(u) ==
  /\ Runs(u, "kernel")
  /\ Becomes(Goto(Now, u, "user"))
  /\ UNCHANGED reaper_queue

(* What the threads wait for happens, at interrupt level. *)
Occurs(event) ==
  /\ panic = "none"
  /\ \E c \in Cpus : ~Busy(c) /\ cpu[c].status # "choosing"
  /\ \E t \in Threads : thread[t].wait_event = event
  /\ Becomes(thread_wakeup_prim(Now, event, "awakened"))
  /\ UNCHANGED reaper_queue

(* ast_taken: thread_should_halt ... *)
TakeAst(u) ==
  /\ Runs(u, "user") /\ thread[u].ast # {}
  /\ Becomes(Goto(Now, u, "halt_self"))
  /\ UNCHANGED reaper_queue

(* ... and thread_halt_self. *)
HaltSelf(u) ==
  /\ Runs(u, "halt_self") /\ "TERMINATE" \notin thread[u].ast
  /\ LET x == [thread[u] EXCEPT !.state = @ \cup {"HALTED"},
                                !.ast = @ \ {"HALT"}]
     IN Becomes(thread_block(SetThread(Now, u, x), u, "user", TRUE))
  /\ UNCHANGED reaper_queue

(* thread_halt_self of a thread that ends itself: it holds itself and      *)
(* queues for the reaper, and then shows that it has halted.               *)
ExitSelf(u) ==
  /\ Runs(u, "halt_self") /\ "TERMINATE" \in thread[u].ast
  /\ Becomes(Goto(thread_hold(Now, u), u, "exiting"))
  /\ reaper_queue' = reaper_queue \cup {u}

Exited(u) ==
  /\ Runs(u, "exiting")
  /\ LET s == SetThread(Now, u, [thread[u] EXCEPT !.state = @ \cup {"HALTED"}])
     IN Becomes(thread_block(thread_wakeup_prim(s, "reaper_queue", "awakened"),
                             u, "zombie", FALSE))
  /\ UNCHANGED reaper_queue

(* ast_taken: AST_BLOCK or csw_needed. *)
Preempt(u) ==
  /\ Runs(u, "user") /\ thread[u].ast = {}
  /\ "SUSP" \in thread[u].state \/ runq # {}
  /\ Becomes(thread_block(Now, u, "user", TRUE))
  /\ UNCHANGED reaper_queue

-----------------------------------------------------------------------------
(***************************************************************************)
(* Calls on another thread.                                                *)
(***************************************************************************)
Job(op, t) == [op |-> op, target |-> t, event |-> None]

Target(u) == thread[u].job.target

must_halt(u) == thread[u].job.op # "abort"

Begin(s, u, job) == SetThread(s, u, [s.thread[u] EXCEPT !.job = job])

Return(s, u) == Begin(Goto(s, u, "user"), u, NoJob)

(* A target still has a reference, and may be u itself. *)
MayName(op, u, t) == /\ <<op, u, t>> \in Calls /\ MayCall(u)
                     /\ ~thread[t].dead /\ t # Reaper

thread_suspend(u, t) ==
  /\ MayName("suspend", u, t) /\ thread[t].user_stop_count < MaxStops
  /\ LET s == SetThread(Now, t, [thread[t] EXCEPT !.user_stop_count = @ + 1])
     IN Becomes(IF thread[t].user_stop_count > 0 THEN s
                ELSE IF t = u THEN thread_hold(s, t)
                ELSE Goto(Begin(thread_hold(s, t), u, Job("suspend", t)),
                          u, "dowait"))
  /\ UNCHANGED reaper_queue

thread_resume(u, t) ==
  /\ MayName("resume", u, t) /\ thread[t].user_stop_count > 0
  /\ LET s == SetThread(Now, t, [thread[t] EXCEPT !.user_stop_count = @ - 1])
     IN Becomes(IF thread[t].user_stop_count = 1 THEN thread_release(s, t)
                ELSE s)
  /\ UNCHANGED reaper_queue

WakeActive(s, t) == SetThread(s, t, [s.thread[t] EXCEPT !.wake_active = TRUE])

(* The pass through the loop of thread_halt in which u either waits for    *)
(* another thread to halt t, or takes AST_HALT for itself.                 *)
HaltLoop(s, u, t) ==
  IF "HALT" \in s.thread[t].ast /\ "HALTED" \notin s.thread[t].state
  THEN thread_sleep(WakeActive(s, t), u, t, "halt_woke")
  ELSE Goto(SetThread(s, t, [s.thread[t] EXCEPT !.ast = @ \cup {"HALT"}]),
            u, "dowait")

(* As Halt, but an already halted thread is not held once more. *)
MutHaltNoHold(s, u, t) ==
  IF "HALTED" \in s.thread[t].state THEN Goto(s, u, "held")
  ELSE IF s.thread[u].job.op = "abort" /\ "HALT" \in s.thread[u].ast
  THEN Return(thread_wakeup_prim(s, u, "interrupted"), u)
  ELSE HaltLoop(thread_hold(s, t), u, t)

(* As Halt, but whoever halts the caller is not interrupted. *)
MutHaltCycle(s, u, t) ==
  IF "HALTED" \in s.thread[t].state
  THEN Goto(SetThread(s, t, [s.thread[t] EXCEPT !.suspend_count = @ + 1]),
            u, "held")
  ELSE HaltLoop(thread_hold(s, t), u, t)

(* thread_halt, up to the first wait. *)
Halt(s, u, t) ==
  IF "HALTED" \in s.thread[t].state
  THEN Goto(SetThread(s, t, [s.thread[t] EXCEPT !.suspend_count = @ + 1]),
            u, "held")
  ELSE IF s.thread[u].job.op = "abort" /\ "HALT" \in s.thread[u].ast
  THEN Return(thread_wakeup_prim(s, u, "interrupted"), u)
  ELSE HaltLoop(thread_hold(s, t), u, t)

thread_abort(u, t) ==
  /\ MayName("abort", u, t) /\ u # t
  /\ Becomes(Halt(Begin(Now, u, Job("abort", t)), u, t))
  /\ UNCHANGED reaper_queue

thread_terminate(u, t) ==
  /\ MayName("terminate", u, t) /\ thread[t].active
  /\ u # t => thread[u].active
  /\ LET x == [thread[t] EXCEPT !.active = FALSE]
     IN Becomes(IF u = t
                THEN SetThread(Now, t, [x EXCEPT !.ast = @ \cup {"TERMINATE"}])
                ELSE Halt(Begin(SetThread(Now, t, x), u, Job("terminate", t)),
                          u, t))
  /\ UNCHANGED reaper_queue

(* thread_halt, after its wait for another halter: it looks at the thread  *)
(* without the lock ... *)
HaltWoke(u) ==
  /\ Runs(u, "halt_woke")
  /\ Becomes(IF "HALTED" \in thread[Target(u)].state
             THEN Goto(Now, u, "held")
             ELSE IF thread[u].wait_result # "awakened" /\ ~must_halt(u)
             THEN Goto(Now, u, "release")
             ELSE Goto(Now, u, "halt_again"))
  /\ UNCHANGED reaper_queue

(* ... and then takes the lock and looks again. *)
HaltAgain(u) ==
  /\ Runs(u, "halt_again")
  /\ Becomes(HaltLoop(Now, u, Target(u)))
  /\ UNCHANGED reaper_queue

AfterDowait(u) == CASE thread[u].job.op = "suspend" -> "user"
                    [] thread[u].job.op = "reap" -> "reaped"
                    [] OTHER -> "clear"

Waited(s, u) == IF thread[u].job.op = "suspend" THEN Return(s, u)
                ELSE Goto(s, u, AfterDowait(u))

ToWaitFor == {{"RUN", "SUSP"}, {"RUN", "SUSP", "UNINT"},
              {"RUN", "WAIT", "SUSP"}, {"RUN", "WAIT", "SUSP", "UNINT"},
              {"WAIT", "SUSP", "UNINT"}}

(* One pass through the loop of thread_dowait. *)
DowaitLoop(u, c) ==
  LET t == Target(u)
      f == thread[t].state \ {"HALTED"}
  IN IF f = {"RUN", "SUSP"} /\ t \in runq
     THEN LET x == [thread[t] EXCEPT !.state = @ \ {"RUN"}]
              s == [SetThread(Now, t, x) EXCEPT !.runq = @ \ {t}]
          IN Waited(WakeLater(s, c, t), u)
     ELSE IF f \in ToWaitFor
     THEN thread_sleep(WakeActive(Now, t), u, t, "dowait_woke")
     ELSE Waited(Now, u)

thread_dowait(u) ==
  /\ Runs(u, "dowait")
  /\ \E c \in Cpus : cpu[c].cur = u /\ Becomes(DowaitLoop(u, c))
  /\ UNCHANGED reaper_queue

DowaitWoke(u) ==
  /\ Runs(u, "dowait_woke")
  /\ IF thread[u].wait_result # "awakened" /\ ~must_halt(u)
     THEN Becomes(Goto(Now, u, "failed"))
     ELSE \E c \in Cpus : cpu[c].cur = u /\ Becomes(DowaitLoop(u, c))
  /\ UNCHANGED reaper_queue

(* thread_halt: thread_dowait has failed, and so does thread_halt. *)
HaltFailed(u) ==
  /\ Runs(u, "failed")
  /\ LET t == Target(u)
         s == SetThread(Now, t, [thread[t] EXCEPT !.ast = @ \ {"HALT"}])
     IN Becomes(Goto(thread_wakeup_prim(s, t, "interrupted"), u, "release"))
  /\ UNCHANGED reaper_queue

Release(u) ==
  /\ Runs(u, "release")
  /\ Becomes(Return(thread_release(Now, Target(u)), u))
  /\ UNCHANGED reaper_queue

(* clear_wait(thread, THREAD_INTERRUPTED, TRUE): reads the event under the *)
(* thread lock, drops it to take that of the wait queue ... *)
ClearWait(u) ==
  /\ Runs(u, "clear")
  /\ LET t == Target(u)
     IN Becomes(IF "UNINT" \in thread[t].state THEN Goto(Now, u, "stopped")
                ELSE IF thread[t].wait_event = None
                THEN Goto(clear_wait(Now, t, None, "interrupted"),
                          u, "stopped")
                ELSE Goto(Begin(Now, u, [thread[u].job EXCEPT
                                           !.event = thread[t].wait_event]),
                          u, "cleared"))
  /\ UNCHANGED reaper_queue

(* ... and then looks whether the thread still waits for it. *)
ClearWaitLocked(u) ==
  /\ Runs(u, "cleared")
  /\ LET s == clear_wait(Now, Target(u), thread[u].job.event, "interrupted")
     IN Becomes(Goto(Begin(s, u, [thread[u].job EXCEPT !.event = None]),
                     u, "stopped"))
  /\ UNCHANGED reaper_queue

(* As AtCleanPoint, without a look at where the thread is. *)
MutForceAlways(u) ==
  /\ Runs(u, "stopped")
  /\ LET t == Target(u)
         forced == SetThread(Now, t, [thread[t] EXCEPT
                     !.state = @ \cup {"RUN", "UNINT"}])
     IN Becomes(Goto(thread_setrun(forced, t), u, "dowait"))
  /\ UNCHANGED reaper_queue

(* As AtCleanPoint, but the thread is not made to run. *)
MutAtCleanPoint(u) ==
  /\ Runs(u, "stopped")
  /\ LET t == Target(u)
         halted == SetThread(Now, t, [thread[t] EXCEPT
                     !.state = @ \cup {"HALTED"}, !.ast = @ \ {"HALT"},
                     !.pc = "user"])
     IN Becomes(IF "HALTED" \in thread[t].state THEN Goto(Now, u, "held")
                ELSE IF thread[t].clean THEN Goto(halted, u, "held")
                ELSE Goto(Now, u, "dowait"))
  /\ UNCHANGED reaper_queue

(* thread_halt, the rest of the loop: t is at a clean point, or can be put *)
(* at one, or is made to run to one in spite of its suspension.            *)
AtCleanPoint(u) ==
  /\ Runs(u, "stopped")
  /\ LET t == Target(u)
         halted == SetThread(Now, t, [thread[t] EXCEPT
                     !.state = @ \cup {"HALTED"}, !.ast = @ \ {"HALT"},
                     !.pc = "user"])
         forced == SetThread(Now, t, [thread[t] EXCEPT
                     !.state = @ \cup {"RUN", "UNINT"}])
     IN Becomes(
          IF "HALTED" \in thread[t].state THEN Goto(Now, u, "held")
          ELSE IF thread[t].clean THEN Goto(halted, u, "held")
          ELSE IF thread[t].state # {"SUSP"}
          THEN [Now EXCEPT !.panic = "halt"]
          ELSE Goto(thread_setrun(forced, t), u, "dowait"))
  /\ UNCHANGED reaper_queue

(* thread_abort lets the thread go on. *)
AbortDone(u) ==
  /\ Runs(u, "held") /\ thread[u].job.op = "abort"
  /\ Becomes(Return(thread_release(Now, Target(u)), u))
  /\ UNCHANGED reaper_queue

Stopped(f) == f \ {"RUN", "HALTED"} = {"SUSP"}

(* thread_deallocate drops t's reference to itself; the callers that name  *)
(* t hold references too.                                                  *)
thread_deallocate(s, u, t) ==
  [SetThread(s, t, [s.thread[t] EXCEPT !.dead = TRUE])
     EXCEPT !.panic = IF /\ \A v \in Threads \ {u} :
                              s.thread[v].job.target # t
                         /\ ~Stopped(s.thread[t].state)
                      THEN "destroyed" ELSE @]

TerminateDone(u) ==
  /\ Runs(u, "held") /\ thread[u].job.op = "terminate"
  /\ Becomes(Return(thread_deallocate(Now, u, Target(u)), u))
  /\ UNCHANGED reaper_queue

reaper_thread_continue(u) ==
  /\ Runs(u, "reaper")
  /\ IF reaper_queue = {}
     THEN /\ Becomes(thread_block(assert_wait(Now, u, "reaper_queue", FALSE),
                                  u, "reaper", FALSE))
          /\ UNCHANGED reaper_queue
     ELSE \E t \in reaper_queue :
            /\ Becomes(Goto(Begin(Now, u, Job("reap", t)), u, "dowait"))
            /\ reaper_queue' = reaper_queue \ {t}

Reaped(u) ==
  /\ Runs(u, "reaped")
  /\ LET s == thread_deallocate(Now, u, Target(u))
     IN Becomes(Begin(Goto(s, u, "reaper"), u, NoJob))
  /\ UNCHANGED reaper_queue

-----------------------------------------------------------------------------
CpuStep(c) ==
  \/ \E t \in Threads : Switch(c, t)
  \/ Stay(c) \/ Choose(c) \/ GoIdle(c) \/ IdleDispatched(c)
  \/ IdleNotices(c) \/ thread_dispatch(c) \/ FinishWake(c)

(* What a thread in the kernel does without being asked. *)
KernelStep(u) ==
  \/ SyscallReturn(u) \/ TakeAst(u) \/ HaltSelf(u) \/ ExitSelf(u)
  \/ Exited(u)
  \/ Preempt(u) \/ HaltWoke(u) \/ HaltAgain(u) \/ thread_dowait(u)
  \/ DowaitWoke(u) \/ HaltFailed(u) \/ Release(u) \/ ClearWait(u)
  \/ ClearWaitLocked(u) \/ AtCleanPoint(u) \/ AbortDone(u)
  \/ TerminateDone(u) \/ reaper_thread_continue(u) \/ Reaped(u)

Call(u) ==
  \/ \E e \in Events, i, n \in BOOLEAN : Wait(u, e, i, n)
  \/ \E t \in Threads : \/ thread_suspend(u, t) \/ thread_resume(u, t)
                        \/ thread_abort(u, t) \/ thread_terminate(u, t)

Next ==
  \/ \E c \in Cpus : CpuStep(c)
  \/ \E u \in Threads : KernelStep(u) \/ Call(u)
  \/ \E e \in Events : Occurs(e)

Spec == Init /\ [][Next]_vars

(***************************************************************************)
(* Processors make progress.  A thread that is in the kernel again and     *)
(* again does not only wait there, the clock interrupts one in user mode   *)
(* (SF of KernelStep: SyscallReturn, Preempt and TakeAst), the ageing of   *)
(* priorities lets every runnable thread run (SF of Switch), and what is   *)
(* waited for happens.                                                     *)
(***************************************************************************)
Fairness ==
  /\ \A c \in Cpus : WF_vars(CpuStep(c))
  /\ \A t \in Threads : /\ SF_vars(KernelStep(t))
                        /\ SF_vars(\E c \in Cpus : Switch(c, t))
  /\ \A e \in Events : SF_vars(Occurs(e))

FairSpec == Spec /\ Fairness

-----------------------------------------------------------------------------
Occupies(t) == (IF t \in runq THEN {<<"runq", None>>} ELSE {})
               \cup {p \in {"cur", "old", "next"} \X Cpus :
                       cpu[p[2]][p[1]] = t}

(* A thread is TH_RUN exactly while it is in one of the places a runnable  *)
(* thread can be: the run queue, current on a processor, switched from but *)
(* not yet dispatched, or promised to an idle processor.  So it is never   *)
(* lost and never run by two processors.                                   *)
RunnableInOnePlace ==
  panic = "none" => \A t \in Threads :
    Cardinality(Occupies(t)) = IF "RUN" \in thread[t].state THEN 1 ELSE 0

(* Who has a hold on t: its users (once), each thread_halt of it, and its  *)
(* own exit or the thread_halt that ended it.                              *)
Holders(t) ==
  {u \in Threads : thread[u].job.target = t /\ thread[u].job.op \in
                                               {"abort", "terminate"}}
  \cup (IF thread[t].user_stop_count > 0 THEN {"user"} ELSE {})
  \cup (IF thread[t].dead \/ thread[t].pc \in {"exiting", "zombie"}
        THEN {"end"} ELSE {})

(* suspend_count is the number of those who hold the thread, and TH_SUSP   *)
(* tells whether it is positive, through every failure and shortcut of     *)
(* thread_halt: no hold is lost, and none is left behind.                  *)
HoldsCounted ==
  panic = "none" => \A t \in Threads :
    /\ thread[t].suspend_count = Cardinality(Holders(t))
    /\ "SUSP" \in thread[t].state <=> thread[t].suspend_count > 0

(* Whoever sleeps until t stops will be told: t->wake_active is set, or a  *)
(* processor is about to call thread_wakeup(&t->wake_active).              *)
SleeperIsKnown ==
  panic = "none" => \A u, t \in Threads :
    thread[u].wait_event = t =>
      thread[t].wake_active \/ \E c \in Cpus : cpu[c].wake = t

(* A halted thread gets back to a run queue or a processor only when the   *)
(* last hold on it is released, and a dead one never.                      *)
HaltedStaysPut ==
  [][\A t \in Threads :
       "HALTED" \in thread[t].state /\ Occupies(t) = {} /\ Occupies(t)' # {}
         => thread[t].suspend_count' = 0 /\ ~thread[t].dead]_vars

(* A thread that waits in thread_halt because "someone else is halting it" *)
(* is woken once that is complete: while it sleeps, AST_HALT is still set, *)
(* or the thread still runs and will wake it, or the wakeup is under way.  *)
HalterIsTold ==
  \A u \in Threads : LET t == thread[u].job.target IN
    thread[u].pc = "halt_woke" /\ thread[u].wait_event = t =>
      \/ "HALT" \in thread[t].ast
      \/ Occupies(t) # {}
      \/ \E c \in Cpus : cpu[c].wake = t

(* u is suspended by a user or has ended, or the thread that halts it is.  *)
Stays(u) ==
  \E h \in {u} \cup (Holders(u) \cap Threads) :
    Holders(h) \cap {"user", "end"} # {}

(* Every thread_suspend, thread_abort and thread_terminate returns, unless *)
(* its caller is suspended by a user or ended, or halted by a thread that  *)
(* is: no wait in thread_dowait or thread_halt is for ever.  It takes that *)
(* no two threads call on the same thread at a time (see HalterIsTold).    *)
CallsReturn == \A u \in Threads : []<>(thread[u].job = NoJob \/ Stays(u))

(* Of two threads that abort each other one gets on: it can run, or is     *)
(* about to be woken by the stop of the other.  thread_halt finds AST_HALT *)
(* on its caller and gives way.  It does not look if it must succeed, so   *)
(* that two threads may be lost if one terminates the other.               *)
NoHaltCycle ==
  panic = "none" => \A u, t \in Threads :
    u \in Holders(t) /\ t \in Holders(u) =>
      \/ "RUN" \in thread[u].state \cup thread[t].state
      \/ \E c \in Cpus : cpu[c].wake \in {u, t}

(* With any number of processors, thread_setrun never gets a thread that   *)
(* is on a run queue, thread_wakeup_prim never finds a thread on the queue *)
(* of an event without TH_WAIT, and assert_wait is never called by a       *)
(* thread that already waits.                                              *)
AssertionsHold == panic \notin {"setrun", "wakeup", "assert"}

(* No panic or failed assertion of the routines modelled is reached. *)
NoPanic == panic = "none"
=============================================================================
