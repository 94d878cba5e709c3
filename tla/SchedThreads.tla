---------------------------- MODULE SchedThreads ----------------------------
(***************************************************************************)
(* The steps of threads keep the invariant: each action of KernelStep and  *)
(* Call, and the events.  Such a step starts in a calm state, with a       *)
(* thread that executes (RunsRunning), and each lemma follows the routine  *)
(* call by call.                                                           *)
(***************************************************************************)
EXTENDS SchedLemmas

-----------------------------------------------------------------------------
(***************************************************************************)
(* The inductive invariant: three of the panics never happen, and before   *)
(* any other one the state is calm.  After a panic nothing happens.        *)
(***************************************************************************)
Sound(s) == /\ s \in States
            /\ s.panic \notin {"setrun", "wakeup", "assert"}
            /\ s.panic = "none" => Calm(s)

IInv == Sound(Now) /\ reaper_queue \in SUBSET Threads

(* As long as nothing panics, Calm is all there is to show. *)
LEMMA CalmSound == ASSUME NEW s, Calm(s) PROVE Sound(s)
  BY CalmTyped DEF Sound

(* The variables are the fields of Now. *)
LEMMA NowFields ==
  ASSUME NEW s, s = Now
  PROVE  /\ s.thread = thread /\ s.runq = runq /\ s.cpu = cpu
         /\ s.panic = panic
  BY DEF Now

(* A step to the state r, which is sound. *)
LEMMA BecomesSound ==
  ASSUME NEW r, Sound(r), Becomes(r) PROVE Sound(Now)'
<1>1. r = [thread |-> r.thread, runq |-> r.runq, cpu |-> r.cpu,
           panic |-> r.panic]
  BY DEF Sound, States
<1>2. Now' = r
  BY <1>1, Zenon DEF Becomes, Now
<1> QED BY <1>2 DEF Sound

(* What an action may rely on when its thread runs at a label. *)
LEMMA RunsRunning ==
  ASSUME NEW s, s = Now, Calm(s), NEW u \in Threads, NEW label, Runs(u, label)
  PROVE  /\ Running(s, u) /\ s.thread[u].pc = label
         /\ label \in OnTarget => s.thread[u].job.target \in Threads
<1>1. Running(s, u) /\ s.thread[u].pc = label
  BY NowFields DEF Runs, Running
<1> QED BY <1>1, CalmTyped DEF Local

(* A change of a thread that leaves it where it is. *)
LEMMA MildKeeps ==
  ASSUME NEW s, Calm(s), NEW t \in Threads, NEW x, Mild(s.thread[t], x),
         x.job = s.thread[t].job, x.pc = s.thread[t].pc,
         x.blocking = s.thread[t].blocking, NEW r, r = SetThread(s, t, x)
  PROVE  Calm(r) /\ Keeps(s, r)
<1>1. /\ Calm(r) /\ r.thread[t] = x
      /\ \A v \in Threads : v # t => r.thread[v] = s.thread[v]
      /\ r.cpu = s.cpu
  BY MildStep
<1> QED BY <1>1 DEF Keeps

(* The step to user mode. *)
LEMMA DoSyscallReturn ==
  ASSUME Calm(Now), NEW u \in Threads, SyscallReturn(u) PROVE Sound(Now)'
<1>1. PICK r : r = Goto(Now, u, "user")
  BY Zenon
<1>2. "user" \in PC /\ "user" \notin OnTarget
  BY DEF PC, OnTarget
<1>3. Calm(r)
  BY <1>1, <1>2, GotoCalm, Zenon
<1> QED BY <1>1, <1>3, CalmSound, BecomesSound, SMTT(30) DEF SyscallReturn

(* ast_taken finds AST_HALT or AST_TERMINATE. *)
LEMMA DoTakeAst ==
  ASSUME Calm(Now), NEW u \in Threads, TakeAst(u) PROVE Sound(Now)'
<1>1. PICK r : r = Goto(Now, u, "halt_self")
  BY Zenon
<1>2. "halt_self" \in PC /\ "halt_self" \notin OnTarget
  BY DEF PC, OnTarget
<1>3. Calm(r)
  BY <1>1, <1>2, GotoCalm, Zenon
<1> QED BY <1>1, <1>3, CalmSound, BecomesSound DEF TakeAst

(* ast_taken calls thread_block. *)
LEMMA DoPreempt ==
  ASSUME Calm(Now), NEW u \in Threads, Preempt(u) PROVE Sound(Now)'
<1>1. PICK r : r = thread_block(Now, u, "user", TRUE)
  BY Zenon
<1>2. "user" \in PC \ OnTarget
  BY DEF PC, OnTarget
<1>3. PICK n \in BOOLEAN : r = thread_block(Now, u, "user", n)
  BY <1>1, Zenon
<1>4. Calm(r)
  BY <1>2, <1>3, BlockCalm, Zenon
<1> QED BY <1>1, <1>4, CalmSound, BecomesSound, ZenonT(30) DEF Preempt

(* thread_halt_self of a thread that is halted. *)
LEMMA DoHaltSelf ==
  ASSUME Calm(Now), NEW u \in Threads, HaltSelf(u) PROVE Sound(Now)'
<1>1. PICK s : s = Now
  BY Zenon
<1>2. PICK y : y = s.thread[u]
  BY Zenon
<1>3. y \in ThreadType /\ Local(y)
  BY <1>1, <1>2, CalmTyped
<1>4. PICK x : x = [y EXCEPT !.state = @ \cup {"HALTED"}, !.ast = @ \ {"HALT"}]
  BY Zenon
<1>5. /\ y.state \cup {"HALTED"} \in SUBSET Flags
      /\ y.ast \ {"HALT"} \in SUBSET {"HALT", "TERMINATE"}
  BY <1>3 DEF ThreadType, Flags
<1>6. x \in ThreadType
  BY <1>3, <1>4, <1>5, Zenon DEF ThreadType
<1>7. Mild(y, x)
  BY <1>3, <1>4, <1>6 DEF Mild, Local, ThreadType
<1>8. PICK q : q = SetThread(s, u, x)
  BY Zenon
<1>9. Calm(q)
  BY <1>1, <1>2, <1>7, <1>8, MildStep, SMTT(30)
<1>10. PICK r : r = thread_block(q, u, "user", TRUE)
  BY Zenon
<1>11. "user" \in PC \ OnTarget
  BY DEF PC, OnTarget
<1>12. PICK n \in BOOLEAN : r = thread_block(q, u, "user", n)
  BY <1>10, ZenonT(30)
<1>13. Calm(r)
  BY <1>9, <1>11, <1>12, BlockCalm, ZenonT(30)
<1>14. thread[u] = y
  BY <1>1, <1>2, NowFields
<1>15. Becomes(r)
  BY <1>1, <1>4, <1>8, <1>10, <1>14, ZenonT(30) DEF HaltSelf
<1> QED BY <1>13, <1>15, CalmSound, BecomesSound

(* thread_halt_self of a thread that ends: it holds itself and queues ... *)
LEMMA DoExitSelf ==
  ASSUME Calm(Now), NEW u \in Threads, ExitSelf(u) PROVE Sound(Now)'
<1>1. PICK q : q = thread_hold(Now, u)
  BY Zenon
<1>2. PICK r : r = Goto(q, u, "exiting")
  BY Zenon
<1>3. Calm(q)
  BY <1>1, HoldCalm
<1>4. "exiting" \in PC /\ "exiting" \notin OnTarget
  BY DEF PC, OnTarget
<1>5. Calm(r)
  BY <1>2, <1>3, <1>4, GotoCalm, ZenonT(30)
<1> QED BY <1>1, <1>2, <1>5, CalmSound, BecomesSound, SMTT(30) DEF ExitSelf

(* ... and shows that it has halted, wakes the reaper and blocks for ever. *)
LEMMA DoExited ==
  ASSUME Calm(Now), NEW u \in Threads, Exited(u) PROVE Sound(Now)'
<1>1. PICK s : s = Now
  BY Zenon
<1>2. PICK y : y = s.thread[u]
  BY Zenon
<1>3. y \in ThreadType /\ Local(y)
  BY <1>1, <1>2, CalmTyped
<1>4. PICK x : x = [y EXCEPT !.state = @ \cup {"HALTED"}]
  BY Zenon
<1>5. y.state \cup {"HALTED"} \in SUBSET Flags
  BY <1>3 DEF ThreadType, Flags
<1>6. x \in ThreadType
  BY <1>3, <1>4, <1>5, ZenonT(30) DEF ThreadType
<1>7. Mild(y, x)
  BY <1>3, <1>4, <1>6, SMTT(30) DEF Mild, Local, ThreadType
<1>8. PICK q : q = SetThread(s, u, x)
  BY Zenon
<1>9. Calm(q)
  BY <1>1, <1>2, <1>7, <1>8, MildStep
<1>10. PICK p : p = thread_wakeup_prim(q, "reaper_queue", "awakened")
  BY Zenon
<1>11. Calm(p)
  BY <1>9, <1>10, NoneApart, WakeupCalm, SMTT(30)
<1>12. PICK r : r = thread_block(p, u, "zombie", FALSE)
  BY Zenon
<1>13. "zombie" \in PC \ OnTarget
  BY DEF PC, OnTarget
<1>14. PICK n \in BOOLEAN : r = thread_block(p, u, "zombie", n)
  BY <1>12, ZenonT(30)
<1>15. Calm(r)
  BY <1>11, <1>13, <1>14, BlockCalm, ZenonT(30)
<1>16. thread[u] = y
  BY <1>1, <1>2, NowFields
<1>17. Becomes(r)
  BY <1>1, <1>4, <1>8, <1>10, <1>12, <1>16, ZenonT(30) DEF Exited
<1> QED BY <1>15, <1>17, CalmSound, BecomesSound

(* thread_halt after the wait for another halter ... *)
LEMMA DoHaltWoke ==
  ASSUME Calm(Now), NEW u \in Threads, HaltWoke(u) PROVE Sound(Now)'
<1>1. PICK label \in {"held", "release", "halt_again"} :
        Becomes(Goto(Now, u, label))
  BY Zenon DEF HaltWoke
<1>2. PICK r : r = Goto(Now, u, label)
  BY Zenon
<1>3. label \in PC
  BY DEF PC
<1>4. Now.thread[u].job.target \in Threads
  BY RunsRunning DEF HaltWoke, OnTarget
<1>5. Calm(r)
  BY <1>2, <1>3, <1>4, GotoCalm, ZenonT(30)
<1> QED BY <1>1, <1>2, <1>5, CalmSound, BecomesSound, SMTT(30)

(* ... and its next pass, with the lock. *)
LEMMA DoHaltAgain ==
  ASSUME Calm(Now), NEW u \in Threads, HaltAgain(u) PROVE Sound(Now)'
<1>1. PICK s : s = Now
  BY Zenon
<1>2. PICK t : t = Target(u)
  BY Zenon
<1>3. Running(s, u) /\ s.thread[u].job.target \in Threads
  BY <1>1, RunsRunning DEF HaltAgain, OnTarget
<1>4. t = s.thread[u].job.target
  BY <1>1, <1>2, NowFields, SMTT(30) DEF Target
<1>5. PICK r : r = HaltLoop(s, u, t)
  BY Zenon
<1>6. Calm(r)
  BY <1>1, <1>3, <1>4, <1>5, HaltLoopCalm, SMTT(30)
<1>7. Becomes(r)
  BY <1>1, <1>2, <1>5, SMTT(30) DEF HaltAgain
<1> QED BY <1>6, <1>7, CalmSound, BecomesSound, SMTT(30)

(* u is where it was. *)
SameAt(s, q, u) ==
  /\ u \in q.runq <=> u \in s.runq
  /\ \A c \in Cpus : /\ q.cpu[c].cur = u <=> s.cpu[c].cur = u
                     /\ q.cpu[c].old = u <=> s.cpu[c].old = u
                     /\ q.cpu[c].next = u <=> s.cpu[c].next = u

(* Whoever stays where it is stays in one place. *)
LEMMA PlacedKeep ==
  ASSUME NEW s, NEW q, NEW u \in Threads, Placed(s, u), SameAt(s, q, u),
         "RUN" \in q.thread[u].state <=> "RUN" \in s.thread[u].state
  PROVE  Placed(q, u)
<1>1. \A c \in Cpus : In(q, u, c) <=> In(s, u, c)
  BY DEF SameAt, In
<1>2. Nowhere(q, u) <=> Nowhere(s, u)
  BY <1>1 DEF SameAt, Nowhere
<1>3. u \in q.runq <=> u \in s.runq
  BY SMTT(30) DEF SameAt
<1>4. \A c \in Cpus : /\ ~(q.cpu[c].cur = u /\ q.cpu[c].old = u)
                      /\ ~(q.cpu[c].cur = u /\ q.cpu[c].next = u)
                      /\ ~(q.cpu[c].old = u /\ q.cpu[c].next = u)
  BY DEF SameAt, Placed
<1> QED BY <1>1, <1>2, <1>3, <1>4, SMTT(30) DEF Placed

(* A thread stops: it is nowhere any more, and not TH_RUN. *)
LEMMA StopCore ==
  ASSUME NEW s, Core(s), NEW t \in Threads, NEW q \in States,
         q.panic = "none", Promised(q), WakeLast(q), Nowhere(q, t),
         "RUN" \notin q.thread[t].state, Local(q.thread[t]),
         \A u \in Threads : u # t => /\ q.thread[u] = s.thread[u]
                                     /\ SameAt(s, q, u)
  PROVE  Core(q)
<1>1. Placed(q, t)
  <2>1. \A c \in Cpus : ~In(q, t, c)
    BY DEF Nowhere
  <2>2. \A c \in Cpus : q.cpu[c].cur # t /\ q.cpu[c].old # t
    BY <2>1 DEF In
  <2> QED BY <2>1, <2>2, SMTT(30) DEF Placed
<1>2. ASSUME NEW u \in Threads, u # t
      PROVE  Placed(q, u) /\ Local(q.thread[u])
  <2>1. Placed(s, u) /\ Local(s.thread[u])
    BY DEF Core
  <2>2. SameAt(s, q, u) /\ q.thread[u] = s.thread[u]
    BY <1>2
  <2>3. Placed(q, u)
    BY <2>1, <2>2, PlacedKeep, SMTT(30)
  <2> QED BY <2>1, <2>2, <2>3, SMTT(30)
<1>3. Awake(q)
  <2>1. SUFFICES ASSUME NEW u \in Threads, "WAIT" \in q.thread[u].state
                 PROVE  /\ u \notin q.runq
                        /\ \A c \in Cpus :
                             /\ q.cpu[c].next # u
                             /\ q.cpu[c].cur = u => q.thread[u].blocking
    BY DEF Awake
  <2>2. CASE u = t
    BY <2>2, SMTT(30) DEF Nowhere, In
  <2>3. CASE u # t
    <3>1. q.thread[u] = s.thread[u] /\ SameAt(s, q, u) /\ Awake(s)
      BY <2>3, SMTT(30) DEF Core
    <3> QED BY <2>1, <3>1 DEF Awake, SameAt
  <2> QED BY <2>2, <2>3
<1> QED BY <1>1, <1>2, <1>3, SMTT(30) DEF Core

(* A change of a processor that moves no thread. *)
LEMMA CpuKeep ==
  ASSUME NEW s, Core(s), NEW c \in Cpus, NEW m \in CpuType,
         m.cur = s.cpu[c].cur, m.old = s.cpu[c].old, m.next = s.cpu[c].next,
         m.status = "dispatching" <=> s.cpu[c].status = "dispatching",
         m.old # None => m.wake = None, NEW r, r = SetCpu(s, c, m)
  PROVE  /\ Core(r) /\ r.thread = s.thread /\ r.runq = s.runq
         /\ r.cpu[c] = m /\ \A d \in Cpus : d # c => r.cpu[d] = s.cpu[d]
<1>1. s \in States /\ s.panic = "none"
  BY DEF Core
<1>2. /\ r \in States /\ r.cpu[c] = m
      /\ \A d \in Cpus : d # c => r.cpu[d] = s.cpu[d]
      /\ r.runq = s.runq /\ r.thread = s.thread /\ r.panic = s.panic
  BY <1>1, CpuUpdate, SMTT(30)
<1>3. \A d \in Cpus :
        /\ r.cpu[d].cur = s.cpu[d].cur /\ r.cpu[d].old = s.cpu[d].old
        /\ r.cpu[d].next = s.cpu[d].next
        /\ r.cpu[d].status = "dispatching" <=> s.cpu[d].status = "dispatching"
  BY <1>2, SMTT(30)
<1>4. Promised(r)
  BY <1>3, SMTT(30) DEF Core, Promised
<1>5. WakeLast(r)
  BY <1>2, SMTT(30) DEF Core, WakeLast
<1>6. Awake(r)
  BY <1>2, <1>3, SMTT(30) DEF Core, Awake
<1>7. \A u \in Threads : Placed(r, u) /\ Local(r.thread[u])
  <2>1. TAKE u \in Threads
  <2>2. Placed(s, u) /\ Local(s.thread[u])
    BY SMTT(30) DEF Core
  <2>3. SameAt(s, r, u)
    BY <1>2, <1>3, SMTT(30) DEF SameAt
  <2> QED BY <1>2, <2>2, <2>3, PlacedKeep, SMTT(30)
<1> QED BY <1>1, <1>2, <1>4, <1>5, <1>6, <1>7, SMTT(30) DEF Core

(***************************************************************************)
(* Clearing wake_active and remembering to wake: from now on the processor *)
(* c knows the sleepers that t knew.                                       *)
(***************************************************************************)
LEMMA WakeLaterCalm ==
  ASSUME NEW s, Calm(s), NEW c \in Cpus, s.cpu[c].old = None,
         s.cpu[c].wake = None, NEW t \in Threads, NEW r, r = WakeLater(s, c, t)
  PROVE  Calm(r) /\ Keeps(s, r)
<1>1. PICK y : y = s.thread[t]
  BY Zenon
<1>2. y \in ThreadType /\ Local(y) /\ s \in States /\ s.panic = "none"
  BY <1>1, CalmTyped
<1>3. PICK x : x = [y EXCEPT !.wake_active = FALSE]
  BY Zenon
<1>4. x \in ThreadType
  BY <1>2, <1>3, ZenonT(30) DEF ThreadType
<1>5. /\ x.state = y.state /\ x.wait_event = y.wait_event /\ x.pc = y.pc
      /\ x.job = y.job /\ x.blocking = y.blocking
  BY <1>2, <1>3, SMTT(30) DEF ThreadType
<1>6. Local(x)
  BY <1>2, <1>5, SMTT(30) DEF Local
<1>7. PICK p : p = SetThread(s, t, x)
  BY Zenon
<1>8. /\ Core(p) /\ p.thread[t] = x
      /\ \A v \in Threads : v # t => p.thread[v] = s.thread[v]
      /\ p.runq = s.runq /\ p.cpu = s.cpu
  BY <1>1, <1>4, <1>5, <1>6, <1>7, ThreadStep, SMTT(30) DEF Calm
<1>9. PICK k : k = s.cpu[c]
  BY Zenon
<1>10. k \in CpuType
  BY <1>9, CalmTyped, SMTT(30)
<1>11. PICK w : w = IF y.wake_active THEN t ELSE None
  BY Zenon
<1>12. w \in Threads \cup {None}
  BY <1>11
<1>13. PICK m : m = [k EXCEPT !.wake = w]
  BY Zenon
<1>14. m \in CpuType
  BY <1>10, <1>12, <1>13, ZenonT(30) DEF CpuType
<1>15. /\ m.cur = k.cur /\ m.old = k.old /\ m.next = k.next
       /\ m.status = k.status /\ m.wake = w
  BY <1>10, <1>12, <1>13, SMTT(30) DEF CpuType
<1>16. r = SetCpu(p, c, m)
  BY <1>1, <1>3, <1>7, <1>9, <1>11, <1>13, ZenonT(30) DEF WakeLater
<1>17. /\ m.cur = p.cpu[c].cur /\ m.old = p.cpu[c].old /\ m.next = p.cpu[c].next
       /\ m.status = p.cpu[c].status /\ m.old = None
  BY <1>8, <1>9, <1>15, SMTT(30)
<1>18. /\ Core(r) /\ r.thread = p.thread /\ r.runq = p.runq
       /\ r.cpu[c] = m /\ \A d \in Cpus : d # c => r.cpu[d] = p.cpu[d]
  BY <1>8, <1>14, <1>16, <1>17, CpuKeep, SMTT(30)
<1>19. Sleepers(r)
  <2>1. SUFFICES ASSUME NEW u \in Threads, NEW v \in Threads,
                        r.thread[u].wait_event = v
                 PROVE  \/ r.thread[v].wake_active
                        \/ \E d \in Cpus : r.cpu[d].wake = v
    BY SMTT(30) DEF Sleepers
  <2>2. s.thread[u].wait_event = v
    BY <1>1, <1>5, <1>8, <1>18, <2>1, SMTT(30)
  <2>3. s.thread[v].wake_active \/ \E d \in Cpus : s.cpu[d].wake = v
    BY <2>2, SMTT(30) DEF Calm, Sleepers
  <2>4. CASE \E d \in Cpus : s.cpu[d].wake = v
    <3>1. PICK d \in Cpus : s.cpu[d].wake = v
      BY <2>4
    <3>2. d # c
      BY <3>1, NoneApart, SMTT(30)
    <3> QED BY <3>1, <3>2, <1>8, <1>18, SMTT(30)
  <2>5. CASE s.thread[v].wake_active /\ v # t
    BY <2>5, <1>8, <1>18, SMTT(30)
  <2>6. CASE s.thread[v].wake_active /\ v = t
    <3>1. w = v
      BY <2>6, <1>1, <1>11, SMTT(30)
    <3> QED BY <3>1, <1>15, <1>18, SMTT(30)
  <2> QED BY <2>3, <2>4, <2>5, <2>6, SMTT(30)
<1>20. Keeps(s, r)
  BY <1>1, <1>5, <1>8, <1>17, <1>18, SMTT(30) DEF Keeps
<1> QED BY <1>18, <1>19, <1>20 DEF Calm

(* The end of thread_dowait. *)
LEMMA WaitedCalm ==
  ASSUME NEW s, Calm(s), NEW u \in Threads, s.thread[u].job.target \in Threads,
         NEW r, r = Waited(s, u)
  PROVE  Calm(r)
<1>1. CASE r = Return(s, u)
  BY <1>1, ReturnCalm
<1>2. CASE r # Return(s, u)
  <2>1. r = Goto(s, u, AfterDowait(u))
    BY <1>2 DEF Waited
  <2>2. AfterDowait(u) \in {"user", "reaped", "clear"}
    BY DEF AfterDowait
  <2>3. PICK label : label = AfterDowait(u)
    BY Zenon
  <2>4. label \in PC
    BY <2>2, <2>3 DEF PC
  <2>5. r = Goto(s, u, label)
    BY <2>1, <2>3, SMTT(30)
  <2> QED BY <2>4, <2>5, GotoCalm, ZenonT(30)
<1> QED BY <1>1, <1>2, SMTT(30)

(* A suspended thread is taken off the run queue. *)
LEMMA DequeueCalm ==
  ASSUME NEW s, Calm(s), NEW t \in Threads, t \in s.runq, NEW x \in ThreadType,
         "RUN" \notin x.state, Local(x), x.wait_event = s.thread[t].wait_event,
         s.thread[t].wake_active => x.wake_active,
         x.job = s.thread[t].job, x.pc = s.thread[t].pc,
         x.blocking = s.thread[t].blocking,
         NEW p, p = SetThread(s, t, x), NEW q, q = SetRunq(p, p.runq \ {t})
  PROVE  Calm(q) /\ Keeps(s, q) /\ q.cpu = s.cpu
<1>1. s \in States /\ s.panic = "none" /\ s.runq \in SUBSET Threads
  BY CalmTyped, SMTT(30) DEF States
<1>2. /\ p \in States /\ p.thread[t] = x
      /\ \A u \in Threads : u # t => p.thread[u] = s.thread[u]
      /\ p.runq = s.runq /\ p.cpu = s.cpu /\ p.panic = s.panic
  BY <1>1, ThreadUpdate
<1>3. PICK z : z = p.runq \ {t}
  BY Zenon
<1>4. z \in SUBSET Threads /\ \A u \in Threads : u \in z <=> u \in s.runq /\ u # t
  BY <1>1, <1>2, <1>3, SMTT(30)
<1>5. q = SetRunq(p, z)
  BY <1>3, SMTT(30)
<1>6. /\ q \in States /\ q.runq = z
      /\ q.cpu = p.cpu /\ q.thread = p.thread /\ q.panic = p.panic
  BY <1>2, <1>4, <1>5, RunqUpdate, SMTT(30)
<1>7. \A u \in Threads : u # t => SameAt(s, q, u)
  BY <1>2, <1>4, <1>6, SMTT(30) DEF SameAt
<1>8. Nowhere(q, t)
  <2>1. Placed(s, t)
    BY SMTT(30) DEF Calm, Core
  <2>2. \A c \in Cpus : ~In(s, t, c)
    BY <2>1, SMTT(30) DEF Placed
  <2>3. \A c \in Cpus : ~In(q, t, c)
    BY <1>2, <1>6, <2>2, SMTT(30) DEF In
  <2> QED BY <1>4, <1>6, <2>3, SMTT(30) DEF Nowhere
<1>9. Promised(q) /\ WakeLast(q)
  <2>1. q.cpu = s.cpu /\ Promised(s) /\ WakeLast(s)
    BY <1>2, <1>6, SMTT(30) DEF Calm, Core
  <2> QED BY <2>1, SMTT(30) DEF Promised, WakeLast
<1>10. Core(s)
  BY SMTT(30) DEF Calm
<1>11. q.panic = "none" /\ q.thread[t] = x
       /\ \A u \in Threads : u # t => q.thread[u] = s.thread[u]
  BY <1>1, <1>2, <1>6, SMTT(30)
<1>12. Core(q)
  <2>1. /\ "RUN" \notin q.thread[t].state /\ Local(q.thread[t])
        /\ \A u \in Threads : u # t => /\ q.thread[u] = s.thread[u]
                                      /\ SameAt(s, q, u)
    BY <1>7, <1>11, SMTT(30)
  <2>2. q \in States /\ q.panic = "none"
    BY <1>6, <1>11
  <2> QED BY <1>8, <1>9, <1>10, <2>1, <2>2, StopCore, ZenonT(30)
<1>13. Sleepers(q)
  <2>1. Sleepers(s)
    BY SMTT(30) DEF Calm
  <2>2. \A v \in Threads :
          /\ q.thread[v].wait_event \in {s.thread[v].wait_event, None}
          /\ s.thread[v].wake_active => q.thread[v].wake_active
    BY <1>11, SMTT(30)
  <2>3. \A c \in Cpus : q.cpu[c].wake = s.cpu[c].wake
    BY <1>2, <1>6, SMTT(30)
  <2> QED BY <2>1, <2>2, <2>3, SleepersKeep, ZenonT(30)
<1>14. Keeps(s, q)
  BY <1>2, <1>6, <1>11, SMTT(30) DEF Keeps
<1> QED BY <1>2, <1>6, <1>12, <1>13, <1>14, SMTT(30) DEF Calm

(***************************************************************************)
(* A pass through the loop of thread_dowait: it takes the thread off the   *)
(* run queue, sleeps until it stops, or is done. Only here does it matter  *)
(* that the processor of u has no wakeup to finish.                        *)
(***************************************************************************)
LEMMA DoDowaitLoop ==
  ASSUME Calm(Now), NEW u \in Threads, NEW label \in {"dowait", "dowait_woke"},
         Runs(u, label), NEW c \in Cpus, cpu[c].cur = u,
         Becomes(DowaitLoop(u, c))
  PROVE  Sound(Now)'
<1>1. PICK s : s = Now
  BY Zenon
<1>2. PICK t : t = Target(u)
  BY ZenonT(30)
<1>3. /\ s.thread = thread /\ s.runq = runq /\ s.cpu = cpu /\ Calm(s)
      /\ s \in States
  BY <1>1, NowFields, CalmTyped, SMTT(30)
<1>4. label \in OnTarget
  BY SMTT(30) DEF OnTarget
<1>5. Running(s, u) /\ s.thread[u].job.target \in Threads
  BY <1>1, <1>4, RunsRunning, SMTT(30)
<1>6. t \in Threads /\ t = s.thread[u].job.target
  BY <1>2, <1>3, <1>5, SMTT(30) DEF Target
<1>7. s.cpu[c].old = None /\ s.cpu[c].wake = None
  <2>1. PICK d \in Cpus : cpu[d].cur = u /\ ~Busy(d)
    BY DEF Runs
  <2>2. Placed(s, u)
    BY <1>3, SMTT(30) DEF Calm, Core
  <2>3. c = d
    BY <1>3, <2>1, <2>2, SMTT(30) DEF Placed, In
  <2> QED BY <1>3, <2>1, <2>3, SMTT(30) DEF Busy
<1>8. PICK y : y = s.thread[t]
  BY ZenonT(30)
<1>9. y \in ThreadType /\ Local(y)
  BY <1>3, <1>6, <1>8, CalmTyped, SMTT(30)
<1>10. PICK r : r = DowaitLoop(u, c)
  BY Zenon
<1>11. CASE y.state \ {"HALTED"} = {"RUN", "SUSP"} /\ t \in s.runq
  <2>1. PICK x : x = [y EXCEPT !.state = @ \ {"RUN"}]
    BY Zenon
  <2>2. y.state \ {"RUN"} \in SUBSET Flags
    BY <1>9 DEF ThreadType
  <2>3. x \in ThreadType
    BY <1>9, <2>1, <2>2, ZenonT(30) DEF ThreadType
  <2>4. /\ x.state = y.state \ {"RUN"} /\ x.wait_event = y.wait_event
        /\ x.wake_active = y.wake_active /\ x.job = y.job /\ x.pc = y.pc
        /\ x.blocking = y.blocking
    BY <1>9, <2>1, SMTT(30) DEF ThreadType
  <2>5. Local(x)
    BY <1>9, <2>4, SMTT(30) DEF Local
  <2>6. PICK p : p = SetThread(s, t, x)
    BY Zenon
  <2>7. PICK q : q = SetRunq(p, p.runq \ {t})
    BY Zenon
  <2>8. "RUN" \notin x.state
    BY <2>4, SMTT(30)
  <2>9. Calm(q) /\ Keeps(s, q) /\ q.cpu = s.cpu
    <3>1. /\ Calm(s) /\ t \in Threads /\ t \in s.runq
          /\ x.wait_event = s.thread[t].wait_event
          /\ s.thread[t].wake_active => x.wake_active
          /\ x.job = s.thread[t].job /\ x.pc = s.thread[t].pc
          /\ x.blocking = s.thread[t].blocking
      BY <1>3, <1>6, <1>8, <1>11, <2>4, SMTT(30)
    <3> QED BY <2>3, <2>5, <2>6, <2>7, <2>8, <3>1, DequeueCalm, SMTT(30)
  <2>10. PICK w : w = WakeLater(q, c, t)
    BY ZenonT(30)
  <2>11. Calm(w) /\ Keeps(q, w)
    BY <1>6, <1>7, <2>9, <2>10, WakeLaterCalm, SMTT(30)
  <2>12. w.thread[u].job.target \in Threads
    BY <1>5, <2>9, <2>11, SMTT(30) DEF Keeps
  <2>13. /\ thread[t] = y /\ SetThread(Now, t, x) = p
         /\ [p EXCEPT !.runq = @ \ {t}] = q
    BY <1>1, <1>3, <1>8, <2>6, <2>7, ZenonT(30) DEF SetRunq
  <2>14. r = Waited(w, u)
    BY <1>2, <1>3, <1>10, <1>11, <2>1, <2>10, <2>13, ZenonT(30) DEF DowaitLoop
  <2>15. Calm(r)
    BY <2>11, <2>12, <2>14, WaitedCalm, SMTT(30)
  <2> QED BY <1>10, <2>15, CalmSound, BecomesSound, SMTT(30)
<1>12. CASE r = thread_sleep(WakeActive(s, t), u, t, "dowait_woke")
  <2>1. Calm(r)
    BY <1>3, <1>5, <1>6, <1>12, SleepCalm, SMTT(30)
  <2> QED BY <1>10, <2>1, CalmSound, BecomesSound
<1>13. CASE r = Waited(s, u)
  <2>1. Calm(r)
    BY <1>3, <1>5, <1>13, WaitedCalm, SMTT(30)
  <2> QED BY <1>10, <2>1, CalmSound, BecomesSound
<1>14. \/ y.state \ {"HALTED"} = {"RUN", "SUSP"} /\ t \in s.runq
       \/ r = thread_sleep(WakeActive(s, t), u, t, "dowait_woke")
       \/ r = Waited(s, u)
  BY <1>1, <1>2, <1>3, <1>8, <1>10, ZenonT(30) DEF DowaitLoop
<1> QED BY <1>11, <1>12, <1>13, <1>14, SMTT(30)

(* thread_dowait, its first pass and those after a sleep. *)
LEMMA DoDowait ==
  ASSUME Calm(Now), NEW u \in Threads, thread_dowait(u) \/ DowaitWoke(u)
  PROVE  Sound(Now)'
<1>1. CASE \E label \in {"dowait", "dowait_woke"} : Runs(u, label)
           /\ \E c \in Cpus : cpu[c].cur = u /\ Becomes(DowaitLoop(u, c))
  BY <1>1, DoDowaitLoop
<1>2. CASE Runs(u, "dowait_woke") /\ Becomes(Goto(Now, u, "failed"))
  <2>1. PICK r : r = Goto(Now, u, "failed")
    BY Zenon
  <2>2. "failed" \in PC
    BY DEF PC
  <2>3. Now.thread[u].job.target \in Threads
    BY <1>2, RunsRunning, SMTT(30) DEF OnTarget
  <2>4. Calm(r)
    BY <2>1, <2>2, <2>3, GotoCalm, ZenonT(30)
  <2> QED BY <1>2, <2>1, <2>4, CalmSound, BecomesSound, SMTT(30)
<1> QED BY <1>1, <1>2, SMTT(30) DEF thread_dowait, DowaitWoke

(* clear_wait keeps everything, whether the wait is still there or not. *)
LEMMA ClearWaitCalm ==
  ASSUME NEW s, Calm(s), NEW t \in Threads, NEW event,
         NEW r, r = clear_wait(s, t, event, "interrupted")
  PROVE  Calm(r) /\ Keeps(s, r)
<1>1. PICK y : y = s.thread[t]
  BY Zenon
<1>2. y \in ThreadType /\ Local(y)
  BY <1>1, CalmTyped, SMTT(30)
<1>3. CASE r = s
  BY <1>3, SMTT(30) DEF Keeps
<1>4. CASE r = NoEvent(s, t) /\ "WAIT" \notin y.state
  <2>1. PICK x : x = [y EXCEPT !.wait_event = None]
    BY Zenon
  <2>2. x \in ThreadType
    BY <1>2, <2>1, ZenonT(30) DEF ThreadType
  <2>3. y.wait_event = None
    BY <1>2, <1>4, SMTT(30) DEF Local
  <2>4. x = y
    BY <1>2, <2>1, <2>3, SMTT(30) DEF ThreadType
  <2>5. Mild(y, x) /\ x.job = y.job /\ x.pc = y.pc /\ x.blocking = y.blocking
    BY <1>2, <2>2, <2>4, SMTT(30) DEF Mild, Local
  <2>6. r = SetThread(s, t, x)
    BY <1>1, <1>4, <2>1, ZenonT(30) DEF NoEvent
  <2> QED BY <1>1, <2>5, <2>6, MildKeeps, SMTT(30)
<1>5. CASE r = EndWait(NoEvent(s, t), t, "interrupted") /\ "WAIT" \in y.state
  <2>1. Core(s) /\ s.thread[t].wait_event # None
    BY <1>1, <1>2, <1>5, SMTT(30) DEF Calm, Local
  <2>2. /\ Core(r) /\ Woken(s.thread[t], r.thread[t])
        /\ \A u \in Threads : u # t => r.thread[u] = s.thread[u]
        /\ \A c \in Cpus : /\ r.cpu[c].cur = s.cpu[c].cur
                           /\ r.cpu[c].old = s.cpu[c].old
                           /\ r.cpu[c].wake = s.cpu[c].wake
    BY <1>5, <2>1, EndWaitCore, SMTT(30)
  <2>3. \A v \in Threads :
          /\ r.thread[v].wait_event \in {s.thread[v].wait_event, None}
          /\ s.thread[v].wake_active => r.thread[v].wake_active
    BY <2>2, SMTT(30) DEF Woken
  <2>4. Sleepers(s) /\ \A c \in Cpus : r.cpu[c].wake = s.cpu[c].wake
    BY <2>2, SMTT(30) DEF Calm
  <2>5. Sleepers(r)
    BY <2>3, <2>4, SleepersKeep, SMTT(30)
  <2>6. Keeps(s, r)
    BY <2>2 DEF Woken, Keeps
  <2> QED BY <2>2, <2>5, <2>6, SMTT(30) DEF Calm
<1> QED BY <1>1, <1>3, <1>4, <1>5, ZenonT(30) DEF clear_wait

(***************************************************************************)
(* clear_wait as thread_halt calls it, up to the lock of the wait queue    *)
(* ...                                                                     *)
(***************************************************************************)
LEMMA DoClearWait ==
  ASSUME Calm(Now), NEW u \in Threads, ClearWait(u) PROVE Sound(Now)'
<1>1. PICK s : s = Now
  BY Zenon
<1>2. PICK t : t = Target(u)
  BY Zenon
<1>3. s.thread = thread /\ Calm(s)
  BY <1>1, NowFields, SMTT(30)
<1>4. Running(s, u) /\ s.thread[u].job.target \in Threads
  BY <1>1, RunsRunning, SMTT(30) DEF ClearWait, OnTarget
<1>5. t \in Threads /\ t = s.thread[u].job.target
  BY <1>2, <1>3, <1>4, SMTT(30) DEF Target
<1>6. "stopped" \in PC /\ "cleared" \in PC
  BY DEF PC
<1>7. CASE Becomes(Goto(s, u, "stopped"))
  <2>1. PICK r : r = Goto(s, u, "stopped")
    BY Zenon
  <2>2. Calm(r)
    BY <1>3, <1>4, <1>6, <2>1, GotoCalm, ZenonT(30)
  <2> QED BY <1>7, <2>1, <2>2, CalmSound, BecomesSound, SMTT(30)
<1>8. CASE Becomes(Goto(clear_wait(s, t, None, "interrupted"), u, "stopped"))
  <2>1. PICK q : q = clear_wait(s, t, None, "interrupted")
    BY Zenon
  <2>2. PICK r : r = Goto(q, u, "stopped")
    BY Zenon
  <2>3. Calm(q) /\ Keeps(s, q)
    BY <1>3, <1>5, <2>1, ClearWaitCalm, SMTT(30)
  <2>4. q.thread[u].job.target \in Threads
    BY <1>4, <2>3, SMTT(30) DEF Keeps
  <2>5. Calm(r)
    BY <1>6, <2>2, <2>3, <2>4, GotoCalm, ZenonT(30)
  <2> QED BY <1>8, <2>1, <2>2, <2>5, CalmSound, BecomesSound, SMTT(30)
<1>9. CASE \E job : /\ job = [s.thread[u].job EXCEPT
                                !.event = s.thread[t].wait_event]
                    /\ Becomes(Goto(Begin(s, u, job), u, "cleared"))
  <2>1. PICK job : /\ job = [s.thread[u].job EXCEPT
                               !.event = s.thread[t].wait_event]
                   /\ Becomes(Goto(Begin(s, u, job), u, "cleared"))
    BY <1>9, SMTT(30)
  <2>2. s.thread[u].job \in Jobs
        /\ s.thread[t].wait_event \in WaitEvents \cup {None}
    BY <1>3, <1>5, CalmTyped, SMTT(30) DEF ThreadType
  <2>3. job \in Jobs /\ job.target = s.thread[u].job.target
    BY <2>1, <2>2, SMTT(30) DEF Jobs
  <2>4. PICK q : q = Begin(s, u, job)
    BY Zenon
  <2>5. Calm(q) /\ q.thread[u] = [s.thread[u] EXCEPT !.job = job]
    BY <1>3, <1>4, <2>3, <2>4, BeginCalm, SMTT(30)
  <2>6. q.thread[u].job = job
    BY <1>3, <2>5, CalmTyped, SMTT(30) DEF ThreadType
  <2>7. PICK r : r = Goto(q, u, "cleared")
    BY Zenon
  <2>8. q.thread[u].job.target \in Threads
    BY <1>4, <2>3, <2>6, SMTT(30)
  <2>9. Calm(r)
    BY <1>6, <2>5, <2>7, <2>8, GotoCalm, ZenonT(30)
  <2> QED BY <2>1, <2>4, <2>7, <2>9, CalmSound, BecomesSound, SMTT(30)
<1> QED BY <1>1, <1>2, <1>3, <1>7, <1>8, <1>9, ZenonT(30) DEF ClearWait

(* ... and from there. *)
LEMMA DoClearWaitLocked ==
  ASSUME Calm(Now), NEW u \in Threads, ClearWaitLocked(u) PROVE Sound(Now)'
<1>1. PICK s : s = Now
  BY Zenon
<1>2. PICK t : t = Target(u)
  BY Zenon
<1>3. s.thread = thread /\ Calm(s)
  BY <1>1, NowFields
<1>4. Running(s, u) /\ s.thread[u].job.target \in Threads
  BY <1>1, RunsRunning, SMTT(30) DEF ClearWaitLocked, OnTarget
<1>5. t \in Threads /\ t = s.thread[u].job.target
  BY <1>2, <1>3, <1>4 DEF Target
<1>6. "stopped" \in PC
  BY DEF PC
<1>7. PICK j : j = s.thread[u].job
  BY Zenon
<1>8. PICK q : q = clear_wait(s, t, j.event, "interrupted")
  BY Zenon
<1>9. Calm(q) /\ Keeps(s, q)
  BY <1>3, <1>5, <1>8, ClearWaitCalm, SMTT(30)
<1>10. PICK job : job = [j EXCEPT !.event = None]
  BY ZenonT(30)
<1>11. j \in Jobs
  BY <1>3, <1>7, CalmTyped, SMTT(30) DEF ThreadType
<1>12. job \in Jobs /\ job.target \in Threads
  BY <1>4, <1>7, <1>10, <1>11, SMTT(30) DEF Jobs
<1>13. PICK p : p = Begin(q, u, job)
  BY Zenon
<1>14. Calm(p) /\ p.thread[u] = [q.thread[u] EXCEPT !.job = job]
  BY <1>9, <1>12, <1>13, BeginCalm, SMTT(30)
<1>15. q.thread[u] \in ThreadType
  BY <1>9, CalmTyped, SMTT(30)
<1>16. p.thread[u].job = job
  BY <1>14, <1>15, SMTT(30) DEF ThreadType
<1>17. PICK r : r = Goto(p, u, "stopped")
  BY Zenon
<1>18. p.thread[u].job.target \in Threads
  BY <1>12, <1>16, SMTT(30)
<1>19. Calm(r)
  BY <1>6, <1>14, <1>17, <1>18, GotoCalm, ZenonT(30)
<1>20. Becomes(r)
  BY <1>1, <1>2, <1>3, <1>7, <1>8, <1>10, <1>13, <1>17, ZenonT(30)
     DEF ClearWaitLocked
<1> QED BY <1>19, <1>20, CalmSound, BecomesSound

(***************************************************************************)
(* thread_halt that fails, and thread_abort that has succeeded: both       *)
(* release.                                                                *)
(***************************************************************************)
LEMMA DoRelease ==
  ASSUME Calm(Now), NEW u \in Threads, Release(u) \/ AbortDone(u)
  PROVE  Sound(Now)'
<1>1. PICK s : s = Now
  BY Zenon
<1>2. PICK t : t = Target(u)
  BY Zenon
<1>3. s.thread = thread /\ Calm(s)
  BY <1>1, NowFields, SMTT(30)
<1>4. s.thread[u].job.target \in Threads
  BY <1>1, RunsRunning, SMTT(30) DEF Release, AbortDone, OnTarget
<1>5. t \in Threads
  BY <1>2, <1>3, <1>4, SMTT(30) DEF Target
<1>6. PICK q : q = thread_release(s, t)
  BY Zenon
<1>7. Calm(q)
  BY <1>3, <1>5, <1>6, ReleaseCalm, SMTT(30)
<1>8. PICK r : r = Return(q, u)
  BY Zenon
<1>9. Calm(r)
  BY <1>7, <1>8, ReturnCalm, SMTT(30)
<1>10. Becomes(r)
  BY <1>1, <1>2, <1>6, <1>8, SMTT(30) DEF Release, AbortDone
<1> QED BY <1>9, <1>10, CalmSound, BecomesSound, SMTT(30)

(* thread_halt gives up, and wakes the other halters. *)
LEMMA DoHaltFailed ==
  ASSUME Calm(Now), NEW u \in Threads, HaltFailed(u) PROVE Sound(Now)'
<1>1. PICK s : s = Now
  BY Zenon
<1>2. PICK t : t = Target(u)
  BY Zenon
<1>3. s.thread = thread /\ Calm(s)
  BY <1>1, NowFields
<1>4. s.thread[u].job.target \in Threads
  BY <1>1, RunsRunning, SMTT(30) DEF HaltFailed, OnTarget
<1>5. t \in Threads
  BY <1>2, <1>3, <1>4, SMTT(30) DEF Target
<1>6. PICK g : g = s.thread[t].ast \ {"HALT"}
  BY Zenon
<1>7. s.thread[t] \in ThreadType
  BY <1>3, <1>5, CalmTyped, SMTT(30)
<1>8. g \in SUBSET {"HALT", "TERMINATE"}
  BY <1>6, <1>7 DEF ThreadType
<1>9. PICK q : q = SetAst(s, t, g)
  BY Zenon
<1>10. Calm(q) /\ Keeps(s, q)
  BY <1>3, <1>5, <1>8, <1>9, AstCalm, SMTT(30)
<1>11. PICK p : p = thread_wakeup_prim(q, t, "interrupted")
  BY Zenon
<1>12. t # None
  BY <1>5, NoneApart, SMTT(30)
<1>13. Calm(p) /\ Keeps(q, p)
  BY <1>10, <1>11, <1>12, WakeupCalm, SMTT(30)
<1>14. PICK r : r = Goto(p, u, "release")
  BY Zenon
<1>15. "release" \in PC
  BY SMTT(30) DEF PC
<1>16. p.thread[u].job.target \in Threads
  BY <1>4, <1>10, <1>13, SMTT(30) DEF Keeps
<1>17. Calm(r)
  BY <1>13, <1>14, <1>15, <1>16, GotoCalm, ZenonT(30)
<1>18. q = SetThread(Now, t, [thread[t] EXCEPT !.ast = @ \ {"HALT"}])
  BY <1>1, <1>3, <1>6, <1>9, Zenon DEF SetAst
<1>19. Becomes(r)
  BY <1>2, <1>11, <1>14, <1>18, ZenonT(30) DEF HaltFailed
<1> QED BY <1>17, <1>19, CalmSound, BecomesSound

(* No panic, no change. *)
LEMMA SamePanic == ASSUME NEW s \in States PROVE SetPanic(s, s.panic) = s
  BY DEF SetPanic, States

(* The end of a call, after a panic too. *)
LEMMA EndJobTyped ==
  ASSUME NEW s \in States, NEW u \in Threads, NEW label \in PC,
         NEW job \in Jobs, NEW r, r = Begin(Goto(s, u, label), u, job)
  PROVE  r \in States /\ r.panic = s.panic
<1>1. PICK x : x = [s.thread[u] EXCEPT !.pc = label]
  BY Zenon
<1>2. s.thread[u] \in ThreadType
  BY DEF States
<1>3. x \in ThreadType
  BY <1>1, <1>2, Zenon DEF ThreadType
<1>4. PICK q : q = SetThread(s, u, x)
  BY Zenon
<1>5. q \in States /\ q.thread[u] = x /\ q.panic = s.panic
  BY <1>3, <1>4, ThreadUpdate
<1>6. PICK y : y = [x EXCEPT !.job = job]
  BY Zenon
<1>7. y \in ThreadType
  BY <1>3, <1>6, Zenon DEF ThreadType
<1>8. r = SetThread(q, u, y)
  BY <1>1, <1>4, <1>5, <1>6, ZenonT(30) DEF Goto, Begin
<1> QED BY <1>5, <1>7, <1>8, ThreadUpdate

(* thread_deallocate, or its panic. *)
LEMMA DeallocateSound ==
  ASSUME NEW s, Calm(s), NEW u \in Threads, NEW t \in Threads,
         NEW label \in PC \ OnTarget,
         NEW r, r = Begin(Goto(thread_deallocate(s, u, t), u, label), u, NoJob)
  PROVE  Sound(r)
<1>1. PICK y : y = s.thread[t]
  BY Zenon
<1>2. y \in ThreadType /\ Local(y) /\ s \in States /\ s.panic = "none"
  BY <1>1, CalmTyped
<1>3. PICK x : x = [y EXCEPT !.dead = TRUE]
  BY Zenon
<1>4. x \in ThreadType
  BY <1>2, <1>3, Zenon DEF ThreadType
<1>5. Mild(y, x)
  BY <1>2, <1>3, <1>4, ZenonT(30) DEF Mild, Local, ThreadType
<1>6. PICK p : p = SetThread(s, t, x)
  BY Zenon
<1>7. Calm(p) /\ p \in States /\ p.panic = "none"
  BY <1>1, <1>5, <1>6, MildStep, CalmTyped, SMTT(30)
<1>8. PICK q : q = thread_deallocate(s, u, t)
  BY Zenon
<1>9. q = SetPanic(p, "destroyed") \/ q = SetPanic(p, p.panic)
  BY <1>1, <1>3, <1>6, <1>8, ZenonT(30) DEF thread_deallocate, SetPanic
<1>10. CASE q = SetPanic(p, "destroyed")
  <2>1. "destroyed" \in Panics
    BY DEF Panics
  <2>2. q \in States /\ q.panic = "destroyed"
    BY <1>7, <1>10, <2>1, PanicUpdate, SMTT(30)
  <2>3. NoJob \in Jobs
    BY DEF NoJob, Jobs
  <2>4. PICK job \in Jobs : job = NoJob
    BY <2>3
  <2>5. r = Begin(Goto(q, u, label), u, job)
    BY <1>8, <2>4, SMTT(30)
  <2>6. r \in States /\ r.panic = q.panic
    BY <2>2, <2>5, EndJobTyped, SMTT(30)
  <2> QED BY <2>2, <2>6 DEF Sound
<1>11. CASE q = SetPanic(p, p.panic)
  <2>1. q = p
    BY <1>7, <1>11, SamePanic
  <2>2. r = Begin(Goto(p, u, label), u, NoJob)
    BY <1>8, <2>1
  <2>3. Calm(r)
    BY <1>7, <2>2, EndJobCalm, SMTT(30)
  <2> QED BY <2>3, CalmSound
<1> QED BY <1>9, <1>10, <1>11, SMTT(30)

(* thread_terminate and the reaper drop the reference. *)
LEMMA DoTerminateDone ==
  ASSUME Calm(Now), NEW u \in Threads, TerminateDone(u) \/ Reaped(u)
  PROVE  Sound(Now)'
<1>1. PICK s : s = Now
  BY Zenon
<1>2. PICK t : t = Target(u)
  BY Zenon
<1>3. s.thread = thread /\ Calm(s)
  BY <1>1, NowFields
<1>4. s.thread[u].job.target \in Threads
  BY <1>1, RunsRunning, SMTT(30) DEF TerminateDone, Reaped, OnTarget
<1>5. t \in Threads
  BY <1>2, <1>3, <1>4 DEF Target
<1>6. "user" \in PC \ OnTarget /\ "reaper" \in PC \ OnTarget
  BY DEF PC, OnTarget
<1>7. \E label \in {"user", "reaper"} :
        Becomes(Begin(Goto(thread_deallocate(s, u, t), u, label), u, NoJob))
  BY <1>1, <1>2, Zenon DEF TerminateDone, Reaped, Return
<1>8. PICK label \in PC \ OnTarget :
        Becomes(Begin(Goto(thread_deallocate(s, u, t), u, label), u, NoJob))
  BY <1>6, <1>7, Zenon
<1>9. PICK r : r = Begin(Goto(thread_deallocate(s, u, t), u, label), u, NoJob)
  BY Zenon
<1>10. Sound(r)
  BY <1>3, <1>5, <1>9, DeallocateSound, SMTT(30)
<1> QED BY <1>8, <1>9, <1>10, BecomesSound, SMTT(30)

(***************************************************************************)
(* The last part of the loop of thread_halt. A thread is started in spite  *)
(* of its suspension only if its state is TH_SUSP alone, so thread_setrun  *)
(* never finds it on a run queue.                                          *)
(***************************************************************************)
LEMMA DoAtCleanPoint ==
  ASSUME Calm(Now), NEW u \in Threads, AtCleanPoint(u) PROVE Sound(Now)'
<1>1. PICK s : s = Now
  BY Zenon
<1>2. PICK t : t = Target(u)
  BY Zenon
<1>3. s.thread = thread /\ Calm(s) /\ s \in States
  BY <1>1, NowFields, CalmTyped, SMTT(30)
<1>4. s.thread[u].job.target \in Threads
  BY <1>1, RunsRunning, SMTT(30) DEF AtCleanPoint, OnTarget
<1>5. t \in Threads
  BY <1>2, <1>3, <1>4 DEF Target
<1>6. PICK y : y = s.thread[t]
  BY Zenon
<1>7. y \in ThreadType /\ Local(y)
  BY <1>3, <1>5, <1>6, CalmTyped, SMTT(30)
<1>8. PICK x : x = [y EXCEPT !.state = @ \cup {"HALTED"}, !.ast = @ \ {"HALT"},
                             !.pc = "user"]
  BY Zenon
<1>9. PICK z : z = [y EXCEPT !.state = @ \cup {"RUN", "UNINT"}]
  BY Zenon
<1>10. "held" \in PC /\ "dowait" \in PC /\ "user" \in PC /\ "user" \notin OnTarget
  BY DEF PC, OnTarget
<1>11. CASE Becomes(Goto(s, u, "held"))
  <2>1. PICK r : r = Goto(s, u, "held")
    BY Zenon
  <2>2. Calm(r)
    BY <1>3, <1>4, <1>10, <2>1, GotoCalm, ZenonT(30)
  <2> QED BY <1>11, <2>1, <2>2, CalmSound, BecomesSound, SMTT(30)
<1>12. CASE Becomes(Goto(SetThread(s, t, x), u, "held"))
  <2>1. /\ y.state \cup {"HALTED"} \in SUBSET Flags
        /\ y.ast \ {"HALT"} \in SUBSET {"HALT", "TERMINATE"}
    BY <1>7 DEF ThreadType, Flags
  <2>2. x \in ThreadType
    BY <1>7, <1>8, <1>10, <2>1, ZenonT(30) DEF ThreadType
  <2>3. Mild(y, x) /\ x.job = y.job
    BY <1>7, <1>8, <1>10, <2>2, SMTT(30) DEF Mild, Local, ThreadType
  <2>4. PICK q : q = SetThread(s, t, x)
    BY Zenon
  <2>5. /\ Calm(q) /\ q.thread[t] = x
        /\ \A v \in Threads : v # t => q.thread[v] = s.thread[v]
    BY <1>3, <1>5, <1>6, <2>3, <2>4, MildStep, SMTT(30)
  <2>6. q.thread[u].job.target \in Threads
    BY <1>4, <1>6, <2>3, <2>5, SMTT(30)
  <2>7. PICK r : r = Goto(q, u, "held")
    BY Zenon
  <2>8. Calm(r)
    BY <1>10, <2>5, <2>6, <2>7, GotoCalm, ZenonT(30)
  <2> QED BY <1>12, <2>4, <2>7, <2>8, CalmSound, BecomesSound, SMTT(30)
<1>13. CASE Becomes(SetPanic(s, "halt"))
  <2>1. PICK r : r = SetPanic(s, "halt")
    BY Zenon
  <2>2. "halt" \in Panics
    BY DEF Panics
  <2>3. r \in States /\ r.panic = "halt"
    BY <1>3, <2>1, <2>2, PanicUpdate, SMTT(30)
  <2> QED BY <1>13, <2>1, <2>3, BecomesSound, SMTT(30) DEF Sound
<1>14. CASE /\ Becomes(Goto(thread_setrun(SetThread(s, t, z), t), u, "dowait"))
            /\ y.state = {"SUSP"}
  <2>1. y.state \cup {"RUN", "UNINT"} \in SUBSET Flags
    BY <1>7 DEF ThreadType, Flags
  <2>2. z \in ThreadType
    BY <1>7, <1>9, <2>1, ZenonT(30) DEF ThreadType
  <2>3. /\ z.state = {"SUSP", "RUN", "UNINT"} /\ z.wait_event = y.wait_event
        /\ z.pc = y.pc /\ z.job = y.job /\ z.wake_active = y.wake_active
    BY <1>7, <1>9, <1>14, SMTT(30) DEF ThreadType
  <2>4. Local(z)
    BY <1>7, <1>14, <2>3, SMTT(30) DEF Local
  <2>5. PICK w : w = SetThread(s, t, z)
    BY Zenon
  <2>6. PICK q : q = thread_setrun(w, t)
    BY Zenon
  <2>7. /\ "RUN" \notin s.thread[t].state /\ "RUN" \in z.state
        /\ "WAIT" \notin z.state
    BY <1>6, <1>14, <2>3
  <2>8. Core(s)
    BY <1>3, SMTT(30) DEF Calm
  <2>9. /\ Core(q) /\ q.thread[t] = z
        /\ \A v \in Threads : v # t => q.thread[v] = s.thread[v]
        /\ \A c \in Cpus : /\ q.cpu[c].cur = s.cpu[c].cur
                           /\ q.cpu[c].old = s.cpu[c].old
                           /\ q.cpu[c].wake = s.cpu[c].wake
    BY <1>5, <2>2, <2>4, <2>5, <2>6, <2>7, <2>8, Start, SMTT(30)
  <2>10. \A v \in Threads :
          /\ q.thread[v].wait_event \in {s.thread[v].wait_event, None}
          /\ s.thread[v].wake_active => q.thread[v].wake_active
    BY <1>6, <2>3, <2>9, SMTT(30)
  <2>11. Sleepers(s) /\ \A c \in Cpus : q.cpu[c].wake = s.cpu[c].wake
    BY <1>3, <2>9, SMTT(30) DEF Calm
  <2>12. Calm(q)
    BY <2>9, <2>10, <2>11, SleepersKeep, SMTT(30) DEF Calm
  <2>13. q.thread[u].job.target \in Threads
    BY <1>4, <1>6, <2>3, <2>9, SMTT(30)
  <2>14. PICK r : r = Goto(q, u, "dowait")
    BY Zenon
  <2>15. Calm(r)
    BY <1>10, <2>12, <2>13, <2>14, GotoCalm, ZenonT(30)
  <2> QED BY <1>14, <2>5, <2>6, <2>14, <2>15, CalmSound, BecomesSound, SMTT(30)
<1>15. \/ Becomes(Goto(s, u, "held"))
       \/ Becomes(Goto(SetThread(s, t, x), u, "held"))
       \/ Becomes(SetPanic(s, "halt"))
       \/ /\ Becomes(Goto(thread_setrun(SetThread(s, t, z), t), u, "dowait"))
          /\ y.state = {"SUSP"}
  BY <1>1, <1>2, <1>3, <1>6, <1>8, <1>9, ZenonT(30) DEF AtCleanPoint, SetPanic
<1> QED BY <1>11, <1>12, <1>13, <1>14, <1>15, SMTT(30)

(* The calls on another thread. *)
Ops == {"suspend", "abort", "terminate", "reap"}

(* A call on t begins. *)
LEMMA JobBegins ==
  ASSUME NEW s, Calm(s), NEW u \in Threads, NEW t \in Threads,
         NEW op \in Ops,
         NEW r, r = Begin(s, u, Job(op, t))
  PROVE  /\ Calm(r) /\ r.thread[u].job.target = t
         /\ Running(s, u) => Running(r, u)
<1>1. Job(op, t) \in Jobs /\ Job(op, t).target = t
  BY DEF Job, Jobs, Ops
<1>2. PICK job \in Jobs : job = Job(op, t)
  BY <1>1
<1>3. job.target = t /\ r = Begin(s, u, job)
  BY <1>1, <1>2, SMTT(30)
<1>4. /\ Calm(r) /\ r.thread[u] = [s.thread[u] EXCEPT !.job = job]
      /\ r.cpu = s.cpu
  BY <1>3, BeginCalm, SMTT(30)
<1>5. s.thread[u] \in ThreadType
  BY CalmTyped
<1>6. r.thread[u].job = job /\ r.thread[u].blocking = s.thread[u].blocking
  BY <1>4, <1>5 DEF ThreadType
<1> QED BY <1>3, <1>4, <1>6, SMTT(30) DEF Running

(* Counting user_stop_count keeps everything. *)
LEMMA StopsCalm ==
  ASSUME NEW s, Calm(s), NEW t \in Threads, NEW n \in 0..MaxStops,
         NEW x, x = [s.thread[t] EXCEPT !.user_stop_count = n],
         NEW r, r = SetThread(s, t, x)
  PROVE  Calm(r) /\ Keeps(s, r)
<1>1. PICK y : y = s.thread[t]
  BY Zenon
<1>2. y \in ThreadType /\ Local(y)
  BY <1>1, CalmTyped
<1>3. x \in ThreadType
  BY <1>1, <1>2, Zenon DEF ThreadType
<1>4. /\ x.job = y.job /\ x.pc = y.pc /\ x.blocking = y.blocking
      /\ x.state = y.state /\ x.wait_event = y.wait_event
      /\ x.wake_active = y.wake_active
  BY <1>1, <1>2, SMTT(30) DEF ThreadType
<1>5. Mild(y, x)
  BY <1>2, <1>3, <1>4, SMTT(30) DEF Mild, Local
<1> QED BY <1>1, <1>4, <1>5, MildKeeps, ZenonT(30)

(* thread_suspend, up to thread_dowait. *)
LEMMA DoSuspend ==
  ASSUME Calm(Now), NEW u \in Threads, NEW t \in Threads, thread_suspend(u, t)
  PROVE  Sound(Now)'
<1>1. PICK s : s = Now
  BY Zenon
<1>2. s.thread = thread /\ Calm(s) /\ s.thread[t] \in ThreadType
  BY <1>1, NowFields, CalmTyped, SMTT(30)
<1>3. PICK n : n = s.thread[t].user_stop_count + 1
  BY Zenon
<1>4. n \in 0..MaxStops
  BY <1>2, <1>3, SchedAssumption, SMTT(30) DEF thread_suspend, ThreadType
<1>5. PICK p : p = SetThread(s, t, [s.thread[t] EXCEPT !.user_stop_count = n])
  BY Zenon
<1>6. Calm(p)
  BY <1>2, <1>4, <1>5, StopsCalm, SMTT(30)
<1>7. PICK q : q = thread_hold(p, t)
  BY Zenon
<1>8. Calm(q)
  BY <1>6, <1>7, HoldCalm, SMTT(30)
<1>9. PICK b : b = Begin(q, u, Job("suspend", t))
  BY ZenonT(30)
<1>10. Calm(b) /\ b.thread[u].job.target = t
  <2>1. PICK op \in Ops : op = "suspend"
    BY DEF Ops
  <2>2. b = Begin(q, u, Job(op, t))
    BY <1>9, <2>1, SMTT(30)
  <2> QED BY <1>8, <2>2, JobBegins, SMTT(30)
<1>11. PICK r : r = Goto(b, u, "dowait")
  BY Zenon
<1>12. "dowait" \in PC
  BY DEF PC
<1>13. Calm(r)
  BY <1>10, <1>11, <1>12, GotoCalm, ZenonT(30)
<1>14. p = SetThread(Now, t, [thread[t] EXCEPT !.user_stop_count = @ + 1])
  BY <1>1, <1>2, <1>3, <1>5, ZenonT(30)
<1>15. Becomes(p) \/ Becomes(q) \/ Becomes(r)
  BY <1>7, <1>9, <1>11, <1>14, ZenonT(30) DEF thread_suspend
<1> QED BY <1>6, <1>8, <1>13, <1>15, CalmSound, BecomesSound, SMTT(30)

(* thread_resume. *)
LEMMA DoResume ==
  ASSUME Calm(Now), NEW u \in Threads, NEW t \in Threads, thread_resume(u, t)
  PROVE  Sound(Now)'
<1>1. PICK s : s = Now
  BY Zenon
<1>2. s.thread = thread /\ Calm(s) /\ s.thread[t] \in ThreadType
  BY <1>1, NowFields, CalmTyped
<1>3. PICK n : n = s.thread[t].user_stop_count - 1
  BY Zenon
<1>4. n \in 0..MaxStops
  BY <1>2, <1>3, SchedAssumption, SMTT(30) DEF thread_resume, ThreadType
<1>5. PICK p : p = SetThread(s, t, [s.thread[t] EXCEPT !.user_stop_count = n])
  BY Zenon
<1>6. Calm(p)
  BY <1>2, <1>4, <1>5, StopsCalm
<1>7. PICK q : q = thread_release(p, t)
  BY Zenon
<1>8. Calm(q)
  BY <1>6, <1>7, ReleaseCalm
<1>9. p = SetThread(Now, t, [thread[t] EXCEPT !.user_stop_count = @ - 1])
  BY <1>1, <1>2, <1>3, <1>5, ZenonT(30)
<1>10. Becomes(p) \/ Becomes(q)
  BY <1>7, <1>9, ZenonT(30) DEF thread_resume
<1> QED BY <1>6, <1>8, <1>10, CalmSound, BecomesSound, SMTT(30)

(* thread_abort, up to the first wait of thread_halt. *)
LEMMA DoAbort ==
  ASSUME Calm(Now), NEW u \in Threads, NEW t \in Threads, thread_abort(u, t)
  PROVE  Sound(Now)'
<1>1. PICK s : s = Now
  BY Zenon
<1>2. Calm(s) /\ Running(s, u)
  BY <1>1, RunsRunning DEF thread_abort, MayName, MayCall
<1>3. PICK q : q = Begin(s, u, Job("abort", t))
  BY ZenonT(30)
<1>4. Calm(q) /\ q.thread[u].job.target = t /\ Running(q, u)
  <2>1. PICK op \in Ops : op = "abort"
    BY DEF Ops
  <2>2. q = Begin(s, u, Job(op, t))
    BY <1>3, <2>1, SMTT(30)
  <2> QED BY <1>2, <2>2, JobBegins, SMTT(30)
<1>5. PICK r : r = Halt(q, u, t)
  BY ZenonT(30)
<1>6. Calm(r)
  BY <1>4, <1>5, HaltCalm, SMTT(30)
<1>7. Becomes(r)
  BY <1>1, <1>3, <1>5, SMTT(30) DEF thread_abort
<1> QED BY <1>6, <1>7, CalmSound, BecomesSound, SMTT(30)

(* thread_terminate, up to the first wait of thread_halt. *)
LEMMA DoTerminate ==
  ASSUME Calm(Now), NEW u \in Threads, NEW t \in Threads, thread_terminate(u, t)
  PROVE  Sound(Now)'
<1>1. PICK s : s = Now
  BY Zenon
<1>2. Calm(s) /\ Running(s, u) /\ s.thread = thread
  BY <1>1, RunsRunning, NowFields, SMTT(30)
     DEF thread_terminate, MayName, MayCall
<1>3. PICK y : y = s.thread[t]
  BY Zenon
<1>4. y \in ThreadType /\ Local(y)
  BY <1>2, <1>3, CalmTyped, SMTT(30)
<1>5. PICK x : x = [y EXCEPT !.active = FALSE]
  BY Zenon
<1>6. x \in ThreadType
  BY <1>4, <1>5, ZenonT(30) DEF ThreadType
<1>7. /\ x.job = y.job /\ x.pc = y.pc /\ x.blocking = y.blocking
      /\ x.state = y.state /\ x.wait_event = y.wait_event
      /\ x.wake_active = y.wake_active /\ x.ast = y.ast
  BY <1>4, <1>5, SMTT(30) DEF ThreadType
<1>8. Mild(y, x)
  BY <1>4, <1>6, <1>7, SMTT(30) DEF Mild, Local
<1>9. CASE u = t
  <2>1. PICK z : z = [x EXCEPT !.ast = @ \cup {"TERMINATE"}]
    BY Zenon
  <2>2. x.ast \cup {"TERMINATE"} \in SUBSET {"HALT", "TERMINATE"}
    BY <1>6 DEF ThreadType
  <2>3. z \in ThreadType
    BY <1>6, <2>1, <2>2, ZenonT(30) DEF ThreadType
  <2>4. /\ z.job = x.job /\ z.pc = x.pc /\ z.blocking = x.blocking
        /\ z.state = x.state /\ z.wait_event = x.wait_event
        /\ z.wake_active = x.wake_active
    BY <1>6, <2>1, SMTT(30) DEF ThreadType
  <2>5. Mild(y, z)
    BY <1>4, <1>7, <2>3, <2>4, SMTT(30) DEF Mild, Local
  <2>6. PICK r : r = SetThread(s, t, z)
    BY Zenon
  <2>7. Calm(r)
    BY <1>2, <1>3, <2>5, <2>6, MildStep, SMTT(30)
  <2>8. Becomes(r)
    BY <1>1, <1>2, <1>3, <1>5, <1>9, <2>1, <2>6, ZenonT(30)
       DEF thread_terminate
  <2> QED BY <2>7, <2>8, CalmSound, BecomesSound
<1>10. CASE u # t
  <2>1. PICK p : p = SetThread(s, t, x)
    BY Zenon
  <2>2. Calm(p) /\ Keeps(s, p)
    BY <1>2, <1>3, <1>7, <1>8, <2>1, MildKeeps, SMTT(30)
  <2>3. Running(p, u)
    BY <1>2, <2>2, KeepsRunning, SMTT(30)
  <2>4. PICK q : q = Begin(p, u, Job("terminate", t))
    BY ZenonT(30)
  <2>5. Calm(q) /\ q.thread[u].job.target = t /\ Running(q, u)
    <3>1. PICK op \in Ops : op = "terminate"
      BY DEF Ops
    <3>2. q = Begin(p, u, Job(op, t))
      BY <2>4, <3>1, SMTT(30)
    <3> QED BY <2>2, <2>3, <3>2, JobBegins, SMTT(30)
  <2>6. PICK r : r = Halt(q, u, t)
    BY Zenon
  <2>7. Calm(r)
    BY <2>5, <2>6, HaltCalm
  <2>8. Becomes(r)
    BY <1>1, <1>2, <1>3, <1>5, <1>10, <2>1, <2>4, <2>6, ZenonT(30)
       DEF thread_terminate
  <2> QED BY <2>7, <2>8, CalmSound, BecomesSound
<1> QED BY <1>9, <1>10, SMTT(30)

(* A system call waits. *)
LEMMA DoWait ==
  ASSUME Calm(Now), NEW u \in Threads, NEW e \in Events, NEW i \in BOOLEAN,
         NEW n \in BOOLEAN, Wait(u, e, i, n)
  PROVE  Sound(Now)'
<1>1. PICK s : s = Now
  BY ZenonT(30)
<1>2. Calm(s) /\ Running(s, u)
  BY <1>1, RunsRunning, SMTT(30) DEF Wait, MayCall
<1>3. "kernel" \in PC /\ "kernel" \notin OnTarget
  BY SMTT(30) DEF PC, OnTarget
<1>4. e \in WaitEvents /\ e \notin Threads
  BY SchedAssumption DEF WaitEvents
<1>5. PICK a : a = assert_wait(s, u, e, i)
  BY Zenon
<1>6. PICK r : r = thread_block(a, u, "kernel", n)
  BY ZenonT(30)
<1>7. Calm(r)
  BY <1>2, <1>3, <1>4, <1>5, <1>6, WaitCalm, SMTT(30)
<1>8. Becomes(r)
  BY <1>1, <1>5, <1>6, SMTT(30) DEF Wait
<1> QED BY <1>7, <1>8, CalmSound, BecomesSound, SMTT(30)

(* reaper_thread_continue waits, or takes a thread from the queue. *)
LEMMA DoReaper ==
  ASSUME Calm(Now), reaper_queue \in SUBSET Threads, NEW u \in Threads,
         reaper_thread_continue(u)
  PROVE  Sound(Now)'
<1>1. PICK s : s = Now
  BY ZenonT(30)
<1>2. Calm(s) /\ Running(s, u)
  BY <1>1, RunsRunning, SMTT(30) DEF reaper_thread_continue
<1>3. "reaper" \in PC /\ "reaper" \notin OnTarget /\ "dowait" \in PC
  BY DEF PC, OnTarget
<1>4. "reaper_queue" \in WaitEvents /\ "reaper_queue" \notin Threads
  BY SchedAssumption, SMTT(30) DEF WaitEvents
<1>5. CASE Becomes(thread_block(assert_wait(s, u, "reaper_queue", FALSE),
                                u, "reaper", FALSE))
  <2>1. PICK i \in BOOLEAN : i = FALSE
    BY Zenon
  <2>2. PICK a : a = assert_wait(s, u, "reaper_queue", i)
    BY Zenon
  <2>3. PICK r : r = thread_block(a, u, "reaper", i)
    BY ZenonT(30)
  <2>4. Calm(r)
    BY <1>2, <1>3, <1>4, <2>2, <2>3, WaitCalm, SMTT(30)
  <2>5. Becomes(r)
    BY <1>5, <2>1, <2>2, <2>3, ZenonT(30)
  <2> QED BY <2>4, <2>5, CalmSound, BecomesSound, SMTT(30)
<1>6. CASE \E t \in reaper_queue :
             Becomes(Goto(Begin(s, u, Job("reap", t)), u, "dowait"))
  <2>1. PICK t \in Threads :
          Becomes(Goto(Begin(s, u, Job("reap", t)), u, "dowait"))
    BY <1>6
  <2>2. PICK q : q = Begin(s, u, Job("reap", t))
    BY ZenonT(30)
  <2>3. Calm(q) /\ q.thread[u].job.target = t
    <3>1. PICK op \in Ops : op = "reap"
      BY DEF Ops
    <3>2. q = Begin(s, u, Job(op, t))
      BY <2>2, <3>1, SMTT(30)
    <3> QED BY <1>2, <3>2, JobBegins, SMTT(30)
  <2>4. PICK r : r = Goto(q, u, "dowait")
    BY Zenon
  <2>5. Calm(r)
    BY <1>3, <2>3, <2>4, GotoCalm, ZenonT(30)
  <2> QED BY <2>1, <2>2, <2>4, <2>5, CalmSound, BecomesSound, SMTT(30)
<1> QED BY <1>1, <1>5, <1>6, ZenonT(30) DEF reaper_thread_continue

(* An event occurs. *)
LEMMA DoOccurs ==
  ASSUME Calm(Now), NEW e \in Events, Occurs(e) PROVE Sound(Now)'
<1>1. PICK r : r = thread_wakeup_prim(Now, e, "awakened")
  BY Zenon
<1>2. e # None
  BY NoneApart, SMTT(30)
<1>3. Calm(r)
  BY <1>1, <1>2, WakeupCalm, SMTT(30)
<1> QED BY <1>1, <1>3, CalmSound, BecomesSound, SMTT(30) DEF Occurs

=============================================================================
