---------------------------- MODULE SchedLemmas -----------------------------
(***************************************************************************)
(* What the routines of Sched do to a state: the lemmas on which the       *)
(* proofs about the scheduler rest.                                        *)
(*                                                                         *)
(* The invariant of a state s without a panic is Calm(s).  Its parts hold  *)
(* each other up:                                                          *)
(*   Placed    each thread is TH_RUN exactly while it is somewhere, and    *)
(*             then in one place only;                                     *)
(*   Local     TH_WAIT goes with a wait_event;                             *)
(*   Awake     a thread that can be picked to run, or executes, does not   *)
(*             wait; so assert_wait finds no earlier wait, and a waiting   *)
(*             thread that is TH_RUN is on its way out of its processor;   *)
(*   Promised  only a dispatching processor has a next_thread, so an idle  *)
(*             one can be given a thread without losing another;           *)
(*   WakeLast  a processor that has a thread to dispatch has no earlier    *)
(*             wakeup to finish, so thread_dispatch overwrites none;       *)
(*   Sleepers  whoever sleeps on the wake_active of a thread is known.     *)
(* Core is all of it but Sleepers, which does not hold between the moment  *)
(* a processor turns to its wakeup and the end of thread_wakeup_prim.      *)
(*                                                                         *)
(* An update of the state is kept behind an operator (SetThread, SetRunq,  *)
(* ...) and its result behind a name, so that a proof sees of it what the  *)
(* update lemmas say.                                                      *)
(***************************************************************************)
EXTENDS Sched, FoldInduction

(* What the record Now may be. *)
States == [thread : [Threads -> ThreadType], runq : SUBSET Threads,
           cpu : [Cpus -> CpuType], panic : Panics]

(* THREAD_NULL is no thread and event 0 no event. *)
LEMMA NoneApart == None \notin Threads /\ None \notin Events
                   /\ None # "reaper_queue"
  BY SchedAssumption

-----------------------------------------------------------------------------
(* What an update of one component of the state leaves alone. *)
SetRunq(s, x) == [s EXCEPT !.runq = x]
SetPanic(s, x) == [s EXCEPT !.panic = x]

(* Writing one thread touches nothing else of the state. *)
LEMMA ThreadUpdate ==
  ASSUME NEW s \in States, NEW t \in Threads, NEW x \in ThreadType,
         NEW r, r = SetThread(s, t, x)
  PROVE  /\ r \in States /\ r.thread[t] = x
         /\ \A u \in Threads : u # t => r.thread[u] = s.thread[u]
         /\ r.runq = s.runq /\ r.cpu = s.cpu /\ r.panic = s.panic
<1>1. r \in States
  BY Zenon DEF States, SetThread
<1> QED BY <1>1 DEF States, SetThread

(* Of two writes of one thread the second counts. *)
LEMMA ThreadUpdates ==
  ASSUME NEW s \in States, NEW t \in Threads, NEW x, NEW y
  PROVE  SetThread(SetThread(s, t, x), t, y) = SetThread(s, t, y)
  BY Zenon DEF States, SetThread

(* Writing one processor touches nothing else of the state. *)
LEMMA CpuUpdate ==
  ASSUME NEW s \in States, NEW c \in Cpus, NEW x \in CpuType,
         NEW r, r = SetCpu(s, c, x)
  PROVE  /\ r \in States /\ r.cpu[c] = x
         /\ \A d \in Cpus : d # c => r.cpu[d] = s.cpu[d]
         /\ r.runq = s.runq /\ r.thread = s.thread /\ r.panic = s.panic
<1>1. r \in States
  BY Zenon DEF States, SetCpu
<1> QED BY <1>1 DEF States, SetCpu

(* Writing the run queue touches nothing else of the state. *)
LEMMA RunqUpdate ==
  ASSUME NEW s \in States, NEW x \in SUBSET Threads,
         NEW r, r = SetRunq(s, x)
  PROVE  /\ r \in States /\ r.runq = x
         /\ r.cpu = s.cpu /\ r.thread = s.thread /\ r.panic = s.panic
<1>1. r \in States
  BY Zenon DEF States, SetRunq
<1> QED BY <1>1 DEF States, SetRunq

(* A panic touches nothing else of the state. *)
LEMMA PanicUpdate ==
  ASSUME NEW s \in States, NEW x \in Panics, NEW r, r = SetPanic(s, x)
  PROVE  /\ r \in States /\ r.panic = x
         /\ r.cpu = s.cpu /\ r.thread = s.thread /\ r.runq = s.runq
<1>1. r \in States
  BY Zenon DEF States, SetPanic
<1> QED BY <1>1 DEF States, SetPanic

-----------------------------------------------------------------------------
(* t is at processor c, in one way or another. *)
In(s, t, c) == s.cpu[c].cur = t \/ s.cpu[c].old = t \/ s.cpu[c].next = t

Nowhere(s, t) == t \notin s.runq /\ \A c \in Cpus : ~In(s, t, c)

(* t is in one place if it is TH_RUN, and otherwise in none. *)
Placed(s, t) ==
  /\ "RUN" \in s.thread[t].state <=> ~Nowhere(s, t)
  /\ \A c \in Cpus : In(s, t, c) => t \notin s.runq
  /\ \A c, d \in Cpus : In(s, t, c) /\ In(s, t, d) => c = d
  /\ \A c \in Cpus : /\ ~(s.cpu[c].cur = t /\ s.cpu[c].old = t)
                     /\ ~(s.cpu[c].cur = t /\ s.cpu[c].next = t)
                     /\ ~(s.cpu[c].old = t /\ s.cpu[c].next = t)

(* Only thread_setrun promises a processor a thread, and it dispatches it. *)
Promised(s) ==
  \A c \in Cpus : s.cpu[c].status = "dispatching" <=> s.cpu[c].next # None

(* A processor finishes the wakeup of one thread_dispatch before the next. *)
WakeLast(s) == \A c \in Cpus : s.cpu[c].old # None => s.cpu[c].wake = None

(* A thread that can be run, or runs and is not blocking, does not wait. *)
Awake(s) ==
  \A t \in Threads : "WAIT" \in s.thread[t].state =>
    /\ t \notin s.runq
    /\ \A c \in Cpus : /\ s.cpu[c].next # t
                       /\ s.cpu[c].cur = t => s.thread[t].blocking

(* Where a thread works on another one. *)
OnTarget == {"halt_woke", "halt_again", "dowait", "dowait_woke", "failed",
             "release", "clear", "cleared", "stopped", "held", "reaped"}

(* TH_WAIT goes with an event, and whoever works on a thread knows which. *)
Local(x) == /\ "WAIT" \in x.state <=> x.wait_event # None
            /\ x.pc \in OnTarget => x.job.target \in Threads

Core(s) == /\ s \in States /\ s.panic = "none"
           /\ \A t \in Threads : Placed(s, t) /\ Local(s.thread[t])
           /\ Promised(s) /\ WakeLast(s) /\ Awake(s)

(***************************************************************************)
(* What thread_setrun does with a thread that is not on the run queue: it  *)
(* is promised to one idle processor, or queued.                           *)
(***************************************************************************)
LEMMA SetrunEffect ==
  ASSUME NEW s \in States, NEW t \in Threads, t \notin s.runq,
         NEW r, r = thread_setrun(s, t)
  PROVE  /\ r \in States
         /\ r.thread = s.thread
         /\ r.panic = s.panic
         /\ \A c \in Cpus : /\ r.cpu[c].cur = s.cpu[c].cur
                            /\ r.cpu[c].old = s.cpu[c].old
                            /\ r.cpu[c].wake = s.cpu[c].wake
         /\ \/ /\ r.runq = s.runq
               /\ \E c \in Cpus :
                    /\ s.cpu[c].status = "idle"
                    /\ r.cpu[c].next = t /\ r.cpu[c].status = "dispatching"
                    /\ \A d \in Cpus : d # c => r.cpu[d] = s.cpu[d]
            \/ r.runq = s.runq \cup {t} /\ r.cpu = s.cpu
<1> DEFINE idle == {c \in Cpus : s.cpu[c].status = "idle"}
<1>1. CASE idle = {}
  <2>1. PICK q : q = s.runq \cup {t}
    BY Zenon
  <2>2. q \in SUBSET Threads
    BY <2>1 DEF States
  <2>3. r = SetRunq(s, q)
    BY <1>1, <2>1, Zenon DEF thread_setrun, SetRunq
  <2> QED BY <2>1, <2>2, <2>3, RunqUpdate
<1>2. CASE idle # {}
  <2>1. PICK c \in idle : c = CHOOSE d \in idle : TRUE
    BY <1>2
  <2>2. c \in Cpus /\ s.cpu[c].status = "idle" /\ s.cpu[c] \in CpuType
    BY <2>1 DEF States
  <2>3. PICK x : x = [s.cpu[c] EXCEPT !.next = t, !.status = "dispatching"]
    BY Zenon
  <2>4. r = SetCpu(s, c, x)
    BY <1>2, <2>1, <2>3, Zenon DEF thread_setrun, SetCpu
  <2>5. x \in CpuType
    BY <2>2, <2>3, Zenon DEF CpuType
  <2>6. /\ x.next = t /\ x.status = "dispatching" /\ x.cur = s.cpu[c].cur
        /\ x.old = s.cpu[c].old /\ x.wake = s.cpu[c].wake
    BY <2>2, <2>3 DEF CpuType
  <2>7. /\ r \in States /\ r.cpu[c] = x
        /\ \A d \in Cpus : d # c => r.cpu[d] = s.cpu[d]
        /\ r.runq = s.runq /\ r.thread = s.thread /\ r.panic = s.panic
    BY <2>2, <2>4, <2>5, CpuUpdate, SMTT(30)
  <2> QED BY <2>2, <2>6, <2>7
<1> QED BY <1>1, <1>2

(***************************************************************************)
(* thread_setrun puts a runnable thread that is nowhere in one place, and  *)
(* leaves every other one where it is.                                     *)
(***************************************************************************)
LEMMA SetrunCore ==
  ASSUME NEW s, NEW t \in Threads, s \in States, s.panic = "none",
         Promised(s), WakeLast(s), Awake(s),
         \A u \in Threads : Local(s.thread[u]),
         \A u \in Threads : u # t => Placed(s, u),
         "RUN" \in s.thread[t].state, Nowhere(s, t),
         "WAIT" \notin s.thread[t].state,
         NEW r, r = thread_setrun(s, t)
  PROVE  Core(r) /\ r.thread = s.thread
         /\ \A c \in Cpus : /\ r.cpu[c].cur = s.cpu[c].cur
                            /\ r.cpu[c].old = s.cpu[c].old
                            /\ r.cpu[c].wake = s.cpu[c].wake
<1>1. t \notin s.runq
  BY DEF Nowhere
<1>2. /\ r \in States
      /\ r.thread = s.thread
      /\ r.panic = s.panic
      /\ \A c \in Cpus : /\ r.cpu[c].cur = s.cpu[c].cur
                         /\ r.cpu[c].old = s.cpu[c].old
                         /\ r.cpu[c].wake = s.cpu[c].wake
      /\ \/ /\ r.runq = s.runq
            /\ \E c \in Cpus :
                 /\ s.cpu[c].status = "idle"
                 /\ r.cpu[c].next = t /\ r.cpu[c].status = "dispatching"
                 /\ \A d \in Cpus : d # c => r.cpu[d] = s.cpu[d]
         \/ r.runq = s.runq \cup {t} /\ r.cpu = s.cpu
  BY <1>1, SetrunEffect
<1>3. Promised(r)
  BY <1>2, NoneApart, SMTT(30) DEF Promised
<1>4. Placed(r, t)
  BY <1>2, NoneApart, SMTT(30) DEF Promised, Placed, Nowhere, In
<1>5. ASSUME NEW u \in Threads, u # t PROVE Placed(r, u)
  <2>1. Placed(s, u)
    BY <1>5
  <2>2. u \in r.runq <=> u \in s.runq
    BY <1>2, <1>5
  <2>3. \A c \in Cpus : r.cpu[c].next = u <=> s.cpu[c].next = u
    BY <1>2, <1>5, NoneApart, SMTT(30) DEF Promised
  <2> QED BY <1>2, <2>1, <2>2, <2>3 DEF Placed, In, Nowhere
<1>6. WakeLast(r)
  BY <1>2, SMTT(30) DEF WakeLast
<1>7. Awake(r)
  BY <1>2 DEF Awake
<1> QED BY <1>2, <1>3, <1>4, <1>5, <1>6, <1>7 DEF Core

(* A change of the fields of one thread that leaves TH_RUN as it is. *)
LEMMA ThreadStep ==
  ASSUME NEW s, Core(s), NEW t \in Threads, NEW x \in ThreadType,
         "RUN" \in x.state <=> "RUN" \in s.thread[t].state, Local(x),
         "WAIT" \in x.state =>
           \/ "WAIT" \in s.thread[t].state
              /\ (s.thread[t].blocking => x.blocking)
           \/ x.blocking /\ \E c \in Cpus : s.cpu[c].cur = t,
         NEW r, r = SetThread(s, t, x)
  PROVE  /\ Core(r) /\ r.thread[t] = x
         /\ \A u \in Threads : u # t => r.thread[u] = s.thread[u]
         /\ r.runq = s.runq /\ r.cpu = s.cpu
<1>1. s \in States /\ s.panic = "none"
  BY DEF Core
<1>2. /\ r \in States /\ r.thread[t] = x
      /\ \A u \in Threads : u # t => r.thread[u] = s.thread[u]
      /\ r.runq = s.runq /\ r.cpu = s.cpu /\ r.panic = s.panic
  BY <1>1, ThreadUpdate, SMTT(30)
<1>3. ASSUME NEW u \in Threads PROVE Placed(r, u)
  <2>1. Placed(s, u)
    BY DEF Core
  <2>2. "RUN" \in r.thread[u].state <=> "RUN" \in s.thread[u].state
    BY <1>2
  <2> QED BY <1>2, <2>1, <2>2 DEF Placed, In, Nowhere
<1>4. \A u \in Threads : Local(r.thread[u])
  BY <1>2 DEF Core
<1>5. Promised(r) /\ WakeLast(r)
  BY <1>2 DEF Core, Promised, WakeLast
<1>6. Awake(r)
  <2>1. Awake(s) /\ Placed(s, t)
    BY DEF Core
  <2>2. ASSUME NEW u \in Threads, u # t, "WAIT" \in r.thread[u].state
        PROVE  /\ u \notin r.runq
               /\ \A c \in Cpus : /\ r.cpu[c].next # u
                                  /\ r.cpu[c].cur = u => r.thread[u].blocking
    BY <1>2, <2>1, <2>2, SMTT(30) DEF Awake
  <2>3. ASSUME "WAIT" \in x.state
        PROVE  /\ t \notin r.runq
               /\ \A c \in Cpus : /\ r.cpu[c].next # t
                                  /\ r.cpu[c].cur = t => x.blocking
    BY <1>2, <2>1, <2>3, SMTT(30) DEF Awake, Placed, In
  <2> QED BY <1>2, <2>2, <2>3 DEF Awake
<1> QED BY <1>1, <1>2, <1>3, <1>4, <1>5, <1>6 DEF Core

(* A thread that is not TH_RUN becomes it, and thread_setrun places it. *)
LEMMA Start ==
  ASSUME NEW s, Core(s), NEW t \in Threads, NEW x \in ThreadType,
         "RUN" \notin s.thread[t].state, "RUN" \in x.state,
         "WAIT" \notin x.state, Local(x),
         NEW w, w = SetThread(s, t, x), NEW r, r = thread_setrun(w, t)
  PROVE  /\ Core(r) /\ r.thread[t] = x
         /\ \A u \in Threads : u # t => r.thread[u] = s.thread[u]
         /\ \A c \in Cpus : /\ r.cpu[c].cur = s.cpu[c].cur
                            /\ r.cpu[c].old = s.cpu[c].old
                            /\ r.cpu[c].wake = s.cpu[c].wake
<1>1. s \in States /\ s.panic = "none"
  BY DEF Core
<1>2. /\ w \in States /\ w.thread[t] = x
      /\ \A u \in Threads : u # t => w.thread[u] = s.thread[u]
      /\ w.runq = s.runq /\ w.cpu = s.cpu /\ w.panic = s.panic
  BY <1>1, ThreadUpdate
<1>3. Promised(w) /\ WakeLast(w)
  BY <1>2 DEF Core, Promised, WakeLast
<1>4. Awake(w)
  BY <1>2 DEF Core, Awake
<1>5. \A u \in Threads : Local(w.thread[u])
  BY <1>2, SMTT(30) DEF Core
<1>6. ASSUME NEW u \in Threads, u # t PROVE Placed(w, u)
  <2>1. Placed(s, u)
    BY DEF Core
  <2> QED BY <1>2, <1>6, <2>1 DEF Placed, In, Nowhere
<1>7. Nowhere(w, t)
  <2>1. Placed(s, t)
    BY DEF Core
  <2> QED BY <1>2, <2>1 DEF Placed, In, Nowhere
<1>8. /\ Core(r) /\ r.thread = w.thread
      /\ \A c \in Cpus : /\ r.cpu[c].cur = w.cpu[c].cur
                         /\ r.cpu[c].old = w.cpu[c].old
                         /\ r.cpu[c].wake = w.cpu[c].wake
  BY <1>1, <1>2, <1>3, <1>4, <1>5, <1>6, <1>7, SetrunCore, SMTT(30)
<1> QED BY <1>2, <1>8

-----------------------------------------------------------------------------
(* What a wakeup leaves of the fields x of a thread. *)
Woken(x, y) == /\ y.wait_event = None
               /\ y.state \ {"RUN"} = x.state \ {"WAIT", "RUN"}
               /\ y.wake_active = x.wake_active
               /\ y.suspend_count = x.suspend_count
               /\ y.user_stop_count = x.user_stop_count
               /\ y.ast = x.ast /\ y.active = x.active /\ y.clean = x.clean
               /\ y.pc = x.pc /\ y.blocking = x.blocking /\ y.job = x.job
               /\ y.dead = x.dead

(***************************************************************************)
(* The end of one wait: the sleeper is started unless it is suspended or   *)
(* has not left its processor yet, and nobody else is touched.             *)
(***************************************************************************)
LEMMA EndWaitCore ==
  ASSUME NEW s, Core(s), NEW t \in Threads, s.thread[t].wait_event # None,
         NEW result \in {"awakened", "interrupted"},
         NEW r, r = EndWait(NoEvent(s, t), t, result)
  PROVE  /\ Core(r) /\ Woken(s.thread[t], r.thread[t])
         /\ \A u \in Threads : u # t => r.thread[u] = s.thread[u]
         /\ \A c \in Cpus : /\ r.cpu[c].cur = s.cpu[c].cur
                            /\ r.cpu[c].old = s.cpu[c].old
                            /\ r.cpu[c].wake = s.cpu[c].wake
<1>1. PICK x : x = s.thread[t]
  BY Zenon
<1>2. s \in States /\ x \in ThreadType /\ Local(x) /\ "WAIT" \in x.state
  BY <1>1 DEF Core, States, Local
<1>3. PICK f : f = x.state \ {"WAIT"}
  BY Zenon
<1>4. PICK y : y = [x EXCEPT !.wait_event = None]
  BY Zenon
<1>5. PICK z : z = [y EXCEPT !.wait_result = result, !.state = f]
  BY Zenon
<1>6. PICK v : v = SetThread(s, t, y)
  BY Zenon
<1>7. f \in SUBSET Flags /\ f \cup {"RUN"} \in SUBSET Flags
  BY <1>2, <1>3 DEF ThreadType, Flags
<1>8. y \in ThreadType
  BY <1>2, <1>4, Zenon DEF ThreadType
<1>9. z \in ThreadType
  BY <1>5, <1>7, <1>8, Zenon DEF ThreadType
<1>10. Woken(x, z) /\ y.state = x.state /\ z.state = f
  BY <1>2, <1>3, <1>4, <1>5 DEF ThreadType, Woken
<1>11. v \in States /\ v.thread[t] = y
  BY <1>2, <1>6, <1>8, ThreadUpdate, SMTT(30)
<1>12. Local(z)
  BY <1>2, <1>3, <1>10 DEF Local, Woken
<1>13. r = EndWait(v, t, result)
  BY <1>1, <1>4, <1>6, Zenon DEF NoEvent
<1>14. CASE "RUN" \in x.state \/ Suspendable(x.state)
  <2>1. r = SetThread(v, t, z)
    BY <1>3, <1>5, <1>10, <1>11, <1>13, <1>14, ZenonT(30) DEF EndWait
  <2>2. r = SetThread(s, t, z)
    BY <1>2, <1>6, <2>1, ThreadUpdates, SMTT(30)
  <2>3. "RUN" \in z.state <=> "RUN" \in s.thread[t].state
    BY <1>1, <1>3, <1>10, SMTT(30)
  <2>4. "WAIT" \notin z.state
    BY <1>3, <1>10, SMTT(30)
  <2>5. /\ Core(r) /\ r.thread[t] = z
        /\ \A u \in Threads : u # t => r.thread[u] = s.thread[u]
        /\ r.runq = s.runq /\ r.cpu = s.cpu
    BY <1>9, <1>12, <2>2, <2>3, <2>4, ThreadStep, SMTT(30)
  <2> QED BY <1>1, <1>10, <2>5
<1>15. CASE "RUN" \notin x.state /\ ~Suspendable(x.state)
  <2>1. PICK z2 : z2 = [z EXCEPT !.state = f \cup {"RUN"}]
    BY Zenon
  <2>2. r = thread_setrun(SetThread(v, t, z2), t)
    BY <1>3, <1>5, <1>10, <1>11, <1>13, <1>15, <2>1, ZenonT(30) DEF EndWait
  <2>3. SetThread(v, t, z2) = SetThread(s, t, z2)
    BY <1>2, <1>6, ThreadUpdates
  <2>4. PICK w2 : w2 = SetThread(s, t, z2)
    BY Zenon
  <2>5. z2 \in ThreadType
    BY <1>7, <1>9, <2>1, Zenon DEF ThreadType
  <2>6. Woken(x, z2) /\ Local(z2) /\ z2.state = f \cup {"RUN"}
    BY <1>3, <1>9, <1>10, <1>12, <2>1, SMTT(30) DEF ThreadType, Woken, Local
  <2>7. "WAIT" \notin z2.state /\ "RUN" \in z2.state
    BY <1>3, <2>6
  <2>8. "RUN" \notin s.thread[t].state
    BY <1>1, <1>15, SMTT(30)
  <2>9. /\ Core(r) /\ r.thread[t] = z2
        /\ \A u \in Threads : u # t => r.thread[u] = s.thread[u]
        /\ \A c \in Cpus : /\ r.cpu[c].cur = s.cpu[c].cur
                           /\ r.cpu[c].old = s.cpu[c].old
                           /\ r.cpu[c].wake = s.cpu[c].wake
    BY <2>2, <2>3, <2>4, <2>5, <2>6, <2>7, <2>8, Start, SMTT(30)
  <2> QED BY <1>1, <2>6, <2>9
<1> QED BY <1>14, <1>15

(* thread_setrun returns a state, whatever it is given ... *)
LEMMA SetrunTyped ==
  ASSUME NEW s \in States, NEW t \in Threads PROVE thread_setrun(s, t) \in States
<1>1. CASE t \in s.runq
  <2>1. thread_setrun(s, t) = SetPanic(s, "setrun")
    BY <1>1, Zenon DEF thread_setrun, SetPanic
  <2> QED BY <2>1, PanicUpdate DEF Panics
<1>2. CASE t \notin s.runq
  BY <1>2, SetrunEffect
<1> QED BY <1>1, <1>2

(* ... and so does a pass through the loop of thread_wakeup_prim. *)
LEMMA WakeOneTyped ==
  ASSUME NEW s \in States, NEW t \in Threads,
         NEW result \in {"awakened", "interrupted"}
  PROVE  WakeOne(s, t, result) \in States
<1>1. PICK x : x = s.thread[t]
  BY Zenon
<1>2. x \in ThreadType
  BY <1>1 DEF States
<1>3. PICK f : f = x.state \ {"WAIT"}
  BY Zenon
<1>4. PICK y : y = [x EXCEPT !.wait_event = None]
  BY Zenon
<1>5. PICK z : z = [y EXCEPT !.wait_result = result, !.state = f]
  BY Zenon
<1>6. PICK z2 : z2 = [z EXCEPT !.state = f \cup {"RUN"}]
  BY Zenon
<1>7. f \in SUBSET Flags /\ f \cup {"RUN"} \in SUBSET Flags
  BY <1>2, <1>3 DEF ThreadType, Flags
<1>8. y \in ThreadType
  BY <1>2, <1>4, Zenon DEF ThreadType
<1>9. z \in ThreadType
  BY <1>5, <1>7, <1>8, Zenon DEF ThreadType
<1>10. z2 \in ThreadType
  BY <1>6, <1>7, <1>9, Zenon DEF ThreadType
<1>11. y.state = x.state /\ z.state = f
  BY <1>2, <1>3, <1>4, <1>5 DEF ThreadType
<1>12. PICK v : v = SetThread(s, t, y)
  BY Zenon
<1>13. v \in States /\ v.thread[t] = y
  BY <1>8, <1>12, ThreadUpdate, SMTT(30)
<1>14. SetThread(v, t, z) \in States /\ SetThread(v, t, z2) \in States
  BY <1>9, <1>10, <1>13, ThreadUpdate
<1>15. v = NoEvent(s, t)
  BY <1>1, <1>4, <1>12, Zenon DEF NoEvent
<1>16. EndWait(v, t, result)
         \in {SetThread(v, t, z), thread_setrun(SetThread(v, t, z2), t)}
  BY <1>3, <1>5, <1>6, <1>11, <1>13, ZenonT(30) DEF EndWait
<1>17. EndWait(v, t, result) \in States
  BY <1>14, <1>16, SetrunTyped
<1>18. SetPanic(s, "wakeup") \in States
  BY PanicUpdate DEF Panics
<1>19. WakeOne(s, t, result) \in {SetPanic(s, "wakeup"), EndWait(v, t, result)}
  BY <1>15, Zenon DEF WakeOne, SetPanic
<1> QED BY <1>17, <1>18, <1>19

WaitsFor(s, event) == {t \in Threads : s.thread[t].wait_event = event}

(* The loop of thread_wakeup_prim, one thread at a time. *)
WakesAll(f, s, S, result) ==
  /\ f[{}] = s
  /\ \A T \in SUBSET S : T # {} =>
       f[T] = WakeOne(f[T \ {One(T)}], One(T), result)

(***************************************************************************)
(* thread_wakeup_prim is the last value of a function that wakes the       *)
(* waiting threads one by one: the fold, unfolded.                         *)
(***************************************************************************)
LEMMA WakeupLoop ==
  ASSUME NEW s \in States, NEW event, NEW result \in {"awakened", "interrupted"},
         NEW S, S = WaitsFor(s, event)
  PROVE  \E f : /\ thread_wakeup_prim(s, event, result) = f[S]
                /\ WakesAll(f, s, S, result)
<1> DEFINE op == [z \in S \X States |-> WakeOne(z[2], z[1], result)]
<1> DEFINE Eq(f) == f = [T \in SUBSET S |->
                 IF T = {} THEN s ELSE WakeOne(f[T \ {One(T)}], One(T), result)]
<1> DEFINE f0 == CHOOSE f : Eq(f)
<1>1. thread_wakeup_prim(s, event, result) = f0[S]
  BY Zenon DEF thread_wakeup_prim, FoldSet, MapThenFoldSet, One, WaitsFor
<1>2. IsFiniteSet(S) /\ S \subseteq Threads
  BY SchedAssumption, FS_Subset DEF WaitsFor
<1>3. PICK g : FoldsOver(g, op, s, S)
  BY <1>2, FoldsExists
<1>4. \A T \in SUBSET S : g[T] \in States
  <2> DEFINE F == {T \in SUBSET S : g[T] \in States}
  <2>1. ASSUME NEW T \in SUBSET S, \A U \in SUBSET T : U # T => U \in F
        PROVE  T \in F
    <3>1. CASE T = {}
      BY <1>3, <3>1 DEF FoldsOver
    <3>2. CASE T # {}
      <4>1. PICK U : U = T \ {One(T)}
        BY Zenon
      <4>2. One(T) \in S /\ U \in SUBSET T /\ U # T /\ g[U] \in States
        BY <2>1, <3>2, <4>1, OneIn, SMTT(30)
      <4>3. g[T] = op[One(T), g[U]]
        BY <1>3, <3>2, <4>1 DEF FoldsOver
      <4>4. g[T] = WakeOne(g[U], One(T), result)
        BY <4>2, <4>3
      <4>5. One(T) \in Threads
        BY <1>2, <4>2
      <4> QED BY <4>2, <4>4, <4>5, WakeOneTyped
    <3> QED BY <3>1, <3>2
  <2>2. \A T \in SUBSET S : T \in F
    <3> HIDE DEF F
    <3> QED BY <1>2, <2>1, SubsetInduction
  <2> QED BY <2>2
<1>5. Eq(g)
  <2>1. ASSUME NEW T \in SUBSET S, T # {}
        PROVE  g[T] = WakeOne(g[T \ {One(T)}], One(T), result)
    <3>1. PICK U : U = T \ {One(T)}
      BY Zenon
    <3>2. One(T) \in S /\ U \in SUBSET T /\ g[U] \in States
      BY <1>4, <2>1, <3>1, OneIn, SMTT(30)
    <3>3. g[T] = op[One(T), g[U]]
      BY <1>3, <2>1, <3>1 DEF FoldsOver
    <3> QED BY <3>1, <3>2, <3>3, ZenonT(30)
  <2>2. g[{}] = s /\ g = [T \in SUBSET S |-> g[T]]
    BY <1>3 DEF FoldsOver
  <2> HIDE DEF op
  <2> QED BY <2>1, <2>2, Zenon
<1>6. Eq(f0)
  BY <1>5, Zenon
<1> HIDE DEF f0
<1>7. WakesAll(f0, s, S, result)
  BY <1>6, ZenonT(30) DEF WakesAll
<1> QED BY <1>1, <1>7

(* Whoever waits for the event is woken, and nobody else is touched. *)
LEMMA WakeupCore ==
  ASSUME NEW s, Core(s), NEW event, event # None,
         NEW result \in {"awakened", "interrupted"},
         NEW r, r = thread_wakeup_prim(s, event, result)
  PROVE  /\ Core(r)
         /\ \A u \in Threads : IF s.thread[u].wait_event = event
                               THEN Woken(s.thread[u], r.thread[u])
                               ELSE r.thread[u] = s.thread[u]
         /\ \A c \in Cpus : /\ r.cpu[c].cur = s.cpu[c].cur
                            /\ r.cpu[c].old = s.cpu[c].old
                            /\ r.cpu[c].wake = s.cpu[c].wake
<1>1. s \in States
  BY DEF Core
<1>0. PICK S : S = WaitsFor(s, event)
  BY Zenon
<1>2. PICK f : r = f[S] /\ WakesAll(f, s, S, result)
  BY <1>0, <1>1, WakeupLoop, SMTT(30)
<1> DEFINE P(q, T) ==
      /\ Core(q)
      /\ \A u \in Threads : IF u \in T THEN Woken(s.thread[u], q.thread[u])
                            ELSE q.thread[u] = s.thread[u]
      /\ \A c \in Cpus : /\ q.cpu[c].cur = s.cpu[c].cur
                         /\ q.cpu[c].old = s.cpu[c].old
                         /\ q.cpu[c].wake = s.cpu[c].wake
<1> DEFINE F == {T \in SUBSET S : P(f[T], T)}
<1>3. ASSUME NEW T \in SUBSET S, \A U \in SUBSET T : U # T => U \in F
      PROVE  T \in F
  <2>1. CASE T = {}
    BY <1>2, <2>1, SMTT(30) DEF WakesAll
  <2>2. CASE T # {}
    <3>1. PICK t : t = One(T)
      BY Zenon
    <3>2. PICK U : U = T \ {t}
      BY Zenon
    <3>3. t \in T /\ U \in SUBSET T /\ U # T /\ t \in Threads
      BY <1>0, <2>2, <3>1, <3>2, OneIn DEF WaitsFor
    <3>4. PICK q : q = f[U]
      BY ZenonT(30)
    <3>5. P(q, U)
      BY <1>3, <3>3, <3>4
    <3>6. f[T] = WakeOne(q, t, result)
      BY <1>2, <2>2, <3>1, <3>2, <3>4, SMTT(30) DEF WakesAll
    <3>7. q.thread[t] = s.thread[t] /\ s.thread[t].wait_event = event
      BY <1>0, <3>2, <3>3, <3>5, SMTT(30) DEF WaitsFor
    <3>8. "WAIT" \in q.thread[t].state
      BY <3>3, <3>5, <3>7 DEF Core, Local
    <3>9. f[T] = EndWait(NoEvent(q, t), t, result)
      BY <3>6, <3>8, Zenon DEF WakeOne
    <3>10. PICK v : v = f[T]
      BY ZenonT(30)
    <3>11. /\ Core(v) /\ Woken(q.thread[t], v.thread[t])
           /\ \A u \in Threads : u # t => v.thread[u] = q.thread[u]
           /\ \A c \in Cpus : /\ v.cpu[c].cur = q.cpu[c].cur
                              /\ v.cpu[c].old = q.cpu[c].old
                              /\ v.cpu[c].wake = q.cpu[c].wake
      <4>1. Core(q) /\ q.thread[t].wait_event # None
        BY <3>5, <3>7, SMTT(30)
      <4> HIDE DEF P, F
      <4> QED BY <3>3, <3>9, <3>10, <4>1, EndWaitCore, SMTT(30)
    <3>12. P(v, T)
      <4>1. \A u \in Threads : u \in T <=> u = t \/ u \in U
        BY <3>2, <3>3, SMTT(30)
      <4>2. ASSUME NEW u \in Threads
            PROVE  IF u \in T THEN Woken(s.thread[u], v.thread[u])
                   ELSE v.thread[u] = s.thread[u]
        BY <3>2, <3>3, <3>5, <3>7, <3>11, <4>1, SMTT(30)
      <4> QED BY <3>5, <3>11, <4>2
    <3> QED BY <3>10, <3>12
  <2> QED BY <2>1, <2>2, SMTT(30)
<1>4. IsFiniteSet(S)
  BY <1>0, SchedAssumption, FS_Subset DEF WaitsFor
<1>5. S \in F
  <2> HIDE DEF F
  <2> QED BY <1>3, <1>4, SubsetInduction, SMTT(30)
<1>6. P(r, S)
  BY <1>2, <1>5
<1>7. \A u \in Threads : u \in S <=> s.thread[u].wait_event = event
  BY <1>0 DEF WaitsFor
<1> QED BY <1>6, <1>7

-----------------------------------------------------------------------------
(* SleeperIsKnown, of a state. *)
Sleepers(s) ==
  \A u, t \in Threads : s.thread[u].wait_event = t =>
    s.thread[t].wake_active \/ \E c \in Cpus : s.cpu[c].wake = t

Calm(s) == Core(s) /\ Sleepers(s)

(* A change of a thread that concerns neither its place nor its wait. *)
Mild(x, y) == /\ y \in ThreadType
              /\ y.wait_event = x.wait_event
              /\ "RUN" \in y.state <=> "RUN" \in x.state
              /\ "WAIT" \in y.state <=> "WAIT" \in x.state
              /\ x.wake_active => y.wake_active
              /\ x.blocking => y.blocking
              /\ y.pc \in OnTarget => y.job.target \in Threads

(* Such a change keeps everything. *)
LEMMA MildStep ==
  ASSUME NEW s, Calm(s), NEW t \in Threads, NEW x, Mild(s.thread[t], x),
         NEW r, r = SetThread(s, t, x)
  PROVE  /\ Calm(r) /\ r.thread[t] = x
         /\ \A u \in Threads : u # t => r.thread[u] = s.thread[u]
         /\ r.runq = s.runq /\ r.cpu = s.cpu
<1>1. Core(s) /\ Sleepers(s) /\ x \in ThreadType /\ Local(s.thread[t])
  BY SMTT(30) DEF Calm, Mild, Core
<1>2. Local(x)
  BY <1>1 DEF Local, Mild
<1>3. /\ "RUN" \in x.state <=> "RUN" \in s.thread[t].state
      /\ "WAIT" \in x.state => /\ "WAIT" \in s.thread[t].state
                               /\ s.thread[t].blocking => x.blocking
  BY SMTT(30) DEF Mild
<1>4. /\ Core(r) /\ r.thread[t] = x
      /\ \A u \in Threads : u # t => r.thread[u] = s.thread[u]
      /\ r.runq = s.runq /\ r.cpu = s.cpu
  BY <1>1, <1>2, <1>3, ThreadStep, SMTT(30)
<1>5. Sleepers(r)
  BY <1>1, <1>4 DEF Sleepers, Mild
<1> QED BY <1>4, <1>5, SMTT(30) DEF Calm

(* The types, for citing. *)
LEMMA CalmTyped ==
  ASSUME NEW s, Calm(s)
  PROVE  /\ s \in States /\ s.panic = "none"
         /\ \A t \in Threads : s.thread[t] \in ThreadType /\ Local(s.thread[t])
         /\ \A c \in Cpus : s.cpu[c] \in CpuType
  BY DEF Calm, Core, States

(* Going on at another label keeps everything. *)
LEMMA GotoCalm ==
  ASSUME NEW s, Calm(s), NEW u \in Threads, NEW label \in PC,
         label \in OnTarget => s.thread[u].job.target \in Threads,
         NEW r, r = Goto(s, u, label)
  PROVE  /\ Calm(r) /\ r.thread[u] = [s.thread[u] EXCEPT !.pc = label]
         /\ \A v \in Threads : v # u => r.thread[v] = s.thread[v]
         /\ r.runq = s.runq /\ r.cpu = s.cpu
<1>1. PICK y : y = s.thread[u]
  BY Zenon
<1>2. PICK x : x = [y EXCEPT !.pc = label]
  BY Zenon
<1>3. y \in ThreadType
  BY <1>1, CalmTyped
<1>4. x \in ThreadType
  BY <1>2, <1>3, Zenon DEF ThreadType
<1>5. Mild(y, x)
  BY <1>1, <1>2, <1>3, <1>4 DEF Mild, ThreadType
<1>6. r = SetThread(s, u, x)
  BY <1>1, <1>2, Zenon DEF Goto
<1> QED BY <1>1, <1>2, <1>5, <1>6, MildStep

(* So does noting the call a thread is in. *)
LEMMA BeginCalm ==
  ASSUME NEW s, Calm(s), NEW u \in Threads, NEW job \in Jobs,
         s.thread[u].pc \in OnTarget => job.target \in Threads,
         NEW r, r = Begin(s, u, job)
  PROVE  /\ Calm(r) /\ r.thread[u] = [s.thread[u] EXCEPT !.job = job]
         /\ \A v \in Threads : v # u => r.thread[v] = s.thread[v]
         /\ r.runq = s.runq /\ r.cpu = s.cpu
<1>1. PICK y : y = s.thread[u]
  BY Zenon
<1>2. PICK x : x = [y EXCEPT !.job = job]
  BY Zenon
<1>3. y \in ThreadType
  BY <1>1, CalmTyped
<1>4. x \in ThreadType
  BY <1>2, <1>3, Zenon DEF ThreadType
<1>5. Mild(y, x)
  BY <1>1, <1>2, <1>3, <1>4 DEF Mild, ThreadType
<1>6. r = SetThread(s, u, x)
  BY <1>1, <1>2, Zenon DEF Begin
<1> QED BY <1>1, <1>2, <1>5, <1>6, MildStep

(* So does a call of thread_block that follows no assert_wait. *)
LEMMA BlockCalm ==
  ASSUME NEW s, Calm(s), NEW u \in Threads, NEW label \in PC \ OnTarget,
         NEW nice \in BOOLEAN, NEW r, r = thread_block(s, u, label, nice)
  PROVE  /\ Calm(r)
         /\ r.thread[u] = [s.thread[u] EXCEPT !.blocking = TRUE, !.pc = label,
                                              !.clean = nice]
         /\ \A v \in Threads : v # u => r.thread[v] = s.thread[v]
         /\ r.runq = s.runq /\ r.cpu = s.cpu
<1>1. PICK y : y = s.thread[u]
  BY Zenon
<1>2. PICK x : x = [y EXCEPT !.blocking = TRUE, !.pc = label, !.clean = nice]
  BY Zenon
<1>3. y \in ThreadType
  BY <1>1, CalmTyped
<1>4. x \in ThreadType
  BY <1>2, <1>3, Zenon DEF ThreadType
<1>5. Mild(y, x)
  BY <1>2, <1>3, <1>4 DEF Mild, ThreadType
<1>6. r = SetThread(s, u, x)
  BY <1>1, <1>2, ZenonT(30) DEF thread_block
<1> QED BY <1>1, <1>2, <1>5, <1>6, MildStep, SMTT(30)

(* The running thread u waits for an event: known to it, if it is a thread. *)
Running(s, u) == ~s.thread[u].blocking /\ \E c \in Cpus : s.cpu[c].cur = u

(* A thread that executes does not wait. *)
LEMMA RunningAwake ==
  ASSUME NEW s, Calm(s), NEW u \in Threads, Running(s, u)
  PROVE  "WAIT" \notin s.thread[u].state /\ s.thread[u].wait_event = None
<1>1. "WAIT" \notin s.thread[u].state
  BY SMTT(30) DEF Calm, Core, Awake, Running
<1> QED BY <1>1, CalmTyped, SMTT(30) DEF Local

(***************************************************************************)
(* assert_wait and thread_block, of a thread that executes: it never finds *)
(* an earlier wait, and if the event is the wake_active of a thread, that  *)
(* is set.                                                                 *)
(***************************************************************************)
LEMMA WaitCalm ==
  ASSUME NEW s, Calm(s), NEW u \in Threads, Running(s, u),
         NEW event \in WaitEvents, NEW interruptible \in BOOLEAN,
         event \in Threads => s.thread[event].wake_active,
         NEW label \in PC, label \in OnTarget => s.thread[u].job.target \in Threads,
         NEW nice \in BOOLEAN,
         NEW a, a = assert_wait(s, u, event, interruptible),
         NEW r, r = thread_block(a, u, label, nice)
  PROVE  /\ Calm(r)
         /\ \A v \in Threads : v # u => r.thread[v] = s.thread[v]
         /\ r.runq = s.runq /\ r.cpu = s.cpu
<1>1. PICK y : y = s.thread[u]
  BY ZenonT(30)
<1>2. s \in States /\ s.panic = "none" /\ y \in ThreadType /\ Local(y)
      /\ "WAIT" \notin y.state /\ y.wait_event = None
  BY <1>1, CalmTyped, RunningAwake
<1>3. PICK g : g = y.state \cup (IF interruptible THEN {"WAIT"}
                                 ELSE {"WAIT", "UNINT"})
  BY Zenon
<1>4. g \in SUBSET Flags /\ "WAIT" \in g /\ ("RUN" \in g <=> "RUN" \in y.state)
  BY <1>2, <1>3 DEF ThreadType, Flags
<1>5. PICK z : z = [y EXCEPT !.wait_event = event,
                       !.state = @ \cup (IF interruptible THEN {"WAIT"}
                                         ELSE {"WAIT", "UNINT"})]
  BY Zenon
<1>6. PICK x : x = [z EXCEPT !.blocking = TRUE, !.pc = label, !.clean = nice]
  BY Zenon
<1>7. z \in ThreadType
  <2>1. z = [y EXCEPT !.wait_event = event, !.state = g]
    BY <1>2, <1>3, <1>5, SMTT(30) DEF ThreadType
  <2> QED BY <1>2, <1>4, <2>1, ZenonT(30) DEF ThreadType
<1>8. x \in ThreadType
  BY <1>6, <1>7, Zenon DEF ThreadType
<1>9. /\ x.wait_event = event /\ x.state = g /\ x.blocking = TRUE
      /\ x.pc = label /\ x.job = y.job /\ x.wake_active = y.wake_active
  BY <1>2, <1>3, <1>5, <1>6, SMTT(30) DEF ThreadType
<1>10. a = SetThread(s, u, z)
  BY <1>1, <1>2, <1>5, ZenonT(30) DEF assert_wait
<1>11. a \in States /\ a.thread[u] = z
  BY <1>2, <1>7, <1>10, ThreadUpdate, SMTT(30)
<1>12. r = SetThread(a, u, x)
  BY <1>6, <1>11, ZenonT(30) DEF thread_block
<1>13. r = SetThread(s, u, x)
  BY <1>2, <1>10, <1>12, ThreadUpdates, SMTT(30)
<1>14. Local(x)
  <2>1. event # None
    BY NoneApart, SMTT(30) DEF WaitEvents
  <2> QED BY <1>1, <1>4, <1>9, <2>1, SMTT(30) DEF Local
<1>15. /\ Core(r) /\ r.thread[u] = x
       /\ \A v \in Threads : v # u => r.thread[v] = s.thread[v]
       /\ r.runq = s.runq /\ r.cpu = s.cpu
  <2>1. Core(s) /\ \E c \in Cpus : s.cpu[c].cur = u
    BY SMTT(30) DEF Calm, Running
  <2>2. "RUN" \in x.state <=> "RUN" \in s.thread[u].state
    BY <1>1, <1>4, <1>9, SMTT(30)
  <2> QED BY <1>8, <1>9, <1>13, <1>14, <2>1, <2>2, ThreadStep, SMTT(30)
<1>16. Sleepers(r)
  <2>1. Sleepers(s)
    BY SMTT(30) DEF Calm
  <2>2. \A v \in Threads : r.thread[v].wake_active = s.thread[v].wake_active
    BY <1>1, <1>9, <1>15, SMTT(30)
  <2> QED BY <1>9, <1>15, <2>1, <2>2, SMTT(30) DEF Sleepers
<1> QED BY <1>15, <1>16 DEF Calm

(* No thread moves on, and no processor takes another thread. *)
Keeps(s, r) ==
  /\ \A v \in Threads : /\ r.thread[v].job = s.thread[v].job
                        /\ r.thread[v].pc = s.thread[v].pc
                        /\ r.thread[v].blocking = s.thread[v].blocking
  /\ \A c \in Cpus : r.cpu[c].cur = s.cpu[c].cur

(* A thread that executes goes on executing. *)
LEMMA KeepsRunning ==
  ASSUME NEW s, NEW r, Keeps(s, r), NEW u \in Threads, Running(s, u)
  PROVE  Running(r, u)
  BY SMTT(30) DEF Keeps, Running

(* Ending waits and setting wake_active forgets no sleeper. *)
LEMMA SleepersKeep ==
  ASSUME NEW s, Sleepers(s), NEW r,
         \A v \in Threads :
           /\ r.thread[v].wait_event \in {s.thread[v].wait_event, None}
           /\ s.thread[v].wake_active => r.thread[v].wake_active,
         \A c \in Cpus : r.cpu[c].wake = s.cpu[c].wake
  PROVE  Sleepers(r)
  BY NoneApart, SMTT(30) DEF Sleepers

(***************************************************************************)
(* thread_hold keeps everything: a suspended thread stays where it is      *)
(* until it is dispatched or waited for.                                   *)
(***************************************************************************)
LEMMA HoldCalm ==
  ASSUME NEW s, Calm(s), NEW t \in Threads, NEW r, r = thread_hold(s, t)
  PROVE  Calm(r) /\ Keeps(s, r)
<1>1. PICK y : y = s.thread[t]
  BY Zenon
<1>2. PICK x : x = [y EXCEPT !.suspend_count = @ + 1, !.state = @ \cup {"SUSP"}]
  BY Zenon
<1>3. y \in ThreadType /\ Local(y)
  BY <1>1, CalmTyped
<1>4. y.suspend_count + 1 \in Int /\ y.state \cup {"SUSP"} \in SUBSET Flags
  BY <1>3 DEF ThreadType, Flags
<1>5. x \in ThreadType
  BY <1>2, <1>3, <1>4, Zenon DEF ThreadType
<1>6. Mild(y, x) /\ x.job = y.job /\ x.pc = y.pc /\ x.blocking = y.blocking
  BY <1>2, <1>3, <1>5 DEF Mild, Local, ThreadType
<1>7. r = SetThread(s, t, x)
  BY <1>1, <1>2, ZenonT(30) DEF thread_hold
<1>8. /\ Calm(r) /\ r.thread[t] = x
      /\ \A v \in Threads : v # t => r.thread[v] = s.thread[v]
      /\ r.cpu = s.cpu
  BY <1>1, <1>6, <1>7, MildStep, SMTT(30)
<1> QED BY <1>1, <1>6, <1>8 DEF Keeps

(* The end of a call on another thread. *)
LEMMA EndJobCalm ==
  ASSUME NEW s, Calm(s), NEW u \in Threads, NEW label \in PC \ OnTarget,
         NEW r, r = Begin(Goto(s, u, label), u, NoJob)
  PROVE  Calm(r)
<1>1. PICK q : q = Goto(s, u, label)
  BY Zenon
<1>2. Calm(q) /\ q.thread[u] = [s.thread[u] EXCEPT !.pc = label]
  BY <1>1, GotoCalm
<1>3. s.thread[u] \in ThreadType
  BY CalmTyped
<1>4. q.thread[u].pc \notin OnTarget
  BY <1>2, <1>3 DEF ThreadType
<1>5. NoJob \in Jobs
  BY DEF NoJob, Jobs
<1>6. PICK job \in Jobs : job = NoJob
  BY <1>5
<1>7. r = Begin(q, u, job)
  BY <1>1, <1>6
<1> QED BY <1>2, <1>4, <1>7, BeginCalm, Zenon

(* The return from a call on another thread. *)
LEMMA ReturnCalm ==
  ASSUME NEW s, Calm(s), NEW u \in Threads, NEW r, r = Return(s, u)
  PROVE  Calm(r)
<1>1. "user" \in PC \ OnTarget
  BY DEF PC, OnTarget
<1>2. PICK label \in PC \ OnTarget : label = "user"
  BY <1>1
<1>3. r = Begin(Goto(s, u, label), u, NoJob)
  BY <1>2, SMTT(30) DEF Return
<1> QED BY <1>3, EndJobCalm

(* thread_wakeup_prim keeps everything. *)
LEMMA WakeupCalm ==
  ASSUME NEW s, Calm(s), NEW event, event # None,
         NEW result \in {"awakened", "interrupted"},
         NEW r, r = thread_wakeup_prim(s, event, result)
  PROVE  Calm(r) /\ Keeps(s, r)
<1>1. /\ Core(r)
      /\ \A u \in Threads : IF s.thread[u].wait_event = event
                            THEN Woken(s.thread[u], r.thread[u])
                            ELSE r.thread[u] = s.thread[u]
      /\ \A c \in Cpus : /\ r.cpu[c].cur = s.cpu[c].cur
                         /\ r.cpu[c].old = s.cpu[c].old
                         /\ r.cpu[c].wake = s.cpu[c].wake
  BY WakeupCore, SMTT(30) DEF Calm
<1>2. Keeps(s, r)
  BY <1>1, SMTT(30) DEF Keeps, Woken
<1>3. \A v \in Threads :
        /\ r.thread[v].wait_event \in {s.thread[v].wait_event, None}
        /\ s.thread[v].wake_active => r.thread[v].wake_active
  BY <1>1, SMTT(30) DEF Woken
<1>4. Sleepers(r)
  BY <1>1, <1>3, SleepersKeep, SMTT(30) DEF Calm
<1> QED BY <1>1, <1>2, <1>4, SMTT(30) DEF Calm

(***************************************************************************)
(* thread_release keeps everything: it starts a thread exactly if that is  *)
(* neither TH_RUN nor TH_WAIT.                                             *)
(***************************************************************************)
LEMMA ReleaseCalm ==
  ASSUME NEW s, Calm(s), NEW t \in Threads, NEW r, r = thread_release(s, t)
  PROVE  Calm(r) /\ Keeps(s, r)
<1>1. PICK y : y = s.thread[t]
  BY Zenon
<1>2. y \in ThreadType /\ Local(y)
  BY <1>1, CalmTyped
<1>3. PICK count : count = y.suspend_count - 1
  BY Zenon
<1>4. PICK f : f = y.state \ {"SUSP", "HALTED"}
  BY Zenon
<1>5. PICK x : x = [y EXCEPT !.suspend_count = count]
  BY Zenon
<1>6. count \in Int /\ f \in SUBSET Flags /\ f \cup {"RUN"} \in SUBSET Flags
  BY <1>2, <1>3, <1>4, SMTT(30) DEF ThreadType, Flags
<1>7. x \in ThreadType
  BY <1>2, <1>5, <1>6, ZenonT(30) DEF ThreadType
<1>8. CASE count # 0
  <2>1. r = SetThread(s, t, x)
    BY <1>1, <1>3, <1>5, <1>8, ZenonT(30) DEF thread_release
  <2>2. Mild(y, x)
    BY <1>2, <1>5, <1>7, SMTT(30) DEF Mild, Local, ThreadType
  <2>3. /\ Calm(r) /\ r.thread[t] = x
        /\ \A u \in Threads : u # t => r.thread[u] = s.thread[u]
        /\ r.cpu = s.cpu
    BY <1>1, <2>1, <2>2, MildStep, SMTT(30)
  <2>4. x.job = y.job /\ x.pc = y.pc /\ x.blocking = y.blocking
    BY <1>2, <1>5, SMTT(30) DEF ThreadType
  <2> QED BY <1>1, <2>3, <2>4, SMTT(30) DEF Keeps
<1>9. CASE count = 0 /\ f \cap {"WAIT", "RUN"} # {}
  <2>1. PICK z : z = [x EXCEPT !.state = f]
    BY Zenon
  <2>2. r = SetThread(s, t, z)
    BY <1>1, <1>3, <1>4, <1>5, <1>9, <2>1, ZenonT(30) DEF thread_release
  <2>3. z \in ThreadType
    BY <1>6, <1>7, <2>1, ZenonT(30) DEF ThreadType
  <2>4. Mild(y, z)
    BY <1>2, <1>4, <1>5, <2>1, <2>3, SMTT(30) DEF Mild, Local, ThreadType
  <2>5. /\ Calm(r) /\ r.thread[t] = z
        /\ \A u \in Threads : u # t => r.thread[u] = s.thread[u]
        /\ r.cpu = s.cpu
    BY <1>1, <2>2, <2>4, MildStep
  <2>6. z.job = y.job /\ z.pc = y.pc /\ z.blocking = y.blocking
    BY <1>2, <1>5, <2>1, SMTT(30) DEF ThreadType
  <2> QED BY <1>1, <2>5, <2>6 DEF Keeps
<1>10. CASE count = 0 /\ f \cap {"WAIT", "RUN"} = {}
  <2>1. PICK z : z = [x EXCEPT !.state = f \cup {"RUN"}]
    BY Zenon
  <2>2. r = thread_setrun(SetThread(s, t, z), t)
    BY <1>1, <1>3, <1>4, <1>5, <1>10, <2>1, ZenonT(30) DEF thread_release
  <2>3. z \in ThreadType
    BY <1>6, <1>7, <2>1, ZenonT(30) DEF ThreadType
  <2>4. /\ z.job = y.job /\ z.pc = y.pc /\ z.blocking = y.blocking
        /\ z.wait_event = y.wait_event /\ z.wake_active = y.wake_active
        /\ z.state = f \cup {"RUN"}
    BY <1>2, <1>5, <2>1, SMTT(30) DEF ThreadType
  <2>5. /\ "RUN" \notin s.thread[t].state /\ "WAIT" \notin y.state
        /\ "WAIT" \notin z.state /\ "RUN" \in z.state
    BY <1>1, <1>4, <1>10, <2>4, SMTT(30)
  <2>6. Local(z)
    BY <1>2, <2>4, <2>5 DEF Local
  <2>7. PICK w : w = SetThread(s, t, z)
    BY ZenonT(30)
  <2>8. /\ Core(r) /\ r.thread[t] = z
        /\ \A u \in Threads : u # t => r.thread[u] = s.thread[u]
        /\ \A c \in Cpus : /\ r.cpu[c].cur = s.cpu[c].cur
                           /\ r.cpu[c].old = s.cpu[c].old
                           /\ r.cpu[c].wake = s.cpu[c].wake
    BY <2>2, <2>3, <2>5, <2>6, <2>7, Start, SMTT(30) DEF Calm
  <2>9. \A v \in Threads :
          /\ r.thread[v].wait_event \in {s.thread[v].wait_event, None}
          /\ s.thread[v].wake_active => r.thread[v].wake_active
    BY <1>1, <2>4, <2>8, SMTT(30)
  <2>10. Sleepers(r)
    BY <2>8, <2>9, SleepersKeep, SMTT(30) DEF Calm
  <2> QED BY <1>1, <2>4, <2>8, <2>10, SMTT(30) DEF Keeps, Calm
<1> QED BY <1>8, <1>9, <1>10, SMTT(30)

(* u sleeps until t stops, having set t->wake_active. *)
LEMMA SleepCalm ==
  ASSUME NEW s, Calm(s), NEW u \in Threads, Running(s, u), NEW t \in Threads,
         NEW label \in {"halt_woke", "dowait_woke"},
         s.thread[u].job.target \in Threads,
         NEW r, r = thread_sleep(WakeActive(s, t), u, t, label)
  PROVE  Calm(r)
<1>1. PICK y : y = s.thread[t]
  BY Zenon
<1>2. PICK x : x = [y EXCEPT !.wake_active = TRUE]
  BY ZenonT(30)
<1>3. y \in ThreadType /\ Local(y)
  BY <1>1, CalmTyped
<1>4. x \in ThreadType
  BY <1>2, <1>3, ZenonT(30) DEF ThreadType
<1>5. Mild(y, x)
  BY <1>2, <1>3, <1>4, ZenonT(30) DEF Mild, Local, ThreadType
<1>6. PICK q : q = WakeActive(s, t)
  BY Zenon
<1>7. q = SetThread(s, t, x)
  BY <1>1, <1>2, <1>6, ZenonT(30) DEF WakeActive
<1>8. /\ Calm(q) /\ q.thread[t] = x
      /\ \A v \in Threads : v # t => q.thread[v] = s.thread[v]
      /\ q.cpu = s.cpu
  BY <1>1, <1>5, <1>7, MildStep, SMTT(30)
<1>9. /\ x.wake_active = TRUE
      /\ x.job = y.job /\ x.pc = y.pc /\ x.blocking = y.blocking
  BY <1>2, <1>3, SMTT(30) DEF ThreadType
<1>10. Keeps(s, q)
  BY <1>1, <1>8, <1>9, SMTT(30) DEF Keeps
<1>11. Running(q, u) /\ q.thread[u].job.target \in Threads
  BY <1>10, KeepsRunning, SMTT(30) DEF Keeps
<1>12. label \in PC /\ t \in WaitEvents /\ q.thread[t].wake_active
  BY <1>8, <1>9 DEF PC, WaitEvents
<1>13. PICK a : a = assert_wait(q, u, t, TRUE)
  BY Zenon
<1>14. r = thread_block(a, u, label, FALSE)
  BY <1>6, <1>13, Zenon DEF thread_sleep
<1>15. PICK i \in BOOLEAN, n \in BOOLEAN :
         a = assert_wait(q, u, t, i) /\ r = thread_block(a, u, label, n)
  BY <1>13, <1>14, ZenonT(30)
<1> QED BY <1>8, <1>11, <1>12, <1>15, WaitCalm, SMTT(30)

SetAst(s, t, g) == SetThread(s, t, [s.thread[t] EXCEPT !.ast = g])

(* Setting or clearing AST_HALT or AST_TERMINATE keeps everything. *)
LEMMA AstCalm ==
  ASSUME NEW s, Calm(s), NEW t \in Threads, NEW g \in SUBSET {"HALT", "TERMINATE"},
         NEW r, r = SetAst(s, t, g)
  PROVE  Calm(r) /\ Keeps(s, r)
<1>1. PICK y : y = s.thread[t]
  BY Zenon
<1>2. PICK x : x = [y EXCEPT !.ast = g]
  BY Zenon
<1>3. y \in ThreadType /\ Local(y)
  BY <1>1, CalmTyped
<1>4. x \in ThreadType
  BY <1>2, <1>3, Zenon DEF ThreadType
<1>5. Mild(y, x) /\ x.job = y.job /\ x.pc = y.pc /\ x.blocking = y.blocking
  BY <1>2, <1>3, <1>4 DEF Mild, Local, ThreadType
<1>6. r = SetThread(s, t, x)
  BY <1>1, <1>2, ZenonT(30) DEF SetAst
<1>7. /\ Calm(r) /\ r.thread[t] = x
      /\ \A v \in Threads : v # t => r.thread[v] = s.thread[v]
      /\ r.cpu = s.cpu
  BY <1>1, <1>5, <1>6, MildStep, SMTT(30)
<1> QED BY <1>1, <1>5, <1>7 DEF Keeps

(* The first part of the loop of thread_halt keeps everything. *)
LEMMA HaltLoopCalm ==
  ASSUME NEW s, Calm(s), NEW u \in Threads, NEW t \in Threads, Running(s, u),
         s.thread[u].job.target \in Threads, NEW r, r = HaltLoop(s, u, t)
  PROVE  Calm(r)
<1>1. CASE "HALT" \in s.thread[t].ast /\ "HALTED" \notin s.thread[t].state
  <2>1. r = thread_sleep(WakeActive(s, t), u, t, "halt_woke")
    BY <1>1, Zenon DEF HaltLoop
  <2> QED BY <2>1, SleepCalm
<1>2. CASE ~("HALT" \in s.thread[t].ast /\ "HALTED" \notin s.thread[t].state)
  <2>1. PICK g : g = s.thread[t].ast \cup {"HALT"}
    BY Zenon
  <2>2. PICK q : q = SetAst(s, t, g)
    BY Zenon
  <2>3. r = Goto(q, u, "dowait")
    BY <1>2, <2>1, <2>2, ZenonT(30) DEF HaltLoop, SetAst
  <2>4. g \in SUBSET {"HALT", "TERMINATE"}
    BY <2>1, CalmTyped, SMTT(30) DEF ThreadType
  <2>5. Calm(q) /\ Keeps(s, q)
    BY <2>2, <2>4, AstCalm, SMTT(30)
  <2>6. q.thread[u].job.target \in Threads /\ "dowait" \in PC
    BY <2>5, SMTT(30) DEF Keeps, PC
  <2> QED BY <2>3, <2>5, <2>6, GotoCalm, ZenonT(30)
<1> QED BY <1>1, <1>2, SMTT(30)

(* thread_halt up to its first wait keeps everything. *)
LEMMA HaltCalm ==
  ASSUME NEW s, Calm(s), NEW u \in Threads, NEW t \in Threads, Running(s, u),
         s.thread[u].job.target \in Threads, NEW r, r = Halt(s, u, t)
  PROVE  Calm(r)
<1>1. CASE "HALTED" \in s.thread[t].state
  <2>1. PICK y : y = s.thread[t]
    BY Zenon
  <2>2. PICK x : x = [y EXCEPT !.suspend_count = @ + 1]
    BY Zenon
  <2>3. y \in ThreadType /\ Local(y) /\ y.suspend_count + 1 \in Int
    BY <2>1, CalmTyped DEF ThreadType
  <2>4. x \in ThreadType
    BY <2>2, <2>3, Zenon DEF ThreadType
  <2>5. Mild(y, x) /\ x.job = y.job
    BY <2>2, <2>3, <2>4 DEF Mild, Local, ThreadType
  <2>6. PICK q : q = SetThread(s, t, x)
    BY Zenon
  <2>7. r = Goto(q, u, "held")
    BY <1>1, <2>1, <2>2, <2>6, ZenonT(30) DEF Halt
  <2>8. /\ Calm(q) /\ q.thread[t] = x
        /\ \A v \in Threads : v # t => q.thread[v] = s.thread[v]
    BY <2>1, <2>5, <2>6, MildStep, SMTT(30)
  <2>9. q.thread[u].job.target \in Threads /\ "held" \in PC
    BY <2>1, <2>5, <2>8, SMTT(30) DEF PC
  <2> QED BY <2>7, <2>8, <2>9, GotoCalm, Zenon
<1>2. CASE /\ "HALTED" \notin s.thread[t].state
           /\ s.thread[u].job.op = "abort" /\ "HALT" \in s.thread[u].ast
  <2>1. PICK q : q = thread_wakeup_prim(s, u, "interrupted")
    BY Zenon
  <2>2. r = Return(q, u)
    BY <1>2, <2>1, Zenon DEF Halt
  <2>3. u # None
    BY NoneApart, SMTT(30)
  <2>4. Calm(q)
    BY <2>1, <2>3, WakeupCalm, SMTT(30)
  <2> QED BY <2>2, <2>4, ReturnCalm
<1>3. CASE /\ "HALTED" \notin s.thread[t].state
           /\ ~(s.thread[u].job.op = "abort" /\ "HALT" \in s.thread[u].ast)
  <2>1. PICK q : q = thread_hold(s, t)
    BY Zenon
  <2>2. r = HaltLoop(q, u, t)
    BY <1>3, <2>1, ZenonT(30) DEF Halt
  <2>3. Calm(q) /\ Keeps(s, q)
    BY <2>1, HoldCalm, SMTT(30)
  <2>4. Running(q, u) /\ q.thread[u].job.target \in Threads
    BY <2>3, KeepsRunning, SMTT(30) DEF Keeps
  <2> QED BY <2>2, <2>3, <2>4, HaltLoopCalm, SMTT(30)
<1> QED BY <1>1, <1>2, <1>3, SMTT(30)

-----------------------------------------------------------------------------
(* The thread switch. *)
Turned(x, y) == /\ y.wait_event = x.wait_event
                /\ "RUN" \in y.state <=> "RUN" \in x.state
                /\ "WAIT" \in y.state <=> "WAIT" \in x.state
                /\ y.wake_active = x.wake_active
                /\ y.pc = x.pc /\ y.job = x.job

(* thread_invoke: what it changes of the processor and of the two threads. *)
LEMMA InvokeEffect ==
  ASSUME NEW s \in States, NEW c \in Cpus, NEW new \in Threads \cup {None},
         NEW r, r = Invoke(s, c, new)
  PROVE  /\ r \in States /\ r.runq = s.runq
         /\ r.panic \in {"zombie", s.panic}
         /\ \A d \in Cpus : d # c => r.cpu[d] = s.cpu[d]
         /\ r.cpu[c].cur = new /\ r.cpu[c].old = s.cpu[c].cur
         /\ r.cpu[c].next = s.cpu[c].next /\ r.cpu[c].wake = s.cpu[c].wake
         /\ r.cpu[c].status = s.cpu[c].status
         /\ \A v \in Threads :
              /\ Turned(s.thread[v], r.thread[v])
              /\ v # s.cpu[c].cur =>
                   r.thread[v].blocking = s.thread[v].blocking
<1>1. PICK prev : prev = s.cpu[c].cur
  BY Zenon
<1>2. s.cpu[c] \in CpuType /\ prev \in Threads \cup {None}
  BY <1>1 DEF States, CpuType
<1>3. PICK x : x = [s.cpu[c] EXCEPT !.old = prev, !.cur = new]
  BY Zenon
<1>4. x \in CpuType
  BY <1>2, <1>3, Zenon DEF CpuType
<1>5. /\ x.cur = new /\ x.old = prev /\ x.next = s.cpu[c].next
      /\ x.wake = s.cpu[c].wake /\ x.status = s.cpu[c].status
  BY <1>2, <1>3 DEF CpuType
<1>6. PICK p : p = SetCpu(s, c, x)
  BY Zenon
<1>7. /\ p \in States /\ p.cpu[c] = x
      /\ \A d \in Cpus : d # c => p.cpu[d] = s.cpu[d]
      /\ p.runq = s.runq /\ p.thread = s.thread /\ p.panic = s.panic
  BY <1>4, <1>6, CpuUpdate
<1>8. PICK q : q = IF prev = None THEN p
                   ELSE SetThread(p, prev, [p.thread[prev] EXCEPT !.blocking = FALSE])
  BY ZenonT(30)
<1>9. /\ q \in States /\ q.cpu = p.cpu /\ q.runq = s.runq /\ q.panic = s.panic
      /\ \A v \in Threads : /\ Turned(s.thread[v], q.thread[v])
                            /\ v # prev => q.thread[v] = s.thread[v]
  <2>1. CASE prev = None
    BY <1>7, <1>8, <2>1, NoneApart, SMTT(30) DEF Turned
  <2>2. CASE prev # None
    <3>1. prev \in Threads /\ p.thread[prev] \in ThreadType
      BY <1>2, <1>7, <2>2 DEF States
    <3>2. PICK z : z = [p.thread[prev] EXCEPT !.blocking = FALSE]
      BY Zenon
    <3>3. z \in ThreadType
      BY <3>1, <3>2, ZenonT(30) DEF ThreadType
    <3>4. Turned(p.thread[prev], z)
      BY <3>1, <3>2 DEF Turned, ThreadType
    <3>5. q = SetThread(p, prev, z)
      BY <1>8, <2>2, <3>2, SMTT(30)
    <3>6. /\ q \in States /\ q.thread[prev] = z
          /\ \A v \in Threads : v # prev => q.thread[v] = p.thread[v]
          /\ q.runq = p.runq /\ q.cpu = p.cpu /\ q.panic = p.panic
      <4>1. p \in States /\ prev \in Threads
        BY <1>7, <3>1, SMTT(30)
      <4> QED BY <3>3, <3>5, <4>1, ThreadUpdate, SMTT(30)
    <3> QED BY <1>7, <3>4, <3>6, ZenonT(30) DEF Turned
  <2> QED BY <2>1, <2>2, SMTT(30)
<1>10. CASE new = None
  <2>1. r = q
    BY <1>1, <1>3, <1>6, <1>8, <1>10, ZenonT(30) DEF Invoke
  <2> QED BY <1>1, <1>5, <1>7, <1>9, <2>1, SMTT(30)
<1>11. CASE new # None
  <2>1. new \in Threads /\ q.thread[new] \in ThreadType
    BY <1>9, <1>11 DEF States
  <2>2. PICK z : z = [q.thread[new] EXCEPT !.state = @ \ {"UNINT"}]
    BY Zenon
  <2>3. q.thread[new].state \ {"UNINT"} \in SUBSET Flags
    BY <2>1 DEF ThreadType
  <2>4. z \in ThreadType
    BY <2>1, <2>2, <2>3, ZenonT(30) DEF ThreadType
  <2>5. Turned(q.thread[new], z) /\ z.blocking = q.thread[new].blocking
    BY <2>1, <2>2 DEF Turned, ThreadType
  <2>6. PICK w : w = SetThread(q, new, z)
    BY ZenonT(30)
  <2>7. /\ w \in States /\ w.thread[new] = z
        /\ \A v \in Threads : v # new => w.thread[v] = q.thread[v]
        /\ w.runq = q.runq /\ w.cpu = q.cpu /\ w.panic = q.panic
    BY <1>9, <2>1, <2>4, <2>6, ThreadUpdate, SMTT(30)
  <2>8. r = SetPanic(w, Walks(s, new))
    BY <1>1, <1>3, <1>6, <1>8, <1>11, <2>2, <2>6, ZenonT(30)
       DEF Invoke, SetPanic
  <2>9. Walks(s, new) \in {"zombie", s.panic} /\ Walks(s, new) \in Panics
    BY SMTT(30) DEF Walks, States, Panics
  <2>10. /\ r \in States /\ r.panic = Walks(s, new)
         /\ r.cpu = w.cpu /\ r.thread = w.thread /\ r.runq = w.runq
    BY <2>7, <2>8, <2>9, PanicUpdate, SMTT(30)
  <2>11. \A v \in Threads : /\ Turned(s.thread[v], r.thread[v])
                            /\ v # prev => r.thread[v].blocking = s.thread[v].blocking
    BY <1>9, <2>5, <2>7, <2>10, SMTT(30) DEF Turned
  <2> QED BY <1>1, <1>5, <1>7, <1>9, <2>7, <2>9, <2>10, <2>11, SMTT(30)
<1> QED BY <1>10, <1>11

=============================================================================
