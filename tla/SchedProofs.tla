---------------------------- MODULE SchedProofs -----------------------------
(***************************************************************************)
(* The steps of processors keep the invariant, and so all steps do.  From  *)
(* that follow the theorems: no runnable thread is lost or in two places   *)
(* (OnePlace), no sleeper is forgotten (SleeperKnown), and three of the    *)
(* kernel's assertions hold (Asserted), for any number of threads and      *)
(* processors.                                                             *)
(***************************************************************************)
EXTENDS SchedThreads

-----------------------------------------------------------------------------
(* thread_invoke: c runs new, which was taken from wherever it was before. *)
LEMMA InvokeSound ==
  ASSUME NEW s \in States, s.panic = "none", Promised(s), WakeLast(s), Awake(s),
         Sleepers(s), \A u \in Threads : Local(s.thread[u]),
         NEW c \in Cpus, s.cpu[c].old = None, s.cpu[c].wake = None,
         NEW new \in Threads \cup {None},
         \A u \in Threads : u # new => Placed(s, u),
         new # None => /\ Nowhere(s, new) /\ "RUN" \in s.thread[new].state
                       /\ "WAIT" \notin s.thread[new].state,
         NEW r, r = Invoke(s, c, new)
  PROVE  Sound(r)
<1>1. PICK prev : prev = s.cpu[c].cur
  BY ZenonT(30)
<1>2. /\ r \in States /\ r.runq = s.runq
      /\ r.panic \in {"zombie", s.panic}
      /\ \A d \in Cpus : d # c => r.cpu[d] = s.cpu[d]
      /\ r.cpu[c].cur = new /\ r.cpu[c].old = s.cpu[c].cur
      /\ r.cpu[c].next = s.cpu[c].next /\ r.cpu[c].wake = s.cpu[c].wake
      /\ r.cpu[c].status = s.cpu[c].status
      /\ \A v \in Threads :
           /\ Turned(s.thread[v], r.thread[v])
           /\ v # s.cpu[c].cur => r.thread[v].blocking = s.thread[v].blocking
  BY InvokeEffect, SMTT(30)
<1>3. CASE r.panic = "zombie"
  BY <1>2, <1>3, SMTT(30) DEF Sound
<1>4. CASE r.panic # "zombie"
  <2>1. r.panic = "none"
    BY <1>2, <1>4, SMTT(30)
  <2>2. Promised(r) /\ WakeLast(r)
    BY <1>2, SMTT(30) DEF Promised, WakeLast
  <2>3. \A v \in Threads : Local(r.thread[v])
    BY <1>2, SMTT(30) DEF Turned, Local
  <2>4. Sleepers(r)
    <3>1. \A v \in Threads :
            /\ r.thread[v].wait_event \in {s.thread[v].wait_event, None}
            /\ s.thread[v].wake_active => r.thread[v].wake_active
      BY <1>2, SMTT(30) DEF Turned
    <3>2. \A d \in Cpus : r.cpu[d].wake = s.cpu[d].wake
      BY <1>2, SMTT(30)
    <3> QED BY <3>1, <3>2, SleepersKeep, SMTT(30)
  <2>5. ASSUME NEW v \in Threads, v = new PROVE Placed(r, v)
    <3>1. /\ v \notin s.runq /\ \A d \in Cpus : ~In(s, v, d)
          /\ "RUN" \in s.thread[v].state
      BY <2>5, NoneApart, SMTT(30) DEF Nowhere
    <3>2. \A d \in Cpus : /\ s.cpu[d].cur # v /\ s.cpu[d].old # v
                          /\ s.cpu[d].next # v
      BY <3>1, SMTT(30) DEF In
    <3>3. \A d \in Cpus : /\ In(r, v, d) <=> d = c
                          /\ r.cpu[d].old # v /\ r.cpu[d].next # v
      BY <1>2, <2>5, <3>2, SMTT(30) DEF In
    <3>4. "RUN" \in r.thread[v].state
      BY <1>2, <3>1, SMTT(30) DEF Turned
    <3>5. v \notin r.runq /\ ~Nowhere(r, v)
      BY <1>2, <3>1, <3>3, SMTT(30) DEF Nowhere
    <3> QED BY <3>3, <3>4, <3>5, SMTT(30) DEF Placed
  <2>6. ASSUME NEW v \in Threads, v # new, v = prev PROVE Placed(r, v)
    <3>1. Placed(s, v) /\ In(s, v, c)
      BY <1>1, <2>6, SMTT(30) DEF In
    <3>2. /\ v \notin s.runq /\ "RUN" \in s.thread[v].state
          /\ s.cpu[c].next # v
      BY <1>1, <2>6, <3>1, SMTT(30) DEF Placed, Nowhere
    <3>3. \A d \in Cpus : d # c => ~In(s, v, d)
      BY <3>1, SMTT(30) DEF Placed
    <3>4. \A d \in Cpus : d # c => ~In(r, v, d)
      BY <1>2, <3>3, SMTT(30) DEF In
    <3>5. r.cpu[c].cur # v /\ r.cpu[c].old = v /\ r.cpu[c].next # v
      BY <1>1, <1>2, <2>6, <3>2, SMTT(30)
    <3>6. In(r, v, c)
      BY <3>5, SMTT(30) DEF In
    <3>7. /\ "RUN" \in r.thread[v].state /\ v \notin r.runq
          /\ ~Nowhere(r, v)
      BY <1>2, <3>2, <3>6, SMTT(30) DEF Turned, Nowhere
    <3>8. \A d \in Cpus : /\ ~(r.cpu[d].cur = v /\ r.cpu[d].old = v)
                          /\ ~(r.cpu[d].cur = v /\ r.cpu[d].next = v)
                          /\ ~(r.cpu[d].old = v /\ r.cpu[d].next = v)
      BY <3>4, <3>5, SMTT(30) DEF In
    <3> QED BY <3>4, <3>6, <3>7, <3>8, SMTT(30) DEF Placed
  <2>7. ASSUME NEW v \in Threads, v # new, v # prev PROVE Placed(r, v)
    <3>1. Placed(s, v)
      BY <2>7, SMTT(30)
    <3>2. SameAt(s, r, v)
      <4>1. v # None
        BY NoneApart, SMTT(30)
      <4> QED BY <1>1, <1>2, <2>7, <4>1, SMTT(30) DEF SameAt
    <3>3. "RUN" \in r.thread[v].state <=> "RUN" \in s.thread[v].state
      BY <1>2, SMTT(30) DEF Turned
    <3> QED BY <3>1, <3>2, <3>3, PlacedKeep, SMTT(30)
  <2>8. Awake(r)
    <3>1. SUFFICES ASSUME NEW v \in Threads, "WAIT" \in r.thread[v].state
                   PROVE  /\ v \notin r.runq
                          /\ \A d \in Cpus :
                               /\ r.cpu[d].next # v
                               /\ r.cpu[d].cur = v => r.thread[v].blocking
      BY SMTT(30) DEF Awake
    <3>2. "WAIT" \in s.thread[v].state
      BY <1>2, <3>1, SMTT(30) DEF Turned
    <3>3. /\ v \notin s.runq
          /\ \A d \in Cpus : /\ s.cpu[d].next # v
                             /\ s.cpu[d].cur = v => s.thread[v].blocking
      BY <3>2, SMTT(30) DEF Awake
    <3>4. v # new
      BY <3>2, NoneApart, SMTT(30)
    <3>5. \A d \in Cpus : r.cpu[d].cur = v => d # c /\ s.cpu[d].cur = v
      BY <1>2, <3>4, SMTT(30)
    <3>6. \A d \in Cpus : d # c /\ s.cpu[d].cur = v => v # s.cpu[c].cur
      <4>1. Placed(s, v)
        BY <3>4, SMTT(30)
      <4> QED BY <4>1 DEF Placed, In
    <3> QED BY <1>2, <3>3, <3>5, <3>6, SMTT(30)
  <2>9. Core(r)
    BY <1>2, <2>1, <2>2, <2>3, <2>5, <2>6, <2>7, <2>8, SMTT(30) DEF Core
  <2> QED BY <2>4, <2>9, CalmSound, SMTT(30) DEF Calm
<1> QED BY <1>3, <1>4

(* thread_block with a thread from the run queue. *)
LEMMA DoSwitch ==
  ASSUME Calm(Now), NEW c \in Cpus, NEW new \in Threads, Switch(c, new)
  PROVE  Sound(Now)'
<1>1. PICK s : s = Now
  BY Zenon
<1>2. /\ s.thread = thread /\ s.cpu = cpu /\ s.runq = runq /\ s.panic = panic
      /\ Calm(s) /\ s \in States /\ s.panic = "none"
  BY <1>1, NowFields, CalmTyped, SMTT(30)
<1>3. Core(s) /\ Sleepers(s) /\ s.runq \in SUBSET Threads
  BY <1>2 DEF Calm, States
<1>4. PICK z : z = s.runq \ {new}
  BY Zenon
<1>5. z \in SUBSET Threads /\ \A u : u \in z <=> u \in s.runq /\ u # new
  BY <1>3, <1>4, SMTT(30)
<1>6. PICK p : p = SetRunq(s, z)
  BY ZenonT(30)
<1>7. /\ p \in States /\ p.runq = z
      /\ p.cpu = s.cpu /\ p.thread = s.thread /\ p.panic = s.panic
  BY <1>2, <1>5, <1>6, RunqUpdate, SMTT(30)
<1>8. p.cpu[c].old = None /\ p.cpu[c].wake = None /\ new \in s.runq
  BY <1>2, <1>7, SMTT(30) DEF Switch, InBlock, Busy
<1>9. Promised(p) /\ WakeLast(p)
  BY <1>3, <1>7, SMTT(30) DEF Core, Promised, WakeLast
<1>10. Awake(p)
  BY <1>3, <1>5, <1>7, SMTT(30) DEF Core, Awake
<1>11. Sleepers(p)
  BY <1>3, <1>7, SMTT(30) DEF Sleepers
<1>12. \A u \in Threads : Local(p.thread[u])
  BY <1>3, <1>7, SMTT(30) DEF Core
<1>13. \A u \in Threads : u # new => Placed(p, u)
  <2>1. TAKE u \in Threads
  <2>2. HAVE u # new
  <2>3. SameAt(s, p, u)
    BY <1>5, <1>7, <2>2, SMTT(30) DEF SameAt
  <2>4. Placed(s, u)
    BY <1>3, SMTT(30) DEF Core
  <2> QED BY <1>7, <2>3, <2>4, PlacedKeep, SMTT(30)
<1>14. Nowhere(p, new) /\ "RUN" \in p.thread[new].state
  <2>1. Placed(s, new)
    BY <1>3, SMTT(30) DEF Core
  <2>2. /\ \A d \in Cpus : ~In(s, new, d)
        /\ "RUN" \in s.thread[new].state
    BY <1>8, <2>1, SMTT(30) DEF Placed, Nowhere
  <2>3. \A d \in Cpus : ~In(p, new, d)
    BY <1>7, <2>2, SMTT(30) DEF In
  <2> QED BY <1>5, <1>7, <2>2, <2>3, SMTT(30) DEF Nowhere
<1>15. "WAIT" \notin p.thread[new].state
  BY <1>3, <1>7, <1>8, SMTT(30) DEF Core, Awake
<1>16. PICK r : r = Invoke(p, c, new)
  BY Zenon
<1>17. p.panic = "none" /\ new \in Threads \cup {None}
  BY <1>2, <1>7, SMTT(30)
<1>18. Sound(r)
  BY <1>7, <1>8, <1>9, <1>10, <1>11, <1>12, <1>13, <1>14, <1>15, <1>16, <1>17,
     InvokeSound, SMTT(30)
<1>19. p = [Now EXCEPT !.runq = @ \ {new}]
  BY <1>1, <1>4, <1>6, ZenonT(30) DEF SetRunq
<1>20. Becomes(r)
  BY <1>16, <1>19, ZenonT(30) DEF Switch
<1> QED BY <1>18, <1>20, BecomesSound, SMTT(30)

(* c goes on to look for work, or to do it. *)
SetStatus(s, c, status) == SetCpu(s, c, [s.cpu[c] EXCEPT !.status = status])

(* A processor looks for work, or finds some. *)
LEMMA StatusCalm ==
  ASSUME NEW s, Calm(s), NEW c \in Cpus, s.cpu[c].status # "dispatching",
         NEW status \in {"running", "choosing", "idle"},
         NEW r, r = SetStatus(s, c, status)
  PROVE  /\ Calm(r) /\ r.cpu[c].cur = s.cpu[c].cur
         /\ r.cpu[c].old = s.cpu[c].old /\ r.cpu[c].wake = s.cpu[c].wake
<1>1. PICK k : k = s.cpu[c]
  BY Zenon
<1>2. k \in CpuType
  BY <1>1, CalmTyped
<1>3. PICK m : m = [k EXCEPT !.status = status]
  BY Zenon
<1>4. m \in CpuType
  <2>1. status \in {"running", "choosing", "idle", "dispatching"}
    OBVIOUS
  <2> QED BY <1>2, <1>3, <2>1, ZenonT(30) DEF CpuType
<1>5. /\ m.cur = k.cur /\ m.old = k.old /\ m.next = k.next
      /\ m.wake = k.wake /\ m.status = status
  BY <1>2, <1>3, SMTT(30) DEF CpuType
<1>6. k.old # None => k.wake = None
  BY <1>1, SMTT(30) DEF Calm, Core, WakeLast
<1>7. Core(s) /\ Sleepers(s)
  BY SMTT(30) DEF Calm
<1>8. /\ m.cur = s.cpu[c].cur /\ m.old = s.cpu[c].old /\ m.next = s.cpu[c].next
      /\ m.status = "dispatching" <=> s.cpu[c].status = "dispatching"
      /\ m.old # None => m.wake = None
  BY <1>1, <1>5, <1>6, SMTT(30)
<1>9. r = SetCpu(s, c, m)
  BY <1>1, <1>3, ZenonT(30) DEF SetStatus
<1>10. /\ Core(r) /\ r.thread = s.thread /\ r.runq = s.runq
       /\ r.cpu[c] = m /\ \A d \in Cpus : d # c => r.cpu[d] = s.cpu[d]
  BY <1>4, <1>7, <1>8, <1>9, CpuKeep, SMTT(30)
<1>11. \A d \in Cpus : r.cpu[d].wake = s.cpu[d].wake
  BY <1>1, <1>5, <1>10, SMTT(30)
<1>12. Sleepers(r)
  BY <1>7, <1>10, <1>11, SMTT(30) DEF Sleepers
<1> QED BY <1>1, <1>5, <1>10, <1>12, SMTT(30) DEF Calm

(***************************************************************************)
(* A processor finds nothing to run, or an idle one notices there is       *)
(* something.                                                              *)
(***************************************************************************)
LEMMA DoChoose ==
  ASSUME Calm(Now), NEW c \in Cpus, Choose(c) \/ IdleNotices(c)
  PROVE  Sound(Now)'
<1>1. PICK s : s = Now
  BY Zenon
<1>2. Calm(s) /\ s.cpu = cpu
  BY <1>1, NowFields, SMTT(30)
<1>3. s.cpu[c].status # "dispatching"
  BY <1>2 DEF Choose, IdleNotices, InBlock
<1>4. \E status \in {"running", "choosing"} : Becomes(SetStatus(s, c, status))
  BY <1>1, <1>2, ZenonT(30) DEF Choose, IdleNotices, SetStatus
<1>5. PICK status \in {"running", "choosing", "idle"} :
        Becomes(SetStatus(s, c, status))
  BY <1>4, ZenonT(30)
<1>6. PICK r : r = SetStatus(s, c, status)
  BY ZenonT(30)
<1>7. Calm(r)
  BY <1>2, <1>3, <1>6, StatusCalm, SMTT(30)
<1> QED BY <1>5, <1>6, <1>7, CalmSound, BecomesSound, SMTT(30)

(* A processor switches to its idle thread. *)
LEMMA DoGoIdle ==
  ASSUME Calm(Now), NEW c \in Cpus, GoIdle(c) PROVE Sound(Now)'
<1>1. PICK s : s = Now
  BY Zenon
<1>2. Calm(s) /\ s.cpu = cpu
  BY <1>1, NowFields, SMTT(30)
<1>3. /\ s.cpu[c].status # "dispatching"
      /\ s.cpu[c].old = None /\ s.cpu[c].wake = None
  BY <1>2 DEF GoIdle, InBlock, Busy
<1>4. PICK status \in {"running", "choosing", "idle"} : status = "idle"
  OBVIOUS
<1>5. PICK p : p = SetStatus(s, c, status)
  BY Zenon
<1>6. Calm(p) /\ p.cpu[c].old = None /\ p.cpu[c].wake = None
  <2>1. /\ Calm(p) /\ p.cpu[c].old = s.cpu[c].old
        /\ p.cpu[c].wake = s.cpu[c].wake
    BY <1>2, <1>3, <1>5, StatusCalm, SMTT(30)
  <2> QED BY <1>3, <2>1, SMTT(30)
<1>8. PICK new \in Threads \cup {None} : new = None
  OBVIOUS
<1>9. PICK r : r = Invoke(p, c, new)
  BY ZenonT(30)
<1>10. /\ p \in States /\ p.panic = "none"
       /\ Promised(p) /\ WakeLast(p) /\ Awake(p) /\ Sleepers(p)
       /\ \A u \in Threads : Local(p.thread[u])
       /\ \A u \in Threads : u # new => Placed(p, u)
  BY <1>6, SMTT(30) DEF Calm, Core
<1>11. Sound(r)
  <2>1. p.cpu[c].old = None /\ p.cpu[c].wake = None
    BY <1>6
  <2> QED BY <1>8, <1>9, <1>10, <2>1, InvokeSound, SMTT(30)
<1>12. Becomes(r)
  BY <1>1, <1>2, <1>4, <1>5, <1>8, <1>9, ZenonT(30) DEF GoIdle, SetStatus
<1> QED BY <1>11, <1>12, BecomesSound, SMTT(30)

(* An idle processor runs the thread that was promised to it. *)
LEMMA DoIdleDispatched ==
  ASSUME Calm(Now), NEW c \in Cpus, IdleDispatched(c) PROVE Sound(Now)'
<1>1. PICK s : s = Now
  BY Zenon
<1>2. Calm(s) /\ s.cpu = cpu /\ Core(s) /\ Sleepers(s) /\ s \in States
      /\ s.panic = "none"
  BY <1>1, NowFields, CalmTyped, SMTT(30) DEF Calm
<1>3. PICK k : k = s.cpu[c]
  BY Zenon
<1>4. k \in CpuType /\ k.old = None /\ k.wake = None /\ k.cur = None
      /\ k.status = "dispatching"
  BY <1>2, <1>3, CalmTyped, SMTT(30) DEF IdleDispatched, Busy
<1>5. PICK new : new = k.next
  BY ZenonT(30)
<1>6. new \in Threads /\ new # None
  BY <1>2, <1>3, <1>4, <1>5, SMTT(30) DEF Core, Promised, CpuType
<1>7. PICK m : m = [k EXCEPT !.status = "running", !.next = None]
  BY Zenon
<1>8. /\ m \in CpuType /\ m.cur = None /\ m.old = None /\ m.wake = None
      /\ m.next = None /\ m.status = "running"
  <2>1. "running" \in {"running", "choosing", "idle", "dispatching"}
        /\ None \in Threads \cup {None}
    OBVIOUS
  <2>2. m \in CpuType
    BY <1>4, <1>7, <2>1, ZenonT(30) DEF CpuType
  <2> QED BY <1>4, <1>7, <2>2, SMTT(30) DEF CpuType
<1>9. PICK p : p = SetCpu(s, c, m)
  BY Zenon
<1>10. /\ p \in States /\ p.cpu[c] = m
       /\ \A d \in Cpus : d # c => p.cpu[d] = s.cpu[d]
       /\ p.runq = s.runq /\ p.thread = s.thread /\ p.panic = "none"
  BY <1>2, <1>8, <1>9, CpuUpdate, SMTT(30)
<1>11. Promised(p) /\ WakeLast(p)
  BY <1>2, <1>8, <1>10, SMTT(30) DEF Core, Promised, WakeLast
<1>12. Awake(p)
  <2>1. SUFFICES ASSUME NEW v \in Threads, "WAIT" \in p.thread[v].state
                 PROVE  /\ v \notin p.runq
                        /\ \A d \in Cpus :
                             /\ p.cpu[d].next # v
                             /\ p.cpu[d].cur = v => p.thread[v].blocking
    BY DEF Awake
  <2>2. v # None
    BY NoneApart, SMTT(30)
  <2>3. /\ v \notin s.runq
        /\ \A d \in Cpus : /\ s.cpu[d].next # v
                           /\ s.cpu[d].cur = v => s.thread[v].blocking
    BY <1>2, <1>10, <2>1, SMTT(30) DEF Core, Awake
  <2> QED BY <1>8, <1>10, <2>2, <2>3, SMTT(30)
<1>13. Sleepers(p)
  <2>1. \A d \in Cpus : p.cpu[d].wake = s.cpu[d].wake
    BY <1>3, <1>4, <1>8, <1>10, SMTT(30)
  <2> QED BY <1>2, <1>10, <2>1, SMTT(30) DEF Sleepers
<1>14. \A u \in Threads : Local(p.thread[u])
  BY <1>2, <1>10, SMTT(30) DEF Core
<1>15. \A u \in Threads : u # new => Placed(p, u)
  <2>1. TAKE u \in Threads
  <2>2. HAVE u # new
  <2>3. u # None
    BY NoneApart
  <2>4. SameAt(s, p, u)
    BY <1>3, <1>4, <1>5, <1>8, <1>10, <2>2, <2>3, SMTT(30) DEF SameAt
  <2>5. Placed(s, u)
    BY <1>2, SMTT(30) DEF Core
  <2> QED BY <1>10, <2>4, <2>5, PlacedKeep, SMTT(30)
<1>16. Nowhere(p, new) /\ "RUN" \in p.thread[new].state
  <2>1. Placed(s, new) /\ In(s, new, c)
    BY <1>2, <1>3, <1>5, <1>6, SMTT(30) DEF Core, In
  <2>2. /\ new \notin s.runq /\ "RUN" \in s.thread[new].state
        /\ \A d \in Cpus : d # c => ~In(s, new, d)
    BY <2>1, SMTT(30) DEF Placed, Nowhere
  <2>3. \A d \in Cpus : ~In(p, new, d)
    BY <1>6, <1>8, <1>10, <2>2, SMTT(30) DEF In
  <2> QED BY <1>10, <2>2, <2>3, SMTT(30) DEF Nowhere
<1>17. "WAIT" \notin p.thread[new].state
  BY <1>2, <1>3, <1>5, <1>6, <1>10, SMTT(30) DEF Core, Awake
<1>18. PICK r : r = Invoke(p, c, new)
  BY Zenon
<1>19. /\ p \in States /\ p.panic = "none" /\ p.cpu[c].old = None
       /\ p.cpu[c].wake = None /\ new \in Threads \cup {None}
  BY <1>6, <1>8, <1>10, SMTT(30)
<1>20. Sound(r)
  BY <1>11, <1>12, <1>13, <1>14, <1>15, <1>16, <1>17, <1>18, <1>19,
     InvokeSound, SMTT(30)
<1>21. Becomes(r)
  BY <1>1, <1>2, <1>3, <1>5, <1>7, <1>9, <1>18, ZenonT(30) DEF IdleDispatched
<1> QED BY <1>20, <1>21, BecomesSound, SMTT(30)

(* thread_select keeps the current thread. *)
LEMMA DoStay ==
  ASSUME Calm(Now), NEW c \in Cpus, Stay(c) PROVE Sound(Now)'
<1>1. PICK s : s = Now
  BY Zenon
<1>2. /\ Calm(s) /\ s.cpu = cpu /\ s.thread = thread /\ Core(s) /\ Sleepers(s)
      /\ s \in States /\ s.panic = "none"
  BY <1>1, NowFields, CalmTyped, SMTT(30) DEF Calm
<1>3. PICK t : t = s.cpu[c].cur
  BY ZenonT(30)
<1>4. t \in Threads
  BY <1>2, <1>3, CalmTyped, SMTT(30) DEF Stay, CpuType
<1>5. PICK y : y = s.thread[t]
  BY ZenonT(30)
<1>6. y \in ThreadType /\ Local(y) /\ y.state = {"RUN"}
  BY <1>2, <1>3, <1>4, <1>5, CalmTyped, SMTT(30) DEF Stay
<1>7. PICK x : x = [y EXCEPT !.blocking = FALSE]
  BY Zenon
<1>8. x \in ThreadType
  BY <1>6, <1>7, ZenonT(30) DEF ThreadType
<1>9. /\ x.state = y.state /\ x.wait_event = y.wait_event /\ x.pc = y.pc
      /\ x.job = y.job /\ x.wake_active = y.wake_active
  BY <1>6, <1>7, SMTT(30) DEF ThreadType
<1>10. Local(x) /\ "WAIT" \notin x.state
  BY <1>6, <1>9, SMTT(30) DEF Local
<1>11. PICK q : q = SetThread(s, t, x)
  BY ZenonT(30)
<1>12. /\ Core(q) /\ q.thread[t] = x
       /\ \A u \in Threads : u # t => q.thread[u] = s.thread[u]
       /\ q.runq = s.runq /\ q.cpu = s.cpu
  BY <1>2, <1>4, <1>5, <1>8, <1>9, <1>10, <1>11, ThreadStep, SMTT(30)
<1>13. \A v \in Threads :
         /\ q.thread[v].wait_event \in {s.thread[v].wait_event, None}
         /\ s.thread[v].wake_active => q.thread[v].wake_active
  BY <1>5, <1>9, <1>12, SMTT(30)
<1>14. Calm(q)
  BY <1>2, <1>12, <1>13, SleepersKeep, SMTT(30) DEF Calm
<1>15. q \in States /\ q.panic = "none"
  BY <1>14, CalmTyped, SMTT(30)
<1>16. Becomes(SetPanic(q, "zombie")) \/ Becomes(SetPanic(q, q.panic))
  <2>1. Walks(s, t) = "zombie" \/ Walks(s, t) = q.panic
    BY <1>2, <1>15, SMTT(30) DEF Walks
  <2>2. Becomes(SetPanic(q, Walks(s, t)))
    BY <1>1, <1>2, <1>3, <1>5, <1>7, <1>11, ZenonT(30) DEF Stay, SetPanic
  <2> QED BY <2>1, <2>2, ZenonT(30)
<1>17. CASE Becomes(SetPanic(q, "zombie"))
  <2>1. PICK r : r = SetPanic(q, "zombie")
    BY Zenon
  <2>2. "zombie" \in Panics
    BY DEF Panics
  <2>3. r \in States /\ r.panic = "zombie"
    BY <1>15, <2>1, <2>2, PanicUpdate, SMTT(30)
  <2> QED BY <1>17, <2>1, <2>3, BecomesSound, SMTT(30) DEF Sound
<1>18. CASE Becomes(SetPanic(q, q.panic))
  BY <1>14, <1>15, <1>18, SamePanic, CalmSound, BecomesSound, SMTT(30)
<1> QED BY <1>16, <1>17, <1>18, SMTT(30)

(***************************************************************************)
(* thread_dispatch: the thread switched from stops, is queued again, or    *)
(* sleeps. WakeLast matters here: the processor has no earlier wakeup to   *)
(* finish, which this one would overwrite.                                 *)
(***************************************************************************)
LEMMA DoDispatch ==
  ASSUME Calm(Now), NEW c \in Cpus, thread_dispatch(c) PROVE Sound(Now)'
<1>1. PICK s : s = Now
  BY Zenon
<1>2. /\ Calm(s) /\ s.cpu = cpu /\ s.thread = thread /\ Core(s) /\ Sleepers(s)
      /\ s \in States /\ s.panic = "none"
  BY <1>1, NowFields, CalmTyped DEF Calm
<1>3. PICK k : k = s.cpu[c]
  BY Zenon
<1>4. k \in CpuType /\ k.old # None /\ k.wake = None
  BY <1>2, <1>3, CalmTyped, SMTT(30) DEF thread_dispatch, Core, WakeLast
<1>5. PICK t : t = k.old
  BY ZenonT(30)
<1>6. t \in Threads /\ t # None
  BY <1>4, <1>5, SMTT(30) DEF CpuType
<1>7. PICK m : m = [k EXCEPT !.old = None]
  BY Zenon
<1>8. /\ m \in CpuType /\ m.cur = k.cur /\ m.old = None /\ m.wake = None
      /\ m.next = k.next /\ m.status = k.status
  BY <1>4, <1>7, SMTT(30) DEF CpuType
<1>9. PICK p : p = SetCpu(s, c, m)
  BY Zenon
<1>10. /\ p \in States /\ p.cpu[c] = m
       /\ \A d \in Cpus : d # c => p.cpu[d] = s.cpu[d]
       /\ p.runq = s.runq /\ p.thread = s.thread /\ p.panic = "none"
  BY <1>2, <1>8, <1>9, CpuUpdate, SMTT(30)
<1>11. Promised(p) /\ WakeLast(p)
  BY <1>2, <1>3, <1>8, <1>10, SMTT(30) DEF Core, Promised, WakeLast
<1>12. \A d \in Cpus : /\ p.cpu[d].cur = s.cpu[d].cur
                       /\ p.cpu[d].next = s.cpu[d].next
                       /\ p.cpu[d].wake = s.cpu[d].wake
  BY <1>3, <1>4, <1>8, <1>10, SMTT(30)
<1>13. Awake(p)
  BY <1>2, <1>10, <1>12, SMTT(30) DEF Core, Awake
<1>14. \A u \in Threads : u # t => SameAt(s, p, u)
  <2>1. TAKE u \in Threads
  <2>2. HAVE u # t
  <2>3. u # None
    BY NoneApart
  <2> QED BY <1>3, <1>5, <1>8, <1>10, <1>12, <2>2, <2>3, SMTT(30) DEF SameAt
<1>15. Nowhere(p, t) /\ "RUN" \in s.thread[t].state
  <2>1. Placed(s, t) /\ In(s, t, c)
    BY <1>2, <1>3, <1>5, <1>6, SMTT(30) DEF Core, In
  <2>2. /\ t \notin s.runq /\ "RUN" \in s.thread[t].state
        /\ \A d \in Cpus : d # c => ~In(s, t, d)
        /\ k.cur # t /\ k.next # t
    BY <1>3, <1>5, <2>1, SMTT(30) DEF Placed, Nowhere
  <2>3. \A d \in Cpus : ~In(p, t, d)
    BY <1>6, <1>8, <1>10, <2>2, SMTT(30) DEF In
  <2> QED BY <1>10, <2>2, <2>3, SMTT(30) DEF Nowhere
<1>16. PICK y : y = s.thread[t]
  BY Zenon
<1>17. y \in ThreadType /\ Local(y)
  BY <1>2, <1>6, <1>16, CalmTyped, SMTT(30)
<1>18. PICK r : r = Dispatched(p, c, t)
  BY Zenon
<1>19. Becomes(r)
  BY <1>1, <1>2, <1>3, <1>5, <1>7, <1>9, <1>18, ZenonT(30) DEF thread_dispatch
<1>20. PICK x : x = [y EXCEPT !.state = y.state \ {"RUN"}]
  BY ZenonT(30)
<1>21. PICK q : q = SetThread(p, t, x)
  BY Zenon
<1>22. Calm(q) /\ q.cpu = p.cpu
  <2>1. y.state \ {"RUN"} \in SUBSET Flags
    BY <1>17 DEF ThreadType
  <2>2. x \in ThreadType
    BY <1>17, <1>20, <2>1, ZenonT(30) DEF ThreadType
  <2>3. /\ x.state = y.state \ {"RUN"} /\ x.wait_event = y.wait_event
        /\ x.wake_active = y.wake_active /\ x.job = y.job /\ x.pc = y.pc
    BY <1>17, <1>20, SMTT(30) DEF ThreadType
  <2>4. Local(x) /\ "RUN" \notin x.state
    BY <1>17, <2>3, SMTT(30) DEF Local
  <2>5. /\ q \in States /\ q.thread[t] = x
        /\ \A u \in Threads : u # t => q.thread[u] = p.thread[u]
        /\ q.runq = p.runq /\ q.cpu = p.cpu /\ q.panic = p.panic
    BY <1>6, <1>10, <1>21, <2>2, ThreadUpdate, SMTT(30)
  <2>6. \A u \in Threads : u # t => /\ q.thread[u] = s.thread[u]
                                    /\ SameAt(s, q, u)
    BY <1>10, <1>14, <2>5, SMTT(30) DEF SameAt
  <2>7. Nowhere(q, t) /\ Promised(q) /\ WakeLast(q)
    BY <1>11, <1>15, <2>5, SMTT(30) DEF Nowhere, In, Promised, WakeLast
  <2>8. /\ "RUN" \notin q.thread[t].state /\ Local(q.thread[t])
        /\ q.panic = "none" /\ q \in States
    BY <1>10, <2>4, <2>5, SMTT(30)
  <2>9. Core(q)
    BY <1>2, <1>6, <2>6, <2>7, <2>8, StopCore, SMTT(30)
  <2>10. \A v \in Threads :
           /\ q.thread[v].wait_event \in {s.thread[v].wait_event, None}
           /\ s.thread[v].wake_active => q.thread[v].wake_active
    BY <1>16, <2>3, <2>5, <2>6, SMTT(30)
  <2>11. \A d \in Cpus : q.cpu[d].wake = s.cpu[d].wake
    BY <1>12, <2>5, SMTT(30)
  <2> QED BY <1>2, <2>5, <2>9, <2>10, <2>11, SleepersKeep, SMTT(30) DEF Calm
<1>23. CASE r = q
  BY <1>19, <1>22, <1>23, CalmSound, BecomesSound, SMTT(30)
<1>24. CASE r = WakeLater(q, c, t)
  <2>1. q.cpu[c].old = None /\ q.cpu[c].wake = None
    BY <1>8, <1>10, <1>22, SMTT(30)
  <2>2. Calm(r)
    BY <1>6, <1>22, <1>24, <2>1, WakeLaterCalm, SMTT(30)
  <2> QED BY <1>19, <2>2, CalmSound, BecomesSound, SMTT(30)
<1>25. CASE r = thread_setrun(p, t) /\ y.state \in ToRequeue
  <2>1. "WAIT" \notin y.state
    BY <1>25, SMTT(30) DEF ToRequeue
  <2>2. /\ "WAIT" \notin p.thread[t].state /\ "RUN" \in p.thread[t].state
        /\ \A u \in Threads : Local(p.thread[u])
    BY <1>2, <1>10, <1>15, <1>16, <2>1, SMTT(30) DEF Core
  <2>3. \A u \in Threads : u # t => Placed(p, u)
    <3>1. TAKE u \in Threads
    <3>2. HAVE u # t
    <3>3. Placed(s, u) /\ SameAt(s, p, u)
      BY <1>2, <1>14, <3>2, SMTT(30) DEF Core
    <3> QED BY <1>10, <3>3, PlacedKeep, SMTT(30)
  <2>4. p \in States /\ p.panic = "none" /\ Nowhere(p, t)
    BY <1>10, <1>15, SMTT(30)
  <2>5. Core(r) /\ r.thread = p.thread
        /\ \A d \in Cpus : /\ r.cpu[d].cur = p.cpu[d].cur
                           /\ r.cpu[d].old = p.cpu[d].old
                           /\ r.cpu[d].wake = p.cpu[d].wake
    BY <1>6, <1>11, <1>13, <1>25, <2>2, <2>3, <2>4, SetrunCore, SMTT(30)
  <2>6. \A d \in Cpus : r.cpu[d].wake = s.cpu[d].wake
    BY <1>12, <2>5, SMTT(30)
  <2>7. r.thread = s.thread
    BY <1>10, <2>5, SMTT(30)
  <2>8. Sleepers(r)
    BY <1>2, <2>6, <2>7, SMTT(30) DEF Sleepers
  <2>9. Calm(r)
    BY <2>5, <2>8, SMTT(30) DEF Calm
  <2> QED BY <1>19, <2>9, CalmSound, BecomesSound
<1>26. CASE r = SetPanic(p, "dispatch")
  <2>1. "dispatch" \in Panics
    BY DEF Panics
  <2>2. r \in States /\ r.panic = "dispatch"
    BY <1>10, <1>26, <2>1, PanicUpdate, SMTT(30)
  <2> QED BY <1>19, <2>2, BecomesSound, SMTT(30) DEF Sound
<1>27. p.thread[t] = y
  BY <1>10, <1>16
<1>28. \/ r = q \/ r = WakeLater(q, c, t)
       \/ r = thread_setrun(p, t) /\ y.state \in ToRequeue
       \/ r = SetPanic(p, "dispatch")
  BY <1>18, <1>20, <1>21, <1>27, ZenonT(30) DEF Dispatched, SetPanic
<1> QED BY <1>23, <1>24, <1>25, <1>26, <1>28, SMTT(30)

(***************************************************************************)
(* The wakeup thread_dispatch or thread_dowait has left to do: after it    *)
(* nobody sleeps on that thread any more.                                  *)
(***************************************************************************)
LEMMA DoFinishWake ==
  ASSUME Calm(Now), NEW c \in Cpus, FinishWake(c) PROVE Sound(Now)'
<1>1. PICK s : s = Now
  BY Zenon
<1>2. /\ Calm(s) /\ s.cpu = cpu /\ s.thread = thread /\ Core(s) /\ Sleepers(s)
      /\ s \in States /\ s.panic = "none"
  BY <1>1, NowFields, CalmTyped DEF Calm
<1>3. PICK k : k = s.cpu[c]
  BY Zenon
<1>4. k \in CpuType
  BY <1>2, <1>3, CalmTyped, SMTT(30)
<1>5. PICK t : t = k.wake
  BY Zenon
<1>6. t # None
  BY <1>2, <1>3, <1>5, SMTT(30) DEF FinishWake
<1>7. PICK m : m = [k EXCEPT !.wake = None]
  BY Zenon
<1>8. /\ m \in CpuType /\ m.cur = k.cur /\ m.old = k.old /\ m.wake = None
      /\ m.next = k.next /\ m.status = k.status
  BY <1>4, <1>7, SMTT(30) DEF CpuType
<1>9. PICK p : p = SetCpu(s, c, m)
  BY Zenon
<1>10. /\ m.cur = s.cpu[c].cur /\ m.old = s.cpu[c].old /\ m.next = s.cpu[c].next
       /\ m.status = "dispatching" <=> s.cpu[c].status = "dispatching"
       /\ m.old # None => m.wake = None /\ m \in CpuType
  BY <1>3, <1>8, SMTT(30)
<1>11. /\ Core(p) /\ p.thread = s.thread /\ p.runq = s.runq
       /\ p.cpu[c] = m /\ \A d \in Cpus : d # c => p.cpu[d] = s.cpu[d]
  BY <1>2, <1>8, <1>9, <1>10, CpuKeep, SMTT(30)
<1>12. PICK r : r = thread_wakeup_prim(p, t, "awakened")
  BY ZenonT(30)
<1>13. /\ Core(r)
       /\ \A u \in Threads : IF p.thread[u].wait_event = t
                             THEN Woken(p.thread[u], r.thread[u])
                             ELSE r.thread[u] = p.thread[u]
       /\ \A d \in Cpus : /\ r.cpu[d].cur = p.cpu[d].cur
                          /\ r.cpu[d].old = p.cpu[d].old
                          /\ r.cpu[d].wake = p.cpu[d].wake
  BY <1>6, <1>11, <1>12, WakeupCore, SMTT(30)
<1>14. Sleepers(r)
  <2>1. SUFFICES ASSUME NEW u \in Threads, NEW v \in Threads,
                        r.thread[u].wait_event = v
                 PROVE  \/ r.thread[v].wake_active
                        \/ \E d \in Cpus : r.cpu[d].wake = v
    BY DEF Sleepers
  <2>2. v # None
    BY NoneApart, SMTT(30)
  <2>3. v # t /\ s.thread[u].wait_event = v
    BY <1>11, <1>13, <2>1, <2>2, SMTT(30) DEF Woken
  <2>4. s.thread[v].wake_active \/ \E d \in Cpus : s.cpu[d].wake = v
    BY <1>2, <2>3, SMTT(30) DEF Sleepers
  <2>5. CASE s.thread[v].wake_active
    BY <1>11, <1>13, <2>5, SMTT(30) DEF Woken
  <2>6. CASE \E d \in Cpus : s.cpu[d].wake = v
    <3>1. PICK d \in Cpus : s.cpu[d].wake = v
      BY <2>6, SMTT(30)
    <3>2. d # c
      BY <1>3, <1>5, <2>3, <3>1, SMTT(30)
    <3> QED BY <1>11, <1>13, <3>1, <3>2, SMTT(30)
  <2> QED BY <2>4, <2>5, <2>6, SMTT(30)
<1>15. Becomes(r)
  BY <1>1, <1>2, <1>3, <1>5, <1>7, <1>9, <1>12, ZenonT(30) DEF FinishWake
<1> QED BY <1>13, <1>14, <1>15, CalmSound, BecomesSound, SMTT(30) DEF Calm

-----------------------------------------------------------------------------
(* The first state. *)
LEMMA InitCalm == Init => Calm(Now)
<1> SUFFICES ASSUME Init PROVE Calm(Now)
  OBVIOUS
<1>1. PICK s : s = Now
  BY Zenon
<1>2. /\ s.thread = [t \in Threads |-> NewThread(t)] /\ s.runq = Threads
      /\ s.cpu = [c \in Cpus |-> IdleCpu] /\ s.panic = "none"
  BY <1>1, NowFields, SMTT(30) DEF Init
<1>3. IdleCpu \in CpuType
  BY DEF IdleCpu, CpuType
<1>4. /\ IdleCpu.cur = None /\ IdleCpu.old = None /\ IdleCpu.next = None
      /\ IdleCpu.wake = None /\ IdleCpu.status = "idle"
  BY DEF IdleCpu
<1>5. PICK k : k = IdleCpu
  BY Zenon
<1>6. \A c \in Cpus : s.cpu[c] = k
  BY <1>2, <1>5, SMTT(30)
<1>7. k \in CpuType /\ k.cur = None /\ k.old = None /\ k.next = None
      /\ k.wake = None /\ k.status = "idle"
  BY <1>3, <1>4, <1>5, SMTT(30)
<1>8. ASSUME NEW t \in Threads
      PROVE  /\ NewThread(t) \in ThreadType
             /\ NewThread(t).state = {"RUN"} /\ NewThread(t).wait_event = None
             /\ NewThread(t).pc \notin OnTarget
  <2>1. PICK label : label = IF t = Reaper THEN "reaper" ELSE "user"
    BY Zenon
  <2>2. label \in {"reaper", "user"}
    BY <2>1
  <2>3. label \in PC /\ label \notin OnTarget
    BY <2>2 DEF PC, OnTarget
  <2>4. PICK x : x = NewThread(t)
    BY Zenon
  <2>5. x = [state |-> {"RUN"}, wait_event |-> None,
             wait_result |-> "awakened", wake_active |-> FALSE,
             suspend_count |-> 0, user_stop_count |-> 0, ast |-> {},
             active |-> TRUE, clean |-> TRUE, pc |-> label,
             blocking |-> FALSE, job |-> NoJob, dead |-> FALSE]
    BY <2>1, <2>4, ZenonT(30) DEF NewThread
  <2>6. NoJob \in Jobs
    BY DEF NoJob, Jobs
  <2>7. 0 \in Int /\ 0 \in 0..MaxStops
    BY SchedAssumption
  <2>8. /\ {"RUN"} \in SUBSET Flags /\ {} \in SUBSET {"HALT", "TERMINATE"}
        /\ None \in WaitEvents \cup {None}
        /\ "awakened" \in {"awakened", "interrupted"}
        /\ TRUE \in BOOLEAN /\ FALSE \in BOOLEAN
    BY Zenon DEF Flags
  <2>9. x \in ThreadType
    BY <2>3, <2>5, <2>6, <2>7, <2>8, ZenonT(30) DEF ThreadType
  <2>10. x.state = {"RUN"} /\ x.wait_event = None /\ x.pc = label
    BY <2>5, SMTT(30)
  <2> QED BY <2>3, <2>4, <2>9, <2>10, SMTT(30)
<1>9. \A t \in Threads : /\ s.thread[t] \in ThreadType
                         /\ s.thread[t].state = {"RUN"}
                         /\ s.thread[t].wait_event = None
                         /\ s.thread[t].pc \notin OnTarget
  BY <1>2, <1>8
<1>10. s \in States
  <2>1. [t \in Threads |-> NewThread(t)] \in [Threads -> ThreadType]
    BY <1>8, Zenon
  <2>2. [c \in Cpus |-> IdleCpu] \in [Cpus -> CpuType]
    BY <1>3, Zenon
  <2>3. "none" \in Panics
    BY DEF Panics
  <2>4. s = [thread |-> thread, runq |-> runq, cpu |-> cpu, panic |-> panic]
    BY <1>1 DEF Now
  <2>5. /\ thread \in [Threads -> ThreadType] /\ runq \in SUBSET Threads
        /\ cpu \in [Cpus -> CpuType] /\ panic \in Panics
    BY <2>1, <2>2, <2>3, ZenonT(30) DEF Init
  <2> QED BY <2>4, <2>5, Zenon DEF States
<1>11. Promised(s) /\ WakeLast(s)
  BY <1>6, <1>7, SMTT(30) DEF Promised, WakeLast
<1>12. Awake(s)
  BY <1>9, SMTT(30) DEF Awake
<1>13. \A t \in Threads : Local(s.thread[t])
  BY <1>9, SMTT(30) DEF Local
<1>14. \A t \in Threads : Placed(s, t)
  <2>1. TAKE t \in Threads
  <2>2. t # None
    BY NoneApart, SMTT(30)
  <2>3. \A c \in Cpus : s.cpu[c].cur # t /\ s.cpu[c].old # t /\ s.cpu[c].next # t
    BY <1>6, <1>7, <2>2, SMTT(30)
  <2>4. \A c \in Cpus : ~In(s, t, c)
    BY <2>3 DEF In
  <2>5. t \in s.runq /\ "RUN" \in s.thread[t].state
    BY <1>2, <1>9, SMTT(30)
  <2> QED BY <2>3, <2>4, <2>5, SMTT(30) DEF Placed, Nowhere
<1>15. Sleepers(s)
  BY <1>9, NoneApart DEF Sleepers
<1> QED BY <1>1, <1>2, <1>10, <1>11, <1>12, <1>13, <1>14, <1>15, SMTT(30)
           DEF Calm, Core

(***************************************************************************)
(* No routine is entered after a panic, and only two touch the reaper's    *)
(* queue: first for the processors,                                        *)
(***************************************************************************)
LEMMA CpuStepRest ==
  ASSUME NEW c \in Cpus, CpuStep(c)
  PROVE  panic = "none" /\ UNCHANGED reaper_queue
<1>1. CASE \E t \in Threads : Switch(c, t)
  BY <1>1, Zenon DEF Switch, InBlock
<1>2. CASE Stay(c) \/ Choose(c) \/ GoIdle(c)
  BY <1>2, Zenon DEF Stay, Choose, GoIdle, InBlock
<1>3. CASE IdleDispatched(c) \/ IdleNotices(c)
  BY <1>3, Zenon DEF IdleDispatched, IdleNotices
<1>4. CASE thread_dispatch(c) \/ FinishWake(c)
  BY <1>4, Zenon DEF thread_dispatch, FinishWake
<1> QED BY <1>1, <1>2, <1>3, <1>4, ZenonT(30) DEF CpuStep

(* then for what threads do in the kernel, *)
LEMMA KernelStepRest ==
  ASSUME NEW u \in Threads, KernelStep(u)
  PROVE  /\ panic = "none"
         /\ \/ UNCHANGED reaper_queue
            \/ reaper_queue' = reaper_queue \cup {u}
            \/ \E t \in reaper_queue : reaper_queue' = reaper_queue \ {t}
<1>1. CASE ExitSelf(u)
  BY <1>1, Zenon DEF ExitSelf, Runs
<1>2. CASE reaper_thread_continue(u)
  BY <1>2, Zenon DEF reaper_thread_continue, Runs
<1>3. CASE SyscallReturn(u) \/ TakeAst(u) \/ HaltSelf(u) \/ Exited(u)
  BY <1>3, Zenon DEF SyscallReturn, TakeAst, HaltSelf, Exited, Runs
<1>4. CASE Preempt(u) \/ HaltWoke(u) \/ HaltAgain(u) \/ thread_dowait(u)
  BY <1>4, Zenon DEF Preempt, HaltWoke, HaltAgain, thread_dowait, Runs
<1>5. CASE DowaitWoke(u) \/ HaltFailed(u) \/ Release(u) \/ ClearWait(u)
  BY <1>5, Zenon DEF DowaitWoke, HaltFailed, Release, ClearWait, Runs
<1>6. CASE ClearWaitLocked(u) \/ AtCleanPoint(u) \/ AbortDone(u) \/ TerminateDone(u) \/ Reaped(u)
  BY <1>6, Zenon
     DEF ClearWaitLocked, AtCleanPoint, AbortDone, TerminateDone, Reaped, Runs
<1> QED BY <1>1, <1>2, <1>3, <1>4, <1>5, <1>6, ZenonT(30) DEF KernelStep

(* and for the calls they make. *)
LEMMA CallRest ==
  ASSUME NEW u \in Threads, Call(u)
  PROVE  panic = "none" /\ UNCHANGED reaper_queue
<1>1. CASE \E e \in Events, i, n \in BOOLEAN : Wait(u, e, i, n)
  BY <1>1, Zenon DEF Wait, MayCall, Runs
<1>2. CASE \E t \in Threads : \/ thread_suspend(u, t) \/ thread_resume(u, t)
                             \/ thread_abort(u, t) \/ thread_terminate(u, t)
  BY <1>2, ZenonT(30) DEF thread_suspend, thread_resume, thread_abort,
                     thread_terminate, MayName, MayCall, Runs
<1> QED BY <1>1, <1>2, Zenon DEF Call

(* No routine is entered after a panic, and the reaper's queue is of threads. *)
LEMMA NextRest ==
  ASSUME reaper_queue \in SUBSET Threads, Next
  PROVE  panic = "none" /\ reaper_queue' \in SUBSET Threads
<1>1. CASE \E c \in Cpus : CpuStep(c)
  BY <1>1, CpuStepRest, SMTT(30)
<1>2. CASE \E u \in Threads : KernelStep(u)
  <2>1. PICK u \in Threads : KernelStep(u)
    BY <1>2
  <2> QED BY <2>1, KernelStepRest, SMTT(30)
<1>3. CASE \E u \in Threads : Call(u)
  BY <1>3, CallRest, SMTT(30)
<1>4. CASE \E e \in Events : Occurs(e)
  BY <1>4, SMTT(30) DEF Occurs
<1> QED BY <1>1, <1>2, <1>3, <1>4, SMTT(30) DEF Next

(* Every step of a processor leads to a sound state, *)
LEMMA CpuStepSound ==
  ASSUME Calm(Now), NEW c \in Cpus, CpuStep(c) PROVE Sound(Now)'
  BY DoSwitch, DoStay, DoChoose, DoGoIdle, DoIdleDispatched, DoDispatch,
     DoFinishWake, SMTT(30) DEF CpuStep

(* and so does every step of a thread in the kernel, *)
LEMMA KernelStepSound ==
  ASSUME Calm(Now), reaper_queue \in SUBSET Threads, NEW u \in Threads,
         KernelStep(u)
  PROVE  Sound(Now)'
  BY DoSyscallReturn, DoTakeAst, DoHaltSelf, DoExitSelf, DoExited, DoPreempt,
     DoHaltWoke, DoHaltAgain, DoDowait, DoHaltFailed, DoRelease, DoClearWait,
     DoClearWaitLocked, DoAtCleanPoint, DoTerminateDone, DoReaper, SMTT(30) DEF KernelStep

(* and every call. *)
LEMMA CallSound ==
  ASSUME Calm(Now), NEW u \in Threads, Call(u) PROVE Sound(Now)'
  BY DoWait, DoSuspend, DoResume, DoAbort, DoTerminate, SMTT(30) DEF Call

(***************************************************************************)
(* The invariant holds in every reachable state, for any threads,          *)
(* processors, events and calls: all steps of thread_setrun, thread_block, *)
(* thread_dispatch, thread_dowait, thread_halt and the rest keep it.       *)
(***************************************************************************)
THEOREM Invariant == Spec => []IInv
<1>1. Init => IInv
  BY InitCalm, CalmSound, SMTT(30) DEF IInv, Init
<1>2. IInv /\ [Next]_vars => IInv'
  <2> SUFFICES ASSUME IInv, [Next]_vars PROVE IInv'
    OBVIOUS
  <2>1. CASE Next
    <3>1. /\ reaper_queue \in SUBSET Threads /\ panic = "none"
          /\ reaper_queue' \in SUBSET Threads
      BY <2>1, NextRest, SMTT(30) DEF IInv
    <3>2. Calm(Now)
      BY <3>1, SMTT(30) DEF IInv, Sound, Now
    <3>3. Sound(Now)'
      BY <2>1, <3>1, <3>2, CpuStepSound, KernelStepSound, CallSound, DoOccurs,
         SMTT(30)
         DEF Next
    <3> QED BY <3>1, <3>3, SMTT(30) DEF IInv
  <2>2. CASE UNCHANGED vars
    BY <2>2, SMTT(30) DEF vars, IInv, Now
  <2> QED BY <2>1, <2>2, SMTT(30)
<1> QED BY <1>1, <1>2, PTL DEF Spec

(* What IInv says of the variables, while there is no panic. *)
LEMMA NowCalm ==
  ASSUME IInv, panic = "none"
  PROVE  \E s : /\ Calm(s) /\ s.thread = thread /\ s.runq = runq
                /\ s.cpu = cpu
<1>1. PICK s : s = Now
  BY Zenon
<1>2. s.panic = "none" /\ Sound(s)
  BY <1>1, NowFields, SMTT(30) DEF IInv
<1> QED BY <1>1, <1>2, NowFields, SMTT(30) DEF Sound

(* Where t is, counted. *)
LEMMA PlacedCounted ==
  ASSUME NEW s, NEW t \in Threads, Placed(s, t), s.runq = runq, s.cpu = cpu
  PROVE  Cardinality(Occupies(t)) = IF "RUN" \in s.thread[t].state THEN 1 ELSE 0
<1> DEFINE On == {p \in {"cur", "old", "next"} \X Cpus : cpu[p[2]][p[1]] = t}
<1>1. CASE Nowhere(s, t)
  <2>1. On = {}
    BY <1>1, SMTT(30) DEF Nowhere, In
  <2>2. Occupies(t) = {}
    BY <1>1, <2>1, SMTT(30) DEF Nowhere, Occupies
  <2>3. "RUN" \notin s.thread[t].state
    BY <1>1, SMTT(30) DEF Placed
  <2> QED BY <2>2, <2>3, FS_EmptySet, SMTT(30)
<1>2. CASE t \in s.runq
  <2>1. \A c \in Cpus : ~In(s, t, c)
    BY <1>2, SMTT(30) DEF Placed
  <2>2. On = {}
    BY <2>1, SMTT(30) DEF In
  <2>3. Occupies(t) = {<<"runq", None>>}
    BY <1>2, <2>2, SMTT(30) DEF Occupies
  <2>4. "RUN" \in s.thread[t].state
    BY <1>2, SMTT(30) DEF Placed, Nowhere
  <2> QED BY <2>3, <2>4, FS_Singleton, ZenonT(30)
<1>3. CASE t \notin s.runq /\ \E c \in Cpus : In(s, t, c)
  <2>1. PICK c \in Cpus : In(s, t, c)
    BY <1>3, SMTT(30)
  <2>2. \A d \in Cpus : In(s, t, d) => d = c
    BY <2>1, SMTT(30) DEF Placed
  <2>3. PICK f \in {"cur", "old", "next"} : s.cpu[c][f] = t
    BY <2>1, SMTT(30) DEF In
  <2>4. \A g \in {"cur", "old", "next"} : s.cpu[c][g] = t => g = f
    BY <2>3, SMTT(30) DEF Placed
  <2>5. \A g \in {"cur", "old", "next"}, d \in Cpus :
          s.cpu[d][g] = t <=> d = c /\ g = f
    BY <2>2, <2>3, <2>4, SMTT(30) DEF In
  <2>6. On = {<<f, c>>}
    BY <2>5, SMTT(30)
  <2>7. Occupies(t) = {<<f, c>>}
    BY <1>3, <2>6, SMTT(30) DEF Occupies
  <2>8. "RUN" \in s.thread[t].state
    BY <1>3 DEF Placed, Nowhere
  <2> QED BY <2>7, <2>8, FS_Singleton, ZenonT(30)
<1> QED BY <1>1, <1>2, <1>3, SMTT(30) DEF Nowhere

(***************************************************************************)
(* A thread is TH_RUN exactly while it is on the run queue, current on a   *)
(* processor, switched from and not yet dispatched, or promised to an idle *)
(* processor, and it is in one of these places only: with any number of    *)
(* threads and processors, whatever the order in which thread_setrun,      *)
(* thread_dispatch, thread_dowait, thread_halt and the wakeups meet.       *)
(***************************************************************************)
THEOREM OnePlace == Spec => []RunnableInOnePlace
<1>1. IInv => RunnableInOnePlace
  <2> SUFFICES ASSUME IInv, panic = "none", NEW t \in Threads
               PROVE  Cardinality(Occupies(t)) =
                        IF "RUN" \in thread[t].state THEN 1 ELSE 0
    BY DEF RunnableInOnePlace
  <2>1. PICK s : /\ Calm(s) /\ s.thread = thread /\ s.runq = runq
                 /\ s.cpu = cpu
    BY NowCalm, SMTT(30)
  <2>2. Placed(s, t)
    BY <2>1, SMTT(30) DEF Calm, Core
  <2> QED BY <2>1, <2>2, PlacedCounted, SMTT(30)
<1> QED BY <1>1, Invariant, PTL

(***************************************************************************)
(* Whoever sleeps on &t->wake_active, in thread_dowait or thread_halt, is  *)
(* known: t->wake_active is set, or a processor has cleared it and is      *)
(* about to call thread_wakeup.  No order of thread_dispatch, the dequeue  *)
(* in thread_dowait and the sleep itself loses the wakeup.                 *)
(***************************************************************************)
THEOREM SleeperKnown == Spec => []SleeperIsKnown
<1>1. IInv => SleeperIsKnown
  <2> SUFFICES ASSUME IInv, panic = "none", NEW u \in Threads, NEW t \in Threads,
                      thread[u].wait_event = t
               PROVE  thread[t].wake_active \/ \E c \in Cpus : cpu[c].wake = t
    BY DEF SleeperIsKnown
  <2>1. PICK s : /\ Calm(s) /\ s.thread = thread /\ s.runq = runq
                 /\ s.cpu = cpu
    BY NowCalm
  <2> QED BY <2>1, SMTT(30) DEF Calm, Sleepers
<1> QED BY <1>1, Invariant, PTL

(***************************************************************************)
(* With any number of processors, thread_setrun never gets a thread that   *)
(* is on a run queue, thread_wakeup_prim never finds a thread on the queue *)
(* of an event without TH_WAIT, and assert_wait is never called by a       *)
(* thread that already waits.                                              *)
(***************************************************************************)
THEOREM Asserted == Spec => []AssertionsHold
<1>1. IInv => AssertionsHold
  BY NowFields DEF IInv, Sound, AssertionsHold, Now
<1> QED BY <1>1, Invariant, PTL
=============================================================================
