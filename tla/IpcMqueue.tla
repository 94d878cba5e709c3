----------------------------- MODULE IpcMqueue ------------------------------
(***************************************************************************)
(* Mach message queues: ipc/ipc_mqueue.c with the port and port set        *)
(* operations that touch a queue (ipc/ipc_port.c, ipc/ipc_pset.c) and the  *)
(* part of kern/ipc_sched.c and kern/sched_prim.c that blocks and wakes    *)
(* their threads.                                                          *)
(*                                                                         *)
(* A step is what one thread does under the port, set and queue locks it   *)
(* holds together.  With MP = FALSE (NCPUS = 1) a thread inside the kernel *)
(* runs until it blocks and only the clock interrupt gets in between; with *)
(* MP = TRUE (NCPUS > 1) the steps of all threads interleave.              *)
(***************************************************************************)
EXTENDS Integers, FiniteSets, SequencesExt

CONSTANTS
  Ports, Psets,
  Senders, Receivers,  \* the threads that call each routine
  None,                \* IPS_NULL, IKM_NULL, ITH_NULL
  MP,                  \* more than one processor
  Circular,            \* messages with MACH_MSGH_BITS_CIRCULAR occur
  QLimits,             \* the queue limits in use
  Sizes, Buffers,      \* message sizes and receive buffer sizes
  MaxSends             \* bound on the messages sent

Threads == Senders \cup Receivers
Objects == Ports \cup Psets

ASSUME IpcMqueueAssumption ==
  /\ MP \in BOOLEAN /\ Circular \in BOOLEAN
  /\ None \notin Objects \cup Threads
  /\ Ports \cap Psets = {}
  /\ QLimits \subseteq Nat /\ QLimits # {}
  /\ Sizes \subseteq Nat /\ Buffers \subseteq Nat
  /\ MaxSends \in Nat

VARIABLES
  active,     \* IO_BITS_ACTIVE of each port and set
  port,       \* ip_msgcount, ip_qlimit, ip_seqno, ip_pset, ip_blocked
  msgs,       \* imq_messages of each port and set
  receivers,  \* imq_threads of each port and set
  ith,        \* ith_state, ith_kmsg, ith_msize of each thread
  wait,       \* TH_WAIT, wait_result and timer of each thread
  pc, call,   \* where each thread stands and the arguments of its call
  panic,      \* a panic (or, with MACH_ASSERT, a failed assertion)
  accepted,   \* history: messages each port has accepted
  base        \* history: messages delivered before ip_seqno was last reset

vars  == <<active, port, msgs, receivers, ith, wait, pc, call, panic,
           accepted, base>>
hist  == <<accepted, base>>

Kmsg == [port : Ports, n : 0..MaxSends, size : Sizes]

Results == {"none", "awakened", "interrupted", "timed_out"}
States  == {"none", "success", "too_large", "port_died", "port_changed",
            "rcv_in_progress", "send_in_progress"}

(***************************************************************************)
(* user      outside the message routines                                  *)
(* sendblock ipc_mqueue_send, in thread_block                              *)
(* go        ipc_mqueue_send, queue unlocked, before thread_go(receiver)   *)
(* rcvblock  ipc_mqueue_receive, in thread_block                           *)
(* finish    ipc_mqueue_receive, has a kmsg, before ip_lock(port)          *)
(***************************************************************************)
PC == {"user", "sendblock", "go", "rcvblock", "finish"}

(***************************************************************************)
(* timer_set   thread_timeout: assert(thread->timer.set == TELT_UNSET)     *)
(* no_timeout  a caller without a timeout is told THREAD_TIMED_OUT         *)
(* wakeup      in progress, yet neither interrupted nor timed out          *)
(* state       ith_state is none of those a blocked thread can be left in  *)
(* msgcount    assert(port->ip_msgcount > 0) after a receive               *)
(***************************************************************************)
Panics == {"none", "timer_set", "no_timeout", "wakeup", "state", "msgcount"}

NoIth == [state |-> "none", kmsg |-> None, msize |-> 0]

Init ==
  /\ active = [o \in Objects |-> TRUE]
  /\ port \in [Ports -> {[msgcount |-> 0, qlimit |-> q, seqno |-> 0,
                          pset |-> None, blocked |-> <<>>] : q \in QLimits}]
  /\ msgs = [o \in Objects |-> <<>>]
  /\ receivers = [o \in Objects |-> <<>>]
  /\ ith = [t \in Threads |-> NoIth]
  /\ wait = [t \in Threads |-> [on |-> FALSE, result |-> "none",
                                timer |-> FALSE, late |-> "no"]]
  /\ pc = [t \in Threads |-> "user"]
  /\ call = [t \in Threads |-> None]
  /\ panic = "none"
  /\ accepted = [p \in Ports |-> 0]
  /\ base = [p \in Ports |-> 0]

-----------------------------------------------------------------------------
(***************************************************************************)
(* What the routines change while they hold the locks of a port, its set   *)
(* and a queue is one record, and each routine a function of it.           *)
(***************************************************************************)
Now == [port |-> port, msgs |-> msgs, receivers |-> receivers,
        ith |-> ith, wait |-> wait]

Becomes(s) == /\ port' = s.port /\ msgs' = s.msgs
              /\ receivers' = s.receivers /\ ith' = s.ith /\ wait' = s.wait

(***************************************************************************)
(* Blocking and waking.  wait[t].timer is thread->timer.set.  wait[t].late *)
(* tells that softclock has taken the timer off its list and has yet to    *)
(* call thread_timeout, and whether the thread was woken since.            *)
(***************************************************************************)
WillWait(s, t, timed) ==
  [s EXCEPT !.wait[t].on = TRUE, !.wait[t].result = "none",
            !.wait[t].timer = @ \/ timed]

(* The tail that thread_go and clear_wait share. *)
Woken(w, result) ==
  [w EXCEPT !.on = FALSE,
            !.timer = FALSE,
            !.result = IF w.on THEN result ELSE @,
            !.late = IF w.on /\ @ = "due" THEN "cancelled" ELSE @]

thread_go(s, S) ==
  [s EXCEPT !.wait = [t \in Threads |-> IF t \in S
                                          THEN Woken(@[t], "awakened")
                                          ELSE @[t]]]

MutRouseAsleep(s, p, n) ==  \* no thread_go
  [s EXCEPT !.port[p].blocked = SubSeq(@, n + 1, Len(@)),
            !.ith = [t \in Threads |->
                       IF t \in {s.port[p].blocked[i] : i \in 1..n}
                         THEN [@[t] EXCEPT !.state = "success"] ELSE @[t]]]

(* Senders taken off ip_blocked retry: MACH_MSG_SUCCESS and thread_go. *)
RouseSenders(s, p, n) ==
  LET some == {s.port[p].blocked[i] : i \in 1..n}
  IN  thread_go([s EXCEPT !.port[p].blocked = SubSeq(@, n + 1, Len(@)),
                          !.ith = [t \in Threads |->
                                     IF t \in some
                                       THEN [@[t] EXCEPT !.state = "success"]
                                       ELSE @[t]]],
                some)

(* With one processor a thread inside the kernel is not preempted. *)
MayRun(t) ==
  /\ panic = "none"
  /\ MP \/ \A u \in Threads \ {t} : pc[u] \notin {"go", "finish"}

Enter(t, at, c) == /\ pc' = [pc EXCEPT ![t] = at]
                   /\ call' = [call EXCEPT ![t] = c]
Return(t)       == Enter(t, "user", None)

QueueOf(s, p) == IF s.port[p].pset = None THEN p ELSE s.port[p].pset

-----------------------------------------------------------------------------
(***************************************************************************)
(* Message km meets the receivers waiting in queue o: those whose buffer   *)
(* is too small are sent away, the first that can take it gets it, and     *)
(* without one it is queued.                                               *)
(***************************************************************************)
FirstFit(s, o, size) ==
  LET rq   == s.receivers[o]
      fits == {k \in DOMAIN rq : size <= s.ith[rq[k]].msize}
  IN  IF fits = {} THEN Len(rq) + 1 ELSE Min(fits)

Taker(s, o, km) == LET k == FirstFit(s, o, km.size)
                   IN  IF k <= Len(s.receivers[o]) THEN s.receivers[o][k]
                                                   ELSE None

Offer(s, o, km) ==
  LET k     == FirstFit(s, o, km.size)
      away  == {s.receivers[o][i] : i \in 1..k-1}
      taker == Taker(s, o, km)
  IN  thread_go(
        [s EXCEPT
           !.receivers[o] = SubSeq(@, k + 1, Len(@)),
           !.ith = [t \in Threads |->
                      IF t \in away
                        THEN [@[t] EXCEPT !.state = "too_large",
                                          !.msize = km.size]
                      ELSE IF t = taker
                        THEN [@[t] EXCEPT !.state = "success", !.kmsg = km]
                      ELSE @[t]],
           !.msgs[o] = IF taker = None THEN Append(@, km) ELSE @,
           !.port[km.port].seqno = IF taker = None THEN @ ELSE @ + 1],
        away)

MutMoveAll(s, dest, source, p) ==  \* does not look at msgh_remote_port
  FoldLeft(LAMBDA q, km : thread_go(Offer(q, dest, km), {Taker(q, dest, km)}),
           [s EXCEPT !.msgs[source] = <<>>], s.msgs[source])

ipc_mqueue_move(s, dest, source, p) ==
  FoldLeft(LAMBDA q, km : thread_go(Offer(q, dest, km), {Taker(q, dest, km)}),
           [s EXCEPT !.msgs[source] =
                        SelectSeq(@, LAMBDA km : km.port # p)],
           SelectSeq(s.msgs[source], LAMBDA km : km.port = p))

MutChangedSilently(s, o, mr) ==  \* leaves ith_state alone
  thread_go([s EXCEPT !.receivers[o] = <<>>], ToSet(s.receivers[o]))

ipc_mqueue_changed(s, o, mr) ==
  LET all == ToSet(s.receivers[o])
  IN  thread_go([s EXCEPT !.receivers[o] = <<>>,
                          !.ith = [t \in Threads |->
                                     IF t \in all
                                       THEN [@[t] EXCEPT !.state = mr]
                                       ELSE @[t]]],
                all)

MutAddKeepsReceivers(s, pset, p) ==  \* no MACH_RCV_PORT_CHANGED
  ipc_mqueue_move([s EXCEPT !.port[p].pset = pset], pset, p, p)

ipc_pset_add(s, pset, p) ==
  ipc_mqueue_changed(
    ipc_mqueue_move([s EXCEPT !.port[p].pset = pset], pset, p, p),
    p, "port_changed")

ipc_pset_remove(s, p) ==
  ipc_mqueue_move([s EXCEPT !.port[p].pset = None], p, s.port[p].pset, p)

ipc_port_clear_receiver(s, p) ==
  LET r == IF s.port[p].pset # None THEN ipc_pset_remove(s, p)
                                    ELSE ipc_mqueue_changed(s, p, "port_died")
  IN  [r EXCEPT !.port[p].seqno = 0]

(* ipc_right.c destroys a receive right by clearing it and then the port. *)
ipc_port_destroy(s, p) ==
  LET r == ipc_port_clear_receiver(s, p)
  IN  [RouseSenders(r, p, Len(r.port[p].blocked)) EXCEPT !.msgs[p] = <<>>]

-----------------------------------------------------------------------------
(***************************************************************************)
(* ipc_mqueue_send from the top of its loop, with the port locked.  c is   *)
(* the call: its port obj, message size and kind, and whether there is a   *)
(* timeout and it has run down to zero.                                    *)
(***************************************************************************)
MayAccept(s, c) == \/ s.port[c.obj].msgcount < s.port[c.obj].qlimit
                   \/ c.kind = "once"

SendToDead(t, c, s) ==
  /\ ~active[c.obj]
  /\ Return(t) /\ Becomes(s)
  /\ UNCHANGED <<active, panic, hist>>

Accept(t, c, s) ==
  LET p  == c.obj
      km == [port |-> p, n |-> accepted[p], size |-> c.size]
      r  == [s EXCEPT !.port[p].msgcount = @ + 1]
      o  == QueueOf(s, p)
  IN  /\ active[p] /\ MayAccept(s, c) /\ c.kind # "circular"
      /\ Becomes(Offer(r, o, km))
      /\ accepted' = [accepted EXCEPT ![p] = @ + 1]
      /\ IF Taker(r, o, km) = None THEN Return(t)
                                   ELSE Enter(t, "go", Taker(r, o, km))
      /\ UNCHANGED <<active, panic, base>>

(***************************************************************************)
(* Destroying a circular message destroys the receive right it carries and *)
(* with it the group of ports it would have closed.  The destination is    *)
(* one of them unless its receive right was received after the copyin.     *)
(***************************************************************************)
DropCircular(t, c, s) ==
  /\ active[c.obj] /\ MayAccept(s, c) /\ c.kind = "circular"
  /\ Return(t)
  /\ \/ Becomes(s) /\ UNCHANGED active
     \/ /\ Becomes(ipc_port_destroy(s, c.obj))
        /\ active' = [active EXCEPT ![c.obj] = FALSE]
  /\ UNCHANGED <<panic, hist>>

SendBlock(t, c, s) ==
  /\ active[c.obj] /\ ~MayAccept(s, c)
  /\ ~(c.timed /\ c.zero)
  /\ Becomes([WillWait(s, t, c.timed) EXCEPT
                !.port[c.obj].blocked = Append(@, t),
                !.ith[t].state = "send_in_progress"])
  /\ Enter(t, "sendblock", c)
  /\ UNCHANGED <<active, panic, hist>>

SendExpired(t, c, s) ==
  /\ active[c.obj] /\ ~MayAccept(s, c)
  /\ c.timed /\ c.zero
  /\ Return(t) /\ Becomes(s)
  /\ UNCHANGED <<active, panic, hist>>

SendLoop(t, c, s) ==
  \/ SendToDead(t, c, s) \/ Accept(t, c, s) \/ DropCircular(t, c, s)
  \/ SendBlock(t, c, s)  \/ SendExpired(t, c, s)

(***************************************************************************)
(* A new call; MaxSends bounds the messages sent.  A timeout and a         *)
(* send-once right make a difference only to a call that finds the queue   *)
(* full.                                                                   *)
(***************************************************************************)
ipc_mqueue_send(t) ==
  /\ pc[t] = "user"
  /\ \E p \in Ports, size \in Sizes, timed \in BOOLEAN, zero \in BOOLEAN,
        kind \in {"normal", "once"} \cup (IF Circular THEN {"circular"} ELSE {}) :
       /\ active[p] => MapThenSumSet(LAMBDA q : accepted[q], Ports)
                         + Cardinality({u \in Senders : pc[u] = "sendblock"})
                           < MaxSends
       /\ zero => timed
       /\ timed \/ kind = "once" => active[p] /\ port[p].msgcount >= port[p].qlimit
       /\ SendLoop(t, [obj |-> p, size |-> size, kind |-> kind,
                       timed |-> timed, zero |-> zero], Now)

(***************************************************************************)
(* A thread is back from thread_block and has read ith_state and           *)
(* wait_result.  Nothing reads them again before they are written, so the  *)
(* model forgets them.                                                     *)
(***************************************************************************)
Back(t) == [Now EXCEPT !.ith[t] = NoIth, !.wait[t].result = "none"]

MutUnblocked(t) == Back(t)  \* stays in ip_blocked

Unblocked(t) == [Back(t) EXCEPT !.port[call[t].obj].blocked = Remove(@, t)]

(* The assertions and panics of both routines on a wakeup. *)
Unexplained(t, inprogress, known) ==
  /\ ith[t].state \notin known
  /\ ~(ith[t].state = inprogress /\ wait[t].result = "interrupted")
  /\ ~(ith[t].state = inprogress /\ wait[t].result = "timed_out" /\ call[t].timed)
  /\ panic' = IF ith[t].state # inprogress        THEN "state"
              ELSE IF wait[t].result = "timed_out" THEN "no_timeout"
              ELSE "wakeup"
  /\ UNCHANGED <<active, port, msgs, receivers, ith, wait, pc, call, hist>>

SendResume(t) ==
  LET c == call[t]
  IN  /\ pc[t] = "sendblock" /\ ~wait[t].on
      /\ \/ /\ ith[t].state = "success"
            /\ SendLoop(t, c, Back(t))
         \/ /\ ith[t].state = "send_in_progress"
            /\ wait[t].result = "interrupted"
            /\ Return(t) /\ Becomes(Unblocked(t))
            /\ UNCHANGED <<active, panic, hist>>
         \/ /\ ith[t].state = "send_in_progress"
            /\ wait[t].result = "timed_out" /\ c.timed
            /\ SendLoop(t, [c EXCEPT !.zero = TRUE], Unblocked(t))
         \/ Unexplained(t, "send_in_progress", {"success"})

(* The queue is unlocked before the receiver is started. *)
SendGo(t) ==
  /\ pc[t] = "go"
  /\ Becomes(thread_go(Now, {call[t]}))
  /\ Return(t)
  /\ UNCHANGED <<active, panic, hist>>

-----------------------------------------------------------------------------
(***************************************************************************)
(* ipc_mqueue_receive from the top of its loop, with queue c.obj locked.   *)
(***************************************************************************)
Take(t, c, s) ==
  LET q == s.msgs[c.obj]
  IN  /\ q # <<>>
      /\ \/ /\ Head(q).size > c.max        \* MACH_RCV_TOO_LARGE
            /\ Return(t) /\ Becomes(s)
         \/ /\ Head(q).size <= c.max
            /\ Enter(t, "finish", Head(q))
            /\ Becomes([s EXCEPT !.msgs[c.obj] = Tail(@),
                                 !.port[Head(q).port].seqno = @ + 1])

RcvBlock(t, c, s) ==
  /\ s.msgs[c.obj] = <<>>
  /\ ~(c.timed /\ c.zero)
  /\ Becomes([WillWait(s, t, c.timed) EXCEPT
                !.receivers[c.obj] = Append(@, t),
                !.ith[t] = [@ EXCEPT !.state = "rcv_in_progress",
                                     !.msize = c.max]])
  /\ Enter(t, "rcvblock", c)

RcvExpired(t, c, s) ==
  /\ s.msgs[c.obj] = <<>>
  /\ c.timed /\ c.zero
  /\ Return(t) /\ Becomes(s)

RcvLoop(t, c, s) ==
  /\ Take(t, c, s) \/ RcvBlock(t, c, s) \/ RcvExpired(t, c, s)
  /\ UNCHANGED <<active, panic, hist>>

(***************************************************************************)
(* ipc_mqueue_copyin: a port in a live set cannot be received from, one in *)
(* a dead set leaves it now.                                               *)
(***************************************************************************)
InLiveSet(p) == port[p].pset # None /\ active[port[p].pset]

ipc_mqueue_copyin(o) ==
  IF o \in Ports /\ port[o].pset # None THEN ipc_pset_remove(Now, o) ELSE Now

ipc_mqueue_receive(t) ==
  /\ pc[t] = "user"
  /\ \E o \in Objects, max \in Buffers, timed \in BOOLEAN, zero \in BOOLEAN :
       /\ active[o]
       /\ o \in Ports => ~InLiveSet(o)
       /\ zero => timed
       /\ timed => ipc_mqueue_copyin(o).msgs[o] = <<>>  \* read only to block
       /\ RcvLoop(t, [obj |-> o, max |-> max, timed |-> timed, zero |-> zero],
                  ipc_mqueue_copyin(o))

RcvResume(t) ==
  LET c == call[t]
      s == [Back(t) EXCEPT !.receivers[c.obj] = Remove(@, t)]
  IN  /\ pc[t] = "rcvblock" /\ ~wait[t].on
      /\ \/ /\ ith[t].state = "success"
            /\ Enter(t, "finish", ith[t].kmsg)
            /\ Becomes(Back(t))
            /\ UNCHANGED <<active, panic, hist>>
         \/ /\ ith[t].state \in {"too_large", "port_died", "port_changed"}
            /\ Return(t) /\ Becomes(Back(t))
            /\ UNCHANGED <<active, panic, hist>>
         \/ /\ ith[t].state = "rcv_in_progress"
            /\ wait[t].result = "interrupted"
            /\ Return(t) /\ Becomes(s)
            /\ UNCHANGED <<active, panic, hist>>
         \/ /\ ith[t].state = "rcv_in_progress"
            /\ wait[t].result = "timed_out" /\ c.timed
            /\ RcvLoop(t, [c EXCEPT !.zero = TRUE], s)
         \/ Unexplained(t, "rcv_in_progress", {"success", "too_large",
                                                "port_died", "port_changed"})

MutKeepsSlot(t) ==  \* counts down only for a waiting sender
  LET p == call[t].port
  IN  /\ pc[t] = "finish"
      /\ Becomes(IF active[p] /\ port[p].blocked # <<>>
                   THEN RouseSenders([Now EXCEPT !.port[p].msgcount = @ - 1], p, 1)
                   ELSE Now)
      /\ Return(t)
      /\ UNCHANGED <<active, panic, hist>>

(* The rest of a successful receive: the slot goes to a blocked sender. *)
Finish(t) ==
  LET p == call[t].port
      s == [Now EXCEPT !.port[p].msgcount = @ - 1]
  IN  /\ pc[t] = "finish"
      /\ \/ /\ active[p]
            /\ panic' = IF port[p].msgcount > 0 THEN panic ELSE "msgcount"
            /\ Becomes(IF /\ s.port[p].blocked # <<>>
                          /\ s.port[p].msgcount < s.port[p].qlimit
                         THEN RouseSenders(s, p, 1)
                         ELSE s)
         \/ /\ ~active[p]
            /\ UNCHANGED <<port, msgs, receivers, ith, wait, panic>>
      /\ Return(t)
      /\ UNCHANGED <<active, hist>>

-----------------------------------------------------------------------------
(***************************************************************************)
(* What the holders of the receive right do, from any thread.              *)
(***************************************************************************)
Quiet == \A t \in Threads : MayRun(t)

ipc_pset_move(p, nset) ==
  /\ Quiet
  /\ active[p]
  /\ nset # None => active[nset]
  /\ port[p].pset # nset
  /\ LET s == IF port[p].pset = None THEN Now ELSE ipc_pset_remove(Now, p)
     IN  Becomes(IF nset = None THEN s ELSE ipc_pset_add(s, nset, p))
  /\ UNCHANGED <<active, pc, call, panic, hist>>

ipc_pset_destroy(set) ==
  /\ Quiet /\ active[set]
  /\ active' = [active EXCEPT ![set] = FALSE]
  /\ Becomes(ipc_mqueue_changed(Now, set, "port_died"))
  /\ UNCHANGED <<pc, call, panic, hist>>

(* The receive right leaves its space in a message. *)
ReceiveRightLeaves(p) ==
  /\ Quiet /\ active[p]
  /\ Becomes(ipc_port_clear_receiver(Now, p))
  /\ base' = [base EXCEPT ![p] = @ + port[p].seqno]
  /\ UNCHANGED <<active, pc, call, panic, accepted>>

ReceiveRightDies(p) ==
  /\ Quiet /\ active[p]
  /\ active' = [active EXCEPT ![p] = FALSE]
  /\ Becomes(ipc_port_destroy(Now, p))
  /\ UNCHANGED <<pc, call, panic, hist>>

MutWakesNobody(p, qlimit) ==  \* blocked senders wait for the next receive
  /\ Quiet /\ active[p] /\ qlimit # port[p].qlimit
  /\ Becomes([Now EXCEPT !.port[p].qlimit = qlimit])
  /\ UNCHANGED <<active, pc, call, panic, hist>>

ipc_port_set_qlimit(p, qlimit) ==
  LET wakeup == qlimit - port[p].qlimit
      n      == IF wakeup < Len(port[p].blocked) THEN wakeup
                                                 ELSE Len(port[p].blocked)
      s      == IF wakeup > 0 THEN RouseSenders(Now, p, n) ELSE Now
  IN  /\ Quiet /\ active[p] /\ qlimit # port[p].qlimit
      /\ Becomes([s EXCEPT !.port[p].qlimit = qlimit])
      /\ UNCHANGED <<active, pc, call, panic, hist>>

(* ipc_port_set_seqno, with ipc_port_lock_mqueue; the new value is zero. *)
ipc_port_set_seqno(p) ==
  LET s == IF InLiveSet(p) THEN Now ELSE ipc_mqueue_copyin(p)
  IN  /\ Quiet /\ active[p] /\ port[p].seqno # 0
      /\ Becomes([s EXCEPT !.port[p].seqno = 0])
      /\ base' = [base EXCEPT ![p] = @ + port[p].seqno]
      /\ UNCHANGED <<active, pc, call, panic, accepted>>

-----------------------------------------------------------------------------
(***************************************************************************)
(* clear_wait, from thread_abort and the like and from the clock.  With    *)
(* one processor nothing runs between softclock's two halves.              *)
(***************************************************************************)
SetWait(t, w) == /\ wait' = [wait EXCEPT ![t] = w]
                 /\ UNCHANGED <<active, port, msgs, receivers, ith, pc, call, hist>>

Interrupt(t) ==
  /\ Quiet /\ wait[t].on
  /\ SetWait(t, Woken(wait[t], "interrupted")) /\ UNCHANGED panic

MutSoftclockDropsTimer(t) ==  \* takes the timer off and does not call fcn
  /\ panic = "none"
  /\ wait[t].timer
  /\ SetWait(t, [wait[t] EXCEPT !.timer = FALSE])
  /\ UNCHANGED panic

softclock(t) ==
  /\ panic = "none"
  /\ wait[t].timer /\ \A u \in Threads : wait[u].late = "no"
  /\ SetWait(t, IF MP THEN [wait[t] EXCEPT !.timer = FALSE, !.late = "due"]
                      ELSE Woken(wait[t], "timed_out"))
  /\ UNCHANGED panic

thread_timeout(t) ==
  /\ panic = "none"
  /\ wait[t].late # "no"
  /\ panic' = IF wait[t].timer THEN "timer_set" ELSE "none"
  /\ SetWait(t, [Woken(wait[t], "timed_out") EXCEPT !.late = "no"])

Step(t) == \/ t \in Senders /\ (SendResume(t) \/ SendGo(t))
           \/ t \in Receivers /\ (RcvResume(t) \/ Finish(t))

Next ==
  \/ \E t \in Senders   : MayRun(t) /\ (ipc_mqueue_send(t) \/ Step(t))
  \/ \E t \in Receivers : MayRun(t) /\ (ipc_mqueue_receive(t) \/ Step(t))
  \/ \E p \in Ports :
       \/ \E set \in Psets \cup {None} : ipc_pset_move(p, set)
       \/ ReceiveRightLeaves(p) \/ ReceiveRightDies(p)
       \/ ipc_port_set_seqno(p)
       \/ \E q \in QLimits : ipc_port_set_qlimit(p, q)
  \/ \E set \in Psets : ipc_pset_destroy(set)
  \/ \E t \in Threads : Interrupt(t) \/ softclock(t) \/ thread_timeout(t)

Spec == Init /\ [][Next]_vars

-----------------------------------------------------------------------------
(* The messages for p in queue o. *)
Pending(o, p) == SelectSeq(msgs[o], LAMBDA km : km.port = p)

(***************************************************************************)
(* Messages reach a live port's receivers in the order the port accepted   *)
(* them, each once: what is still queued, in the port's own queue or its   *)
(* set's, is the unbroken run from the next message to deliver to the last *)
(* one accepted, however often the port moved between sets, lost its       *)
(* receiver or had its sequence number reset.                              *)
(***************************************************************************)
MessagesInOrder ==
  \A p \in Ports : active[p] =>
    LET q    == Pending(QueueOf(Now, p), p)
        next == base[p] + port[p].seqno
    IN  /\ Len(q) = accepted[p] - next
        /\ \A i \in DOMAIN q : q[i].n = next + i - 1
        /\ \A o \in Objects \ {QueueOf(Now, p)} : Pending(o, p) = <<>>

(***************************************************************************)
(* ip_msgcount of a live port counts the messages queued and those in the  *)
(* hands of a receiver that has yet to lock the port.                      *)
(***************************************************************************)
InHand(p) ==
  {t \in Receivers : \/ pc[t] = "finish" /\ call[t].port = p
                     \/ /\ pc[t] = "rcvblock" /\ ith[t].state = "success"
                        /\ ith[t].kmsg.port = p}

MsgCountExact ==
  \A p \in Ports : active[p] =>
    port[p].msgcount = Len(Pending(QueueOf(Now, p), p)) + Cardinality(InHand(p))

(***************************************************************************)
(* A queue never holds messages and waiting receivers together (the        *)
(* assertions ipc_kmsg_queue_empty in ipc_mqueue_send and ipc_mqueue_move),*)
(* and nobody waits in the queue of a dead object or of a port in a set.   *)
(***************************************************************************)
NobodyWaitsForNothing ==
  \A o \in Objects : receivers[o] # <<>> =>
    /\ msgs[o] = <<>>
    /\ active[o]
    /\ o \in Ports => port[o].pset = None

(***************************************************************************)
(* A thread is in a wait queue exactly while its state says in progress,   *)
(* and then in the one queue its call names, so that ipc_thread_rmqueue    *)
(* never unlinks a thread from a queue it is not in.                       *)
(***************************************************************************)
Times(t, q) == Cardinality({i \in DOMAIN q : q[i] = t})

QueuedAsRecorded ==
  \A t \in Threads :
    /\ \A o \in Objects :
         Times(t, receivers[o]) =
           IF /\ pc[t] = "rcvblock" /\ ith[t].state = "rcv_in_progress"
              /\ call[t].obj = o THEN 1 ELSE 0
    /\ \A p \in Ports :
         Times(t, port[p].blocked) =
           IF /\ pc[t] = "sendblock" /\ ith[t].state = "send_in_progress"
              /\ call[t].obj = p THEN 1 ELSE 0

(***************************************************************************)
(* No sender is left blocked while its port has room: for every free slot  *)
(* of a live port with blocked senders, a sender has been roused and is on *)
(* its way to take it.                                                     *)
(***************************************************************************)
Roused(p) == {t \in Senders : /\ pc[t] = "sendblock" /\ call[t].obj = p
                              /\ ith[t].state = "success"}

NoStrandedSender ==
  \A p \in Ports : active[p] /\ port[p].blocked # <<>> =>
    port[p].qlimit - port[p].msgcount <= Cardinality(Roused(p))

(* None of the panics and assertions of the modelled routines is reached. *)
NoPanic == panic = "none"

-----------------------------------------------------------------------------
(***************************************************************************)
(* A runnable thread is eventually run and the clock does not stop.        *)
(***************************************************************************)
Fairness == \A t \in Threads : /\ WF_vars(MayRun(t) /\ Step(t))
                               /\ WF_vars(softclock(t))
                               /\ WF_vars(thread_timeout(t))

FairSpec == Spec /\ Fairness

(***************************************************************************)
(* A sender roused for a slot that is gone when it comes to take it blocks *)
(* again, with its full timeout: one that meets this for ever never ends.  *)
(***************************************************************************)
AlwaysTooLate(t) == []<>(pc[t] = "sendblock" /\ ith[t].state = "success")

(* A send or receive with a timeout returns, though nobody serves it. *)
TimeoutsEnd ==
  \A t \in Threads :
    \/ AlwaysTooLate(t)
    \/ pc[t] \in {"sendblock", "rcvblock"} /\ call[t].timed ~> pc[t] = "user"

(***************************************************************************)
(* A sender blocked on a full port returns, with a timeout or without, if  *)
(* the receivers are in ipc_mqueue_receive again and again, as servers     *)
(* are, and the queue limit is not left at zero.                           *)
(***************************************************************************)
Served == /\ \A t \in Receivers : []<>(pc[t] # "user")
          /\ \A p \in Ports : []<>(port[p].qlimit > 0)

SendersGetThrough ==
  Served => \A t \in Senders : \/ AlwaysTooLate(t)
                               \/ pc[t] = "sendblock" ~> pc[t] = "user"

=============================================================================
