------------------------------ MODULE IpcRight ------------------------------
(***************************************************************************)
(* Port rights: the entries of IPC spaces, the ports they name, and every  *)
(* operation that makes, moves, copies or destroys a right                 *)
(* (ipc/ipc_right.c, ipc_port.c, ipc_object.c, ipc_notify.c, ipc_space.c,  *)
(* with the system calls of mach_port.c and the message path of            *)
(* ipc_kmsg.c).                                                            *)
(*                                                                         *)
(* A step is what a thread does between taking its first lock (of a space  *)
(* or a port) and releasing its last.  What it still has to do then, with  *)
(* the rights it carries in its hands, is the list work[t] of jobs; other  *)
(* threads run between two jobs.                                           *)
(*                                                                         *)
(* Port sets, msg-accepted requests and the entries of the old interface   *)
(* (IE_BITS_COMPAT) do not occur.                                          *)
(***************************************************************************)
EXTENDS Integers, Sequences, FiniteSets, FiniteSetsExt, SequencesExt

CONSTANTS
  Spaces, Ports, Threads,
  Names,        \* of each space, numbers
  MaxSlots,     \* of the table ip_dnrequests of each port
  None,         \* IP_NULL, IS_NULL, MACH_PORT_NULL
  UrefsMax,     \* MACH_PORT_UREFS_MAX
  Given,        \* at the start: the rights [port, space, name, type, urefs]
  Ops,          \* the calls that occur
  Dispositions, \* the ways in which they take rights (see Hows)
  MaxCalls      \* bound on the number of calls, but for "terminate"

AllOps == {"allocate", "deallocate", "destroy", "mod_refs", "rename", "move",
           "send", "receive", "no_senders", "dead_name", "port_destroyed",
           "terminate", "shortage"}

Hows == {"make_send", "make_once", "move_receive",
         "copy_send", "move_send", "move_once"}

ASSUME IpcRightAssumption ==
  /\ None \notin Spaces \cup Ports
  /\ Names \subseteq Nat /\ MaxSlots \in Nat
  /\ UrefsMax \in Nat /\ UrefsMax > 1
  /\ \A g \in Given : /\ g.port \in Ports /\ g.space \in Spaces
                       /\ g.name \in Names
                       /\ g.type \in {{"receive"}, {"send"},
                                      {"send", "receive"}}
                       /\ g.urefs \in IF "send" \in g.type
                                       THEN 1..(UrefsMax - 1) ELSE {0}
  /\ \A g, h \in Given : g # h =>
       /\ <<g.space, g.name>> # <<h.space, h.name>>
       /\ <<g.space, g.port>> # <<h.space, h.port>>
       /\ g.port = h.port => "receive" \notin g.type \cap h.type
  /\ \A g \in Given : \E h \in Given : h.port = g.port /\ "receive" \in h.type
  /\ Ops \subseteq AllOps /\ Dispositions \subseteq Hows
  /\ MaxCalls \in Nat

VARIABLES
  active,    \* is_active of each space
  entry,     \* the entry of each name of each space
  port,      \* the fields of each port
  work,      \* what each thread has in hand
  calls      \* the number of calls so far

vars == <<active, entry, port, work, calls>>

Slots == 1..MaxSlots

Kinds == {"send", "receive", "once"}
Rights == [port : Ports \cup {None}, kind : Kinds \cup {"none"}]
Right(p, k) == [port |-> p, kind |-> k]
NoRight == Right(None, "none")     \* also IO_DEAD

EntryType == [type  : SUBSET (Kinds \cup {"dead"}),   \* IE_BITS_TYPE
              urefs : 0..UrefsMax,                    \* IE_BITS_UREFS
              obj   : Ports \cup {None},              \* ie_object
              req   : Slots \cup {0}]                 \* ie_request
FreeEntry == [type |-> {}, urefs |-> 0, obj |-> None, req |-> 0]

(***************************************************************************)
(* History fields.  early: the no-senders request was made when there was  *)
(* no send right, with a sync above the make-send count.  ghosts, orphans: *)
(* the send rights and the dead-name requests of entries that were turned  *)
(* into dead names for a port taken to be dead (see DeltaReceive).         *)
(***************************************************************************)
NoRequest == [name |-> 0, so |-> None]
Unused == [state |-> "free", refs |-> 0, srights |-> 0, sorights |-> 0,
           mscount |-> 0, receiver |-> None, rname |-> None, dest |-> None,
           ns |-> None, pd |-> None, dn |-> [i \in Slots |-> NoRequest],
           msgs |-> <<>>, early |-> FALSE, ghosts |-> 0, orphans |-> {}]
NewPort(s, n) ==
  [Unused EXCEPT !.state = "active", !.refs = 1, !.receiver = s, !.rname = n]

(***************************************************************************)
(* A job holds the right [port, kind] and the right body.                  *)
(***************************************************************************)
Job == [op |-> "", port |-> None, kind |-> "none", body |-> NoRight,
        space |-> None, name |-> 0, how |-> "", sync |-> 0]
ForRight(op, r) == [Job EXCEPT !.op = op, !.port = r.port, !.kind = r.kind]
ForPort(op, p) == [Job EXCEPT !.op = op, !.port = p]
Notify(so, r) == [ForRight("notify", Right(so, "once")) EXCEPT !.body = r]
Copyout(s, r) == [ForRight("copyout", r) EXCEPT !.space = s]

(***************************************************************************)
(* The state as a record, and a step of thread t: it consumes the job it   *)
(* works on, and leaves st.todo to be done before the rest.                *)
(***************************************************************************)
Now == [active |-> active, entry |-> entry, port |-> port, todo |-> <<>>]
Becomes(t, st) ==
  /\ active' = st.active /\ entry' = st.entry /\ port' = st.port
  /\ work' = [work EXCEPT ![t] = st.todo \o (IF @ = <<>> THEN @ ELSE Tail(@))]

Later(st, job) == [st EXCEPT !.todo = Append(@, job)]
LaterIf(c, st, job) == IF c THEN Later(st, job) ELSE st
LaterNotify(st, so) == LaterIf(so # None, st, Notify(so, NoRight))
LaterDestroy(st, r) == LaterIf(r.port # None, st, ForRight("destroy", r))
LaterKmsg(st, r) == LaterIf(r.port # None, st, ForRight("kmsg", r))
LaterCopyout(st, s, r) == LaterIf(r.port # None, st, Copyout(s, r))

Live(st, p) == st.port[p].state = "active"

(***************************************************************************)
(* io_release, io_check_unlock: the port is freed with its last reference. *)
(***************************************************************************)
Release(st, p) ==
  IF st.port[p].refs = 1 THEN [st EXCEPT !.port[p] = Unused]
                         ELSE [st EXCEPT !.port[p].refs = @ - 1]

(***************************************************************************)
(* A send right goes.  The last one takes the no-senders request along,    *)
(* and the caller sends the notification once the port is unlocked.        *)
(***************************************************************************)
SendersGone(st, p) == IF st.port[p].srights = 1 THEN st.port[p].ns ELSE None
DropSend(st, p) ==
  [st EXCEPT !.port[p].srights = @ - 1,
             !.port[p].ns = IF st.port[p].srights = 1 THEN None ELSE @]

MakeSend(st, p) ==
  [st EXCEPT !.port[p].mscount = @ + 1, !.port[p].srights = @ + 1,
             !.port[p].refs = @ + 1, !.port[p].early = FALSE]
CopySend(st, p) ==
  [st EXCEPT !.port[p].srights = @ + 1, !.port[p].refs = @ + 1]
MakeOnce(st, p) ==
  [st EXCEPT !.port[p].sorights = @ + 1, !.port[p].refs = @ + 1]
ReleaseOnce(st, p) == Release([st EXCEPT !.port[p].sorights = @ - 1], p)

-----------------------------------------------------------------------------
(***************************************************************************)
(* ipc_port_destroy.  The caller holds the receive right, which is in no   *)
(* space.  A port with a backup (pd) is sent there instead; otherwise the  *)
(* port dies and is taken apart unlocked.  Nobody looks at ns of a dead    *)
(* port, so it moves to the hands of the thread here.                      *)
(***************************************************************************)
Deactivate(st, p) ==
  LET s1 == LaterNotify([st EXCEPT !.port[p].state = "dead",
                                   !.port[p].ns = None,
                                   !.port[p].receiver = None,
                                   !.port[p].rname = None,
                                   !.port[p].dest = None],
                        st.port[p].ns)
      s2 == Later(s1, ForPort("messages", p))
      s3 == Later(s2, ForPort("deadnames", p))
  IN  Later(s3, ForPort("release", p))

InLimbo(st, p) ==
  [st EXCEPT !.port[p].receiver = None, !.port[p].rname = None,
             !.port[p].dest = None, !.port[p].mscount = 0]

PortDestroy(st, p) ==
  LET pd == st.port[p].pd IN
  IF pd = None THEN Deactivate(st, p)
  ELSE Later(InLimbo([st EXCEPT !.port[p].pd = None], p),
             [ForRight("backup", Right(p, "receive")) EXCEPT
                !.body = Right(pd, "once")])

ReleaseReceive(st, p) ==
  LET d == st.port[p].dest IN
  LaterIf(d # None, PortDestroy(st, p), ForPort("release", d))

(***************************************************************************)
(* ipc_port_check_circularity: would the port in limbo, put into a message *)
(* for dest, become part of a circle?  If not, it is in transit.           *)
(***************************************************************************)
InTransit(st, p) == Live(st, p) /\ st.port[p].receiver = None
                                /\ st.port[p].dest # None

Base(st, p) ==      \* the end of the chain of ports in transit
  LET f[q \in Ports, k \in 0..Cardinality(Ports)] ==
        IF InTransit(st, q) /\ k > 0 THEN f[st.port[q].dest, k - 1] ELSE q
  IN  f[p, Cardinality(Ports)]

(* As Circular, but nothing is checked. *)
MutCircularNever(st, p, dest) == FALSE

Circular(st, p, dest) == p = dest \/ Base(st, dest) = p
PutInTransit(st, p, dest) ==
  [st EXCEPT !.port[p].dest = dest, !.port[dest].refs = @ + 1]

-----------------------------------------------------------------------------
SetEntry(st, s, n, e) == [st EXCEPT !.entry[s][n] = e]

(***************************************************************************)
(* ipc_right_dncancel: the dead-name request of an entry is given up.      *)
(***************************************************************************)
DnRequest(st, s, n) ==
  LET e == st.entry[s][n] IN
  IF e.req = 0 THEN None ELSE st.port[e.obj].dn[e.req].so
Dncancel(st, s, n) ==
  LET e == st.entry[s][n] IN
  IF e.req = 0 THEN st
  ELSE [st EXCEPT !.port[e.obj].dn[e.req] = NoRequest,
                  !.entry[s][n].req = 0]

(***************************************************************************)
(* ipc_right_check: an entry for a dead port becomes a dead name, with one *)
(* more user reference for the dead-name notification.                     *)
(***************************************************************************)
DeadEntry(e) == [type |-> {"dead"}, obj |-> None, req |-> 0,
                 urefs |-> IF e.req = 0 THEN e.urefs ELSE e.urefs + 1]
Checked(st, s, n) ==
  LET e == st.entry[s][n] IN
  IF e.obj = None \/ Live(st, e.obj) THEN st
  ELSE Release(SetEntry(st, s, n, DeadEntry(e)), e.obj)

(***************************************************************************)
(* The entry loses delta user references of its send or dead-name right,   *)
(* and the right with the last; an entry without rights is deallocated.    *)
(***************************************************************************)
Without(e, right) ==
  IF e.type = {right} THEN FreeEntry
  ELSE [e EXCEPT !.type = @ \ {right}, !.urefs = 0]
LessUrefs(e, right, delta) ==
  IF e.urefs = delta THEN Without(e, right)
                     ELSE [e EXCEPT !.urefs = @ - delta]

(***************************************************************************)
(* The last user reference of a send right goes, as in ipc_right_dealloc   *)
(* and ipc_right_delta.  The reference of the entry is kept if the entry   *)
(* still has the receive right.                                            *)
(***************************************************************************)
LoseSend(st, s, n) ==
  LET e == st.entry[s][n]
      p == e.obj
      s1 == DropSend(st, p)
      pure == e.type = {"send"}
      s2 == IF pure THEN Release(Dncancel(s1, s, n), p) ELSE s1
      s3 == SetEntry(s2, s, n, Without(e, "send"))
      s4 == LaterNotify(s3, SendersGone(st, p))
  IN  IF pure THEN LaterNotify(s4, DnRequest(st, s, n)) ELSE s4

LoseOnce(st, s, n) ==
  LET p == st.entry[s][n].obj IN
  LaterNotify(LaterNotify(SetEntry(Dncancel(st, s, n), s, n, FreeEntry), p),
              DnRequest(st, s, n))

(***************************************************************************)
(* ipc_right_dealloc                                                       *)
(***************************************************************************)
Dealloc(st, s, n) ==
  LET c == IF "receive" \in st.entry[s][n].type THEN st
           ELSE Checked(st, s, n)
      e == c.entry[s][n]
  IN  CASE e.type = {"dead"} ->
             SetEntry(c, s, n, LessUrefs(e, "dead", 1))
        [] e.type = {"once"} -> LoseOnce(c, s, n)
        [] "send" \in e.type ->
             IF e.urefs = 1 THEN LoseSend(c, s, n)
             ELSE SetEntry(c, s, n, LessUrefs(e, "send", 1))
        [] OTHER -> c

(***************************************************************************)
(* ipc_right_destroy, and ipc_right_clean for the entries of a dead space. *)
(***************************************************************************)
Destroy(st, s, n) ==
  LET e == st.entry[s][n]
      p == e.obj
      gone == SetEntry(Dncancel(st, s, n), s, n, FreeEntry)
      s1 == IF "send" \in e.type THEN DropSend(gone, p) ELSE gone
      s2 == CASE "receive" \in e.type -> PortDestroy(InLimbo(s1, p), p)
              [] "once" \in e.type -> LaterNotify(s1, p)
              [] OTHER -> Release(s1, p)
      s3 == IF "send" \in e.type THEN LaterNotify(s2, SendersGone(st, p))
                                 ELSE s2
  IN  IF e.type = {"dead"} THEN SetEntry(st, s, n, FreeEntry)
      ELSE IF ~Live(st, p) THEN Release(SetEntry(st, s, n, FreeEntry), p)
      ELSE LaterNotify(s3, DnRequest(st, s, n))

(***************************************************************************)
(* ipc_right_delta, by the right whose user references change.  The send   *)
(* right that is left without its receive right turns into a dead name,    *)
(* still counted and with its request still in the port: the port is taken *)
(* to be dead already.  PortDestroy may yet send it to its backup.         *)
(***************************************************************************)
TakenForDead(st, s, n) ==
  LET e == st.entry[s][n] IN
  [SetEntry(st, s, n, DeadEntry(e)) EXCEPT
     !.port[e.obj].ghosts = @ + 1,
     !.port[e.obj].orphans = @ \cup ({e.req} \ {0})]

DeltaReceive(st, s, n, delta) ==
  LET e == st.entry[s][n]
      p == e.obj
      s1 == IF "send" \in e.type
            THEN PortDestroy(InLimbo(TakenForDead(st, s, n), p), p)
            ELSE LaterNotify(
                   PortDestroy(InLimbo(SetEntry(Dncancel(st, s, n), s, n,
                                                FreeEntry), p), p),
                   DnRequest(st, s, n))
  IN  IF "receive" \in e.type /\ delta = -1 THEN s1 ELSE st

DeltaOnce(st, s, n, delta) ==
  LET c == Checked(st, s, n) IN
  IF "once" \notin st.entry[s][n].type \/ delta # -1 THEN st
  ELSE IF "once" \in c.entry[s][n].type THEN LoseOnce(c, s, n) ELSE c

DeltaDead(st, s, n, delta) ==
  LET c == IF st.entry[s][n].type \cap {"send", "once"} # {}
           THEN Checked(st, s, n) ELSE st
      e == c.entry[s][n]
  IN  IF e.type = {"dead"} /\ e.urefs + delta \in 0..UrefsMax
      THEN SetEntry(c, s, n, LessUrefs(e, "dead", -delta)) ELSE c

DeltaSend(st, s, n, delta) ==
  LET u == st.entry[s][n].urefs
      c == Checked(st, s, n)
      e == c.entry[s][n]
  IN  IF "send" \notin st.entry[s][n].type
         \/ u + delta < 0 \/ (delta > 0 /\ u + 1 + delta > UrefsMax) THEN st
      ELSE IF "send" \notin e.type THEN c
      ELSE IF u + delta = 0 THEN LoseSend(c, s, n)
      ELSE SetEntry(c, s, n, LessUrefs(e, "send", -delta))

Delta(st, s, n, right, delta) ==
  CASE right = "receive" -> DeltaReceive(st, s, n, delta)
    [] right = "once"    -> DeltaOnce(st, s, n, delta)
    [] right = "dead"    -> DeltaDead(st, s, n, delta)
    [] right = "send"    -> DeltaSend(st, s, n, delta)

(***************************************************************************)
(* ipc_right_rename: the entry moves to the free name m.                   *)
(***************************************************************************)
(* As Rename, but the request keeps the old name. *)
MutRenameEntryOnly(st, s, n, m) ==
  LET e == st.entry[s][n]
      s1 == IF "receive" \in e.type
            THEN [st EXCEPT !.port[e.obj].rname = m] ELSE st
  IN  SetEntry(SetEntry(s1, s, n, FreeEntry), s, m, e)

Rename(st, s, n, m) ==
  LET c == IF st.entry[s][n].req = 0 THEN st ELSE Checked(st, s, n)
      e == c.entry[s][n]
      s1 == IF e.req = 0 THEN c
            ELSE [c EXCEPT !.port[e.obj].dn[e.req].name = m]
      s2 == IF "receive" \in e.type
            THEN [s1 EXCEPT !.port[e.obj].rname = m] ELSE s1
  IN  SetEntry(SetEntry(s2, s, n, FreeEntry), s, m, e)

-----------------------------------------------------------------------------
(***************************************************************************)
(* ipc_right_copyin, with the deallocation of an empty entry its callers   *)
(* do: the right that is taken out of the entry and, if that was the end   *)
(* of the entry, the dead-name request for a port-deleted notification.    *)
(***************************************************************************)
HowsOfSend == Hows \ {"move_receive"}       \* MACH_MSG_TYPE_PORT_ANY_SEND

CopyinType(how) ==
  CASE how \in {"make_send", "copy_send", "move_send"} -> "send"
    [] how \in {"make_once", "move_once"} -> "once"
    [] how = "move_receive" -> "receive"

Copied(st, r, so) == [ok |-> TRUE, st |-> st, right |-> r, so |-> so]
Invalid(st) == [ok |-> FALSE, st |-> st, right |-> NoRight, so |-> None]

MoveReceive(st, s, n) ==
  LET e == st.entry[s][n]
      p == e.obj
      out == InLimbo(st, p)
  IN  IF "send" \in e.type
      THEN Copied([out EXCEPT !.port[p].refs = @ + 1,
                              !.entry[s][n].type = {"send"}],
                  Right(p, "receive"), None)
      ELSE Copied(SetEntry(Dncancel(out, s, n), s, n, FreeEntry),
                  Right(p, "receive"), DnRequest(st, s, n))

(* As MoveSend, but the copy of a send right is not counted. *)
MutMoveSendUncounted(st, s, n) ==
  LET e == st.entry[s][n]
      p == e.obj
      one == IF e.urefs > 1 THEN LessUrefs(e, "send", 1) ELSE Without(e, "send")
  IN  IF e.urefs > 1 \/ "receive" \in e.type
      THEN Copied([SetEntry(st, s, n, one) EXCEPT !.port[p].refs = @ + 1],
                  Right(p, "send"), None)
      ELSE Copied(SetEntry(Dncancel(st, s, n), s, n, FreeEntry),
                  Right(p, "send"), DnRequest(st, s, n))

MoveSend(st, s, n) ==
  LET e == st.entry[s][n]
      p == e.obj
  IN  IF e.urefs > 1
      THEN Copied(CopySend(SetEntry(st, s, n, LessUrefs(e, "send", 1)), p),
                  Right(p, "send"), None)
      ELSE IF "receive" \in e.type
      THEN Copied([SetEntry(st, s, n, Without(e, "send"))
                     EXCEPT !.port[p].refs = @ + 1],
                  Right(p, "send"), None)
      ELSE Copied(SetEntry(Dncancel(st, s, n), s, n, FreeEntry),
                  Right(p, "send"), DnRequest(st, s, n))

MoveOnce(st, s, n) ==
  Copied(SetEntry(Dncancel(st, s, n), s, n, FreeEntry),
         Right(st.entry[s][n].obj, "once"), DnRequest(st, s, n))

(***************************************************************************)
(* A dead name gives IO_DEAD, if the caller allows that (deadok).          *)
(***************************************************************************)
CopyinDead(st, s, n, how, deadok) ==
  LET e == st.entry[s][n] IN
  IF ~deadok THEN Invalid(st)
  ELSE IF how = "copy_send" THEN Copied(st, NoRight, None)
  ELSE Copied(SetEntry(st, s, n, LessUrefs(e, "dead", 1)), NoRight, None)

Copyin(st, s, n, how, deadok) ==
  LET e == st.entry[s][n]
      c == Checked(st, s, n)
      kind == CopyinType(how)
  IN  IF how \in {"make_send", "make_once", "move_receive"}
      THEN CASE "receive" \notin e.type -> Invalid(st)
             [] how = "make_send" /\ "receive" \in e.type ->
                  Copied(MakeSend(st, e.obj), Right(e.obj, "send"), None)
             [] how = "make_once" /\ "receive" \in e.type ->
                  Copied(MakeOnce(st, e.obj), Right(e.obj, "once"), None)
             [] how = "move_receive" /\ "receive" \in e.type ->
                  MoveReceive(st, s, n)
      ELSE CASE e.type \cap {"send", "once", "dead"} = {} -> Invalid(st)
             [] c.entry[s][n].type = {"dead"} ->
                  CopyinDead(c, s, n, how, deadok)
             [] Live(st, e.obj) /\ kind \notin e.type -> Invalid(st)
             [] Live(st, e.obj) /\ kind \in e.type ->
                  CASE how = "copy_send" ->
                         Copied(CopySend(st, e.obj), Right(e.obj, "send"),
                                None)
                    [] how = "move_send" -> MoveSend(st, s, n)
                    [] how = "move_once" -> MoveOnce(st, s, n)

(***************************************************************************)
(* ipc_right_copyout: a right to a live port enters the entry.  The user   *)
(* references of a send right stay one short of the maximum, which leaves  *)
(* room for the one of the dead-name notification (DeadEntry).             *)
(***************************************************************************)
(* As CopyoutSend, with no room left for the dead-name notification. *)
MutCopyoutSendToMax(st, s, n, p, overflow) ==
  LET e == st.entry[s][n]
      dup == Release([st EXCEPT !.port[p].srights = @ - 1], p)
  IN  CASE e.type = {} ->
             SetEntry(st, s, n, [FreeEntry EXCEPT !.type = {"send"},
                                                  !.urefs = 1, !.obj = p])
        [] e.type = {"receive"} ->
             Release([st EXCEPT !.entry[s][n].type = @ \cup {"send"},
                                !.entry[s][n].urefs = 1], p)
        [] "send" \in e.type ->
             IF e.urefs < UrefsMax
             THEN [dup EXCEPT !.entry[s][n].urefs = @ + 1] ELSE dup

CopyoutSend(st, s, n, p, overflow) ==
  LET e == st.entry[s][n]
      dup == Release([st EXCEPT !.port[p].srights = @ - 1], p)
  IN  CASE e.type = {} ->
             SetEntry(st, s, n, [FreeEntry EXCEPT !.type = {"send"},
                                                  !.urefs = 1, !.obj = p])
        [] e.type = {"receive"} ->
             Release([st EXCEPT !.entry[s][n].type = @ \cup {"send"},
                                !.entry[s][n].urefs = 1], p)
        [] "send" \in e.type ->
             IF e.urefs + 1 < UrefsMax
             THEN [dup EXCEPT !.entry[s][n].urefs = @ + 1]
             ELSE IF overflow THEN dup
             ELSE LaterDestroy(st, Right(p, "send"))

CopyoutReceive(st, s, n, p) ==
  LET e == st.entry[s][n]
      d == st.port[p].dest
      s1 == [st EXCEPT !.port[p].receiver = s, !.port[p].rname = n,
                       !.port[p].dest = None]
      s2 == IF e.type = {}
            THEN SetEntry(s1, s, n, [FreeEntry EXCEPT !.type = {"receive"},
                                                      !.obj = p])
            ELSE Release([s1 EXCEPT !.entry[s][n].type = @ \cup {"receive"}],
                         p)
  IN  IF d = None THEN s2 ELSE Release(s2, d)

RightCopyout(st, s, n, r, overflow) ==
  CASE r.kind = "once" ->
         SetEntry(st, s, n, [FreeEntry EXCEPT !.type = {"once"}, !.urefs = 1,
                                              !.obj = r.port])
    [] r.kind = "send" -> CopyoutSend(st, s, n, r.port, overflow)
    [] r.kind = "receive" -> CopyoutReceive(st, s, n, r.port)

(***************************************************************************)
(* ipc_object_copyout, to a name the space chooses, and, when the caller   *)
(* chooses the name n, ipc_object_copyout_name.  A right that cannot be    *)
(* given out is destroyed by the caller.                                   *)
(***************************************************************************)
RightReverse(st, s, p) ==      \* the name of the live port p in s
  IF st.port[p].receiver = s THEN {st.port[p].rname}
  ELSE {n \in Names : st.entry[s][n].obj = p /\ st.entry[s][n].type = {"send"}}
FreeNames(st, s) == {n \in Names : st.entry[s][n].type = {}}

ObjectCopyout(st, s, r) ==
  LET have == IF r.kind = "once" THEN {} ELSE RightReverse(st, s, r.port) IN
  IF ~st.active[s] \/ ~Live(st, r.port)
                   \/ (have = {} /\ FreeNames(st, s) = {})
  THEN LaterDestroy(st, r)
  ELSE RightCopyout(st, s, Min(IF have # {} THEN have ELSE FreeNames(st, s)),
                    r, TRUE)

ObjectCopyoutName(st, s, n, r) ==
  LET have == IF r.kind = "once" THEN {} ELSE RightReverse(st, s, r.port) IN
  IF \/ ~st.active[s] \/ ~Live(st, r.port)
     \/ (have # {} /\ have # {n})
     \/ (have = {} /\ st.entry[s][n].type # {})
  THEN LaterDestroy(st, r)
  ELSE RightCopyout(st, s, n, r, FALSE)

-----------------------------------------------------------------------------
(***************************************************************************)
(* The jobs.                                                               *)
(*                                                                         *)
(* ipc_object_destroy: a right that belongs to no space goes.              *)
(***************************************************************************)
ReleaseSend(st, p) ==
  IF Live(st, p) THEN LaterNotify(Release(DropSend(st, p), p),
                                  SendersGone(st, p))
                 ELSE Release(st, p)
ObjectDestroy(st, r) ==
  CASE r.kind = "send" -> ReleaseSend(st, r.port)
    [] r.kind = "once" -> LaterNotify(st, r.port)
    [] r.kind = "receive" -> ReleaseReceive(st, r.port)

(***************************************************************************)
(* ipc_notify_*: without memory for the message, the rights are released.  *)
(* ipc_mqueue_send_always: a message to a dead port is destroyed.          *)
(***************************************************************************)
(* As NotifyDropped, but the right in the message is lost. *)
MutNotifyForgotten(st, j) == ReleaseOnce(st, j.port)

NotifyDropped(st, j) ==
  LET s1 == ReleaseOnce(st, j.port) IN
  IF j.body.port = None THEN s1 ELSE ReleaseReceive(s1, j.body.port)
(* As Enqueue, but the right to a dead port is destroyed with the message. *)
MutEnqueueDestroys(st, j) ==
  IF Live(st, j.port)
  THEN [st EXCEPT !.port[j.port].msgs =
                    Append(@, [kind |-> j.kind, body |-> j.body])]
  ELSE LaterKmsg(LaterDestroy(st, Right(j.port, j.kind)), j.body)

Enqueue(st, j) ==
  IF Live(st, j.port)
  THEN [st EXCEPT !.port[j.port].msgs =
                    Append(@, [kind |-> j.kind, body |-> j.body])]
  ELSE LaterKmsg(Release(st, j.port), j.body)

(***************************************************************************)
(* ipc_port_destroy, unlocked: the backup (a circle destroys the port      *)
(* after all), the queued messages and the dead-name requests.             *)
(***************************************************************************)
Backup(st, j) ==
  LET p == j.port
      pd == j.body.port
  IN  IF Circular(st, p, pd) THEN Deactivate(ReleaseOnce(st, pd), p)
      ELSE Later(PutInTransit(st, p, pd), Notify(pd, Right(p, "receive")))

DestroyMessages(st, p) ==
  LET Drop(x, m) == LaterKmsg(Release(x, p), m.body) IN
  FoldLeft(Drop, [st EXCEPT !.port[p].msgs = <<>>], st.port[p].msgs)

DeadNames(st, p) ==
  LET Tell(x, request) == LaterNotify(x, request.so) IN
  FoldLeft(Tell, [st EXCEPT !.port[p].dn = Unused.dn], st.port[p].dn)

(***************************************************************************)
(* ipc_kmsg_copyin_body, for a message with one right.  A receive right    *)
(* has its circularity checked when the space is unlocked; ipc_mqueue_send *)
(* destroys a message that would close a circle.                           *)
(***************************************************************************)
(* As CopyinBody, but a failure leaves the destination right behind. *)
MutCopyinBodyFails(st, j) ==
  LET c == Copyin(st, j.space, j.name, j.how, TRUE)
      next == IF c.right.kind = "receive" THEN "transit" ELSE "enqueue"
  IN  IF st.active[j.space] /\ c.ok
      THEN Later(LaterNotify(c.st, c.so),
                 [ForRight(next, Right(j.port, j.kind)) EXCEPT
                    !.body = c.right])
      ELSE st

CopyinBody(st, j) ==
  LET c == Copyin(st, j.space, j.name, j.how, TRUE)
      next == IF c.right.kind = "receive" THEN "transit" ELSE "enqueue"
  IN  IF st.active[j.space] /\ c.ok
      THEN Later(LaterNotify(c.st, c.so),
                 [ForRight(next, Right(j.port, j.kind)) EXCEPT
                    !.body = c.right])
      ELSE LaterDestroy(st, Right(j.port, j.kind))

Transit(st, j) ==
  IF Circular(st, j.body.port, j.port)
  THEN Later(st, [j EXCEPT !.op = "circular"])
  ELSE Later(PutInTransit(st, j.body.port, j.port),
             [j EXCEPT !.op = "enqueue"])

SendCircular(st, j) ==
  IF Live(st, j.port)
  THEN LaterKmsg(LaterDestroy(st, Right(j.port, j.kind)), j.body)
  ELSE LaterKmsg(Release(st, j.port), j.body)

(***************************************************************************)
(* ipc_kmsg_copyout_header: the right the message was sent to is consumed. *)
(***************************************************************************)
CopyoutDest(st, j) ==
  LET p == j.port IN
  IF ~Live(st, p) THEN Release(st, p)
  ELSE IF j.kind = "send"
  THEN LaterNotify(Release(DropSend(st, p), p), SendersGone(st, p))
  ELSE IF st.port[p].receiver = j.space THEN ReleaseOnce(st, p)
  ELSE LaterNotify(st, p)

(***************************************************************************)
(* mach_port_request_notification: the send-once right [j.port, j.kind] is *)
(* registered, or a request is cancelled (no right).  The previous one is  *)
(* returned to the caller; on failure the right is destroyed.              *)
(***************************************************************************)
Previous(st, s, so) == LaterCopyout(st, s, Right(so, "once"))
Failed(st, j) == LaterDestroy(st, Right(j.port, j.kind))

Pdrequest(st, j, p) ==
  IF j.sync # 0 THEN Failed(st, j)
  ELSE Previous([st EXCEPT !.port[p].pd = j.port], j.space, st.port[p].pd)

(* As Nsrequest, off by one in the comparison with sync. *)
MutNsrequestLate(st, j, p) ==
  LET q == st.port[p]
      s1 == [st EXCEPT !.port[p].ns = j.port,
                       !.port[p].early = /\ j.port # None /\ q.srights = 0
                                           /\ j.sync > q.mscount]
  IN  IF q.srights = 0 /\ j.sync < q.mscount /\ j.port # None
      THEN Previous(LaterNotify([st EXCEPT !.port[p].ns = None], j.port),
                    j.space, q.ns)
      ELSE Previous(s1, j.space, q.ns)

Nsrequest(st, j, p) ==
  LET q == st.port[p]
      s1 == [st EXCEPT !.port[p].ns = j.port,
                       !.port[p].early = /\ j.port # None /\ q.srights = 0
                                           /\ j.sync > q.mscount]
  IN  IF q.srights = 0 /\ j.sync <= q.mscount /\ j.port # None
      THEN Previous(LaterNotify([st EXCEPT !.port[p].ns = None], j.port),
                    j.space, q.ns)
      ELSE Previous(s1, j.space, q.ns)

(***************************************************************************)
(* ipc_right_dnrequest.  When the table is full it is grown, unlocked, and *)
(* the routine starts over: this is its last pass, and a table of MaxSlots *)
(* cannot grow.                                                            *)
(***************************************************************************)
DnrequestLive(st, j) ==
  LET s == j.space
      n == j.name
      p == st.entry[s][n].obj
      previous == DnRequest(st, s, n)
      s1 == Dncancel(st, s, n)
      free == {i \in Slots : s1.port[p].dn[i] = NoRequest}
      slot == IF st.entry[s][n].req # 0 THEN st.entry[s][n].req ELSE Min(free)
  IN  IF j.port = None THEN Previous(s1, s, previous)
      ELSE IF free = {} THEN Failed(st, j)
      ELSE Previous([s1 EXCEPT
                       !.port[p].dn[slot] = [name |-> n, so |-> j.port],
                       !.entry[s][n].req = slot], s, previous)

Dnrequest(st, j) ==
  LET c == Checked(st, j.space, j.name)
      e == c.entry[j.space][j.name]
  IN  IF e.obj # None THEN DnrequestLive(c, j)
      ELSE IF j.sync # 0 /\ j.port # None /\ e.urefs < UrefsMax
      THEN LaterNotify([c EXCEPT !.entry[j.space][j.name].urefs = @ + 1],
                       j.port)
      ELSE Failed(c, j)

Request(st, j) ==
  LET e == st.entry[j.space][j.name] IN
  IF ~st.active[j.space] \/ e.type = {} THEN Failed(st, j)
  ELSE IF j.how = "dead_name" THEN Dnrequest(st, j)
  ELSE IF "receive" \notin e.type THEN Failed(st, j)
  ELSE IF j.how = "port_destroyed" THEN Pdrequest(st, j, e.obj)
  ELSE Nsrequest(st, j, e.obj)

(***************************************************************************)
(* A step of a thread that has work in hand.                               *)
(***************************************************************************)
Does(j, st) ==
  CASE j.op = "destroy"   -> ObjectDestroy(st, Right(j.port, j.kind))
    [] j.op = "cleaned"   -> st
    [] j.op = "notify"    -> Enqueue(st, j)
    [] j.op = "enqueue"   -> Enqueue(st, j)
    [] j.op = "circular"  -> SendCircular(st, j)
    [] j.op = "backup"    -> Backup(st, j)
    [] j.op = "messages"  -> DestroyMessages(st, j.port)
    [] j.op = "deadnames" -> DeadNames(st, j.port)
    [] j.op = "release"   -> Release(st, j.port)
    [] j.op = "body"      -> CopyinBody(st, j)
    [] j.op = "transit"   -> Transit(st, j)
    [] j.op = "dest"      -> CopyoutDest(st, j)
    [] j.op = "request"   -> Request(st, j)
    [] j.op = "clean"     -> Destroy(st, j.space, j.name)
    [] j.op = "copyout"   ->
         IF j.name = 0 THEN ObjectCopyout(st, j.space, Right(j.port, j.kind))
         ELSE ObjectCopyoutName(st, j.space, j.name, Right(j.port, j.kind))

Work(t) ==
  /\ work[t] # <<>> /\ Head(work[t]).op # "kmsg"
  /\ Becomes(t, Does(Head(work[t]), Now))
  /\ UNCHANGED calls

(***************************************************************************)
(* ipc_kmsg_destroy: the right in a message is destroyed now, unless the   *)
(* thread is in the middle of destroying another message.  Then the        *)
(* message waits in ith_messages, and the jobs up to "cleaned" go first.   *)
(***************************************************************************)
KmsgDestroy(t) ==
  /\ work[t] # <<>> /\ Head(work[t]).op = "kmsg"
  /\ LET job == [Head(work[t]) EXCEPT !.op = "destroy"]
         rest == Tail(work[t])
         end == SelectInSeq(rest, LAMBDA j : j.op = "cleaned")
     IN  work' = [work EXCEPT ![t] =
           IF end # 0 THEN InsertAt(rest, end, job)
           ELSE <<job, [Job EXCEPT !.op = "cleaned"]>> \o rest]
  /\ UNCHANGED <<active, entry, port, calls>>

Shortage(t) ==       \* ikm_alloc fails
  /\ "shortage" \in Ops
  /\ work[t] # <<>> /\ Head(work[t]).op = "notify"
  /\ Becomes(t, NotifyDropped(Now, Head(work[t])))
  /\ UNCHANGED calls

-----------------------------------------------------------------------------
(***************************************************************************)
(* The calls.  Any thread may act on any space: the threads of a task, and *)
(* those that hold its task port.  A call that changes nothing is a        *)
(* stuttering step.                                                        *)
(***************************************************************************)
MayCall(t, op) == op \in Ops /\ work[t] = <<>> /\ calls < MaxCalls
Call(t, st) == Becomes(t, st) /\ calls' = IF st = Now THEN calls ELSE calls + 1
Named(s, n) == active[s] /\ entry[s][n].type # {}

Allocate(t, s) ==
  /\ MayCall(t, "allocate")
  /\ active[s] /\ FreeNames(Now, s) # {}
  /\ LET n == Min(FreeNames(Now, s)) IN
     \E p \in Ports :
       /\ port[p].state = "free"
       /\ Call(t, SetEntry([Now EXCEPT !.port[p] = NewPort(s, n)], s, n,
                           [FreeEntry EXCEPT !.type = {"receive"}, !.obj = p]))

Deallocate(t, s, n) ==
  /\ MayCall(t, "deallocate") /\ Named(s, n)
  /\ Call(t, Dealloc(Now, s, n))

DestroyName(t, s, n) ==
  /\ MayCall(t, "destroy") /\ Named(s, n)
  /\ Call(t, Destroy(Now, s, n))

ModRefs(t, s, n) ==
  /\ MayCall(t, "mod_refs") /\ Named(s, n)
  /\ \E right \in Kinds \cup {"dead"}, delta \in {-2, -1, 1} :
       Call(t, Delta(Now, s, n, right, delta))

RenameName(t, s, n) ==
  /\ MayCall(t, "rename") /\ Named(s, n)
  /\ \E m \in FreeNames(Now, s) : Call(t, Rename(Now, s, n, m))

(***************************************************************************)
(* mach_port_extract_right (the caller s2 gets the right under a name its  *)
(* space chooses, 0) or mach_port_insert_right (under the name m).  The    *)
(* messages to and from the kernel that carry the right are left out.      *)
(***************************************************************************)
Move(t, s, n) ==
  /\ MayCall(t, "move") /\ Named(s, n)
  /\ \E how \in Dispositions, s2 \in Spaces \ {s}, m \in Names \cup {0} :
       LET c == Copyin(Now, s, n, how, TRUE) IN
       Call(t, LaterIf(c.right.port # None, LaterNotify(c.st, c.so),
                       [Copyout(s2, c.right) EXCEPT !.name = m]))

(***************************************************************************)
(* mach_msg: a message without a reply port and with at most one right,    *)
(* the name m.  Queue limits are in IpcMqueue.                             *)
(***************************************************************************)
Send(t, s, n) ==
  /\ MayCall(t, "send") /\ Named(s, n)
  /\ \E how \in HowsOfSend \cap Dispositions :
       LET c == Copyin(Now, s, n, how, FALSE)
           s1 == LaterNotify(c.st, c.so)
       IN  IF ~c.ok THEN Call(t, c.st)
           ELSE \/ Call(t, Later(s1, ForRight("enqueue", c.right)))
                \/ \E m \in Names, bodyhow \in Dispositions :
                     Call(t, Later(s1, [ForRight("body", c.right) EXCEPT
                                          !.space = s, !.name = m,
                                          !.how = bodyhow]))

Receive(t, s, n) ==
  /\ MayCall(t, "receive")
  /\ Named(s, n) /\ "receive" \in entry[s][n].type
  /\ LET p == entry[s][n].obj
         m == Head(port[p].msgs)
         s1 == [Now EXCEPT !.port[p].msgs = Tail(@)]
         s2 == Later(s1, [ForRight("dest", Right(p, m.kind)) EXCEPT
                            !.space = s])
     IN  /\ port[p].msgs # <<>>
         /\ Call(t, LaterCopyout(s2, s, m.body))

(***************************************************************************)
(* mach_port_request_notification, with a send-once right made from the    *)
(* receive right m on the way in, or none (m = 0).                         *)
(***************************************************************************)
RequestNotification(t, s, n) ==
  \E how \in {"no_senders", "dead_name", "port_destroyed"}, sync \in {0, 1},
     m \in Names \cup {0} :
    /\ MayCall(t, how) /\ Named(s, n)
    /\ m # 0 => "receive" \in entry[s][m].type
    /\ LET p == IF m = 0 THEN None ELSE entry[s][m].obj
           r == IF m = 0 THEN NoRight ELSE Right(p, "once")
       IN  Call(t, Later(IF m = 0 THEN Now ELSE MakeOnce(Now, p),
                         [ForRight("request", r) EXCEPT
                            !.space = s, !.name = n,
                            !.how = how, !.sync = sync]))

Terminate(t, s) ==
  /\ "terminate" \in Ops /\ work[t] = <<>> /\ active[s]
  /\ LET used == SetToSortSeq({n \in Names : entry[s][n].type # {}}, <)
         Clean(x, n) == Later(x, [Job EXCEPT !.op = "clean", !.space = s,
                                             !.name = n])
     IN  Becomes(t, FoldLeft(Clean, [Now EXCEPT !.active[s] = FALSE], used))
  /\ UNCHANGED calls

Init ==
  /\ active = [s \in Spaces |-> TRUE]
  /\ port = [p \in Ports |->
       LET for == {g \in Given : g.port = p}
           sends == Cardinality({g \in for : "send" \in g.type})
           home == CHOOSE g \in for : "receive" \in g.type
       IN  IF for = {} THEN Unused
           ELSE [NewPort(home.space, home.name) EXCEPT
                   !.refs = Cardinality(for),
                   !.srights = sends, !.mscount = sends]]
  /\ entry = [s \in Spaces |-> [n \in Names |->
       LET here == {g \in Given : g.space = s /\ g.name = n}
           g == CHOOSE g \in here : TRUE
       IN  IF here = {} THEN FreeEntry
           ELSE [FreeEntry EXCEPT !.obj = g.port, !.type = g.type,
                                  !.urefs = g.urefs]]]
  /\ work = [t \in Threads |-> <<>>]
  /\ calls = 0

Next ==
  \E t \in Threads :
    \/ Work(t)
    \/ KmsgDestroy(t)
    \/ Shortage(t)
    \/ \E s \in Spaces :
         \/ Allocate(t, s)
         \/ Terminate(t, s)
         \/ \E n \in Names :
              \/ Deallocate(t, s, n)
              \/ DestroyName(t, s, n)
              \/ ModRefs(t, s, n)
              \/ RenameName(t, s, n)
              \/ Move(t, s, n)
              \/ Send(t, s, n)
              \/ Receive(t, s, n)
              \/ RequestNotification(t, s, n)

Spec == Init /\ [][Next]_vars
FairSpec == Spec /\ \A t \in Threads : WF_vars(Work(t) \/ KmsgDestroy(t))

-----------------------------------------------------------------------------
(***************************************************************************)
(* Who holds a right [p, k], and who refers to p.                          *)
(***************************************************************************)
Count(S) == Cardinality(S)
EntriesFor(p, k) ==
  {x \in Spaces \X Names : entry[x[1]][x[2]].obj = p
                           /\ k \in entry[x[1]][x[2]].type}
InHands(T(_)) == MapThenSumSet(LAMBDA t : Count({i \in DOMAIN work[t] :
                                                   T(work[t][i])}), Threads)
InQueues(T(_)) == MapThenSumSet(LAMBDA q : Count({i \in DOMAIN port[q].msgs :
                                                    T(port[q].msgs[i])}),
                                Ports)
Carried(p, k) ==
  LET r == Right(p, k)
      Holds(j) == Right(j.port, j.kind) = r
      Body(x) == x.body = r
      OfKind(i) == port[p].msgs[i].kind = k
  IN  InHands(Holds) + InHands(Body) + InQueues(Body)
        + Count({i \in DOMAIN port[p].msgs : OfKind(i)})
Requests(p) ==
  Count({q \in Ports : port[q].ns = p}) + Count({q \in Ports : port[q].pd = p})
    + Count({x \in Ports \X Slots : port[x[1]].dn[x[2]].so = p})

(***************************************************************************)
(* ip_srights of a live port is the number of its send rights, in spaces,  *)
(* in queued messages and in the hands of threads, and of the ones that    *)
(* mach_port_mod_refs turned into dead names for good although the port    *)
(* went to its backup; ip_sorights is that of its send-once rights, the    *)
(* ones held by notification requests included.                            *)
(***************************************************************************)
RightsCounted ==
  \A p \in Ports : Live(Now, p) =>
    /\ port[p].srights = Count(EntriesFor(p, "send")) + Carried(p, "send")
                           + port[p].ghosts
    /\ port[p].sorights = Count(EntriesFor(p, "once")) + Carried(p, "once")
                            + Requests(p)

(***************************************************************************)
(* io_references is the number of pointers to the port that are not yet    *)
(* given up, so nothing refers to a port that was freed and no port stays  *)
(* allocated that nothing refers to.                                       *)
(***************************************************************************)
RefsCounted ==
  \A p \in Ports :
    LET Releases(j) == j.op = "release" /\ j.port = p
        refs == Count({x \in Spaces \X Names : entry[x[1]][x[2]].obj = p})
                  + Carried(p, "send") + Carried(p, "once")
                  + Carried(p, "receive") + Requests(p) + InHands(Releases)
                  + Count({q \in Ports : port[q].dest = p})
    IN  port[p].refs = refs /\ (port[p].state = "free" <=> refs = 0)

(***************************************************************************)
(* A live port has one receive right.  It is in the space and under the    *)
(* name the port records, or on its way and the port records no receiver;  *)
(* a dead port has none.                                                   *)
(***************************************************************************)
OneReceiveRight ==
  \A p \in Ports :
    LET here == EntriesFor(p, "receive") IN
    /\ Count(here) + Carried(p, "receive") = (IF Live(Now, p) THEN 1 ELSE 0)
    /\ Live(Now, p) => here = IF port[p].receiver = None THEN {}
                              ELSE {<<port[p].receiver, port[p].rname>>}

(***************************************************************************)
(* A no-senders request does not wait in a port to which there are no send *)
(* rights, but for one made before the send right it waits for (its sync   *)
(* was above the make-send count), and for one in a port that went to its  *)
(* backup with a send right still counted that is a dead name.             *)
(***************************************************************************)
Waits(p) == Live(Now, p) /\ port[p].ns # None
              /\ EntriesFor(p, "send") = {} /\ Carried(p, "send") = 0

NoSendersOwed ==
  \A p \in Ports : Waits(p) => port[p].early \/ port[p].ghosts > 0

(***************************************************************************)
(* mach_port_request_notification promises the notification for a receive  *)
(* right without senders.  A port that survives mach_port_mod_refs because *)
(* it has a backup breaks that: ipc_right_delta leaves the count and the   *)
(* no-senders request alone "because the port is destroyed first".         *)
(***************************************************************************)
NoSendersTold == \A p \in Ports : Waits(p) => port[p].early

(***************************************************************************)
(* The dead-name requests of a live port and its entries match: each used  *)
(* slot belongs to one entry for the port, under the name in the slot, and *)
(* an entry with a request has its slot.  Only the slots that              *)
(* mach_port_mod_refs left in a port that went to its backup have no       *)
(* entry any more.                                                         *)
(***************************************************************************)
RequestsMatch ==
  \A p \in Ports : Live(Now, p) =>
    \A i \in Slots :
      LET of == {x \in Spaces \X Names : entry[x[1]][x[2]].obj = p
                                         /\ entry[x[1]][x[2]].req = i}
          r == port[p].dn[i]
      IN  IF r.so = None THEN of = {}
          ELSE IF i \in port[p].orphans THEN of = {}
          ELSE Count(of) = 1 /\ \A x \in of : x[2] = r.name

(***************************************************************************)
(* A space has one name for its send and receive rights to a live port     *)
(* (ipc_right_reverse finds it), and the user references of a name stay    *)
(* within MACH_PORT_UREFS_MAX, with room for the one a dead-name           *)
(* notification adds; a name without such rights has none.                 *)
(***************************************************************************)
EntriesSound ==
  \A s \in Spaces :
    /\ \A p \in Ports : Live(Now, p) =>
         Count({n \in Names : entry[s][n].obj = p
                                /\ entry[s][n].type # {"once"}}) <= 1
    /\ \A n \in Names : LET e == entry[s][n] IN
         CASE "send" \in e.type  -> e.urefs \in 1..(UrefsMax - 1)
           [] "dead" \in e.type  -> e.urefs \in 1..UrefsMax /\ e.req = 0
           [] "once" \in e.type  -> e.urefs = 1
           [] OTHER              -> e.urefs = 0

(***************************************************************************)
(* When all spaces are dead and nobody has work left, no port is left: no  *)
(* right is forgotten, and no port is in transit to itself, through any    *)
(* number of others or by its backup, with messages that could never be    *)
(* received (ipc_port_check_circularity).                                  *)
(***************************************************************************)
NoLeak ==
  (\A s \in Spaces : ~active[s]) /\ (\A t \in Threads : work[t] = <<>>)
    => \A p \in Ports : port[p].state = "free"

(***************************************************************************)
(* Once there are no more calls, whatever they set off comes to an end:    *)
(* the rights in the messages of a destroyed port, the ports they are the  *)
(* receive rights of, the notifications all that sends.                    *)
(***************************************************************************)
Drains == []<>(\A t \in Threads : work[t] = <<>>)
=============================================================================
