---------------------------- MODULE ProcessSafety ----------------------------
(***************************************************************************)
(* Type correctness and safety of the process kernel, for any number of    *)
(* threads, processes and signals, and for programs that behave in any of  *)
(* the ways Misuse lists: no list node is linked twice, a thread is where  *)
(* its state says it is, nothing that is freed is on a list, runs, or is a *)
(* list's head.                                                            *)
(*                                                                         *)
(* TypeOK is not inductive: a continuation names a thread or a process     *)
(* that the kernel goes on to work with, and which field must hold one     *)
(* depends on where the continuation leads (Sound).  TInv adds that.       *)
(*                                                                         *)
(* The inductive invariant IInv of the rest has two halves.  Tables        *)
(* relates the fields of threads and processes to the lists.  The rest is  *)
(* about what the processor is doing: which thread has which continuation  *)
(* saved, and that no signal is pending for a thread that has not run yet, *)
(* because its handler would be set up on the stack of another thread      *)
(* (NoNewPending).                                                         *)
(***************************************************************************)
EXTENDS Process, SchedulerProofs, TLAPS

\* Continuations whose fields are what the code they lead to expects.
Sound ==
    {k \in Context :
        /\ k.pc \in {"handle", "iret", "clean"} => k.arg \in Tid
        /\ k.pc \in {"check", "exit", "clean", "wait", "free", "adopt", "unlink"}
               => k.pr \in Pid
        /\ k.pc = "adopt" => k.arg \in Pid
        /\ k.pc = "handle" => /\ k.then \in {"iret", "check", "sent"}
                              /\ k.then = "check" => k.pr \in Pid}

\* A thread is never switched away from inside the adoption loop.
Saved == {k \in Sound : k.pc # "adopt"}

Queues == [Lists -> Seq(Tid)]

TInv ==
    /\ TypeOK
    /\ cpu \in Sound
    /\ kctx \in [Tid -> Saved]
    /\ cpu.pc = "adopt" => plist # <<>>

-----------------------------------------------------------------------------
\* The boot thread and process 1 exist.
LEMMA Constants == /\ Boot \in Tid /\ Init0 \in Tid /\ 1 \in Pid
                   /\ Tid \subseteq Nat /\ Pid \subseteq Nat
                   /\ RunQ \in Lists
                   /\ \A t \in Tid : TWait(t) \in Lists
                   /\ \A p \in Pid : PWait(p) \in Lists
  BY BoundsAssumption DEF Boot, Init0, Tid, Pid, Lists

\* A pointer of the process tree, set to a process or to none.
LEMMA SetKinType ==
    ASSUME NEW f \in [Pid -> Pid \cup {None}], NEW p \in Pid \cup {None},
           NEW v \in Pid \cup {None}
    PROVE  SetKin(f, p, v) \in [Pid -> Pid \cup {None}]
  BY DEF SetKin

\* The operations of the scheduler keep the queues queues of threads.
LEMMA QueueTypes ==
    ASSUME NEW Q \in Queues, NEW t \in Tid, NEW l \in Lists
    PROVE  /\ scheduler_insert(Q, t) \in Queues
           /\ scheduler_cheat(Q, t) \in Queues
           /\ scheduler_remove(Q, t) \in Queues
           /\ scheduler_sleep(Q, t, l) \in Queues
           /\ scheduler_wake(Q, l) \in Queues
           /\ scheduler_next(Q, None) \in Tid \cup {None}
           /\ scheduler_next(Q, None) = None => Q[RunQ] = <<>>
  <1>0. RunQ \in Lists /\ Q[RunQ] \in Seq(Tid) /\ Q[l] \in Seq(Tid) /\ DOMAIN Q = Lists
    BY Constants DEF Queues
  <1>1. scheduler_insert(Q, t) \in Queues
    BY <1>0 DEF scheduler_insert, Queues
  <1>2. scheduler_cheat(Q, t) \in Queues
    <2>1. Cons(t, Q[RunQ]) \in Seq(Tid)
      BY <1>0 DEF Cons
    <2> QED BY <1>0, <2>1 DEF scheduler_cheat, Queues
  <1>3. scheduler_remove(Q, t) \in Queues
    BY <1>0, UnlinkType DEF scheduler_remove, Queues
  <1>4. scheduler_sleep(Q, t, l) \in Queues
    <2>1. Append(scheduler_remove(Q, t)[l], t) \in Seq(Tid)
      BY <1>3 DEF Queues
    <2> QED BY <1>3, <2>1 DEF scheduler_sleep, Queues
  <1>5. scheduler_wake(Q, l) \in Queues
    <2>1. Q[RunQ] \o Q[l] \in Seq(Tid) /\ <<>> \in Seq(Tid)
      BY <1>0
    <2> QED BY <1>0, <2>1 DEF scheduler_wake, Queues
  <1>6. scheduler_next(Q, None) \in Tid \cup {None}
    BY <1>0, HeadTailProperties DEF scheduler_next
  <1>7. scheduler_next(Q, None) = None => Q[RunQ] = <<>>
    <2>1. None \notin Tid
      BY BoundsAssumption DEF None, Tid
    <2> QED BY <1>0, <2>1, HeadTailProperties DEF scheduler_next
  <1> QED BY <1>1, <1>2, <1>3, <1>4, <1>5, <1>6, <1>7

\* The continuations that the kernel builds are sound.
LEMMA Continuations ==
    /\ \A t \in Tid : {AtUser(t), AtFirst(t), AtReturn(t)} \subseteq Saved
    /\ \A p \in Pid : AtWait(p) \in Saved
    /\ \A why \in Halts : AtHalt(why) \in Saved
  BY Constants DEF AtUser, AtFirst, AtReturn, AtWait, AtHalt, K, Saved, Sound, Context,
                   PCs, None

\* switch_kernel_thread takes over with a thread and its process.
LEMMA ScheduleType ==
    ASSUME NEW Q \in Queues, NEW kc \in [Tid -> Saved], Schedule(Q, kc),
           current \in Tid, tproc' \in [Tid -> Pid]
    PROVE  q' \in Queues /\ kctx' \in [Tid -> Saved] /\ cr3' \in Pid
           /\ cpu' \in Sound /\ cpu'.pc = "clean"
  <1> DEFINE Q1   == IF tstate'[current] = "READY"
                     THEN scheduler_insert(Q, current) ELSE Q
             head == scheduler_next(Q1, None)
             nxt  == IF head = None THEN Boot ELSE head
  <1>1. Q1 \in Queues
    BY QueueTypes, Constants
  <1>2. nxt \in Tid
    BY <1>1, QueueTypes, Constants
  <1>3. /\ q' = IF head = None THEN Q1 ELSE scheduler_remove(Q1, nxt)
        /\ kctx' = kc
        /\ cr3' = tproc'[nxt]
        /\ cpu' = K("clean", nxt, tproc'[nxt], "none", "none")
    BY DEF Schedule
  <1> HIDE DEF Q1, head, nxt
  <1>4. q' \in Queues
    BY <1>1, <1>2, <1>3, QueueTypes, Constants
  <1>5. cr3' \in Pid /\ tproc'[nxt] \in Pid
    BY <1>2, <1>3
  <1>6. cpu' \in Sound /\ cpu'.pc = "clean"
    BY <1>2, <1>3, <1>5, Constants DEF K, Sound, Context, PCs
  <1> QED BY <1>3, <1>4, <1>5, <1>6

\* The part of the invariant about all variables but the processor's.
Rest ==
    /\ tstate \in [Tid -> {"FREE", "READY", "WAITING", "FINISHED"}]
    /\ tproc \in [Tid -> Pid]
    /\ kind \in [Tid -> {"main", "func", "clone"}]
    /\ plist \in Seq(Pid)
    /\ pthreads \in [Pid -> Seq(Tid)]
    /\ pstate \in [Pid -> {"FREE", "LIVE", "FINISHED"}]
    /\ parent \in [Pid -> Pid \cup {None}]
    /\ child \in [Pid -> Pid \cup {None}]
    /\ older \in [Pid -> Pid \cup {None}]
    /\ younger \in [Pid -> Pid \cup {None}]
    /\ sigq \in [Pid -> Seq(Sig)]
    /\ handler \in [Pid -> [Sig -> Handlers]]
    /\ next_tid \in Nat
    /\ next_pid \in Nat
    /\ kills \in Nat

\* The part about the processor and the queues.
Machine ==
    /\ q \in Queues
    /\ current \in Tid
    /\ cr3 \in Pid
    /\ cpu \in Sound
    /\ kctx \in [Tid -> Saved]
    /\ cpu.pc = "adopt" => plist # <<>>

\* The two parts make up the invariant.
LEMMA Parts == TInv <=> Rest /\ Machine
  <1>1. Sound \subseteq Context /\ Saved \subseteq Context
    BY DEF Sound, Saved
  <1>2. TInv => Rest /\ Machine
    BY DEF TInv, TypeOK, Rest, Machine, Queues
  <1>3. Rest /\ Machine => TInv
    <2> SUFFICES ASSUME Rest, Machine PROVE TInv
      OBVIOUS
    <2>1. cpu \in Context /\ kctx \in [Tid -> Context]
      BY <1>1 DEF Machine
    <2> QED BY <2>1 DEF TInv, TypeOK, Rest, Machine, Queues
  <1> QED BY <1>2, <1>3

\* The same in the next state.
LEMMA PartsNext == Rest' /\ Machine' => TInv'
  <1> SUFFICES ASSUME Rest', Machine' PROVE TInv'
    OBVIOUS
  <1>1. Sound \subseteq Context /\ Saved \subseteq Context
    BY DEF Sound, Saved
  <1>2. cpu' \in Context /\ kctx' \in [Tid -> Context]
    BY <1>1 DEF Machine
  <1> QED BY <1>2 DEF TInv, TypeOK, Rest, Machine, Queues

\* The initial state.
LEMMA InitT == Init => TInv
  <1> SUFFICES ASSUME Init PROVE Rest /\ Machine
    BY Parts
  <1>1. Rest
    <2>1. <<1>> \in Seq(Pid) /\ <<Boot>> \in Seq(Tid)
      BY Constants
    <2>2. AllDefault \in [Sig -> Handlers]
      BY DEF AllDefault, Handlers
    <2> QED BY <2>1, <2>2, Constants DEF Init, Rest, NoKin
  <1>2. Machine
    <2>1. <<Init0>> \in Seq(Tid) /\ <<>> \in Seq(Tid)
      BY Constants
    <2>2. q \in Queues
      BY <2>1 DEF Init, Queues
    <2>3. kctx \in [Tid -> Saved]
      BY Continuations DEF Init
    <2>4. cpu \in Sound /\ cpu.pc # "adopt"
      BY Continuations, Constants DEF Init, Saved
    <2> QED BY <2>2, <2>3, <2>4, Constants DEF Init, Machine
  <1> QED BY <1>1, <1>2

-----------------------------------------------------------------------------
\* free_thread.
LEMMA FreeThreadType ==
    ASSUME TInv, NEW t \in Tid, NEW p \in Pid, FreeThread(t, p)
    PROVE  /\ tstate' \in [Tid -> {"FREE", "READY", "WAITING", "FINISHED"}]
           /\ tproc' \in [Tid -> Pid]
           /\ kind' \in [Tid -> {"main", "func", "clone"}]
           /\ kctx' \in [Tid -> Saved]
           /\ q' \in Queues
           /\ pthreads' \in [Pid -> Seq(Tid)]
  <1>0. Rest /\ Machine
    BY Parts
  <1>1. q' \in Queues
    BY <1>0, QueueTypes, Constants DEF FreeThread, Machine
  <1>2. AtFirst(t) \in Saved
    BY Continuations
  <1>3. Unlink(pthreads[p], t) \in Seq(Tid)
    BY <1>0, UnlinkType DEF Rest
  <1> QED BY <1>0, <1>1, <1>2, <1>3, Constants DEF FreeThread, Rest, Machine

\* thread.c: clean_threads and the end of switch_kernel_thread.
LEMMA ThreadSteps ==
    ASSUME TInv, CleanFree \/ SwitchTo
    PROVE  TInv'
  <1>0. Rest /\ Machine
    BY Parts
  <1>1. CASE CleanFree
    <2>1. cpu.pr \in Pid /\ cpu.pc = "clean"
      BY <1>0, <1>1 DEF CleanFree, Machine, Sound
    <2>2. PICK i \in Cleanable(cpu.pr) : FreeThread(pthreads[cpu.pr][i], cpu.pr)
      BY <1>1 DEF CleanFree
    <2>3. pthreads[cpu.pr][i] \in Tid
      BY <1>0, <2>1, <2>2 DEF Cleanable, Rest
    <2>4. /\ tstate' \in [Tid -> {"FREE", "READY", "WAITING", "FINISHED"}]
          /\ tproc' \in [Tid -> Pid]
          /\ kind' \in [Tid -> {"main", "func", "clone"}]
          /\ kctx' \in [Tid -> Saved]
          /\ q' \in Queues
          /\ pthreads' \in [Pid -> Seq(Tid)]
      BY <2>1, <2>2, <2>3, FreeThreadType
    <2>5. UNCHANGED <<current, cpu, cr3, plist, pstate, family, sigVars, idVars>>
      BY <1>1 DEF CleanFree
    <2>6. Rest'
      BY <1>0, <2>4, <2>5 DEF Rest, family, sigVars, idVars
    <2>7. Machine'
      BY <1>0, <2>4, <2>5 DEF Machine
    <2> QED BY <2>6, <2>7, PartsNext
  <1>2. CASE SwitchTo
    <2>1. cpu.arg \in Tid
      BY <1>0, <1>2 DEF SwitchTo, Machine, Sound
    <2>2. kctx[cpu.arg] \in Saved /\ AtUser(cpu.arg) \in Saved /\ AtReturn(cpu.arg) \in Saved
      BY <1>0, <2>1, Continuations DEF Machine
    <2>3. cpu' \in Saved /\ current' \in Tid /\ kctx' \in [Tid -> Saved]
      BY <1>0, <1>2, <2>1, <2>2 DEF SwitchTo, Machine
    <2>4. UNCHANGED <<thrVars, q, cr3, procVars, sigVars, idVars>>
      BY <1>2 DEF SwitchTo
    <2>5. Rest'
      BY <1>0, <2>4 DEF Rest, thrVars, procVars, family, sigVars, idVars
    <2>6. Machine'
      BY <1>0, <2>3, <2>4 DEF Machine, Saved
    <2> QED BY <2>5, <2>6, PartsNext
  <1> QED BY <1>1, <1>2

\* A step that leaves everything but the processor's program counter alone.
LEMMA OnlyCpu ==
    ASSUME TInv, cpu' \in Saved,
           UNCHANGED <<thrVars, kctx, q, current, cr3, procVars, sigVars, idVars>>
    PROVE  TInv'
  <1>0. Rest /\ Machine
    BY Parts
  <1>1. Rest'
    BY <1>0 DEF Rest, thrVars, procVars, family, sigVars, idVars
  <1>2. Machine'
    BY <1>0 DEF Machine, Saved
  <1> QED BY <1>1, <1>2, PartsNext

\* A step that schedules and changes thread states, but nothing else.
LEMMA OnlySchedule ==
    ASSUME TInv, NEW Q \in Queues, NEW k \in Saved, ScheduleFrom(Q, k),
           tstate' \in [Tid -> {"FREE", "READY", "WAITING", "FINISHED"}],
           pstate' \in [Pid -> {"FREE", "LIVE", "FINISHED"}],
           UNCHANGED <<tproc, kind, current, plist, pthreads, family, sigVars, idVars>>
    PROVE  TInv'
  <1>0. Rest /\ Machine
    BY Parts
  <1>1. [kctx EXCEPT ![current] = k] \in [Tid -> Saved]
    BY <1>0 DEF Machine
  <1>2. Schedule(Q, [kctx EXCEPT ![current] = k])
    BY DEF ScheduleFrom
  <1>3. current \in Tid /\ tproc' \in [Tid -> Pid]
    BY <1>0 DEF Machine, Rest
  <1>4. /\ q' \in Queues /\ kctx' \in [Tid -> Saved] /\ cr3' \in Pid
        /\ cpu' \in Sound /\ cpu'.pc = "clean"
    BY <1>1, <1>2, <1>3, ScheduleType
  <1>5. Machine'
    BY <1>3, <1>4 DEF Machine
  <1>6. Rest'
    BY <1>0 DEF Rest, family, sigVars, idVars
  <1> QED BY <1>5, <1>6, PartsNext

-----------------------------------------------------------------------------
\* A step that takes a signal off a queue or puts one on, and moves on.
LEMMA OnlySignal ==
    ASSUME TInv, cpu' \in Saved, sigq' \in [Pid -> Seq(Sig)], kills' \in Nat,
           handler' \in [Pid -> [Sig -> Handlers]],
           UNCHANGED <<thrVars, kctx, q, current, cr3, procVars, idVars>>
    PROVE  TInv'
  <1>0. Rest /\ Machine
    BY Parts
  <1>1. Rest'
    BY <1>0 DEF Rest, thrVars, procVars, family, idVars
  <1>2. Machine'
    BY <1>0 DEF Machine, Saved
  <1> QED BY <1>1, <1>2, PartsNext

\* The process of the thread whose signals are handled, and its queue.
LEMMA Handled ==
    ASSUME TInv, cpu.pc = "handle"
    PROVE  /\ cpu.arg \in Tid /\ tproc[cpu.arg] \in Pid
           /\ [cpu EXCEPT !.pc = cpu.then] \in Saved
           /\ Pending(tproc[cpu.arg]) =>
                 /\ Head(sigq[tproc[cpu.arg]]) \in Sig
                 /\ [sigq EXCEPT ![tproc[cpu.arg]] = Tail(@)] \in [Pid -> Seq(Sig)]
  <1>0. Rest /\ Machine
    BY Parts
  <1>1. cpu.arg \in Tid /\ tproc[cpu.arg] \in Pid
    BY <1>0 DEF Rest, Machine, Sound
  <1>2. [cpu EXCEPT !.pc = cpu.then] \in Saved
    BY <1>0 DEF Machine, Sound, Saved, Context, PCs
  <1>3. ASSUME Pending(tproc[cpu.arg])
        PROVE  /\ Head(sigq[tproc[cpu.arg]]) \in Sig
               /\ Tail(sigq[tproc[cpu.arg]]) \in Seq(Sig)
    BY <1>0, <1>1, <1>3, HeadTailProperties DEF Pending, Rest
  <1> QED BY <1>0, <1>1, <1>2, <1>3 DEF Rest

\* signals.c, but for a handler of the program.
LEMMA SignalSteps ==
    ASSUME TInv, \/ CheckWaiting \/ SignalSent \/ HandleNone \/ HandleIgnore
                 \/ HandleTerminate \/ Iret
    PROVE  TInv'
  <1>0. Rest /\ Machine
    BY Parts
  <1>1. CASE CheckWaiting
    <2>1. cpu.pr \in Pid /\ cpu \in Context
      BY <1>0, <1>1 DEF CheckWaiting, Machine, Sound
    <2>2. CASE pthreads[cpu.pr] = <<>>
      <3>1. cpu' \in Saved
        BY <1>1, <2>2, Continuations DEF CheckWaiting, Halts
      <3> QED BY <1>1, <3>1, OnlyCpu DEF CheckWaiting
    <2>3. CASE pthreads[cpu.pr] # <<>>
      <3>1. Head(pthreads[cpu.pr]) \in Tid
        BY <1>0, <2>1, <2>3, HeadTailProperties DEF Rest
      <3>2. /\ K("handle", Head(pthreads[cpu.pr]), cpu.pr, cpu.by, "sent") \in Saved
            /\ K("sent", None, cpu.pr, cpu.by, "none") \in Saved
        BY <2>1, <3>1, Constants DEF K, Saved, Sound, Context, PCs, None
      <3>3. cpu' \in Saved
        BY <1>1, <2>3, <3>2 DEF CheckWaiting
      <3> QED BY <1>1, <3>3, OnlyCpu DEF CheckWaiting
    <2> QED BY <2>2, <2>3
  <1>2. CASE SignalSent
    <2>1. CASE cpu.by = "segv"
      <3>1. AtHalt("after_segv") \in Saved /\ q \in Queues
        BY <1>0, Continuations DEF Halts, Machine
      <3>2. /\ ScheduleFrom(q, AtHalt("after_segv"))
            /\ UNCHANGED <<tproc, kind, current, plist, pthreads, family, sigVars, idVars>>
            /\ tstate' = tstate /\ pstate' = pstate
        BY <1>2, <2>1 DEF SignalSent, procVars
      <3> QED BY <1>0, <3>1, <3>2, OnlySchedule DEF Rest
    <2>2. CASE cpu.by # "segv"
      <3>1. cpu' \in Saved
        BY <1>0, <1>2, <2>2, Continuations DEF SignalSent, Machine
      <3> QED BY <1>2, <2>2, <3>1, OnlyCpu DEF SignalSent, thrVars
    <2> QED BY <2>1, <2>2
  <1>3. CASE HandleNone
    <2>1. cpu' \in Saved
      BY <1>3, Handled DEF HandleNone, HandleReturn
    <2> QED BY <1>3, <2>1, OnlyCpu DEF HandleNone
  <1>4. CASE HandleIgnore
    <2>1. cpu' \in Saved /\ sigq' \in [Pid -> Seq(Sig)]
      BY <1>4, Handled DEF HandleIgnore, HandleReturn
    <2> QED BY <1>0, <1>4, <2>1, OnlySignal DEF HandleIgnore, Rest
  <1>5. CASE HandleTerminate
    <2>1. sigq' \in [Pid -> Seq(Sig)]
      BY <1>5, Handled DEF HandleTerminate
    <2>2. cpu' \in Saved
      <3>1. tproc[current] \in Pid
        BY <1>0 DEF Rest, Machine
      <3> QED BY <1>5, <3>1, Constants
              DEF HandleTerminate, K, Saved, Sound, Context, PCs, None
    <2> QED BY <1>0, <1>5, <2>1, <2>2, OnlySignal DEF HandleTerminate, Rest
  <1>6. CASE Iret
    <2>1. cpu.arg \in Tid
      BY <1>0, <1>6 DEF Iret, Machine, Sound
    <2>2. cpu' \in Saved /\ current' \in Tid
      BY <1>6, <2>1, Continuations DEF Iret
    <2>3. UNCHANGED <<thrVars, kctx, q, cr3, procVars, sigVars, idVars>>
      BY <1>6 DEF Iret
    <2>4. Rest'
      BY <1>0, <2>3 DEF Rest, thrVars, procVars, family, sigVars, idVars
    <2>5. Machine'
      BY <1>0, <2>2, <2>3 DEF Machine, Saved
    <2> QED BY <2>4, <2>5, PartsNext
  <1> QED BY <1>1, <1>2, <1>3, <1>4, <1>5, <1>6

\* A new thread for a handler of the program.
LEMMA CustomStep ==
    ASSUME TInv, HandleCustom
    PROVE  TInv'
  <1> DEFINE th == cpu.arg
             p  == tproc[th]
             h  == next_tid
             Q1 == scheduler_remove(scheduler_insert(q, h), h)
             Q2 == scheduler_sleep(Q1, th, TWait(h))
             back == [cpu EXCEPT !.pc = cpu.then]
             kc == [kctx EXCEPT ![h] = AtFirst(h), ![current] = back]
  <1>0. Rest /\ Machine
    BY Parts
  <1>1. th \in Tid /\ p \in Pid /\ back \in Saved
        /\ [sigq EXCEPT ![p] = Tail(@)] \in [Pid -> Seq(Sig)]
    BY Handled DEF HandleCustom
  <1>2. h \in Tid
    BY DEF HandleCustom, AllocThread
  <1>3. /\ pthreads' = [pthreads EXCEPT ![p] = Append(@, h)]
        /\ sigq' = [sigq EXCEPT ![p] = Tail(@)]
        /\ tstate' = [tstate EXCEPT ![h] = "READY", ![th] = "WAITING"]
        /\ next_tid' = next_tid + 1
        /\ tproc' = [tproc EXCEPT ![h] = p]
        /\ kind' = [kind EXCEPT ![h] = "func"]
        /\ Schedule(scheduler_cheat(Q2, h), kc)
        /\ UNCHANGED <<current, plist, pstate, family, handler, kills, next_pid>>
    BY DEF HandleCustom, AllocThread
  <1> HIDE DEF th, p, h, Q1, Q2, back, kc
  <1>4. scheduler_cheat(Q2, h) \in Queues
    <2>1. Q1 \in Queues
      BY <1>0, <1>2, QueueTypes, Constants DEF Machine, Q1
    <2>2. Q2 \in Queues
      BY <1>1, <1>2, <2>1, QueueTypes, Constants DEF Q2
    <2> QED BY <1>2, <2>2, QueueTypes, Constants
  <1>5. kc \in [Tid -> Saved]
    BY <1>0, <1>1, <1>2, Continuations DEF kc, Machine
  <1>6. tproc' \in [Tid -> Pid] /\ current \in Tid
    BY <1>0, <1>1, <1>3 DEF Rest, Machine
  <1>7. /\ q' \in Queues /\ kctx' \in [Tid -> Saved] /\ cr3' \in Pid
        /\ cpu' \in Sound /\ cpu'.pc = "clean"
    BY <1>3, <1>4, <1>5, <1>6, ScheduleType
  <1>8. Machine'
    BY <1>3, <1>6, <1>7 DEF Machine
  <1>9. Rest'
    <2>1. pthreads' \in [Pid -> Seq(Tid)]
      BY <1>0, <1>1, <1>2, <1>3 DEF Rest
    <2>2. tstate' \in [Tid -> {"FREE", "READY", "WAITING", "FINISHED"}]
      BY <1>0, <1>3 DEF Rest
    <2>3. kind' \in [Tid -> {"main", "func", "clone"}]
      BY <1>0, <1>3 DEF Rest
    <2>4. /\ plist' = plist /\ pstate' = pstate /\ handler' = handler /\ kills' = kills
          /\ parent' = parent /\ child' = child /\ older' = older /\ younger' = younger
          /\ next_pid' = next_pid /\ next_tid' \in Nat
          /\ sigq' \in [Pid -> Seq(Sig)]
      BY <1>0, <1>1, <1>3 DEF Rest, family
    <2> QED BY <1>0, <1>6, <2>1, <2>2, <2>3, <2>4 DEF Rest
  <1> QED BY <1>8, <1>9, PartsNext

-----------------------------------------------------------------------------
\* process.c: the loops that free threads, and the end of _exit.
LEMMA ExitSteps ==
    ASSUME TInv, FreeOther \/ ExitDone
    PROVE  TInv'
  <1>0. Rest /\ Machine
    BY Parts
  <1>1. CASE FreeOther
    <2>1. cpu.pr \in Pid /\ cpu.pc # "adopt"
      BY <1>0, <1>1 DEF FreeOther, Machine, Sound
    <2>2. PICK i \in OthersOf(cpu.pr) : FreeThread(pthreads[cpu.pr][i], cpu.pr)
      BY <1>1 DEF FreeOther
    <2>3. pthreads[cpu.pr][i] \in Tid
      BY <1>0, <2>1, <2>2 DEF OthersOf, Rest
    <2>4. /\ tstate' \in [Tid -> {"FREE", "READY", "WAITING", "FINISHED"}]
          /\ tproc' \in [Tid -> Pid]
          /\ kind' \in [Tid -> {"main", "func", "clone"}]
          /\ kctx' \in [Tid -> Saved]
          /\ q' \in Queues
          /\ pthreads' \in [Pid -> Seq(Tid)]
      BY <2>1, <2>2, <2>3, FreeThreadType
    <2>5. UNCHANGED <<current, cpu, cr3, plist, pstate, family, sigVars, idVars>>
      BY <1>1 DEF FreeOther
    <2>6. Rest'
      BY <1>0, <2>4, <2>5 DEF Rest, family, sigVars, idVars
    <2>7. Machine'
      BY <1>0, <2>4, <2>5 DEF Machine
    <2> QED BY <2>6, <2>7, PartsNext
  <1>2. CASE ExitDone
    <2>1. cpu.pr \in Pid
      BY <1>0, <1>2 DEF ExitDone, Machine, Sound
    <2>2. scheduler_wake(q, PWait(cpu.pr)) \in Queues /\ AtHalt("end_of_exit") \in Saved
      BY <1>0, <2>1, QueueTypes, Constants, Continuations DEF Machine, Halts
    <2>3. tstate' \in [Tid -> {"FREE", "READY", "WAITING", "FINISHED"}]
      BY <1>0, <1>2 DEF ExitDone, Rest
    <2>4. pstate' \in [Pid -> {"FREE", "LIVE", "FINISHED"}]
      BY <1>0, <1>2 DEF ExitDone, Rest
    <2> QED BY <1>2, <2>2, <2>3, <2>4, OnlySchedule DEF ExitDone
  <1> QED BY <1>1, <1>2

\* waitpid and free_process.
LEMMA WaitSteps ==
    ASSUME TInv, WaitTest \/ FreeAdopt \/ AdoptNext \/ AdoptDone \/ FreeDone
    PROVE  TInv'
  <1>0. Rest /\ Machine
    BY Parts
  <1>p. /\ None \in Nat /\ None \notin Pid
        /\ cpu.pc \in {"wait", "free", "adopt", "unlink"}
        /\ cpu.pr \in Pid /\ cpu \in Context
    BY <1>0, BoundsAssumption
       DEF None, Pid, WaitTest, FreeAdopt, AdoptNext, AdoptDone, FreeDone, Machine, Sound
  <1>h. \A why \in Halts : AtHalt(why) \in Saved
    BY Continuations
  <1>u. K("unlink", None, cpu.pr, "none", "none") \in Saved
    BY <1>p DEF K, Saved, Sound, Context, PCs
  <1>1. CASE WaitTest /\ pstate[cpu.pr] # "LIVE"
    <2>1. [cpu EXCEPT !.pc = "free"] \in Saved
      BY <1>p DEF Saved, Sound, Context, PCs
    <2>2. cpu' \in Saved
      BY <1>1, <1>h, <2>1 DEF WaitTest, Halts
    <2> QED BY <1>1, <2>2, OnlyCpu DEF WaitTest, thrVars
  <1>2. CASE WaitTest /\ pstate[cpu.pr] = "LIVE"
    <2>1. scheduler_sleep(q, current, PWait(cpu.pr)) \in Queues
      BY <1>0, <1>p, QueueTypes, Constants DEF Machine
    <2>2. cpu \in Saved
      BY <1>0, <1>2 DEF WaitTest, Machine, Saved
    <2>3. tstate' \in [Tid -> {"FREE", "READY", "WAITING", "FINISHED"}]
      BY <1>0, <1>2 DEF WaitTest, Rest
    <2>4. pstate' \in [Pid -> {"FREE", "LIVE", "FINISHED"}]
      BY <1>0, <1>2 DEF WaitTest, Rest, procVars
    <2> QED BY <1>2, <2>1, <2>2, <2>3, <2>4, OnlySchedule DEF WaitTest, procVars
  <1>3. CASE FreeAdopt
    <2>1. child[cpu.pr] # None => child[cpu.pr] \in Pid /\ child[cpu.pr] \in Nat
      BY <1>0, <1>p, Constants DEF Rest
    <2>2. UNCHANGED <<thrVars, kctx, q, current, cr3, procVars, sigVars, idVars>>
      BY <1>3 DEF FreeAdopt
    <2>3. CASE plist = <<>> \/ child[cpu.pr] = None
      <3>1. cpu' \in Saved
        BY <1>3, <1>h, <1>u, <2>3 DEF FreeAdopt, Halts
      <3> QED BY <2>2, <3>1, OnlyCpu
    <2>4. CASE plist # <<>> /\ child[cpu.pr] # None
      <3>1. cpu' = K("adopt", child[cpu.pr], cpu.pr, "none", "none")
        BY <1>3, <2>4 DEF FreeAdopt
      <3>2. cpu' \in Sound
        BY <1>p, <2>1, <2>4, <3>1 DEF K, Sound, Context, PCs
      <3>3. Machine'
        BY <1>0, <2>2, <2>4, <3>2 DEF Machine, procVars
      <3>4. Rest'
        BY <1>0, <2>2 DEF Rest, thrVars, procVars, family, sigVars, idVars
      <3> QED BY <3>3, <3>4, PartsNext
    <2> QED BY <2>3, <2>4
  <1>4. CASE AdoptNext
    <2>1. cpu.arg \in Pid /\ plist # <<>>
      BY <1>0, <1>4 DEF AdoptNext, Machine, Sound
    <2>2. Head(plist) \in Pid
      BY <1>0, <2>1, HeadTailProperties DEF Rest
    <2>3. older[cpu.arg] \in Pid /\ older[cpu.arg] \in Nat
      BY <1>0, <1>4, <2>1, Constants DEF AdoptNext, Rest
    <2>4. cpu' \in Sound
      BY <1>4, <1>p, <2>3 DEF AdoptNext, K, Sound, Context, PCs
    <2>5. parent' \in [Pid -> Pid \cup {None}]
      BY <1>0, <1>4, <2>2 DEF AdoptNext, Rest
    <2>6. UNCHANGED <<thrVars, kctx, q, current, cr3, plist, pthreads, pstate,
                      child, older, younger, sigVars, idVars>>
      BY <1>4 DEF AdoptNext
    <2>7. Machine'
      BY <1>0, <2>1, <2>4, <2>6 DEF Machine
    <2>8. Rest'
      BY <1>0, <2>5, <2>6 DEF Rest, thrVars, sigVars, idVars
    <2> QED BY <2>7, <2>8, PartsNext
  <1>5. CASE AdoptDone
    <2>1. cpu.arg \in Pid /\ plist # <<>>
      BY <1>0, <1>5 DEF AdoptDone, Machine, Sound
    <2>2. Head(plist) \in Pid
      BY <1>0, <2>1, HeadTailProperties DEF Rest
    <2>3. child[Head(plist)] \in Pid \cup {None} /\ child[cpu.pr] \in Pid \cup {None}
      BY <1>0, <1>p, <2>2 DEF Rest
    <2>4. cpu' \in Saved
      BY <1>5, <1>h, <1>u DEF AdoptDone, Halts
    <2>5. /\ child' \in [Pid -> Pid \cup {None}]
          /\ older' \in [Pid -> Pid \cup {None}]
          /\ younger' \in [Pid -> Pid \cup {None}]
      BY <1>0, <1>5, <2>1, <2>3 DEF AdoptDone, Rest
    <2>6. UNCHANGED <<thrVars, kctx, q, current, cr3, plist, pthreads, pstate, parent,
                      sigVars, idVars>>
      BY <1>5 DEF AdoptDone
    <2>7. Machine'
      BY <1>0, <2>4, <2>6 DEF Machine, Saved
    <2>8. Rest'
      BY <1>0, <2>5, <2>6 DEF Rest, thrVars, sigVars, idVars
    <2> QED BY <2>7, <2>8, PartsNext
  <1>6. CASE FreeDone
    <2>1. UNCHANGED <<thrVars, kctx, q, current, cr3, pthreads, sigq, kills, idVars>>
      BY <1>6 DEF FreeDone
    <2>2. cpu' \in Saved
      BY <1>0, <1>6, <1>h, Continuations DEF FreeDone, Halts, Machine
    <2>3. Machine'
      BY <1>0, <2>1, <2>2 DEF Machine, Saved
    <2>4. /\ parent' \in [Pid -> Pid \cup {None}]
          /\ child' \in [Pid -> Pid \cup {None}]
          /\ older' \in [Pid -> Pid \cup {None}]
          /\ younger' \in [Pid -> Pid \cup {None}]
      <3>1. /\ older[cpu.pr] \in Pid \cup {None} /\ younger[cpu.pr] \in Pid \cup {None}
            /\ parent[cpu.pr] \in Pid \cup {None}
        BY <1>0, <1>p DEF Rest
      <3> DEFINE p    == cpu.pr
                 heir == IF younger[p] # None THEN younger[p] ELSE older[p]
      <3>2. heir \in Pid \cup {None}
        BY <3>1
      <3>3. CASE parent[p] \notin ToSet(plist)
        BY <1>0, <1>6, <3>3 DEF FreeDone, Rest, family
      <3>4. CASE parent[p] \in ToSet(plist)
        <4>1. /\ child' = [(IF child[parent[p]] = p
                            THEN SetKin(child, parent[p], heir) ELSE child)
                           EXCEPT ![p] = None]
              /\ younger' = [SetKin(younger, older[p], younger[p]) EXCEPT ![p] = None]
              /\ older' = [SetKin(older, younger[p], older[p]) EXCEPT ![p] = None]
              /\ parent' = [parent EXCEPT ![p] = None]
          BY <1>6, <3>4 DEF FreeDone
        <4>2. /\ SetKin(child, parent[p], heir) \in [Pid -> Pid \cup {None}]
              /\ SetKin(younger, older[p], younger[p]) \in [Pid -> Pid \cup {None}]
              /\ SetKin(older, younger[p], older[p]) \in [Pid -> Pid \cup {None}]
          BY <1>0, <3>1, <3>2, SetKinType DEF Rest
        <4> HIDE DEF p, heir
        <4> QED BY <1>0, <4>1, <4>2 DEF Rest
      <3> QED BY <3>3, <3>4
    <2>5. pstate' \in [Pid -> {"FREE", "LIVE", "FINISHED"}]
      BY <1>0, <1>6 DEF FreeDone, Rest
    <2>6. handler' \in [Pid -> [Sig -> Handlers]]
      <3>1. AllDefault \in [Sig -> Handlers]
        BY DEF AllDefault, Handlers
      <3> QED BY <1>0, <1>6, <3>1 DEF FreeDone, Rest
    <2>7. plist' \in Seq(Pid)
      <3>1. plist' = plist \/ plist' = Unlink(plist, cpu.pr)
        BY <1>6 DEF FreeDone
      <3> QED BY <1>0, <3>1, UnlinkType DEF Rest
    <2>8. Rest'
      BY <1>0, <2>1, <2>4, <2>5, <2>6, <2>7 DEF Rest, thrVars, idVars
    <2> QED BY <2>3, <2>8, PartsNext
  <1> QED BY <1>1, <1>2, <1>3, <1>4, <1>5, <1>6

-----------------------------------------------------------------------------
\* signal_process queues the signal and moves on.
LEMMA SignalProcessType ==
    ASSUME TInv, NEW p \in Pid, NEW s \in Sig, NEW by \in {"kill", "segv"},
           signal_process(p, s, by)
    PROVE  cpu' \in Saved /\ sigq' \in [Pid -> Seq(Sig)]
  <1>0. Rest /\ Machine
    BY Parts
  <1>1. /\ K("sent", None, p, by, "none") \in Saved
        /\ K("handle", current, p, by, "check") \in Saved
        /\ K("check", None, p, by, "none") \in Saved
    <2>1. current \in Tid
      BY <1>0 DEF Machine
    <2> QED BY <2>1, Constants DEF K, Saved, Sound, Context, PCs, None
  <1>2. Append(sigq[p], s) \in Seq(Sig)
    BY <1>0 DEF Rest
  <1>3. cpu' \in Saved
    BY <1>1 DEF signal_process
  <1>4. sigq' \in [Pid -> Seq(Sig)]
    BY <1>0, <1>2 DEF signal_process, Rest
  <1> QED BY <1>3, <1>4

\* The system calls and interrupts that allocate nothing.
LEMMA UserSteps ==
    ASSUME TInv,
           \/ TimerSchedule \/ Yield \/ ReturnFromSignal \/ Exit \/ Execve \/ PageFault
           \/ \E p \in Pid : Waitpid(p)
           \/ \E s \in Sig, h \in Handlers : Signal(s, h)
           \/ \E p \in Pid, s \in Sig : Kill(p, s)
    PROVE  TInv'
  <1>0. Rest /\ Machine
    BY Parts
  <1>c. /\ current \in Tid /\ Me \in Pid /\ q \in Queues /\ AtReturn(current) \in Saved
        /\ AtUser(Boot) \in Saved
    BY <1>0, Continuations, Constants DEF Rest, Machine, Me
  <1>a. AllDefault \in [Sig -> Handlers]
    BY DEF AllDefault, Handlers
  <1>1. CASE TimerSchedule
    <2>1. (IF current = Boot THEN AtUser(Boot) ELSE AtReturn(current)) \in Saved
      BY <1>c
    <2>2. /\ ScheduleFrom(q, IF current = Boot THEN AtUser(Boot) ELSE AtReturn(current))
          /\ UNCHANGED <<tproc, kind, current, plist, pthreads, family, sigVars, idVars>>
          /\ tstate' = tstate /\ pstate' = pstate
      BY <1>1 DEF TimerSchedule, procVars
    <2> QED BY <1>0, <1>c, <2>1, <2>2, OnlySchedule DEF Rest
  <1>2. CASE Yield
    <2>1. /\ ScheduleFrom(q, AtReturn(current))
          /\ UNCHANGED <<tproc, kind, current, plist, pthreads, family, sigVars, idVars>>
          /\ tstate' = tstate /\ pstate' = pstate
      BY <1>2 DEF Yield, procVars
    <2> QED BY <1>0, <1>c, <2>1, OnlySchedule DEF Rest
  <1>3. CASE ReturnFromSignal /\ kind[current] = "clone"
    <2>1. cpu' \in Saved
      BY <1>3, Continuations DEF ReturnFromSignal, Halts
    <2> QED BY <1>3, <2>1, OnlyCpu DEF ReturnFromSignal, thrVars
  <1>4. CASE ReturnFromSignal /\ kind[current] # "clone"
    <2> DEFINE Q == scheduler_remove(scheduler_wake(q, TWait(current)), current)
    <2>1. scheduler_wake(q, TWait(current)) \in Queues
      BY <1>c, QueueTypes, Constants
    <2>2. Q \in Queues
      BY <1>c, <2>1, QueueTypes, Constants
    <2>3. tstate' \in [Tid -> {"FREE", "READY", "WAITING", "FINISHED"}]
      BY <1>0, <1>4 DEF ReturnFromSignal, Rest
    <2>4. AtHalt("after_signal_return") \in Saved
      BY Continuations DEF Halts
    <2>5. /\ ScheduleFrom(Q, AtHalt("after_signal_return"))
          /\ UNCHANGED <<tproc, kind, current, plist, pthreads, family, sigVars, idVars>>
          /\ pstate' = pstate
      BY <1>4 DEF ReturnFromSignal, procVars
    <2> HIDE DEF Q
    <2> QED BY <1>0, <2>2, <2>3, <2>4, <2>5, OnlySchedule DEF Rest
  <1>5. CASE Exit
    <2>1. K("exit", None, Me, "none", "none") \in Saved
      BY <1>c, Constants DEF K, Saved, Sound, Context, PCs, None
    <2> QED BY <1>5, <2>1, OnlyCpu DEF Exit
  <1>6. CASE Execve
    <2>1. UNCHANGED <<tstate, tproc, kctx, q, current, cr3, procVars, kills, idVars>>
      BY <1>6 DEF Execve
    <2>2. /\ sigq' \in [Pid -> Seq(Sig)]
          /\ handler' \in [Pid -> [Sig -> Handlers]]
          /\ kind' \in [Tid -> {"main", "func", "clone"}]
      <3>1. <<>> \in Seq(Sig)
        OBVIOUS
      <3>2. sigq' \in [Pid -> Seq(Sig)]
        BY <1>0, <1>6, <3>1 DEF Execve, Rest
      <3>3. handler' \in [Pid -> [Sig -> Handlers]]
        BY <1>0, <1>6, <1>a DEF Execve, Rest
      <3>4. kind' \in [Tid -> {"main", "func", "clone"}]
        BY <1>0, <1>6 DEF Execve, Rest
      <3> QED BY <3>2, <3>3, <3>4
    <2>3. cpu' \in Saved
      BY <1>6, <1>c DEF Execve
    <2>4. Rest'
      BY <1>0, <2>1, <2>2 DEF Rest, procVars, family, idVars
    <2>5. Machine'
      BY <1>0, <2>1, <2>3 DEF Machine, Saved
    <2> QED BY <2>4, <2>5, PartsNext
  <1>7. CASE PageFault
    <2>1. cpu' \in Saved /\ sigq' \in [Pid -> Seq(Sig)]
      BY <1>7, <1>c, SignalProcessType DEF PageFault
    <2>2. kills' \in Nat /\ handler' \in [Pid -> [Sig -> Handlers]]
      BY <1>0, <1>7 DEF PageFault, Rest
    <2> QED BY <1>7, <2>1, <2>2, OnlySignal DEF PageFault
  <1>8. ASSUME NEW p \in Pid, Waitpid(p) PROVE TInv'
    <2>1. cpu' \in Saved
      BY <1>8, Continuations DEF Waitpid
    <2> QED BY <1>8, <2>1, OnlyCpu DEF Waitpid
  <1>9. ASSUME NEW s \in Sig, NEW h \in Handlers, Signal(s, h) PROVE TInv'
    <2>1. handler[Me] \in [Sig -> Handlers]
      BY <1>0, <1>c DEF Rest
    <2>2. [handler[Me] EXCEPT ![s] = h] \in [Sig -> Handlers]
      BY <2>1
    <2>3. handler' = [handler EXCEPT ![Me] = [handler[Me] EXCEPT ![s] = h]]
      BY <1>9 DEF Signal
    <2>4. handler' \in [Pid -> [Sig -> Handlers]]
      BY <1>0, <2>2, <2>3 DEF Rest
    <2>5. cpu' \in Saved /\ sigq' \in [Pid -> Seq(Sig)] /\ kills' \in Nat
      BY <1>0, <1>9, <1>c DEF Signal, Rest
    <2> QED BY <1>9, <2>4, <2>5, OnlySignal DEF Signal
  <1>10. ASSUME NEW p \in Pid, NEW s \in Sig, Kill(p, s) PROVE TInv'
    <2>1. cpu' \in Saved /\ sigq' \in [Pid -> Seq(Sig)]
      BY <1>10, SignalProcessType DEF Kill
    <2>2. kills' \in Nat /\ handler' \in [Pid -> [Sig -> Handlers]]
      BY <1>0, <1>10 DEF Kill, Rest
    <2> QED BY <1>10, <2>1, <2>2, OnlySignal DEF Kill
  <1> QED BY <1>1, <1>2, <1>3, <1>4, <1>5, <1>6, <1>7, <1>8, <1>9, <1>10

\* thread_fork and fork.
LEMMA ForkSteps ==
    ASSUME TInv, ThreadFork \/ Fork
    PROVE  TInv'
  <1>0. Rest /\ Machine
    BY Parts
  <1>c. /\ current \in Tid /\ Me \in Pid /\ q \in Queues /\ AtReturn(current) \in Saved
        /\ next_tid \in Nat /\ None \notin Pid
    BY <1>0, Continuations, BoundsAssumption DEF Rest, Machine, Me, None, Pid
  <1>t. next_tid \in Tid /\ next_tid' = next_tid + 1
    BY DEF ThreadFork, Fork, AllocThread
  <1>m. /\ kctx' \in [Tid -> Saved] /\ q' \in Queues
        /\ cpu' \in Saved /\ UNCHANGED <<current, cr3>>
    <2>1. /\ kctx' = [kctx EXCEPT ![next_tid] = AtFirst(next_tid)]
          /\ q' = scheduler_insert(q, next_tid)
          /\ cpu' = AtReturn(current) /\ UNCHANGED <<current, cr3>>
      BY DEF ThreadFork, Fork
    <2>2. AtFirst(next_tid) \in Saved /\ scheduler_insert(q, next_tid) \in Queues
      BY <1>c, <1>t, Continuations, QueueTypes, Constants
    <2> QED BY <1>0, <1>c, <2>1, <2>2 DEF Machine
  <1>n. Machine'
    BY <1>0, <1>m DEF Machine, Saved
  <1>1. CASE ThreadFork
    <2>1. Append(pthreads[Me], next_tid) \in Seq(Tid)
      BY <1>0, <1>c, <1>t DEF Rest
    <2>2. UNCHANGED <<plist, pstate, family, sigVars, next_pid>>
      BY <1>1 DEF ThreadFork
    <2>3. /\ tstate' \in [Tid -> {"FREE", "READY", "WAITING", "FINISHED"}]
          /\ tproc' \in [Tid -> Pid]
          /\ kind' \in [Tid -> {"main", "func", "clone"}]
          /\ pthreads' \in [Pid -> Seq(Tid)]
      BY <1>0, <1>1, <1>c, <2>1 DEF ThreadFork, AllocThread, Rest
    <2>4. next_tid' \in Nat
      BY <1>c, <1>t
    <2>5. Rest'
      BY <1>0, <2>2, <2>3, <2>4 DEF Rest, family, sigVars
    <2> QED BY <1>n, <2>5, PartsNext
  <1>2. CASE Fork
    <2> DEFINE c == next_pid
    <2>1. c \in Pid /\ c \in Nat /\ next_pid' = c + 1 /\ next_pid' \in Nat /\ next_tid' \in Nat
      BY <1>0, <1>2, <1>c, <1>t DEF Fork, Rest
    <2>2. tstate' \in [Tid -> {"FREE", "READY", "WAITING", "FINISHED"}]
      BY <1>0, <1>2, <1>c DEF Fork, Rest
    <2>3. tproc' \in [Tid -> Pid] /\ kind' \in [Tid -> {"main", "func", "clone"}]
      BY <1>0, <1>2, <2>1 DEF Fork, AllocThread, Rest
    <2>4. plist' \in Seq(Pid)
      BY <1>0, <1>2, <2>1 DEF Fork, Rest
    <2>5. pthreads' \in [Pid -> Seq(Tid)]
      <3>1. <<next_tid>> \in Seq(Tid)
        BY <1>t
      <3> QED BY <1>0, <1>2, <3>1 DEF Fork, Rest
    <2>6. pstate' \in [Pid -> {"FREE", "LIVE", "FINISHED"}]
      BY <1>0, <1>2 DEF Fork, Rest
    <2>7. child[Me] \in Pid \cup {None}
      BY <1>0, <1>c DEF Rest
    <2>8. parent' \in [Pid -> Pid \cup {None}] /\ child' \in [Pid -> Pid \cup {None}]
      BY <1>0, <1>2, <1>c, <2>1 DEF Fork, Rest
    <2>9. older' \in [Pid -> Pid \cup {None}]
      BY <1>0, <1>2, <2>7 DEF Fork, Rest
    <2>10. younger' \in [Pid -> Pid \cup {None}]
      <3>1. [younger EXCEPT ![c] = None] \in [Pid -> Pid \cup {None}]
        BY <1>0 DEF Rest
      <3>2. younger' = SetKin([younger EXCEPT ![c] = None], child[Me], c)
        BY <1>2 DEF Fork
      <3> QED BY <2>1, <2>7, <3>1, <3>2 DEF SetKin
    <2>11. sigq' \in [Pid -> Seq(Sig)]
      BY <1>0, <1>2 DEF Fork, Rest
    <2>12. handler' \in [Pid -> [Sig -> Handlers]] /\ kills' \in Nat
      BY <1>0, <1>2, <1>c DEF Fork, Rest
    <2>13. Rest'
      BY <2>1, <2>2, <2>3, <2>4, <2>5, <2>6, <2>8, <2>9, <2>10, <2>11, <2>12 DEF Rest
    <2> QED BY <1>n, <2>13, PartsNext
  <1> QED BY <1>1, <1>2

-----------------------------------------------------------------------------
\* Every step keeps the invariant.
LEMMA NextT == TInv /\ [Next]_vars => TInv'
  <1> SUFFICES ASSUME TInv, [Next]_vars PROVE TInv'
    OBVIOUS
  <1>1. CASE Kernel
    BY <1>1, ThreadSteps, SignalSteps, CustomStep, ExitSteps, WaitSteps DEF Kernel
  <1>2. CASE User \/ TimerSchedule
    BY <1>2, UserSteps, ForkSteps DEF User
  <1>3. CASE UNCHANGED vars
    <2>1. Rest /\ Machine
      BY Parts
    <2>2. Rest'
      BY <1>3, <2>1 DEF Rest, vars, thrVars, procVars, family, sigVars, idVars
    <2>3. Machine'
      BY <1>3, <2>1 DEF Machine, vars, procVars
    <2> QED BY <2>2, <2>3, PartsNext
  <1> QED BY <1>1, <1>2, <1>3 DEF Next

\* Type correctness of the kernel of processes: for every number of threads,
\* processes and signals and whatever the programs do, each variable keeps
\* its type, and every continuation in cpu and kctx names a thread or a
\* process where the code it leads to dereferences one (TInv).
THEOREM TypeCorrect == Spec => []TypeOK
  <1>1. TInv => TypeOK
    BY DEF TInv
  <1> QED BY <1>1, InitT, NextT, PTL DEF Spec

-----------------------------------------------------------------------------
(* Names of lists *)

\* The three kinds of list heads are distinct memory.
LEMMA ListNames ==
    /\ \A p \in Pid : PWait(p) \in Lists /\ PWait(p) # RunQ
    /\ \A t \in Tid : TWait(t) \in Lists /\ TWait(t) # RunQ
    /\ \A p \in Pid, t \in Tid : PWait(p) # TWait(t)
    /\ \A p, r \in Pid : PWait(p) = PWait(r) => p = r
    /\ \A t, u \in Tid : TWait(t) = TWait(u) => t = u
    /\ \A l \in Lists : \/ l = RunQ
                        \/ \E p \in Pid : l = PWait(p)
                        \/ \E t \in Tid : l = TWait(t)
    /\ RunQ \in Lists
  <1>1. "run" # "process" /\ "run" # "thread" /\ "process" # "thread"
    OBVIOUS
  <1> QED BY <1>1 DEF RunQ, PWait, TWait, Lists

-----------------------------------------------------------------------------
(* What the operations of scheduler.c do to the members of the lists *)

\* A thread is on one list at most, and once.
LinkedIn(Q) ==
    /\ \A l \in Lists : IsInjective(Q[l])
    /\ \A l, m \in Lists : \A t \in Tid :
          t \in ToSet(Q[l]) /\ t \in ToSet(Q[m]) => l = m

Detached(Q, t) == \A l \in Lists : t \notin ToSet(Q[l])

\* The members of every list are threads.
LEMMA QueueMembers ==
    ASSUME NEW Q \in Queues, NEW l \in Lists
    PROVE  Q[l] \in Seq(Tid) /\ ToSet(Q[l]) \subseteq Tid
  <1>1. Q[l] \in Seq(Tid)
    BY DEF Queues
  <1> QED BY <1>1, SetOf

\* scheduler_remove.
LEMMA RemoveMembers ==
    ASSUME NEW Q \in Queues, LinkedIn(Q), NEW t \in Tid,
           NEW R, R = scheduler_remove(Q, t), NEW m \in Lists, NEW u
    PROVE  /\ R \in Queues /\ LinkedIn(R)
           /\ u \in ToSet(R[m]) <=> u \in ToSet(Q[m]) /\ u # t
  <1>1. R \in Queues
    BY QueueTypes, ListNames
  <1>2. \A l \in Lists : R[l] = Unlink(Q[l], t)
    BY DEF scheduler_remove, Queues
  <1>3. ASSUME NEW l \in Lists
        PROVE  ToSet(R[l]) = ToSet(Q[l]) \ {t} /\ IsInjective(R[l])
    <2>1. Q[l] \in Seq(Tid) /\ IsInjective(Q[l])
      BY QueueMembers DEF LinkedIn
    <2>2. ToSet(Unlink(Q[l], t)) = ToSet(Q[l]) \ {t} /\ IsInjective(Unlink(Q[l], t))
      BY <2>1, UnlinkSet
    <2> QED BY <1>2, <2>2
  <1>4. LinkedIn(R)
    BY <1>3 DEF LinkedIn
  <1> QED BY <1>1, <1>3, <1>4

\* A thread that is on no list goes on list l.
LEMMA LinkMembers ==
    ASSUME NEW Q \in Queues, LinkedIn(Q), NEW t \in Tid, Detached(Q, t), NEW l \in Lists,
           NEW R \in Queues, \A m \in Lists \ {l} : R[m] = Q[m],
           ToSet(R[l]) = ToSet(Q[l]) \cup {t},
           IsInjective(Q[l]) /\ t \notin ToSet(Q[l]) => IsInjective(R[l])
    PROVE  LinkedIn(R)
  <1>1. \A m \in Lists \ {l} : ToSet(R[m]) = ToSet(Q[m])
    OBVIOUS
  <1>2. \A m \in Lists : IsInjective(R[m])
    BY DEF LinkedIn, Detached
  <1> QED BY <1>1, <1>2 DEF LinkedIn, Detached

\* scheduler_insert and scheduler_cheat of a detached thread.
LEMMA InsertMembers ==
    ASSUME NEW Q \in Queues, LinkedIn(Q), NEW t \in Tid, Detached(Q, t),
           NEW R, R = scheduler_insert(Q, t) \/ R = scheduler_cheat(Q, t),
           NEW m \in Lists, NEW u
    PROVE  /\ R \in Queues /\ LinkedIn(R)
           /\ u \in ToSet(R[m]) <=> u \in ToSet(Q[m]) \/ (m = RunQ /\ u = t)
  <1>1. RunQ \in Lists /\ Q[RunQ] \in Seq(Tid) /\ R \in Queues
    BY ListNames, QueueMembers, QueueTypes
  <1>2. \A n \in Lists \ {RunQ} : R[n] = Q[n]
    BY DEF Queues, scheduler_insert, scheduler_cheat
  <1>3. R[RunQ] = Append(Q[RunQ], t) \/ R[RunQ] = Cons(t, Q[RunQ])
    BY <1>1 DEF Queues, scheduler_insert, scheduler_cheat
  <1>4. /\ ToSet(R[RunQ]) = ToSet(Q[RunQ]) \cup {t}
        /\ IsInjective(Q[RunQ]) /\ t \notin ToSet(Q[RunQ]) => IsInjective(R[RunQ])
    <2> DEFINE s == Q[RunQ]
    <2>1. s \in Seq(Tid)
      BY <1>1
    <2> HIDE DEF s
    <2>2. /\ ToSet(Append(s, t)) = ToSet(s) \cup {t}
          /\ IsInjective(s) /\ t \notin ToSet(s) => IsInjective(Append(s, t))
      BY <2>1, AppendSet
    <2>3. /\ ToSet(Cons(t, s)) = ToSet(s) \cup {t}
          /\ IsInjective(s) /\ t \notin ToSet(s) => IsInjective(Cons(t, s))
      BY <2>1, ConsSet
    <2>4. R[RunQ] = Append(s, t) \/ R[RunQ] = Cons(t, s)
      BY <1>3 DEF s
    <2>5. /\ ToSet(R[RunQ]) = ToSet(s) \cup {t}
          /\ IsInjective(s) /\ t \notin ToSet(s) => IsInjective(R[RunQ])
      BY <2>2, <2>3, <2>4
    <2> QED BY <2>5 DEF s
  <1>5. LinkedIn(R)
    BY <1>1, <1>2, <1>4, LinkMembers
  <1> QED BY <1>1, <1>2, <1>4, <1>5

\* scheduler_sleep: a thread leaves the list it is on for another.
LEMMA SleepMembers ==
    ASSUME NEW Q \in Queues, LinkedIn(Q), NEW t \in Tid, NEW l \in Lists,
           NEW R, R = scheduler_sleep(Q, t, l), NEW m \in Lists, NEW u
    PROVE  /\ R \in Queues /\ LinkedIn(R)
           /\ u \in ToSet(R[m]) <=> (u \in ToSet(Q[m]) /\ u # t) \/ (m = l /\ u = t)
  <1>1. PICK P \in Queues :
           /\ P = scheduler_remove(Q, t) /\ LinkedIn(P)
           /\ \A n \in Lists : \A v : v \in ToSet(P[n]) <=> v \in ToSet(Q[n]) /\ v # t
    <2>1. ASSUME NEW n \in Lists, NEW v
          PROVE  /\ scheduler_remove(Q, t) \in Queues /\ LinkedIn(scheduler_remove(Q, t))
                 /\ v \in ToSet(scheduler_remove(Q, t)[n]) <=> v \in ToSet(Q[n]) /\ v # t
      BY RemoveMembers
    <2> QED BY <2>1
  <1>2. R = [P EXCEPT ![l] = Append(@, t)] /\ R \in Queues
    BY <1>1, QueueTypes DEF scheduler_sleep
  <1>3. P[l] \in Seq(Tid) /\ Detached(P, t)
    BY <1>1, QueueMembers DEF Detached
  <1>4. R[l] = Append(P[l], t) /\ \A n \in Lists \ {l} : R[n] = P[n]
    BY <1>1, <1>2 DEF Queues
  <1>5. /\ ToSet(R[l]) = ToSet(P[l]) \cup {t}
        /\ IsInjective(P[l]) /\ t \notin ToSet(P[l]) => IsInjective(R[l])
    BY <1>3, <1>4, AppendSet
  <1>6. LinkedIn(R)
    <2>1. P \in Queues /\ R \in Queues /\ LinkedIn(P) /\ Detached(P, t)
      BY <1>1, <1>2, <1>3
    <2>2. \A n \in Lists \ {l} : R[n] = P[n]
      BY <1>4
    <2> QED BY <1>5, <2>1, <2>2, LinkMembers
  <1>7. u \in ToSet(R[m]) <=> u \in ToSet(P[m]) \/ (m = l /\ u = t)
    BY <1>4, <1>5
  <1> QED BY <1>1, <1>2, <1>6, <1>7

\* scheduler_wake: all of a list goes to the run queue.
LEMMA WakeMembers ==
    ASSUME NEW Q \in Queues, LinkedIn(Q), NEW l \in Lists, l # RunQ,
           NEW R, R = scheduler_wake(Q, l), NEW m \in Lists, NEW u
    PROVE  /\ R \in Queues /\ LinkedIn(R)
           /\ u \in ToSet(R[m]) <=> \/ m = RunQ /\ u \in ToSet(Q[l])
                                    \/ m # l /\ u \in ToSet(Q[m])
  <1>1. RunQ \in Lists /\ Q[RunQ] \in Seq(Tid) /\ Q[l] \in Seq(Tid)
    BY ListNames, QueueMembers
  <1>2. R \in Queues
    BY QueueTypes, Constants
  <1>3. R[RunQ] = Q[RunQ] \o Q[l] /\ R[l] = <<>> /\ \A n \in Lists \ {l, RunQ} : R[n] = Q[n]
    BY <1>1 DEF scheduler_wake, Queues
  <1>4. ToSet(Q[RunQ]) \cap ToSet(Q[l]) = {}
    <2>1. ToSet(Q[l]) \subseteq Tid
      BY QueueMembers
    <2> QED BY <1>1, <2>1 DEF LinkedIn
  <1>5. ToSet(R[RunQ]) = ToSet(Q[RunQ]) \cup ToSet(Q[l]) /\ IsInjective(R[RunQ])
    BY <1>1, <1>3, <1>4, ConcatSet DEF LinkedIn
  <1>6. ToSet(R[l]) = {} /\ IsInjective(R[l])
    BY <1>1, <1>3, EmptySet
  <1>7. \A n \in Lists : IsInjective(R[n])
    BY <1>3, <1>5, <1>6 DEF LinkedIn
  <1>8. \A n \in Lists : \A v : v \in ToSet(R[n]) <=> \/ n = RunQ /\ v \in ToSet(Q[l])
                                                      \/ n # l /\ v \in ToSet(Q[n])
    BY <1>3, <1>5, <1>6
  <1>9. LinkedIn(R)
    <2> SUFFICES ASSUME NEW j \in Lists, NEW n \in Lists, NEW t \in Tid,
                        t \in ToSet(R[j]), t \in ToSet(R[n])
                 PROVE  j = n
      BY <1>7 DEF LinkedIn
    <2> QED BY <1>1, <1>8 DEF LinkedIn
  <1> QED BY <1>2, <1>8, <1>9

-----------------------------------------------------------------------------
(* The inductive invariant *)

\* t comes before h in s.
Before(s, t, h) == \E i, j \in 1..Len(s) : i < j /\ s[i] = t /\ s[j] = h

\* List nodes are linked once.
Linked == LinkedIn(q)

\* The head of a list that is not empty is in an allocated structure: in a
\* live process, or in a thread that runs a signal handler.  Only threads of
\* the same process sleep behind a handler, and they are older than it, so
\* exit_process and free_process, which free the oldest thread first, free
\* the members of such a list before its head.  Q, ts, tp, pt and ps are
\* values of q, tstate, tproc, pthreads and pstate.
HeadsIn(Q, ts, tp, pt, ps) ==
    /\ \A p \in Pid : ToSet(Q[PWait(p)]) # {} => ps[p] = "LIVE"
    /\ \A h, t \in Tid : t \in ToSet(Q[TWait(h)]) =>
          /\ tp[t] = tp[h]
          /\ Before(pt[tp[h]], t, h)
          /\ ts[h] \in {"READY", "WAITING"}

Heads == HeadsIn(q, tstate, tproc, pthreads, pstate)

\* The list of threads of a process; that of init lacks the first thread.
Members ==
    /\ \A p \in Pid : IsInjective(pthreads[p])
    /\ \A p \in Pid, t \in Tid :
          t \in ToSet(pthreads[p]) <=> t \in threads /\ tproc[t] = p /\ t # Init0

\* The list of processes, and what their state says of their threads.
Processes ==
    /\ IsInjective(plist)
    /\ \A p \in Pid : p \in ToSet(plist) <=> pstate[p] # "FREE"
    /\ \A t \in threads : /\ pstate[tproc[t]] # "FREE"
                          /\ pstate[tproc[t]] = "FINISHED" => tstate[t] = "FINISHED"

\* The boot thread and process 1 are there for good, and what is not
\* numbered yet is not allocated.
System ==
    /\ tstate[Boot] = "READY" /\ tproc[Boot] = 1 /\ tproc[Init0] = 1
    /\ pstate[1] = "LIVE"
    /\ next_pid >= 2 /\ next_tid >= 3
    /\ \A t \in Tid : t >= next_tid => tstate[t] = "FREE"
    /\ \A p \in Pid : p >= next_pid => pstate[p] = "FREE"

Tables == Linked /\ Heads /\ Members /\ Processes /\ System

\* Where a thread is, on the queues Q, follows from its state, in ts; the
\* thread out runs.
PlacedIn(Q, ts, out) ==
    \A t \in Tid :
        /\ t \in ToSet(Q[RunQ]) <=> ts[t] = "READY" /\ t # out
        /\ (\E l \in Lists \ {RunQ} : t \in ToSet(Q[l])) <=> ts[t] = "WAITING"

Placed == PlacedIn(q, tstate, Running)

\* handle_signals on the way to user mode, and called by signal_process.
ToUser == cpu.pc = "iret" \/ (cpu.pc = "handle" /\ cpu.then = "iret")
InSignal == cpu.pc = "handle" /\ cpu.then # "iret"

\* The thread that runs is ready, in its own address space.
Base == tstate[current] # "FREE" /\ tstate[Running] = "READY" /\ cr3 = tproc[Running]

\* What holds at the places of the kernel, of the fields of cpu.
Place ==
    /\ InSignal => IF cpu.then = "check" THEN cpu.arg = current
                   ELSE tstate[cpu.arg] = "WAITING"
    /\ cpu.pc \in {"check", "sent", "exit"} \/ InSignal => tproc[current] # 1
    /\ cpu.pc = "exit" => cpu.pr = tproc[current]
    /\ cpu.pc \in {"free", "adopt", "unlink"} => pstate[cpu.pr] = "FINISHED"
    /\ cpu.pc \in {"adopt", "unlink"} => pthreads[cpu.pr] = <<>>

\* The same of the thread that runs and of the stack in use.
Code ==
    /\ Running = Boot => cpu.pc \in {"user", "clean"}
    /\ cpu.pc = "clean" \/ current # Running => kctx[current].pc # "first"
    /\ ToUser /\ cpu.arg # current => kctx[cpu.arg].pc = "first"
    /\ Place

\* What may be saved as the continuation k of thread t of process p.
Resumable(t, p, k) ==
    /\ k.pc \in {"first", "user", "handle", "iret", "wait", "check", "sent", "halt"}
    /\ k.pc = "user" <=> t = Boot
    /\ k.pc = "handle" => k.arg = t /\ k.then = "iret"
    /\ k.pc = "iret" => k.arg = t
    /\ k.pc \in {"check", "sent"} => p # 1

Contexts ==
    \A t \in threads : t # Running \/ cpu.pc = "clean" => Resumable(t, tproc[t], kctx[t])

\* No signal is pending for a thread that has not run, but in the call of
\* handle_signals by another thread of the process that will take it.
New(t) == kctx[t].pc = "first" /\ t # current
NoNewPending ==
    \A t \in threads :
        New(t) /\ Pending(tproc[t]) =>
            cpu.pc = "handle" /\ cpu.arg = current /\ tproc[current] = tproc[t]

Signals ==
    /\ \A p \in Pid : Len(sigq[p]) <= 1
    /\ sigq[1] = <<>>
    /\ NoNewPending

Execution == Placed /\ Base /\ Code /\ Contexts /\ Signals

IInv == TInv /\ Tables /\ Execution

-----------------------------------------------------------------------------
(* Order in the list of threads of a process *)

\* Both are members, and they differ.
LEMMA BeforeMembers ==
    ASSUME NEW S, NEW s \in Seq(S), NEW t, NEW h, Before(s, t, h)
    PROVE  t \in ToSet(s) /\ h \in ToSet(s) /\ (IsInjective(s) => t # h)
  <1>1. PICK i \in 1..Len(s), j \in 1..Len(s) : i < j /\ s[i] = t /\ s[j] = h
    BY DEF Before
  <1>2. /\ ToSet(s) = {s[k] : k \in 1..Len(s)}
        /\ IsInjective(s) <=> \A k, m \in 1..Len(s) : s[k] = s[m] => k = m
        /\ Len(s) \in Nat
    BY SetOf
  <1>3. t \in ToSet(s) /\ h \in ToSet(s)
    BY <1>1, <1>2
  <1>4. i # j
    BY <1>1, <1>2
  <1> QED BY <1>1, <1>2, <1>3, <1>4

\* A thread added at the end comes after the others, whose order stays.
LEMMA BeforeAppend ==
    ASSUME NEW S, NEW s \in Seq(S), NEW x \in S
    PROVE  /\ \A t, h : Before(s, t, h) => Before(Append(s, x), t, h)
           /\ \A t \in ToSet(s) : Before(Append(s, x), t, x)
  <1> DEFINE a == Append(s, x)
  <1>1. /\ Len(s) \in Nat /\ Len(a) = Len(s) + 1 /\ a[Len(s) + 1] = x
        /\ \A i \in 1..Len(s) : a[i] = s[i]
    OBVIOUS
  <1> HIDE DEF a
  <1>2. \A i \in 1..Len(s) : i \in 1..Len(a) /\ i < Len(s) + 1
    BY <1>1
  <1>3. Len(s) + 1 \in 1..Len(a)
    BY <1>1
  <1>4. ASSUME NEW t, NEW h, Before(s, t, h) PROVE Before(a, t, h)
    <2>1. PICK i \in 1..Len(s), j \in 1..Len(s) : i < j /\ s[i] = t /\ s[j] = h
      BY <1>4 DEF Before
    <2>2. i \in 1..Len(a) /\ j \in 1..Len(a) /\ i < j /\ a[i] = t /\ a[j] = h
      BY <1>1, <1>2, <2>1
    <2> QED BY <2>2 DEF Before
  <1>5. ASSUME NEW t \in ToSet(s) PROVE Before(a, t, x)
    <2>1. PICK i \in 1..Len(s) : s[i] = t
      BY SetOf
    <2>2. i \in 1..Len(a) /\ i < Len(s) + 1 /\ a[i] = t
      BY <1>1, <1>2, <2>1
    <2> QED BY <1>1, <1>3, <2>2 DEF Before
  <1> QED BY <1>4, <1>5 DEF a

\* A thread that leaves does not change the order of the others.
LEMMA BeforeUnlink ==
    ASSUME NEW S, NEW s \in Seq(S), NEW x, NEW t, NEW h, Before(s, t, h), x # t, x # h
    PROVE  Before(Unlink(s, x), t, h)
  <1>1. PICK i \in 1..Len(s), j \in 1..Len(s) : i < j /\ s[i] = t /\ s[j] = h
    BY DEF Before
  <1>2. CASE x \notin ToSet(s)
    BY <1>2 DEF Unlink
  <1>3. CASE x \in ToSet(s)
    <2> DEFINE n == CHOOSE n \in 1..Len(s) : s[n] = x
    <2>1. n \in 1..Len(s) /\ s[n] = x
      <3>1. \E m \in 1..Len(s) : s[m] = x
        BY <1>3, SetOf
      <3> QED BY <3>1
    <2>2. Unlink(s, x) = RemoveAt(s, n)
      BY <1>3 DEF Unlink
    <2> HIDE DEF n
    <2> DEFINE r == RemoveAt(s, n)
    <2>3. /\ Len(r) = Len(s) - 1 /\ Len(s) \in Nat
          /\ \A k \in 1..(Len(s) - 1) : r[k] = IF k < n THEN s[k] ELSE s[k + 1]
      <3>1. /\ Len(RemoveAt(s, n)) = Len(s) - 1
            /\ \A k \in 1..(Len(s) - 1) : RemoveAt(s, n)[k] = IF k < n THEN s[k] ELSE s[k + 1]
        BY ONLY s \in Seq(S), <2>1, RemoveAtValue
      <3>2. Len(s) \in Nat
        OBVIOUS
      <3> QED BY <3>1, <3>2
    <2> HIDE DEF r
    <2>4. i # n /\ j # n
      BY <1>1, <2>1
    <2> DEFINE ii == IF i < n THEN i ELSE i - 1
               jj == IF j < n THEN j ELSE j - 1
    <2>5. /\ ii \in 1..(Len(s) - 1) /\ jj \in 1..(Len(s) - 1) /\ ii < jj
          /\ IF ii < n THEN ii = i ELSE ii + 1 = i
          /\ IF jj < n THEN jj = j ELSE jj + 1 = j
      BY <1>1, <2>1, <2>3, <2>4
    <2> HIDE DEF ii, jj
    <2>6. r[ii] = t /\ r[jj] = h
      BY <1>1, <2>3, <2>5
    <2>7. Before(r, t, h)
      BY <2>3, <2>5, <2>6 DEF Before
    <2> QED BY <2>2, <2>7 DEF r
  <1> QED BY <1>2, <1>3

-----------------------------------------------------------------------------
(* The initial state, and what IInv gives about types *)

\* The types the following proofs use.
LEMMA Types ==
    ASSUME TInv
    PROVE  /\ tstate \in [Tid -> {"FREE", "READY", "WAITING", "FINISHED"}]
           /\ tproc \in [Tid -> Pid]
           /\ q \in Queues /\ q \in [Lists -> Seq(Tid)]
           /\ current \in Tid /\ cr3 \in Pid /\ plist \in Seq(Pid)
           /\ pthreads \in [Pid -> Seq(Tid)]
           /\ pstate \in [Pid -> {"FREE", "LIVE", "FINISHED"}]
           /\ sigq \in [Pid -> Seq(Sig)]
           /\ next_tid \in Nat /\ next_pid \in Nat
           /\ cpu \in Context /\ kctx \in [Tid -> Context]
           /\ cpu.pc \in {"handle", "iret", "clean"} => cpu.arg \in Tid
           /\ cpu.pc \in {"check", "exit", "clean", "wait", "free", "adopt", "unlink"}
                 => cpu.pr \in Pid
           /\ cpu.pc = "handle" => /\ cpu.then \in {"iret", "check", "sent"}
                                   /\ cpu.then = "check" => cpu.pr \in Pid
           /\ Running \in Tid
  <1>1. cpu \in Sound
    BY DEF TInv
  <1>2. /\ cpu.pc \in {"handle", "iret", "clean"} => cpu.arg \in Tid
        /\ cpu.pc \in {"check", "exit", "clean", "wait", "free", "adopt", "unlink"}
              => cpu.pr \in Pid
        /\ cpu.pc = "handle" => /\ cpu.then \in {"iret", "check", "sent"}
                                /\ cpu.then = "check" => cpu.pr \in Pid
    BY <1>1 DEF Sound
  <1>3. TypeOK
    BY DEF TInv
  <1>4. Running \in Tid
    BY <1>2, <1>3 DEF Running, TypeOK
  <1> QED BY <1>2, <1>3, <1>4 DEF TypeOK, Queues

\* One list has two members at most once each (used for the first threads).
LEMMA Single ==
    ASSUME NEW S, NEW x \in S
    PROVE  <<x>> \in Seq(S) /\ ToSet(<<x>>) = {x} /\ IsInjective(<<x>>)
  BY DEF ToSet, IsInjective

\* The initial state.
LEMMA InitI == Init => IInv
  <1> SUFFICES ASSUME Init PROVE IInv
    OBVIOUS
  <1>0. TInv
    BY InitT
  <1>c. Boot \in Tid /\ Init0 \in Tid /\ Boot # Init0 /\ 1 \in Pid /\ Tid \subseteq Nat /\ Pid \subseteq Nat
    BY Constants DEF Boot, Init0
  <1>l. RunQ \in Lists
    BY ListNames
  <1>q. /\ ToSet(q[RunQ]) = {Init0} /\ IsInjective(q[RunQ])
        /\ \A l \in Lists \ {RunQ} : q[l] = <<>> /\ ToSet(q[l]) = {} /\ IsInjective(q[l])
    <2>1. q[RunQ] = <<Init0>> /\ \A l \in Lists \ {RunQ} : q[l] = <<>>
      BY <1>l DEF Init
    <2>2. <<>> \in Seq(Tid)
      OBVIOUS
    <2>3. ToSet(<<>>) = {} /\ IsInjective(<<>>)
      BY <2>2, EmptySet
    <2> QED BY <1>c, <2>1, <2>3, Single
  <1>t. /\ \A t \in Tid : tstate[t] = IF t \in {Boot, Init0} THEN "READY" ELSE "FREE"
        /\ \A t \in Tid : tproc[t] = 1
        /\ \A p \in Pid : pstate[p] = IF p = 1 THEN "LIVE" ELSE "FREE"
        /\ threads = {Boot, Init0}
    BY <1>c DEF Init, threads
  <1>r. /\ current = Boot /\ cpu.pc = "user" /\ Running = Boot /\ cr3 = 1
        /\ \A t \in Tid : kctx[t].pc = IF t = Boot THEN "user" ELSE "first"
    BY DEF Init, AtUser, AtFirst, K, Running
  <1>1. Linked
    BY <1>q, <1>l DEF Linked, LinkedIn
  <1>2. Heads
    BY <1>q, ListNames DEF Heads, HeadsIn
  <1>3. Members
    <2>1. /\ ToSet(pthreads[1]) = {Boot} /\ IsInjective(pthreads[1])
          /\ \A p \in Pid \ {1} : ToSet(pthreads[p]) = {} /\ IsInjective(pthreads[p])
      <3>1. pthreads[1] = <<Boot>> /\ \A p \in Pid \ {1} : pthreads[p] = <<>>
        BY <1>c DEF Init
      <3>2. <<>> \in Seq(Tid)
        OBVIOUS
      <3>3. ToSet(<<>>) = {} /\ IsInjective(<<>>)
        BY <3>2, EmptySet
      <3> QED BY <1>c, <3>1, <3>3, Single
    <2> QED BY <1>c, <1>t, <2>1 DEF Members
  <1>4. Processes
    <2>1. ToSet(plist) = {1} /\ IsInjective(plist)
      BY <1>c, Single DEF Init
    <2> QED BY <1>c, <1>t, <2>1 DEF Processes
  <1>5. System
    BY <1>c, <1>t DEF Init, System, Boot, Init0
  <1>6. Placed
    BY <1>c, <1>q, <1>t, <1>r DEF Placed, PlacedIn
  <1>7. Base /\ Code
    BY <1>c, <1>t, <1>r DEF Base, Code, Place, ToUser, InSignal
  <1>8. Contexts
    BY <1>c, <1>t, <1>r DEF Contexts, Resumable
  <1>9. Signals
    <2>1. \A p \in Pid : sigq[p] = <<>> /\ Len(sigq[p]) = 0
      BY DEF Init
    <2> QED BY <1>c, <1>t, <2>1 DEF Signals, NoNewPending, New, Pending
  <1> QED BY <1>0, <1>1, <1>2, <1>3, <1>4, <1>5, <1>6, <1>7, <1>8, <1>9
          DEF IInv, Tables, Execution

-----------------------------------------------------------------------------
\* schedule() leaves the run queue with all threads that are ready but the
\* one it picks, and the other lists alone, when on the queues Q it is given
\* only the caller may be ready and not queued.
LEMMA ScheduleMembers ==
    ASSUME NEW Q \in Queues, LinkedIn(Q), NEW kc, Schedule(Q, kc),
           current \in Tid, tstate'[Boot] = "READY", PlacedIn(Q, tstate', current)
    PROVE  /\ LinkedIn(q')
           /\ kctx' = kc
           /\ cpu'.pc = "clean" /\ cpu'.arg \in Tid /\ tstate'[cpu'.arg] = "READY"
           /\ cr3' = tproc'[cpu'.arg]
           /\ Running' = cpu'.arg
           /\ \A l \in Lists \ {RunQ} : ToSet(q'[l]) = ToSet(Q[l])
           /\ Placed'
  <1>c. Boot \in Tid /\ RunQ \in Lists
    BY Constants
  <1>1. PICK Q1 \in Queues :
           /\ Q1 = IF tstate'[current] = "READY" THEN scheduler_insert(Q, current) ELSE Q
           /\ LinkedIn(Q1)
           /\ \A t \in Tid : t \in ToSet(Q1[RunQ]) <=> tstate'[t] = "READY"
           /\ \A l \in Lists \ {RunQ} : ToSet(Q1[l]) = ToSet(Q[l])
    <2>1. CASE tstate'[current] = "READY"
      <3>1. Detached(Q, current)
        BY <1>c, <2>1 DEF Detached, PlacedIn
      <3> DEFINE R == scheduler_insert(Q, current)
      <3>2. ASSUME NEW m \in Lists, NEW u
            PROVE  /\ R \in Queues /\ LinkedIn(R)
                   /\ u \in ToSet(R[m]) <=> u \in ToSet(Q[m]) \/ (m = RunQ /\ u = current)
        BY <3>1, InsertMembers
      <3> HIDE DEF R
      <3>3. R \in Queues /\ LinkedIn(R)
        BY <1>c, <3>2
      <3>4. \A t \in Tid : t \in ToSet(R[RunQ]) <=> tstate'[t] = "READY"
        BY <1>c, <2>1, <3>2 DEF PlacedIn
      <3>5. \A l \in Lists \ {RunQ} : ToSet(R[l]) = ToSet(Q[l])
        BY <3>2
      <3> QED BY <2>1, <3>3, <3>4, <3>5 DEF R
    <2>2. CASE tstate'[current] # "READY"
      BY <2>2 DEF PlacedIn
    <2> QED BY <2>1, <2>2
  <1>2. Q1[RunQ] \in Seq(Tid)
    BY <1>c, QueueMembers
  <1>3. Q1[RunQ] # <<>> /\ Head(Q1[RunQ]) \in ToSet(Q1[RunQ])
    BY <1>c, <1>1, <1>2, EmptySet
  <1>4. ToSet(Q1[RunQ]) \subseteq Tid /\ None \notin Tid
    BY <1>c, QueueMembers, BoundsAssumption DEF None, Tid
  <1>5. PICK nxt \in Tid : nxt = Head(Q1[RunQ]) /\ nxt \in ToSet(Q1[RunQ])
    BY <1>3, <1>4
  <1>6. scheduler_next(Q1, None) = nxt
    BY <1>3, <1>5 DEF scheduler_next
  <1>7. /\ q' = scheduler_remove(Q1, nxt)
        /\ kctx' = kc
        /\ cr3' = tproc'[nxt]
        /\ cpu' = K("clean", nxt, tproc'[nxt], "none", "none")
    BY <1>1, <1>4, <1>6 DEF Schedule
  <1>8. /\ LinkedIn(q')
        /\ \A l \in Lists : ToSet(q'[l]) = ToSet(Q1[l]) \ {nxt}
    <2>1. LinkedIn(Q1) /\ q' = scheduler_remove(Q1, nxt)
      BY <1>1, <1>7
    <2>2. ASSUME NEW m \in Lists, NEW u
          PROVE  LinkedIn(q') /\ (u \in ToSet(q'[m]) <=> u \in ToSet(Q1[m]) /\ u # nxt)
      BY <2>1, RemoveMembers
    <2> QED BY <1>c, <2>2
  <1>9. cpu'.pc = "clean" /\ cpu'.arg = nxt /\ Running' = nxt
    BY <1>7 DEF K, Running
  <1>10. \A l \in Lists \ {RunQ} : ToSet(q'[l]) = ToSet(Q[l])
    <2> SUFFICES ASSUME NEW l \in Lists \ {RunQ} PROVE ToSet(q'[l]) = ToSet(Q[l])
      OBVIOUS
    <2>1. nxt \notin ToSet(Q1[l])
      BY <1>c, <1>1, <1>5 DEF LinkedIn
    <2>2. ToSet(q'[l]) = ToSet(Q1[l]) \ {nxt} /\ ToSet(Q1[l]) = ToSet(Q[l])
      BY <1>1, <1>8
    <2> QED BY <2>1, <2>2
  <1>11. Placed'
    <2>1. \A t \in Tid : t \in ToSet(q'[RunQ]) <=> tstate'[t] = "READY" /\ t # Running'
      BY <1>c, <1>1, <1>8, <1>9
    <2>2. \A t \in Tid : (\E l \in Lists \ {RunQ} : t \in ToSet(q'[l])) <=> tstate'[t] = "WAITING"
      BY <1>10 DEF PlacedIn
    <2> QED BY <2>1, <2>2 DEF Placed, PlacedIn
  <1> QED BY <1>1, <1>5, <1>7, <1>8, <1>9, <1>10, <1>11

-----------------------------------------------------------------------------
(* Steps that move the program counter and touch no list *)

\* What these steps leave alone.
Kept == <<tstate, tproc, q, pthreads, pstate, plist, next_tid, next_pid, kctx, current, cr3>>

\* The tables do not change when none of their variables does.
LEMMA TablesKept ==
    ASSUME Tables, UNCHANGED <<tstate, tproc, q, pthreads, pstate, plist, next_tid, next_pid>>
    PROVE  Tables'
  <1>1. Linked' /\ Heads' /\ Members'
    BY DEF Tables, Linked, Heads, Members, LinkedIn, threads
  <1>2. Processes' /\ System'
    BY DEF Tables, Processes, System, threads
  <1> QED BY <1>1, <1>2 DEF Tables

\* A step within the kernel's work for the same thread.
LEMMA QuietStep ==
    ASSUME IInv, TInv', UNCHANGED Kept, cpu.pc # "clean", cpu'.pc # "clean",
           Running' = Running, Running = Boot => cpu'.pc = "user",
           ToUser' /\ cpu'.arg # current => kctx[cpu'.arg].pc = "first",
           Place', Signals'
    PROVE  IInv'
  <1>k. UNCHANGED <<tstate, tproc, q, pthreads, pstate, plist, next_tid, next_pid>>
        /\ UNCHANGED <<kctx, current, cr3>>
    BY DEF Kept
  <1>1. Tables'
    BY <1>k, TablesKept DEF IInv
  <1>2. Placed' /\ Base'
    BY <1>k DEF IInv, Execution, Placed, PlacedIn, Base
  <1>3. Code'
    BY <1>k DEF IInv, Execution, Code
  <1>4. Contexts'
    BY <1>k DEF IInv, Execution, Contexts, Resumable, threads
  <1> QED BY <1>1, <1>2, <1>3, <1>4 DEF IInv, Execution

\* The same, for the current thread and with no signal taken or sent.
LEMMA PlainStep ==
    ASSUME IInv, TInv', UNCHANGED Kept, UNCHANGED sigq,
           cpu.pc \notin {"clean", "handle", "iret"}, cpu'.pc \notin {"clean", "iret"},
           current # Boot, cpu'.pc = "handle" /\ cpu'.then = "iret" => cpu'.arg = current,
           Place'
    PROVE  IInv'
  <1>1. Running = current /\ Running' = current
    BY DEF Running, Kept
  <1>2. ToUser' => cpu'.arg = current
    BY DEF ToUser
  <1>3. Signals'
    <2>1. \A t \in threads : New(t) => ~ Pending(tproc[t])
      BY DEF IInv, Execution, Signals, NoNewPending
    <2>2. NoNewPending'
      BY <2>1 DEF NoNewPending, New, Pending, threads, Kept
    <2> QED BY <2>2 DEF IInv, Execution, Signals
  <1> QED BY <1>1, <1>2, <1>3, QuietStep

\* The current thread is not the boot thread outside the idle loop.
LEMMA NotIdle ==
    ASSUME IInv, cpu.pc \notin {"user", "clean", "handle", "iret"}
    PROVE  Running = current /\ current # Boot /\ tstate[current] = "READY"
  BY DEF IInv, Execution, Code, Base, Running

\* signals.c: the test for a sleeping thread, and the return to user mode.
LEMMA WaitingSteps ==
    ASSUME IInv, TInv', CheckWaiting \/ (SignalSent /\ cpu.by # "segv")
    PROVE  IInv'
  <1>t. TInv
    BY DEF IInv
  <1>c. current # Boot /\ Place
    BY NotIdle DEF CheckWaiting, SignalSent, IInv, Execution, Code
  <1>1. CASE CheckWaiting
    <2>1. UNCHANGED Kept /\ UNCHANGED sigq /\ cpu.pc = "check" /\ tproc[current] # 1
      BY <1>1, <1>c DEF CheckWaiting, Kept, thrVars, procVars, sigVars, idVars, Place
    <2>2. CASE pthreads[cpu.pr] = <<>>
      <3>1. cpu'.pc = "halt"
        BY <1>1, <2>2 DEF CheckWaiting, AtHalt, K
      <3>2. Place'
        BY <3>1 DEF Place, InSignal
      <3> QED BY <1>c, <2>1, <3>1, <3>2, PlainStep
    <2>3. CASE pthreads[cpu.pr] # <<>>
      <3> DEFINE th == Head(pthreads[cpu.pr])
      <3>1. \/ /\ tstate[th] = "WAITING"
               /\ cpu'.pc = "handle" /\ cpu'.arg = th /\ cpu'.then = "sent"
            \/ cpu'.pc = "sent"
        BY <1>1, <2>3 DEF CheckWaiting, K
      <3>2. Place'
        BY <2>1, <3>1 DEF Place, InSignal, Kept
      <3> QED BY <1>c, <2>1, <3>1, <3>2, PlainStep
    <2> QED BY <2>2, <2>3
  <1>2. CASE SignalSent /\ cpu.by # "segv"
    <2>1. UNCHANGED Kept /\ UNCHANGED sigq /\ cpu.pc = "sent"
      BY <1>2 DEF SignalSent, Kept, procVars, sigVars, idVars
    <2>2. cpu'.pc = "handle" /\ cpu'.then = "iret" /\ cpu'.arg = current
      BY <1>2 DEF SignalSent, AtReturn, K
    <2>3. Place'
      BY <2>2 DEF Place, InSignal
    <2> QED BY <1>c, <2>1, <2>2, <2>3, PlainStep
  <1> QED BY <1>1, <1>2

\* process.c: waitpid of a process that is not running, and the walk over
\* its children.
LEMMA FamilySteps ==
    ASSUME IInv, TInv', \/ FreeAdopt \/ AdoptNext \/ AdoptDone
                        \/ WaitTest /\ pstate[cpu.pr] # "LIVE"
    PROVE  IInv'
  <1>t. TInv
    BY DEF IInv
  <1>c. current # Boot /\ Place /\ tstate[current] = "READY"
    BY NotIdle DEF FreeAdopt, AdoptNext, AdoptDone, WaitTest, IInv, Execution, Code
  <1>1. UNCHANGED Kept /\ UNCHANGED sigq /\ cpu.pc \in {"wait", "free", "adopt"}
        /\ cpu.pr \in Pid
    BY <1>t, Types DEF FreeAdopt, AdoptNext, AdoptDone, WaitTest, Kept, thrVars, procVars,
          sigVars, idVars
  <1>2. CASE WaitTest /\ pstate[cpu.pr] # "LIVE"
    <2>1. \/ cpu'.pc = "halt"
          \/ cpu'.pc = "free" /\ cpu'.pr = cpu.pr /\ pstate[cpu.pr] = "FINISHED"
      <3>1. cpu \in Context
        BY <1>t, Types
      <3> QED BY <1>2, <3>1 DEF WaitTest, AtHalt, K, Context
    <2>2. Place'
      BY <1>1, <2>1 DEF Place, InSignal, Kept
    <2> QED BY <1>c, <1>1, <2>1, <2>2, PlainStep
  <1>3. CASE FreeAdopt \/ AdoptNext \/ AdoptDone
    <2>1. cpu'.pc = "halt" \/ (cpu'.pc \in {"adopt", "unlink"} /\ cpu'.pr = cpu.pr)
      BY <1>3 DEF FreeAdopt, AdoptNext, AdoptDone, AtHalt, K
    <2>2. pstate[cpu.pr] = "FINISHED"
      BY <1>3, <1>c DEF FreeAdopt, AdoptNext, AdoptDone, Place
    <2>3. pthreads[cpu.pr] = <<>>
      <3>1. CASE cpu.pc = "adopt"
        BY <3>1, <1>c DEF Place
      <3>2. CASE cpu.pc = "free"
        <4>1. OthersOf(cpu.pr) = {}
          BY <1>3, <3>2 DEF FreeAdopt, AdoptNext, AdoptDone
        <4>2. pthreads[cpu.pr] \in Seq(Tid) /\ current \in Tid
          BY <1>t, <1>1, Types
        <4>3. current \notin ToSet(pthreads[cpu.pr])
          BY <1>1, <1>c, <2>2, <4>2 DEF IInv, Tables, Members, Processes
        <4>4. \A i \in 1..Len(pthreads[cpu.pr]) : pthreads[cpu.pr][i] = current
          BY <4>1 DEF OthersOf
        <4>5. ToSet(pthreads[cpu.pr]) = {pthreads[cpu.pr][i] : i \in 1..Len(pthreads[cpu.pr])}
          BY <4>2, SetOf
        <4>6. ToSet(pthreads[cpu.pr]) = {}
          BY <4>3, <4>4, <4>5
        <4> QED BY <4>2, <4>6, EmptySet
      <3> QED BY <1>3, <3>1, <3>2 DEF FreeAdopt, AdoptNext, AdoptDone
    <2>4. Place'
      BY <1>1, <2>1, <2>2, <2>3 DEF Place, InSignal, Kept
    <2> QED BY <1>c, <1>1, <2>1, <2>4, PlainStep
  <1> QED BY <1>2, <1>3

-----------------------------------------------------------------------------
(* handle_signals and signal_process *)

\* When handle_signals has a signal to deliver, it works for the current
\* thread or was called for a sleeping one, and every thread that has not run
\* and could take the signal belongs to the process it works for.
LEMMA Delivery ==
    ASSUME IInv, cpu.pc = "handle"
    PROVE  /\ Running # Boot
           /\ Running = IF cpu.then = "iret" THEN cpu.arg ELSE current
           /\ \A t \in threads : New(t) /\ Pending(tproc[t]) => tproc[t] = tproc[cpu.arg]
           /\ Pending(tproc[cpu.arg]) => /\ cpu.then = "iret" => cpu.arg = current
                                         /\ tproc[cpu.arg] # 1
                                         /\ tproc[current] # 1
  <1>1. Running # Boot /\ Running = IF cpu.then = "iret" THEN cpu.arg ELSE current
    BY DEF IInv, Execution, Code, Running
  <1>2. ASSUME NEW t \in threads, New(t), Pending(tproc[t]) PROVE tproc[t] = tproc[cpu.arg]
    BY <1>2 DEF IInv, Execution, Signals, NoNewPending
  <1>3. ASSUME Pending(tproc[cpu.arg])
        PROVE  /\ cpu.then = "iret" => cpu.arg = current
               /\ tproc[cpu.arg] # 1 /\ tproc[current] # 1
    <2>1. tproc[cpu.arg] # 1
      BY <1>3 DEF IInv, Execution, Signals, Pending
    <2>2. cpu.then = "iret" => cpu.arg = current
      <3> SUFFICES ASSUME cpu.then = "iret", cpu.arg # current PROVE FALSE
        OBVIOUS
      <3>1. cpu.arg \in threads
        <4>1. TInv /\ tstate[cpu.arg] = "READY"
          BY <1>1 DEF IInv, Execution, Base
        <4> QED BY <4>1, Types DEF threads
      <3>2. New(cpu.arg)
        BY DEF IInv, Execution, Code, ToUser, New
      <3> QED BY <1>3, <3>1, <3>2 DEF IInv, Execution, Signals, NoNewPending
    <2>3. tproc[current] # 1
      BY <2>1, <2>2 DEF IInv, Execution, Code, Place, InSignal
    <2> QED BY <2>1, <2>2, <2>3
  <1> QED BY <1>1, <1>2, <1>3

\* The queue of the process is empty after its signal was taken.
LEMMA TakeSignal ==
    ASSUME IInv, NEW p \in Pid, Pending(p), sigq' = [sigq EXCEPT ![p] = Tail(@)]
    PROVE  sigq'[p] = <<>> /\ \A r \in Pid \ {p} : sigq'[r] = sigq[r]
  <1>1. sigq \in [Pid -> Seq(Sig)] /\ Len(sigq[p]) <= 1 /\ sigq[p] # <<>>
    <2>1. TInv
      BY DEF IInv
    <2> QED BY <2>1, Types DEF IInv, Execution, Signals, Pending
  <1>2. \A s \in Seq(Sig) : s # <<>> /\ Len(s) <= 1 => Tail(s) = <<>>
    <2> SUFFICES ASSUME NEW s \in Seq(Sig), s # <<>>, Len(s) <= 1 PROVE Tail(s) = <<>>
      OBVIOUS
    <2>1. Tail(s) \in Seq(Sig) /\ Len(Tail(s)) = Len(s) - 1 /\ Len(s) \in Nat
      OBVIOUS
    <2>2. Len(Tail(s)) = 0
      BY <2>1, EmptySeq
    <2> QED BY <2>1, <2>2, EmptySeq
  <1>3. sigq[p] \in Seq(Sig)
    BY <1>1
  <1>4. Tail(sigq[p]) = <<>>
    BY <1>1, <1>2, <1>3
  <1> QED BY <1>1, <1>4

\* handle_signals returns, or makes the current thread exit.
LEMMA HandleSteps ==
    ASSUME IInv, TInv', HandleNone \/ HandleIgnore \/ HandleTerminate
    PROVE  IInv'
  <1>t. TInv
    BY DEF IInv
  <1>h. cpu.pc = "handle"
    BY DEF HandleNone, HandleIgnore, HandleTerminate
  <1>a. /\ cpu.arg \in Tid /\ tproc[cpu.arg] \in Pid /\ cpu.then \in {"iret", "check", "sent"}
        /\ cpu \in Context /\ tproc \in [Tid -> Pid]
    BY <1>t, <1>h, Types
  <1>k. UNCHANGED Kept
    BY DEF HandleNone, HandleIgnore, HandleTerminate, Kept, thrVars, procVars, idVars
  <1>s. Signals' /\ (HandleNone \/ Pending(tproc[cpu.arg]))
    <2> SUFFICES ASSUME TRUE PROVE Signals'
      BY DEF HandleIgnore, HandleTerminate
    <2>1. CASE HandleNone
      <3>1. UNCHANGED sigq /\ ~ Pending(tproc[cpu.arg])
        BY <2>1 DEF HandleNone, sigVars
      <3>2. \A t \in threads : New(t) => ~ Pending(tproc[t])
        BY <1>h, <3>1, Delivery
      <3>3. NoNewPending'
        BY <1>k, <3>1, <3>2 DEF NoNewPending, New, Pending, threads, Kept
      <3> QED BY <3>1, <3>3 DEF IInv, Execution, Signals
    <2>2. CASE HandleIgnore \/ HandleTerminate
      <3> DEFINE p == tproc[cpu.arg]
      <3>1. Pending(p) /\ sigq' = [sigq EXCEPT ![p] = Tail(@)]
        BY <2>2 DEF HandleIgnore, HandleTerminate
      <3>2. p \in Pid /\ p # 1
        BY <1>a, <1>h, <3>1, Delivery
      <3>3. \A t \in threads : New(t) /\ Pending(tproc[t]) => tproc[t] = p
        BY <1>h, Delivery
      <3> HIDE DEF p
      <3>4. sigq'[p] = <<>> /\ \A r \in Pid \ {p} : sigq'[r] = sigq[r]
        BY <3>1, <3>2, TakeSignal
      <3>5. \A t \in threads : tproc[t] \in Pid
        BY <1>a DEF threads
      <3>6. NoNewPending'
        BY <1>k, <3>3, <3>4, <3>5 DEF NoNewPending, New, Pending, threads, Kept
      <3>7. Len(<<>>) = 0 /\ 1 \in Pid
        BY Constants
      <3> QED BY <3>2, <3>4, <3>6, <3>7 DEF IInv, Execution, Signals
    <2> QED BY <2>1, <2>2
  <1>1. CASE HandleNone \/ HandleIgnore
    <2>1. cpu' = [cpu EXCEPT !.pc = cpu.then]
      BY <1>1 DEF HandleNone, HandleIgnore, HandleReturn
    <2>2. cpu'.pc = cpu.then /\ cpu'.arg = cpu.arg
      BY <1>a, <2>1 DEF Context
    <2>3. Running # Boot /\ Running' = Running
      BY <1>a, <1>h, <1>k, <2>2, Delivery DEF Running, Kept
    <2>4. Place'
      BY <1>a, <1>h, <1>k, <2>2 DEF Place, InSignal, Kept, IInv, Execution, Code
    <2>5. ToUser' /\ cpu'.arg # current => kctx[cpu'.arg].pc = "first"
      BY <1>a, <1>h, <2>2 DEF ToUser, IInv, Execution, Code
    <2> QED BY <1>a, <1>h, <1>k, <1>s, <2>2, <2>3, <2>4, <2>5, QuietStep
  <1>2. CASE HandleTerminate
    <2>1. cpu'.pc = "exit" /\ cpu'.pr = tproc[current] /\ Pending(tproc[cpu.arg])
      BY <1>2 DEF HandleTerminate, K
    <2>2. Running # Boot /\ Running = current /\ tproc[current] # 1
      BY <1>h, <2>1, Delivery
    <2>3. Running' = Running
      BY <1>k, <2>1, <2>2 DEF Running, Kept
    <2>4. Place'
      BY <1>k, <2>1, <2>2 DEF Place, InSignal, Kept
    <2>5. ~ ToUser'
      BY <2>1 DEF ToUser
    <2> QED BY <1>h, <1>k, <1>s, <2>1, <2>2, <2>3, <2>4, <2>5, QuietStep
  <1> QED BY <1>1, <1>2

\* System calls that touch no list, and the trap of a cloned handler.
LEMMA CallSteps ==
    ASSUME IInv, TInv',
           \/ Exit \/ Execve \/ (ReturnFromSignal /\ kind[current] = "clone")
           \/ \E p \in Pid : Waitpid(p)
           \/ \E s \in Sig, h \in Handlers : Signal(s, h)
    PROVE  IInv'
  <1>t. TInv
    BY DEF IInv
  <1>u. InUser /\ UNCHANGED Kept
    BY DEF Exit, Execve, ReturnFromSignal, Waitpid, Signal, Kept, thrVars, procVars, sigVars,
           idVars
  <1>1. CASE Exit
    <2>1. cpu'.pc = "exit" /\ cpu'.pr = tproc[current] /\ tproc[current] # 1 /\ UNCHANGED sigq
      BY <1>1 DEF Exit, K, Me, sigVars
    <2>2. Place'
      BY <1>u, <2>1 DEF Place, InSignal, Kept
    <2> QED BY <1>u, <2>1, <2>2, PlainStep DEF InUser
  <1>2. CASE ReturnFromSignal /\ kind[current] = "clone"
    <2>1. cpu'.pc = "halt" /\ UNCHANGED sigq
      BY <1>2 DEF ReturnFromSignal, AtHalt, K, sigVars
    <2>2. Place'
      BY <2>1 DEF Place, InSignal
    <2> QED BY <1>u, <2>1, <2>2, PlainStep DEF InUser
  <1>3. CASE \E p \in Pid : Waitpid(p)
    <2>1. cpu'.pc = "wait" /\ UNCHANGED sigq
      BY <1>3 DEF Waitpid, AtWait, K, sigVars
    <2>2. Place'
      BY <2>1 DEF Place, InSignal
    <2> QED BY <1>u, <2>1, <2>2, PlainStep DEF InUser
  <1>4. CASE \E s \in Sig, h \in Handlers : Signal(s, h)
    <2>1. cpu'.pc = "handle" /\ cpu'.then = "iret" /\ cpu'.arg = current /\ UNCHANGED sigq
      BY <1>4 DEF Signal, AtReturn, K
    <2>2. Place'
      BY <2>1 DEF Place, InSignal
    <2> QED BY <1>u, <2>1, <2>2, PlainStep DEF InUser
  <1>5. CASE Execve
    <2>1. /\ cpu'.pc = "handle" /\ cpu'.then = "iret" /\ cpu'.arg = current
          /\ sigq' = [sigq EXCEPT ![Me] = <<>>]
      BY <1>5 DEF Execve, AtReturn, K
    <2>2. Place'
      BY <2>1 DEF Place, InSignal
    <2>3. Running = current /\ Running' = current
      BY <1>u, <2>1 DEF Running, InUser, Kept
    <2>4. sigq \in [Pid -> Seq(Sig)] /\ 1 \in Pid /\ tproc \in [Tid -> Pid]
      BY <1>t, Types, Constants
    <2>5. \A p \in Pid : sigq'[p] = sigq[p] \/ sigq'[p] = <<>>
      BY <2>1, <2>4
    <2>6. \A t \in threads : New(t) => ~ Pending(tproc[t])
      BY <1>u DEF IInv, Execution, Signals, NoNewPending, InUser
    <2>7. NoNewPending'
      <3>1. \A t \in threads : tproc[t] \in Pid
        BY <2>4 DEF threads
      <3> QED BY <1>u, <2>5, <2>6, <3>1 DEF NoNewPending, New, Pending, threads, Kept
    <2>8. Len(<<>>) = 0
      OBVIOUS
    <2>9. Signals'
      BY <2>4, <2>5, <2>7, <2>8 DEF IInv, Execution, Signals
    <2>10. ~ (ToUser' /\ cpu'.arg # current)
      BY <2>1
    <2> QED BY <1>u, <2>1, <2>2, <2>3, <2>9, <2>10, QuietStep DEF InUser
  <1> QED BY <1>1, <1>2, <1>3, <1>4, <1>5

\* Signals are sent as the shipped programs send them: not to a process that
\* has one pending, nor to one with a thread that has not run yet.
Orderly == "signal_new" \notin Misuse /\ "signal_burst" \notin Misuse

\* kill() and a page fault.
LEMMA SendSteps ==
    ASSUME IInv, TInv', Orderly, PageFault \/ \E p \in Pid, s \in Sig : Kill(p, s)
    PROVE  IInv'
  <1>t. TInv
    BY DEF IInv
  <1>1. PICK p \in Pid, s \in Sig, by \in {"kill", "segv"} :
           /\ InUser /\ Settled(p) /\ signal_process(p, s, by)
           /\ p # 1 /\ Me # 1 /\ UNCHANGED Kept
    <2>1. Me \in Pid
      BY <1>t, Types DEF Me
    <2> QED BY <2>1 DEF PageFault, Kill, Kept, thrVars, procVars, idVars
  <1>2. Running = current /\ current # Boot /\ cpu.pc = "user"
    BY <1>1 DEF Running, InUser
  <1>3. CASE pstate[p] = "FINISHED"
    <2>1. cpu'.pc = "sent" /\ UNCHANGED sigq
      BY <1>1, <1>3 DEF signal_process, K
    <2>2. Place'
      BY <1>1, <2>1 DEF Place, InSignal, Kept, Me
    <2> QED BY <1>1, <1>2, <2>1, <2>2, PlainStep
  <1>4. CASE pstate[p] # "FINISHED"
    <2>1. /\ sigq' = [sigq EXCEPT ![p] = Append(@, s)]
          /\ cpu' = IF p = tproc[current] THEN K("handle", current, p, by, "check")
                    ELSE K("check", None, p, by, "none")
      BY <1>1, <1>4 DEF signal_process
    <2>2. /\ p = tproc[current] => cpu'.pc = "handle" /\ cpu'.arg = current /\ cpu'.then = "check"
          /\ p # tproc[current] => cpu'.pc = "check"
      BY <2>1 DEF K
    <2>3. Place'
      BY <1>1, <2>2 DEF Place, InSignal, Kept, Me
    <2>4. Running' = current
      BY <1>1, <2>2 DEF Running, Kept
    <2>5. sigq \in [Pid -> Seq(Sig)] /\ tproc \in [Tid -> Pid] /\ 1 \in Pid
      BY <1>t, Types, Constants
    <2>6. Len(sigq'[p]) <= 1 /\ \A r \in Pid \ {p} : sigq'[r] = sigq[r]
      <3>1. sigq[p] = <<>>
        BY <1>1, SigAssumption DEF Settled, Orderly, Pending
      <3>2. sigq'[p] = Append(<<>>, s)
        BY <2>1, <2>5, <3>1
      <3>3. Len(Append(<<>>, s)) <= 1
        OBVIOUS
      <3> QED BY <2>1, <2>5, <3>2, <3>3
    <2>7. \A t \in threads : New(t) => ~ Pending(tproc[t])
      BY <1>2 DEF IInv, Execution, Signals, NoNewPending
    <2>8. \A t \in threads : tproc[t] = p => p = tproc[current] \/ ~ New(t)
      BY <1>1 DEF Settled, Orderly, New, Me
    <2>9. NoNewPending'
      <3>1. \A t \in threads : tproc[t] \in Pid
        BY <2>5 DEF threads
      <3> SUFFICES ASSUME NEW t \in threads, New(t), Pending(tproc[t])'
                   PROVE  cpu'.pc = "handle" /\ cpu'.arg = current /\ tproc[current] = tproc[t]
        BY <1>1 DEF NoNewPending, New, threads, Kept
      <3>2. tproc[t] = p
        BY <1>1, <2>6, <2>7, <3>1 DEF Pending, Kept
      <3> QED BY <2>2, <2>8, <3>2
    <2>10. Signals'
      <3>1. (\A r \in Pid : Len(sigq[r]) <= 1) /\ sigq[1] = <<>>
        BY DEF IInv, Execution, Signals
      <3>2. sigq'[1] = <<>>
        BY <1>1, <2>5, <2>6, <3>1
      <3>3. ASSUME NEW r \in Pid PROVE Len(sigq'[r]) <= 1
        <4>1. CASE r = p
          BY <2>6, <4>1
        <4>2. CASE r # p
          BY <2>6, <3>1, <4>2
        <4> QED BY <4>1, <4>2
      <3> QED BY <2>9, <3>2, <3>3 DEF Signals
    <2>11. ~ ToUser'
      BY <2>2 DEF ToUser
    <2> QED BY <1>1, <1>2, <2>2, <2>3, <2>4, <2>10, <2>11, QuietStep
  <1> QED BY <1>3, <1>4

-----------------------------------------------------------------------------
(* Context switches *)

\* thread.c and interrupts.S: a saved continuation, or a user mode frame, is
\* loaded.
LEMMA SwitchSteps ==
    ASSUME IInv, TInv', SwitchTo \/ Iret
    PROVE  IInv'
  <1>t. TInv
    BY DEF IInv
  <1>a. /\ Running = cpu.arg /\ cpu.arg \in Tid /\ cpu.arg \in threads
        /\ tstate[cpu.arg] = "READY" /\ cr3 = tproc[cpu.arg]
    <2>1. cpu.pc \in {"clean", "iret"}
      BY DEF SwitchTo, Iret
    <2>2. Running = cpu.arg /\ cpu.arg \in Tid
      BY <1>t, <2>1, Types DEF Running
    <2> QED BY <2>2 DEF IInv, Execution, Base, threads
  <1>k. /\ UNCHANGED <<tstate, tproc, q, pthreads, pstate, plist, next_tid, next_pid>>
        /\ UNCHANGED <<cr3, sigq>>
    BY DEF SwitchTo, Iret, thrVars, procVars, sigVars, idVars
  <1>1. Tables'
    BY <1>k, TablesKept DEF IInv
  <1>n. \A t \in threads : New(t) => ~ Pending(tproc[t])
    BY DEF IInv, Execution, Signals, NoNewPending, SwitchTo, Iret
  <1>p. /\ Running' = cpu.arg => Placed'
        /\ Running' = cpu.arg /\ current' \in {current, cpu.arg} => Base'
    BY <1>a, <1>k DEF IInv, Execution, Placed, PlacedIn, Base
  <1>s. ASSUME \A t \in threads : New(t)' => New(t) PROVE Signals'
    <2>1. NoNewPending'
      BY <1>k, <1>n, <1>s DEF NoNewPending, Pending, threads
    <2> QED BY <1>k, <2>1 DEF IInv, Execution, Signals
  <1>2. CASE SwitchTo /\ kctx[cpu.arg].pc = "first"
    <2>1. /\ cpu.pc = "clean" /\ UNCHANGED <<current, kctx>>
          /\ cpu'.pc = "handle" /\ cpu'.arg = cpu.arg /\ cpu'.then = "iret"
      BY <1>2 DEF SwitchTo, AtReturn, K
    <2>2. Running' = cpu.arg
      BY <2>1 DEF Running
    <2>3. cpu.arg # Boot
      BY <1>a, <1>2, <2>1 DEF IInv, Execution, Contexts, Resumable
    <2>4. Place'
      BY <2>1 DEF Place, InSignal
    <2>5. Code'
      BY <1>2, <2>1, <2>2, <2>3, <2>4 DEF IInv, Execution, Code, ToUser
    <2>6. Contexts'
      BY <1>k, <2>1 DEF IInv, Execution, Contexts, threads
    <2>7. Signals'
      BY <1>s, <2>1 DEF New
    <2> QED BY <1>1, <1>p, <2>1, <2>2, <2>5, <2>6, <2>7 DEF IInv, Execution
  <1>3. CASE SwitchTo /\ kctx[cpu.arg].pc # "first"
    <2> DEFINE k == kctx[cpu.arg]
    <2>1. /\ cpu.pc = "clean" /\ current' = cpu.arg /\ cpu' = k
          /\ kctx' = [kctx EXCEPT ![cpu.arg] = AtUser(cpu.arg)]
      BY <1>3 DEF SwitchTo
    <2>2. Resumable(cpu.arg, tproc[cpu.arg], k) /\ k.pc # "first"
      BY <1>3, <1>a, <2>1 DEF IInv, Execution, Contexts
    <2>3. /\ kctx'[cpu.arg].pc = "user"
          /\ \A t \in Tid \ {cpu.arg} : kctx'[t] = kctx[t]
      <3>1. kctx \in [Tid -> Context]
        BY <1>t, Types
      <3> QED BY <1>a, <2>1, <3>1 DEF AtUser, K
    <2>4. k.pc \in {"user", "handle", "iret", "wait", "check", "sent", "halt"}
      BY <2>2 DEF Resumable
    <2>5. Running' = cpu.arg
      BY <2>1, <2>2 DEF Running, Resumable
    <2>6. Place'
      BY <1>k, <2>1, <2>2, <2>4 DEF Place, InSignal, Resumable
    <2>7. Code'
      <3>1. cpu.arg = Boot => k.pc = "user"
        BY <2>2 DEF Resumable
      <3>2. ToUser' => cpu'.arg = current'
        BY <2>1, <2>2 DEF ToUser, Resumable
      <3> QED BY <2>1, <2>4, <2>5, <2>6, <3>1, <3>2 DEF Code
    <2>8. Contexts'
      <3>1. \A t \in threads : Resumable(t, tproc[t], kctx[t])
        BY <2>1 DEF IInv, Execution, Contexts
      <3> QED BY <1>k, <2>1, <2>3, <2>4, <2>5, <3>1 DEF Contexts, threads
    <2>9. Signals'
      <3>1. kctx[current].pc # "first"
        BY <2>1 DEF IInv, Execution, Code
      <3>2. \A t \in threads : New(t)' => New(t)
        BY <1>t, <2>1, <2>3, <3>1 DEF New, threads
      <3> QED BY <1>s, <3>2
    <2> QED BY <1>1, <1>p, <2>1, <2>5, <2>7, <2>8, <2>9 DEF IInv, Execution
  <1>4. CASE Iret
    <2>1. cpu.pc = "iret" /\ current' = cpu.arg /\ cpu'.pc = "user" /\ kctx' = kctx
      BY <1>4 DEF Iret, AtUser, K
    <2>2. Running' = cpu.arg
      BY <2>1 DEF Running
    <2>3. Place'
      BY <2>1 DEF Place, InSignal
    <2>4. Code'
      BY <2>1, <2>2, <2>3 DEF Code, ToUser
    <2>5. Contexts'
      BY <1>a, <1>k, <2>1, <2>2 DEF IInv, Execution, Contexts, threads
    <2>6. Signals'
      <3>1. current # cpu.arg => kctx[current].pc # "first"
        BY <1>a, <2>1 DEF IInv, Execution, Code
      <3>2. \A t \in threads : New(t)' => New(t)
        BY <2>1, <3>1 DEF New
      <3> QED BY <1>s, <3>2
    <2> QED BY <1>1, <1>p, <2>1, <2>2, <2>4, <2>5, <2>6 DEF IInv, Execution
  <1> QED BY <1>2, <1>3, <1>4

\* switch_kernel_thread on the queues Q: all that a caller of schedule() has
\* to have seen to.
LEMMA ScheduleStep ==
    ASSUME IInv, TInv', NEW Q \in Queues, LinkedIn(Q), NEW kc, Schedule(Q, kc),
           current' = current, PlacedIn(Q, tstate', current),
           HeadsIn(Q, tstate', tproc', pthreads', pstate'),
           Members', Processes', System',
           tstate'[current] # "FREE", kc[current].pc # "first",
           \A t \in Tid : tstate'[t] # "FREE" => Resumable(t, tproc'[t], kc[t]),
           (\A p \in Pid : Len(sigq'[p]) <= 1), sigq'[1] = <<>>,
           \A t \in Tid : tstate'[t] # "FREE" /\ kc[t].pc = "first" /\ t # current
                              => sigq'[tproc'[t]] = <<>>
    PROVE  IInv'
  <1>1. current \in Tid /\ tstate'[Boot] = "READY"
    <2>1. TInv
      BY DEF IInv
    <2> QED BY <2>1, Types DEF System
  <1>2. /\ LinkedIn(q') /\ kctx' = kc
        /\ cpu'.pc = "clean" /\ cpu'.arg \in Tid /\ tstate'[cpu'.arg] = "READY"
        /\ cr3' = tproc'[cpu'.arg] /\ Running' = cpu'.arg
        /\ \A l \in Lists \ {RunQ} : ToSet(q'[l]) = ToSet(Q[l])
        /\ Placed'
    BY <1>1, ScheduleMembers
  <1>3. Heads'
    <2>1. /\ \A p \in Pid : ToSet(q'[PWait(p)]) = ToSet(Q[PWait(p)])
          /\ \A t \in Tid : ToSet(q'[TWait(t)]) = ToSet(Q[TWait(t)])
      BY <1>2, ListNames
    <2> QED BY <2>1 DEF Heads, HeadsIn
  <1>4. Tables'
    BY <1>2, <1>3 DEF Tables, Linked
  <1>5. Base'
    BY <1>2 DEF Base
  <1>6. Code'
    BY <1>2 DEF Code, Place, ToUser, InSignal
  <1>7. Contexts'
    BY <1>2 DEF Contexts, threads
  <1>8. Signals'
    BY <1>2 DEF Signals, NoNewPending, New, Pending, threads
  <1> QED BY <1>2, <1>4, <1>5, <1>6, <1>7, <1>8 DEF IInv, Execution

\* A call of schedule() that changes thread and process states at most, and
\* takes the processor from a thread that is not to be resumed in user mode.
LEMMA GiveUp ==
    ASSUME IInv, TInv', NEW Q \in Queues, LinkedIn(Q), NEW k, ScheduleFrom(Q, k),
           cpu.pc \notin {"clean", "iret", "handle"},
           UNCHANGED <<tproc, current, pthreads, plist, sigq, next_tid, next_pid>>,
           k.pc # "first", Resumable(current, tproc[current], k),
           PlacedIn(Q, tstate', current), HeadsIn(Q, tstate', tproc, pthreads, pstate'),
           \A t \in Tid : tstate'[t] = "FREE" <=> tstate[t] = "FREE",
           \A p \in Pid : pstate'[p] = "FREE" <=> pstate[p] = "FREE",
           \A t \in threads : pstate'[tproc[t]] = "FINISHED" => tstate'[t] = "FINISHED",
           tstate'[Boot] = "READY", pstate'[1] = "LIVE"
    PROVE  IInv'
  <1>t. /\ TInv /\ current \in Tid /\ tproc \in [Tid -> Pid] /\ kctx \in [Tid -> Context]
        /\ sigq \in [Pid -> Seq(Sig)] /\ 1 \in Pid
    BY Types, Constants DEF IInv
  <1>c. Running = current
    BY DEF Running
  <1> DEFINE kc == [kctx EXCEPT ![current] = k]
  <1>1. Schedule(Q, kc)
    BY DEF ScheduleFrom
  <1>2. kc[current] = k /\ \A t \in Tid \ {current} : kc[t] = kctx[t]
    BY <1>t
  <1> HIDE DEF kc
  <1>3. threads' = threads /\ threads = {t \in Tid : tstate[t] # "FREE"}
    BY DEF threads
  <1>4. Members' /\ Processes' /\ System'
    <2>1. Members'
      BY <1>3 DEF IInv, Tables, Members
    <2>2. Processes'
      <3>0. Processes
        BY DEF IInv, Tables
      <3>1. IsInjective(plist') /\ \A p \in Pid : p \in ToSet(plist') <=> pstate'[p] # "FREE"
        BY <3>0 DEF Processes
      <3>2. \A t \in threads : tproc[t] \in Pid /\ pstate'[tproc[t]] # "FREE"
        BY <1>t, <1>3, <3>0 DEF Processes
      <3> QED BY <1>3, <3>1, <3>2 DEF Processes
    <2>3. System'
      BY DEF IInv, Tables, System
    <2> QED BY <2>1, <2>2, <2>3
  <1>5. \A t \in Tid : tstate'[t] # "FREE" => Resumable(t, tproc'[t], kc[t])
    BY <1>2, <1>3, <1>c DEF IInv, Execution, Contexts
  <1>6. (\A p \in Pid : Len(sigq'[p]) <= 1) /\ sigq'[1] = <<>>
    BY DEF IInv, Execution, Signals
  <1>7. \A t \in Tid : tstate'[t] # "FREE" /\ kc[t].pc = "first" /\ t # current
                           => sigq'[tproc'[t]] = <<>>
    BY <1>2, <1>3 DEF IInv, Execution, Signals, NoNewPending, New, Pending
  <1>8. tstate'[current] # "FREE" /\ kc[current].pc # "first"
    BY <1>t, <1>2 DEF IInv, Execution, Base
  <1>9. HeadsIn(Q, tstate', tproc', pthreads', pstate') /\ current' = current
    OBVIOUS
  <1> QED BY <1>1, <1>4, <1>5, <1>6, <1>7, <1>8, <1>9, ScheduleStep

\* A thread that was interrupted can be resumed.
LEMMA ResumeUser ==
    /\ Resumable(Boot, tproc[Boot], AtUser(Boot)) /\ AtUser(Boot).pc # "first"
    /\ \A t \in Tid \ {Boot} : /\ Resumable(t, tproc[t], AtReturn(t))
                               /\ AtReturn(t).pc # "first"
    /\ \A t \in Tid \ {Boot}, why \in Halts : /\ Resumable(t, tproc[t], AtHalt(why))
                                              /\ AtHalt(why).pc # "first"
  BY DEF Resumable, AtUser, AtReturn, AtHalt, K

\* The timer, yield() and the page fault handler after a signal was sent.
LEMMA PreemptSteps ==
    ASSUME IInv, TInv', TimerSchedule \/ Yield \/ (SignalSent /\ cpu.by = "segv")
    PROVE  IInv'
  <1>t. TInv /\ current \in Tid /\ Boot \in Tid /\ q \in Queues
    BY Types, Constants DEF IInv
  <1>1. PICK k : /\ ScheduleFrom(q, k) /\ k.pc # "first"
                 /\ Resumable(current, tproc[current], k)
    <2>1. CASE TimerSchedule
      BY <1>t, <2>1, ResumeUser DEF TimerSchedule
    <2>2. CASE Yield
      BY <1>t, <2>2, ResumeUser DEF Yield, InUser
    <2>3. CASE SignalSent /\ cpu.by = "segv"
      <3>1. cpu.pc = "sent" /\ ScheduleFrom(q, AtHalt("after_segv"))
        BY <2>3 DEF SignalSent
      <3>2. current # Boot
        BY <3>1, NotIdle
      <3> QED BY <1>t, <3>1, <3>2, ResumeUser DEF Halts
    <2> QED BY <2>1, <2>2, <2>3
  <1>2. /\ UNCHANGED <<tproc, current, pthreads, plist, sigq, next_tid, next_pid>>
        /\ UNCHANGED <<tstate, pstate>> /\ cpu.pc \notin {"clean", "iret", "handle"}
    BY DEF TimerSchedule, Yield, InUser, SignalSent, procVars, sigVars, idVars
  <1>3. Running = current
    BY <1>2 DEF Running
  <1>4. LinkedIn(q) /\ PlacedIn(q, tstate', current)
    BY <1>2, <1>3 DEF IInv, Tables, Execution, Linked, Placed
  <1>5. HeadsIn(q, tstate', tproc, pthreads, pstate')
    BY <1>2 DEF IInv, Tables, Heads
  <1>6. /\ \A t \in threads : pstate'[tproc[t]] = "FINISHED" => tstate'[t] = "FINISHED"
        /\ tstate'[Boot] = "READY" /\ pstate'[1] = "LIVE"
    BY <1>2 DEF IInv, Tables, Processes, System
  <1> QED BY <1>t, <1>1, <1>2, <1>4, <1>5, <1>6, GiveUp

\* waitpid() of a running process: the caller goes to sleep.
LEMMA SleepStep ==
    ASSUME IInv, TInv', WaitTest, pstate[cpu.pr] = "LIVE"
    PROVE  IInv'
  <1>0. cpu.pc = "wait"
    BY DEF WaitTest
  <1>t. /\ TInv /\ current \in Tid /\ Boot \in Tid /\ q \in Queues /\ cpu.pr \in Pid
        /\ tstate \in [Tid -> {"FREE", "READY", "WAITING", "FINISHED"}]
    BY <1>0, Types, Constants DEF IInv
  <1>c. Running = current /\ current # Boot /\ tstate[current] = "READY"
    BY <1>0, NotIdle
  <1>l. PICK w \in Lists : w = PWait(cpu.pr) /\ w # RunQ
    BY <1>t, ListNames
  <1>1. PICK Q : Q = scheduler_sleep(q, current, w)
    OBVIOUS
  <1>2. /\ tstate' = [tstate EXCEPT ![current] = "WAITING"]
        /\ ScheduleFrom(Q, cpu)
        /\ UNCHANGED <<tproc, current, pthreads, plist, sigq, next_tid, next_pid>>
        /\ pstate' = pstate
    BY <1>l, <1>1 DEF WaitTest, procVars, sigVars, idVars
  <1>3. LinkedIn(q) /\ PlacedIn(q, tstate, current)
    BY <1>c DEF IInv, Tables, Linked, Execution, Placed
  <1>4. /\ Q \in Queues /\ LinkedIn(Q)
        /\ \A m \in Lists : \A u : u \in ToSet(Q[m]) <=> \/ u \in ToSet(q[m]) /\ u # current
                                                         \/ m = w /\ u = current
    <2>1. LinkedIn(q) /\ current \in Tid /\ q \in Queues
      BY <1>t, <1>3
    <2>2. ASSUME NEW m \in Lists, NEW u
          PROVE  /\ Q \in Queues /\ LinkedIn(Q)
                 /\ u \in ToSet(Q[m]) <=> \/ u \in ToSet(q[m]) /\ u # current
                                          \/ m = w /\ u = current
      BY <1>1, <2>1, SleepMembers
    <2> QED BY <2>2
  <1>s. /\ tstate'[current] = "WAITING"
        /\ \A t \in Tid \ {current} : tstate'[t] = tstate[t]
    BY <1>t, <1>2
  <1>5. PlacedIn(Q, tstate', current)
    <2> SUFFICES ASSUME NEW t \in Tid
                 PROVE  /\ t \in ToSet(Q[RunQ]) <=> tstate'[t] = "READY" /\ t # current
                        /\ (\E l \in Lists \ {RunQ} : t \in ToSet(Q[l]))
                              <=> tstate'[t] = "WAITING"
      BY DEF PlacedIn
    <2>1. CASE t = current
      BY <1>4, <1>l, <1>s, <2>1, ListNames
    <2>2. CASE t # current
      <3>1. \A l \in Lists : t \in ToSet(Q[l]) <=> t \in ToSet(q[l])
        BY <1>4, <2>2
      <3> QED BY <1>3, <1>s, <2>2, <3>1, ListNames DEF PlacedIn
    <2> QED BY <2>1, <2>2
  <1>6. HeadsIn(Q, tstate', tproc, pthreads, pstate')
    <2>1. ASSUME NEW p \in Pid, ToSet(Q[PWait(p)]) # {} PROVE pstate'[p] = "LIVE"
      <3>1. CASE p = cpu.pr
        BY <1>2, <3>1
      <3>2. CASE p # cpu.pr
        <4>1. PWait(p) \in Lists \ {w}
          BY <1>t, <1>l, <3>2, ListNames
        <4>2. ToSet(q[PWait(p)]) # {}
          BY <1>4, <2>1, <4>1
        <4> QED BY <1>2, <4>2 DEF IInv, Tables, Heads, HeadsIn
      <3> QED BY <3>1, <3>2
    <2>2. ASSUME NEW h \in Tid, NEW t \in Tid, t \in ToSet(Q[TWait(h)])
          PROVE  /\ tproc[t] = tproc[h] /\ Before(pthreads[tproc[h]], t, h)
                 /\ tstate'[h] \in {"READY", "WAITING"}
      <3>1. TWait(h) \in Lists \ {w}
        BY <1>t, <1>l, ListNames
      <3>2. t \in ToSet(q[TWait(h)])
        BY <1>4, <2>2, <3>1
      <3>3. /\ tproc[t] = tproc[h] /\ Before(pthreads[tproc[h]], t, h)
            /\ tstate[h] \in {"READY", "WAITING"}
        BY <3>2 DEF IInv, Tables, Heads, HeadsIn
      <3> QED BY <1>s, <3>3
    <2> QED BY <2>1, <2>2 DEF HeadsIn
  <1>7. Resumable(current, tproc[current], cpu)
    BY <1>0, <1>c DEF Resumable
  <1>8. /\ \A t \in threads : pstate'[tproc[t]] = "FINISHED" => tstate'[t] = "FINISHED"
        /\ tstate'[Boot] = "READY" /\ pstate'[1] = "LIVE"
    BY <1>t, <1>c, <1>2, <1>s DEF IInv, Tables, Processes, System, threads
  <1>9. \A t \in Tid : tstate'[t] = "FREE" <=> tstate[t] = "FREE"
    BY <1>c, <1>s
  <1> QED BY <1>0, <1>2, <1>4, <1>5, <1>6, <1>7, <1>8, <1>9, GiveUp

\* A list of threads in which only the current thread is left.
LEMMA OnlyCurrent ==
    ASSUME TInv, NEW p \in Pid, OthersOf(p) = {}
    PROVE  \A t \in ToSet(pthreads[p]) : t = current
  <1>1. pthreads[p] \in Seq(Tid)
    BY Types
  <1>2. ToSet(pthreads[p]) = {pthreads[p][i] : i \in 1..Len(pthreads[p])}
    BY <1>1, SetOf
  <1> QED BY <1>2 DEF OthersOf

\* Q has the threads of the list w of q on the run queue.
Woken(Q, w) ==
    /\ Q \in Queues /\ LinkedIn(Q)
    /\ \A t \in ToSet(q[w]) : t \in Tid /\ tstate[t] = "WAITING" /\ t # current
    /\ \A t \in Tid : t \in ToSet(Q[RunQ]) <=>
          t # current /\ (tstate[t] = "READY" \/ t \in ToSet(q[w]))
    /\ \A t \in Tid : (\E l \in Lists \ {RunQ} : t \in ToSet(Q[l])) <=>
          tstate[t] = "WAITING" /\ t \notin ToSet(q[w])
    /\ \A l \in Lists \ {RunQ} : \A t : t \in ToSet(Q[l]) =>
          l # w /\ t \in ToSet(q[l]) /\ t # current

\* The threads on the list w become ready when it is woken up.
LEMMA WokenUp ==
    ASSUME IInv, Running = current, tstate[current] = "READY",
           NEW w \in Lists, w # RunQ, NEW Q, Q = scheduler_wake(q, w)
    PROVE  Woken(Q, w)
  <1>0. RunQ \in Lists /\ q \in Queues
    BY Types, ListNames DEF IInv
  <1>1. LinkedIn(q) /\ PlacedIn(q, tstate, current)
    BY DEF IInv, Tables, Linked, Execution, Placed
  <1>2. ASSUME NEW m \in Lists, NEW u
        PROVE  /\ Q \in Queues /\ LinkedIn(Q)
               /\ u \in ToSet(Q[m]) <=> \/ m = RunQ /\ u \in ToSet(q[w])
                                        \/ m # w /\ u \in ToSet(q[m])
    BY <1>0, <1>1, WakeMembers
  <1>3. \A l \in Lists : ToSet(q[l]) \subseteq Tid
    BY <1>0, QueueMembers
  <1>4. \A t \in ToSet(q[w]) : t \in Tid /\ tstate[t] = "WAITING" /\ t # current
    BY <1>1, <1>3 DEF PlacedIn
  <1>5. \A t \in Tid : t \in ToSet(Q[RunQ]) <=>
           t # current /\ (tstate[t] = "READY" \/ t \in ToSet(q[w]))
    BY <1>0, <1>1, <1>2, <1>4 DEF PlacedIn
  <1>6. ASSUME NEW t \in Tid
        PROVE  (\E l \in Lists \ {RunQ} : t \in ToSet(Q[l])) <=>
                  tstate[t] = "WAITING" /\ t \notin ToSet(q[w])
    <2>1. ASSUME NEW l \in Lists \ {RunQ}, t \in ToSet(Q[l])
          PROVE  tstate[t] = "WAITING" /\ t \notin ToSet(q[w])
      <3>1. l # w /\ t \in ToSet(q[l])
        BY <1>2, <2>1
      <3> QED BY <1>1, <3>1 DEF PlacedIn, LinkedIn
    <2>2. ASSUME tstate[t] = "WAITING", t \notin ToSet(q[w])
          PROVE  \E l \in Lists \ {RunQ} : t \in ToSet(Q[l])
      <3>1. PICK l \in Lists \ {RunQ} : t \in ToSet(q[l])
        BY <1>1, <2>2 DEF PlacedIn
      <3> QED BY <1>2, <2>2, <3>1
    <2> QED BY <2>1, <2>2
  <1>7. ASSUME NEW l \in Lists \ {RunQ}, NEW t, t \in ToSet(Q[l])
        PROVE  l # w /\ t \in ToSet(q[l]) /\ t # current
    <2>1. l # w /\ t \in ToSet(q[l])
      BY <1>2, <1>7
    <2> QED BY <1>1, <1>3, <2>1 DEF PlacedIn
  <1>8. Q \in Queues /\ LinkedIn(Q)
    BY <1>0, <1>2
  <1> QED BY <1>4, <1>5, <1>6, <1>7, <1>8 DEF Woken

\* The end of _exit.
LEMMA ExitStep ==
    ASSUME IInv, TInv', ExitDone
    PROVE  IInv'
  <1>0. cpu.pc = "exit" /\ OthersOf(cpu.pr) = {}
    BY DEF ExitDone
  <1>c. /\ Running = current /\ current # Boot /\ tstate[current] = "READY"
        /\ cpu.pr = tproc[current] /\ cpu.pr # 1
    BY <1>0, NotIdle DEF IInv, Execution, Code, Place
  <1>t. /\ TInv /\ current \in Tid /\ Boot \in Tid /\ cpu.pr \in Pid /\ 1 \in Pid
        /\ tstate \in [Tid -> {"FREE", "READY", "WAITING", "FINISHED"}]
        /\ tproc \in [Tid -> Pid] /\ pstate \in [Pid -> {"FREE", "LIVE", "FINISHED"}]
    BY <1>0, Types, Constants DEF IInv
  <1>l. PICK w \in Lists : w = PWait(cpu.pr) /\ w # RunQ
    BY <1>t, ListNames
  <1>1. PICK Q : Q = scheduler_wake(q, w)
    OBVIOUS
  <1>2. /\ pstate' = [pstate EXCEPT ![cpu.pr] = "FINISHED"]
        /\ tstate' = [t \in Tid |-> IF t \in ToSet(q[w]) THEN "READY"
                                    ELSE IF t = current THEN "FINISHED" ELSE tstate[t]]
        /\ ScheduleFrom(Q, AtHalt("end_of_exit"))
        /\ UNCHANGED <<tproc, current, pthreads, plist, sigq, next_tid, next_pid>>
    BY <1>l, <1>1 DEF ExitDone, sigVars, idVars
  <1>w. Woken(Q, w)
    <2>1. Running = current /\ tstate[current] = "READY"
      BY <1>c
    <2> QED BY <1>l, <1>1, <2>1, WokenUp
  <1>3. /\ Q \in Queues /\ LinkedIn(Q)
        /\ \A t \in ToSet(q[w]) : t \in Tid /\ tstate[t] = "WAITING" /\ t # current
        /\ \A t \in Tid : t \in ToSet(Q[RunQ]) <=>
              t # current /\ (tstate[t] = "READY" \/ t \in ToSet(q[w]))
        /\ \A t \in Tid : (\E l \in Lists \ {RunQ} : t \in ToSet(Q[l])) <=>
              tstate[t] = "WAITING" /\ t \notin ToSet(q[w])
        /\ \A l \in Lists \ {RunQ} : \A t : t \in ToSet(Q[l]) =>
              l # w /\ t \in ToSet(q[l]) /\ t # current
    BY <1>w DEF Woken
  <1>4. /\ tstate'[current] = "FINISHED"
        /\ \A t \in ToSet(q[w]) : tstate'[t] = "READY"
        /\ \A t \in Tid : t \notin ToSet(q[w]) /\ t # current => tstate'[t] = tstate[t]
    BY <1>t, <1>2, <1>3
  <1>5. /\ pstate'[cpu.pr] = "FINISHED"
        /\ \A p \in Pid \ {cpu.pr} : pstate'[p] = pstate[p]
    BY <1>t, <1>2
  <1>6. PlacedIn(Q, tstate', current)
    BY <1>3, <1>4 DEF PlacedIn
  <1>o. ASSUME NEW t \in threads, tproc[t] = cpu.pr PROVE t = current
    <2>1. t # Init0
      BY <1>c, <1>o DEF IInv, Tables, System
    <2>2. t \in ToSet(pthreads[cpu.pr])
      BY <1>o, <1>t, <2>1 DEF IInv, Tables, Members, threads
    <2> QED BY <1>0, <1>t, <2>2, OnlyCurrent
  <1>7. HeadsIn(Q, tstate', tproc, pthreads, pstate')
    <2>1. ASSUME NEW p \in Pid, ToSet(Q[PWait(p)]) # {} PROVE pstate'[p] = "LIVE"
      <3>1. PICK t : t \in ToSet(Q[PWait(p)])
        BY <2>1
      <3>2. PWait(p) \in Lists \ {RunQ}
        BY ListNames
      <3>3. PWait(p) # w /\ t \in ToSet(q[PWait(p)])
        BY <1>3, <3>1, <3>2
      <3>4. pstate[p] = "LIVE" /\ p # cpu.pr
        BY <1>l, <3>3 DEF IInv, Tables, Heads, HeadsIn
      <3> QED BY <1>5, <3>4
    <2>2. ASSUME NEW h \in Tid, NEW t \in Tid, t \in ToSet(Q[TWait(h)])
          PROVE  /\ tproc[t] = tproc[h] /\ Before(pthreads[tproc[h]], t, h)
                 /\ tstate'[h] \in {"READY", "WAITING"}
      <3>1. TWait(h) \in Lists \ {RunQ}
        BY ListNames
      <3>2. t \in ToSet(q[TWait(h)]) /\ t # current
        BY <1>3, <2>2, <3>1
      <3>3. /\ tproc[t] = tproc[h] /\ Before(pthreads[tproc[h]], t, h)
            /\ tstate[h] \in {"READY", "WAITING"}
        BY <3>2 DEF IInv, Tables, Heads, HeadsIn
      <3>4. h # current
        <4> SUFFICES ASSUME h = current PROVE FALSE
          OBVIOUS
        <4>1. pthreads[cpu.pr] \in Seq(Tid) /\ Before(pthreads[cpu.pr], t, h)
          BY <1>c, <1>t, <3>3, Types
        <4>2. t \in ToSet(pthreads[cpu.pr])
          BY <4>1, BeforeMembers
        <4> QED BY <1>0, <1>t, <3>2, <4>2, OnlyCurrent
      <3> QED BY <1>4, <3>3, <3>4
    <2> QED BY <2>1, <2>2 DEF HeadsIn
  <1>8. \A t \in threads : pstate'[tproc[t]] = "FINISHED" => tstate'[t] = "FINISHED"
    <2> SUFFICES ASSUME NEW t \in threads, pstate'[tproc[t]] = "FINISHED"
                 PROVE  tstate'[t] = "FINISHED"
      OBVIOUS
    <2>1. CASE tproc[t] = cpu.pr
      BY <1>4, <1>o, <2>1
    <2>2. CASE tproc[t] # cpu.pr
      <3>1. t \in Tid /\ tproc[t] \in Pid
        BY <1>t DEF threads
      <3>2. tstate[t] = "FINISHED"
        BY <1>5, <2>2, <3>1 DEF IInv, Tables, Processes
      <3> QED BY <1>3, <1>4, <3>1, <3>2
    <2> QED BY <2>1, <2>2
  <1>9. /\ tstate'[Boot] = "READY" /\ pstate'[1] = "LIVE"
        /\ \A t \in Tid : tstate'[t] = "FREE" <=> tstate[t] = "FREE"
        /\ \A p \in Pid : pstate'[p] = "FREE" <=> pstate[p] = "FREE"
    <2>1. tstate[Boot] = "READY" /\ pstate[1] = "LIVE"
      BY DEF IInv, Tables, System
    <2>2. pstate[cpu.pr] # "FREE"
      BY <1>c, <1>t DEF IInv, Tables, Processes, threads
    <2> QED BY <1>c, <1>t, <1>3, <1>4, <1>5, <2>1, <2>2
  <1>10. Resumable(current, tproc[current], AtHalt("end_of_exit"))
         /\ AtHalt("end_of_exit").pc # "first"
    BY <1>c, <1>t, ResumeUser DEF Halts
  <1>11. cpu.pc \notin {"clean", "iret", "handle"}
    BY <1>0
  <1> QED BY <1>2, <1>3, <1>6, <1>7, <1>8, <1>9, <1>10, <1>11, GiveUp

\* The end of a thread that ran a signal handler.
LEMMA ReturnStep ==
    ASSUME IInv, TInv', ReturnFromSignal, kind[current] # "clone"
    PROVE  IInv'
  <1>0. cpu.pc = "user" /\ current # Boot
    BY DEF ReturnFromSignal, InUser
  <1>c. Running = current /\ tstate[current] = "READY"
    BY <1>0 DEF Running, IInv, Execution, Base
  <1>t. /\ TInv /\ current \in Tid /\ Boot \in Tid
        /\ tstate \in [Tid -> {"FREE", "READY", "WAITING", "FINISHED"}]
    BY Types, Constants DEF IInv
  <1>l. PICK w \in Lists : w = TWait(current) /\ w # RunQ
    BY <1>t, ListNames
  <1>1. PICK W : W = scheduler_wake(q, w)
    OBVIOUS
  <1>v. Woken(W, w)
    BY <1>c, <1>l, <1>1, WokenUp
  <1>w. /\ W \in Queues /\ LinkedIn(W)
        /\ \A t \in ToSet(q[w]) : t \in Tid /\ tstate[t] = "WAITING" /\ t # current
        /\ \A t \in Tid : t \in ToSet(W[RunQ]) <=>
              t # current /\ (tstate[t] = "READY" \/ t \in ToSet(q[w]))
        /\ \A t \in Tid : (\E l \in Lists \ {RunQ} : t \in ToSet(W[l])) <=>
              tstate[t] = "WAITING" /\ t \notin ToSet(q[w])
        /\ \A l \in Lists \ {RunQ} : \A t : t \in ToSet(W[l]) =>
              l # w /\ t \in ToSet(q[l]) /\ t # current
    BY <1>v DEF Woken
  <1>q. PICK Q : Q = scheduler_remove(W, current)
    OBVIOUS
  <1>2. /\ tstate' = [t \in Tid |-> IF t = current THEN "FINISHED"
                                    ELSE IF t \in ToSet(q[w]) THEN "READY" ELSE tstate[t]]
        /\ ScheduleFrom(Q, AtHalt("after_signal_return"))
        /\ UNCHANGED <<tproc, current, pthreads, plist, sigq, next_tid, next_pid>>
        /\ pstate' = pstate
    BY <1>l, <1>1, <1>q DEF ReturnFromSignal, procVars, sigVars, idVars
  <1>m. ASSUME NEW m \in Lists, NEW u
        PROVE  /\ Q \in Queues /\ LinkedIn(Q)
               /\ u \in ToSet(Q[m]) <=> u \in ToSet(W[m]) /\ u # current
    <2>1. W \in Queues /\ LinkedIn(W)
      BY <1>w
    <2> QED BY <1>t, <1>q, <2>1, RemoveMembers
  <1>3. Q \in Queues /\ LinkedIn(Q)
    BY <1>l, <1>m
  <1>4. /\ tstate'[current] = "FINISHED"
        /\ \A t \in ToSet(q[w]) : tstate'[t] = "READY"
        /\ \A t \in Tid : t \notin ToSet(q[w]) /\ t # current => tstate'[t] = tstate[t]
    BY <1>t, <1>2, <1>w
  <1>6. PlacedIn(Q, tstate', current)
    <2>1. \A t \in Tid : t \in ToSet(Q[RunQ]) <=> tstate'[t] = "READY" /\ t # current
      BY <1>m, <1>w, <1>4, ListNames
    <2>2. \A t \in Tid : (\E l \in Lists \ {RunQ} : t \in ToSet(Q[l])) <=> tstate'[t] = "WAITING"
      <3>1. \A l \in Lists \ {RunQ} : \A t : t \in ToSet(Q[l]) <=> t \in ToSet(W[l])
        BY <1>m, <1>w
      <3> QED BY <1>w, <1>4, <1>c, <3>1
    <2> QED BY <2>1, <2>2 DEF PlacedIn
  <1>7. HeadsIn(Q, tstate', tproc, pthreads, pstate')
    <2>1. ASSUME NEW p \in Pid, ToSet(Q[PWait(p)]) # {} PROVE pstate'[p] = "LIVE"
      <3>1. PICK t : t \in ToSet(Q[PWait(p)])
        BY <2>1
      <3>2. PWait(p) \in Lists \ {RunQ}
        BY ListNames
      <3>3. t \in ToSet(q[PWait(p)])
        BY <1>m, <1>w, <3>1, <3>2
      <3> QED BY <1>2, <3>3 DEF IInv, Tables, Heads, HeadsIn
    <2>2. ASSUME NEW h \in Tid, NEW t \in Tid, t \in ToSet(Q[TWait(h)])
          PROVE  /\ tproc[t] = tproc[h] /\ Before(pthreads[tproc[h]], t, h)
                 /\ tstate'[h] \in {"READY", "WAITING"}
      <3>1. TWait(h) \in Lists \ {RunQ}
        BY ListNames
      <3>2. t \in ToSet(q[TWait(h)]) /\ TWait(h) # w
        BY <1>m, <1>w, <2>2, <3>1
      <3>3. /\ tproc[t] = tproc[h] /\ Before(pthreads[tproc[h]], t, h)
            /\ tstate[h] \in {"READY", "WAITING"}
        BY <3>2 DEF IInv, Tables, Heads, HeadsIn
      <3>4. h # current
        BY <1>l, <3>2
      <3> QED BY <1>4, <3>3, <3>4
    <2> QED BY <2>1, <2>2 DEF HeadsIn
  <1>8. \A t \in threads : pstate'[tproc[t]] = "FINISHED" => tstate'[t] = "FINISHED"
    BY <1>2, <1>4, <1>w DEF IInv, Tables, Processes, threads
  <1>9. /\ tstate'[Boot] = "READY" /\ pstate'[1] = "LIVE"
        /\ \A t \in Tid : tstate'[t] = "FREE" <=> tstate[t] = "FREE"
        /\ \A p \in Pid : pstate'[p] = "FREE" <=> pstate[p] = "FREE"
    <2>1. tstate[Boot] = "READY" /\ pstate[1] = "LIVE"
      BY DEF IInv, Tables, System
    <2> QED BY <1>0, <1>c, <1>t, <1>2, <1>w, <1>4, <2>1
  <1>10. Resumable(current, tproc[current], AtHalt("after_signal_return"))
         /\ AtHalt("after_signal_return").pc # "first"
    BY <1>0, <1>t, ResumeUser DEF Halts
  <1>11. cpu.pc \notin {"clean", "iret", "handle"}
    BY <1>0
  <1> QED BY <1>2, <1>3, <1>6, <1>7, <1>8, <1>9, <1>10, <1>11, GiveUp

-----------------------------------------------------------------------------
(* New threads *)

\* What alloc_thread numbers next is on no list.
LEMMA NextThread ==
    ASSUME IInv, NEW h \in Tid, h = next_tid
    PROVE  /\ tstate[h] = "FREE" /\ h \notin threads
           /\ h # Boot /\ h # Init0 /\ h # current
           /\ Detached(q, h)
           /\ \A p \in Pid : h \notin ToSet(pthreads[p])
  <1>1. h \in Nat /\ h >= 3 /\ tstate[h] = "FREE"
    BY DEF IInv, Tables, System, Tid
  <1>2. h # Boot /\ h # Init0 /\ h \notin threads
    BY <1>1 DEF Boot, Init0, threads
  <1>3. h # current
    BY <1>1 DEF IInv, Execution, Base
  <1>4. Detached(q, h)
    <2>1. PlacedIn(q, tstate, Running)
      BY DEF IInv, Execution, Placed
    <2>2. h \notin ToSet(q[RunQ]) /\ ~ (\E l \in Lists \ {RunQ} : h \in ToSet(q[l]))
      BY <1>1, <2>1 DEF PlacedIn
    <2> QED BY <2>2 DEF Detached
  <1>5. \A p \in Pid : h \notin ToSet(pthreads[p])
    BY <1>2 DEF IInv, Tables, Members
  <1> QED BY <1>1, <1>2, <1>3, <1>4, <1>5

\* It can be inserted into the run queue.
LEMMA QueueThread ==
    ASSUME IInv, NEW h \in Tid, h = next_tid, NEW R, R = scheduler_insert(q, h),
           NEW m \in Lists, NEW u
    PROVE  /\ R \in Queues /\ LinkedIn(R)
           /\ u \in ToSet(R[m]) <=> u \in ToSet(q[m]) \/ (m = RunQ /\ u = h)
  <1>1. q \in Queues
    BY Types DEF IInv
  <1>2. LinkedIn(q) /\ Detached(q, h)
    BY NextThread DEF IInv, Tables, Linked
  <1> QED BY <1>1, <1>2, InsertMembers

\* What a step that adds thread h to process p keeps: the list of threads of
\* a process is right, and a thread that sleeps behind a handler is older.
Added(h, p) ==
    /\ Members'
    /\ tproc'[h] = p /\ \A t \in Tid \ {h} : tproc'[t] = tproc[t]
    /\ \A t \in threads' : t = h \/ t \in threads
    /\ \A g, t \in Tid : t \in ToSet(q[TWait(g)]) =>
          /\ g # h /\ t # h /\ tproc'[t] = tproc'[g]
          /\ Before(pthreads'[tproc'[g]], t, g)
    /\ \A t \in ToSet(pthreads[p]) : Before(pthreads'[p], t, h)

\* Thread h is added to process p, at the end of its list of threads.
LEMMA AddThread ==
    ASSUME IInv, NEW h \in Tid, h = next_tid, NEW p \in Pid,
           tstate'[h] # "FREE",
           \A t \in Tid \ {h} : tstate'[t] = "FREE" <=> tstate[t] = "FREE",
           tproc' = [tproc EXCEPT ![h] = p],
           pthreads' = [pthreads EXCEPT ![p] = Append(@, h)]
    PROVE  Added(h, p)
  <1>t. /\ TInv /\ tproc \in [Tid -> Pid] /\ pthreads \in [Pid -> Seq(Tid)]
    BY Types DEF IInv
  <1>n. /\ tstate[h] = "FREE" /\ h \notin threads /\ h # Init0 /\ Detached(q, h)
        /\ \A r \in Pid : h \notin ToSet(pthreads[r])
    BY NextThread
  <1>1. /\ pthreads'[p] = Append(pthreads[p], h)
        /\ \A r \in Pid \ {p} : pthreads'[r] = pthreads[r]
        /\ tproc'[h] = p /\ \A t \in Tid \ {h} : tproc'[t] = tproc[t]
    BY <1>t
  <1>2. \A t \in Tid : t \in threads' <=> t = h \/ t \in threads
    BY DEF threads
  <1>3. /\ ToSet(pthreads'[p]) = ToSet(pthreads[p]) \cup {h}
        /\ IsInjective(pthreads'[p])
    <2>1. pthreads[p] \in Seq(Tid) /\ IsInjective(pthreads[p]) /\ h \notin ToSet(pthreads[p])
      BY <1>t, <1>n DEF IInv, Tables, Members
    <2> QED BY <1>1, <2>1, AppendSet
  <1>m. Members
    BY DEF IInv, Tables
  <1>4. Members'
    <2>1. \A r \in Pid : IsInjective(pthreads'[r])
      BY <1>1, <1>3, <1>m DEF Members
    <2>2. ASSUME NEW r \in Pid, NEW t \in Tid
          PROVE  t \in ToSet(pthreads'[r]) <=> t \in threads' /\ tproc'[t] = r /\ t # Init0
      <3>1. t \in ToSet(pthreads[r]) <=> t \in threads /\ tproc[t] = r /\ t # Init0
        BY <1>m DEF Members
      <3>2. CASE r = p
        BY <1>1, <1>2, <1>3, <1>n, <3>1, <3>2
      <3>3. CASE r # p
        BY <1>1, <1>2, <1>n, <3>1, <3>3
      <3> QED BY <3>2, <3>3
    <2> QED BY <2>1, <2>2 DEF Members
  <1>b. /\ \A t, g : Before(pthreads[p], t, g) => Before(pthreads'[p], t, g)
        /\ \A t \in ToSet(pthreads[p]) : Before(pthreads'[p], t, h)
    <2>1. pthreads[p] \in Seq(Tid)
      BY <1>t
    <2> QED BY <1>1, <2>1, BeforeAppend
  <1>5. ASSUME NEW g \in Tid, NEW t \in Tid, t \in ToSet(q[TWait(g)])
        PROVE  /\ g # h /\ t # h /\ tproc'[t] = tproc'[g]
               /\ Before(pthreads'[tproc'[g]], t, g)
    <2>1. /\ tproc[t] = tproc[g] /\ Before(pthreads[tproc[g]], t, g)
          /\ tstate[g] \in {"READY", "WAITING"}
      BY <1>5 DEF IInv, Tables, Heads, HeadsIn
    <2>2. g # h /\ t # h
      BY <1>5, <1>n, <2>1, ListNames DEF Detached
    <2>3. tproc'[g] = tproc[g] /\ tproc'[t] = tproc[t] /\ tproc[g] \in Pid
      BY <1>1, <1>t, <2>2
    <2>4. Before(pthreads'[tproc[g]], t, g)
      BY <1>1, <1>b, <2>1, <2>3
    <2> QED BY <2>1, <2>2, <2>3, <2>4
  <1>6. \A t \in threads' : t = h \/ t \in threads
    BY DEF threads
  <1> QED BY <1>1, <1>4, <1>5, <1>6, <1>b DEF Added

\* fork() and thread_fork(): thread h of process p goes on the run queue, and
\* the caller returns to user mode.
LEMMA StartStep ==
    ASSUME IInv, TInv', InUser, NEW h \in Tid, h = next_tid, NEW p \in Pid,
           tstate' = [tstate EXCEPT ![h] = "READY"], tproc' = [tproc EXCEPT ![h] = p],
           pthreads' = [pthreads EXCEPT ![p] = Append(@, h)],
           kctx' = [kctx EXCEPT ![h] = AtFirst(h)], q' = scheduler_insert(q, h),
           next_tid' = next_tid + 1, cpu' = AtReturn(current), UNCHANGED <<current, cr3>>,
           Processes', next_pid' >= 2, \A r \in Pid : r >= next_pid' => pstate'[r] = "FREE",
           \A r \in Pid : pstate[r] = "LIVE" => pstate'[r] = "LIVE",
           \A r \in Pid : sigq'[r] \in {<<>>, sigq[r]},
           sigq'[p] = <<>> \/ p = tproc[current]
    PROVE  IInv'
  <1>t. /\ TInv /\ current \in Tid /\ q \in Queues /\ 1 \in Pid
        /\ tstate \in [Tid -> {"FREE", "READY", "WAITING", "FINISHED"}]
        /\ tproc \in [Tid -> Pid] /\ kctx \in [Tid -> Context]
        /\ next_tid \in Nat /\ Boot \in Tid /\ Init0 \in Tid /\ RunQ \in Lists
    BY Types, Constants DEF IInv, Init0
  <1>n. /\ tstate[h] = "FREE" /\ h \notin threads
        /\ h # Boot /\ h # Init0 /\ h # current /\ Detached(q, h)
    BY NextThread
  <1>s. tstate'[h] = "READY" /\ \A t \in Tid \ {h} : tstate'[t] = tstate[t]
    BY <1>t
  <1>a. /\ Members'
        /\ tproc'[h] = p /\ \A t \in Tid \ {h} : tproc'[t] = tproc[t]
        /\ \A t \in threads' : t = h \/ t \in threads
        /\ \A g, t \in Tid : t \in ToSet(q[TWait(g)]) =>
              /\ g # h /\ t # h /\ tproc'[t] = tproc'[g]
              /\ Before(pthreads'[tproc'[g]], t, g)
    <2>1. tstate'[h] # "FREE" /\ \A t \in Tid \ {h} : tstate'[t] = "FREE" <=> tstate[t] = "FREE"
      BY <1>s
    <2>2. Added(h, p)
      BY <2>1, AddThread
    <2> QED BY <2>2 DEF Added
  <1>m. ASSUME NEW m \in Lists, NEW u
        PROVE  /\ q' \in Queues /\ LinkedIn(q')
               /\ u \in ToSet(q'[m]) <=> u \in ToSet(q[m]) \/ (m = RunQ /\ u = h)
    <2>1. PICK R : R = scheduler_insert(q, h)
      OBVIOUS
    <2>2. /\ R \in Queues /\ LinkedIn(R)
          /\ u \in ToSet(R[m]) <=> u \in ToSet(q[m]) \/ (m = RunQ /\ u = h)
      BY <2>1, QueueThread
    <2> QED BY <2>1, <2>2
  <1>c. /\ Running = current /\ Running' = current /\ current # Boot
        /\ cpu'.pc = "handle" /\ cpu'.then = "iret" /\ cpu'.arg = current /\ cpu.pc = "user"
    BY DEF InUser, Running, AtReturn, K
  <1>1. Linked'
    BY <1>t, <1>m DEF Linked
  <1>2. Heads'
    <2>1. ASSUME NEW r \in Pid, ToSet(q'[PWait(r)]) # {} PROVE pstate'[r] = "LIVE"
      <3>1. PICK u : u \in ToSet(q'[PWait(r)])
        BY <2>1
      <3>2. u \in ToSet(q[PWait(r)])
        BY <1>m, <3>1, ListNames
      <3> QED BY <3>2 DEF IInv, Tables, Heads, HeadsIn
    <2>2. ASSUME NEW g \in Tid, NEW t \in Tid, t \in ToSet(q'[TWait(g)])
          PROVE  /\ tproc'[t] = tproc'[g] /\ Before(pthreads'[tproc'[g]], t, g)
                 /\ tstate'[g] \in {"READY", "WAITING"}
      <3>1. t \in ToSet(q[TWait(g)])
        BY <1>m, <2>2, ListNames
      <3>2. tstate[g] \in {"READY", "WAITING"}
        BY <3>1 DEF IInv, Tables, Heads, HeadsIn
      <3> QED BY <1>a, <1>s, <3>1, <3>2
    <2> QED BY <2>1, <2>2 DEF Heads, HeadsIn
  <1>3. System'
    <2>1. System
      BY DEF IInv, Tables
    <2>2. tstate'[Boot] = "READY" /\ tproc'[Boot] = 1 /\ tproc'[Init0] = 1 /\ pstate'[1] = "LIVE"
      BY <1>t, <1>n, <1>s, <1>a, <2>1 DEF System
    <2>3. next_tid' >= 3 /\ \A t \in Tid : t >= next_tid' => tstate'[t] = "FREE"
      BY <1>t, <1>s, <2>1 DEF System, Tid
    <2> QED BY <2>2, <2>3 DEF System
  <1>4. Placed'
    <2>1. PlacedIn(q, tstate, current)
      BY <1>c DEF IInv, Execution, Placed
    <2> SUFFICES ASSUME NEW t \in Tid
                 PROVE  /\ t \in ToSet(q'[RunQ]) <=> tstate'[t] = "READY" /\ t # current
                        /\ (\E l \in Lists \ {RunQ} : t \in ToSet(q'[l])) <=> tstate'[t] = "WAITING"
      BY <1>c DEF Placed, PlacedIn
    <2>2. \A l \in Lists \ {RunQ} : t \in ToSet(q'[l]) <=> t \in ToSet(q[l])
      BY <1>m
    <2>3. t \in ToSet(q'[RunQ]) <=> t \in ToSet(q[RunQ]) \/ t = h
      BY <1>t, <1>m
    <2>4. CASE t = h
      BY <1>n, <1>s, <2>2, <2>3, <2>4 DEF Detached
    <2>5. CASE t # h
      BY <1>s, <2>1, <2>2, <2>3, <2>5 DEF PlacedIn
    <2> QED BY <2>4, <2>5
  <1>5. Base'
    <2>1. tstate[current] # "FREE" /\ tstate[current] = "READY" /\ cr3 = tproc[current]
      BY <1>c DEF IInv, Execution, Base
    <2> QED BY <1>t, <1>n, <1>s, <1>a, <1>c, <2>1 DEF Base
  <1>6. Code'
    BY <1>c DEF Code, Place, ToUser, InSignal
  <1>7. kctx'[h] = AtFirst(h) /\ \A t \in Tid \ {h} : kctx'[t] = kctx[t]
    BY <1>t
  <1>8. Contexts'
    <2> SUFFICES ASSUME NEW t \in threads', t # current
                 PROVE  Resumable(t, tproc'[t], kctx'[t])
      BY <1>c DEF Contexts
    <2>1. CASE t = h
      BY <1>7, <1>n, <2>1 DEF Resumable, AtFirst, K
    <2>2. CASE t # h
      <3>1. t \in threads /\ t \in Tid
        BY <1>a, <2>2 DEF threads
      <3>2. Resumable(t, tproc[t], kctx[t])
        BY <1>c, <3>1 DEF IInv, Execution, Contexts
      <3> QED BY <1>7, <1>a, <2>2, <3>1, <3>2
    <2> QED BY <2>1, <2>2
  <1>9. Signals'
    <2>1. (\A r \in Pid : Len(sigq[r]) <= 1) /\ sigq[1] = <<>>
      BY DEF IInv, Execution, Signals
    <2>2. Len(<<>>) = 0
      OBVIOUS
    <2>3. sigq'[1] = <<>> /\ \A r \in Pid : Len(sigq'[r]) <= 1
      BY <1>t, <2>1, <2>2
    <2>4. NoNewPending'
      <3> SUFFICES ASSUME NEW t \in threads', kctx'[t].pc = "first", t # current,
                          sigq'[tproc'[t]] # <<>>
                   PROVE  tproc'[current] = tproc'[t]
        BY <1>c DEF NoNewPending, New, Pending
      <3>1. t = h
        <4> SUFFICES ASSUME t # h PROVE FALSE
          OBVIOUS
        <4>1. t \in threads /\ t \in Tid
          BY <1>a DEF threads
        <4>2. kctx[t].pc = "first" /\ tproc'[t] = tproc[t] /\ tproc[t] \in Pid
          BY <1>t, <1>7, <1>a, <4>1
        <4>3. sigq[tproc[t]] # <<>>
          BY <4>2
        <4> QED BY <1>c, <4>1, <4>2, <4>3
                DEF IInv, Execution, Signals, NoNewPending, New, Pending
      <3> QED BY <1>t, <1>a, <1>n, <3>1
    <2> QED BY <2>3, <2>4 DEF Signals
  <1> QED BY <1>1, <1>2, <1>3, <1>4, <1>5, <1>6, <1>8, <1>9, <1>a
          DEF IInv, Tables, Execution

\* The process of a thread in user mode is running.
LEMMA UserLive ==
    ASSUME IInv, InUser
    PROVE  /\ current \in threads /\ tstate[current] = "READY"
           /\ Me \in Pid /\ pstate[Me] = "LIVE"
  <1>1. /\ TInv /\ current \in Tid /\ Me \in Pid
        /\ pstate \in [Pid -> {"FREE", "LIVE", "FINISHED"}]
    BY Types DEF IInv, Me
  <1>2. tstate[current] = "READY"
    BY DEF IInv, Execution, Base, InUser, Running
  <1>3. current \in threads
    BY <1>1, <1>2 DEF threads
  <1>4. pstate[Me] # "FREE" /\ pstate[Me] # "FINISHED"
    BY <1>2, <1>3 DEF IInv, Tables, Processes, Me
  <1> QED BY <1>1, <1>2, <1>3, <1>4

\* thread_fork().
LEMMA ThreadForkStep ==
    ASSUME IInv, TInv', ThreadFork
    PROVE  IInv'
  <1>1. PICK h \in Tid : h = next_tid
    BY DEF ThreadFork, AllocThread
  <1>2. PICK p \in Pid : p = tproc[current] /\ pstate[p] = "LIVE" /\ InUser
    BY UserLive DEF ThreadFork, Me
  <1>3. /\ tstate' = [tstate EXCEPT ![h] = "READY"] /\ tproc' = [tproc EXCEPT ![h] = p]
        /\ pthreads' = [pthreads EXCEPT ![p] = Append(@, h)]
        /\ kctx' = [kctx EXCEPT ![h] = AtFirst(h)] /\ q' = scheduler_insert(q, h)
        /\ next_tid' = next_tid + 1 /\ cpu' = AtReturn(current)
        /\ UNCHANGED <<current, cr3, plist, pstate, next_pid, sigq>>
    BY <1>1, <1>2 DEF ThreadFork, AllocThread, Me, sigVars
  <1>t. /\ TInv /\ tstate \in [Tid -> {"FREE", "READY", "WAITING", "FINISHED"}]
        /\ tproc \in [Tid -> Pid]
    BY Types DEF IInv
  <1>4. Processes'
    <2>1. /\ tproc'[h] = p
          /\ \A t \in Tid \ {h} : tstate'[t] = tstate[t] /\ tproc'[t] = tproc[t]
      BY <1>t, <1>3
    <2>2. \A t \in threads' : t = h \/ (t \in threads /\ t \in Tid \ {h})
      BY <2>1 DEF threads
    <2>3. \A t \in threads' : /\ pstate[tproc'[t]] # "FREE"
                              /\ pstate[tproc'[t]] = "FINISHED" => tstate'[t] = "FINISHED"
      BY <1>2, <2>1, <2>2 DEF IInv, Tables, Processes
    <2> QED BY <1>3, <2>3 DEF IInv, Tables, Processes
  <1>5. next_pid' >= 2 /\ \A r \in Pid : r >= next_pid' => pstate'[r] = "FREE"
    BY <1>3 DEF IInv, Tables, System
  <1> QED BY <1>1, <1>2, <1>3, <1>4, <1>5, StartStep

\* fork().
LEMMA ForkStep ==
    ASSUME IInv, TInv', Fork
    PROVE  IInv'
  <1>1. PICK h \in Tid, c \in Pid : h = next_tid /\ c = next_pid
    BY DEF Fork, AllocThread
  <1>t. /\ TInv /\ tstate \in [Tid -> {"FREE", "READY", "WAITING", "FINISHED"}]
        /\ tproc \in [Tid -> Pid] /\ pthreads \in [Pid -> Seq(Tid)] /\ plist \in Seq(Pid)
        /\ pstate \in [Pid -> {"FREE", "LIVE", "FINISHED"}] /\ sigq \in [Pid -> Seq(Sig)]
        /\ next_pid \in Nat
    BY Types DEF IInv
  <1>2. InUser /\ tstate[current] = "READY"
    BY UserLive DEF Fork
  <1>3. /\ tstate' = [tstate EXCEPT ![h] = "READY"] /\ tproc' = [tproc EXCEPT ![h] = c]
        /\ pthreads' = [pthreads EXCEPT ![c] = <<h>>]
        /\ kctx' = [kctx EXCEPT ![h] = AtFirst(h)] /\ q' = scheduler_insert(q, h)
        /\ next_tid' = next_tid + 1 /\ cpu' = AtReturn(current)
        /\ UNCHANGED <<current, cr3>> /\ plist' = Append(plist, c)
        /\ pstate' = [pstate EXCEPT ![c] = "LIVE"] /\ next_pid' = next_pid + 1
        /\ sigq' = [sigq EXCEPT ![c] = <<>>]
    BY <1>1, <1>2 DEF Fork, AllocThread
  <1>4. pstate[c] = "FREE"
    BY <1>1, <1>t DEF IInv, Tables, System, Pid
  <1>5. /\ pstate'[c] = "LIVE" /\ \A r \in Pid \ {c} : pstate'[r] = pstate[r]
        /\ tproc'[h] = c
        /\ \A t \in Tid \ {h} : tstate'[t] = tstate[t] /\ tproc'[t] = tproc[t]
    BY <1>t, <1>3
  <1>6. pthreads' = [pthreads EXCEPT ![c] = Append(@, h)]
    <2>1. ToSet(pthreads[c]) = {}
      <3>1. pthreads[c] \in Seq(Tid)
        BY <1>t
      <3>2. ToSet(pthreads[c]) \subseteq Tid
        BY <3>1, SetOf
      <3>3. \A t \in Tid : t \notin ToSet(pthreads[c])
        BY <1>4 DEF IInv, Tables, Members, Processes
      <3> QED BY <3>2, <3>3
    <2>2. pthreads[c] = <<>>
      <3>1. pthreads[c] \in Seq(Tid)
        BY <1>t
      <3> QED BY <2>1, <3>1, EmptySet
    <2>3. Append(pthreads[c], h) = <<h>>
      BY <2>2
    <2> QED BY <1>3, <2>3
  <1>7. Processes'
    <2>0. Processes
      BY DEF IInv, Tables
    <2>1. /\ ToSet(plist') = ToSet(plist) \cup {c} /\ IsInjective(plist')
      <3>1. c \notin ToSet(plist) /\ IsInjective(plist)
        BY <1>4, <2>0 DEF Processes
      <3> QED BY <1>t, <1>3, <3>1, AppendSet
    <2>2. \A r \in Pid : r \in ToSet(plist') <=> pstate'[r] # "FREE"
      BY <1>5, <2>0, <2>1 DEF Processes
    <2>3. ASSUME NEW t \in threads'
          PROVE  /\ pstate'[tproc'[t]] # "FREE"
                 /\ pstate'[tproc'[t]] = "FINISHED" => tstate'[t] = "FINISHED"
      <3>1. CASE t = h
        BY <1>5, <3>1
      <3>2. CASE t # h
        <4>1. t \in Tid \ {h} /\ t \in threads
          BY <1>5, <3>2 DEF threads
        <4>2. tproc[t] \in Pid \ {c}
          BY <1>t, <1>4, <2>0, <4>1 DEF Processes
        <4> QED BY <1>5, <2>0, <4>1, <4>2 DEF Processes
      <3> QED BY <3>1, <3>2
    <2> QED BY <2>1, <2>2, <2>3 DEF Processes
  <1>8. /\ next_pid' >= 2 /\ \A r \in Pid : r >= next_pid' => pstate'[r] = "FREE"
        /\ \A r \in Pid : pstate[r] = "LIVE" => pstate'[r] = "LIVE"
    BY <1>1, <1>t, <1>3, <1>5 DEF IInv, Tables, System, Pid
  <1>9. sigq'[c] = <<>> /\ \A r \in Pid : sigq'[r] \in {<<>>, sigq[r]}
    BY <1>t, <1>3
  <1> QED BY <1>1, <1>2, <1>3, <1>6, <1>7, <1>8, <1>9, StartStep

\* The queues after handle_signals put thread th to sleep behind the handler
\* h, and h first on the run queue.
LEMMA CustomQueues ==
    ASSUME IInv, NEW h \in Tid, h = next_tid, NEW th \in Tid, th # h, NEW w \in Lists, w # RunQ,
           NEW Q, Q = scheduler_cheat(scheduler_sleep(scheduler_remove(
                          scheduler_insert(q, h), h), th, w), h),
           NEW m \in Lists, NEW u
    PROVE  /\ Q \in Queues /\ LinkedIn(Q)
           /\ u \in ToSet(Q[m]) <=> \/ u \in ToSet(q[m]) /\ u # th
                                    \/ m = w /\ u = th
                                    \/ m = RunQ /\ u = h
  <1>0. Detached(q, h)
    BY NextThread
  <1>1. PICK Q1 : Q1 = scheduler_insert(q, h)
    OBVIOUS
  <1>2. ASSUME NEW l \in Lists, NEW v
        PROVE  /\ Q1 \in Queues /\ LinkedIn(Q1)
               /\ v \in ToSet(Q1[l]) <=> v \in ToSet(q[l]) \/ (l = RunQ /\ v = h)
    BY <1>1, QueueThread
  <1>3. PICK Q2 : Q2 = scheduler_remove(Q1, h)
    OBVIOUS
  <1>4. ASSUME NEW l \in Lists, NEW v
        PROVE  /\ Q2 \in Queues /\ LinkedIn(Q2)
               /\ v \in ToSet(Q2[l]) <=> v \in ToSet(q[l])
    <2>1. Q1 \in Queues /\ LinkedIn(Q1)
      BY <1>2
    <2>2. /\ Q2 \in Queues /\ LinkedIn(Q2)
          /\ v \in ToSet(Q2[l]) <=> v \in ToSet(Q1[l]) /\ v # h
      BY <1>3, <2>1, RemoveMembers
    <2> QED BY <1>0, <1>2, <2>2 DEF Detached
  <1>5. PICK Q3 : Q3 = scheduler_sleep(Q2, th, w)
    OBVIOUS
  <1>6. ASSUME NEW l \in Lists, NEW v
        PROVE  /\ Q3 \in Queues /\ LinkedIn(Q3)
               /\ v \in ToSet(Q3[l]) <=> (v \in ToSet(q[l]) /\ v # th) \/ (l = w /\ v = th)
    <2>1. Q2 \in Queues /\ LinkedIn(Q2)
      BY <1>4
    <2>2. /\ Q3 \in Queues /\ LinkedIn(Q3)
          /\ v \in ToSet(Q3[l]) <=> (v \in ToSet(Q2[l]) /\ v # th) \/ (l = w /\ v = th)
      BY <1>5, <2>1, SleepMembers
    <2> QED BY <1>4, <2>2
  <1>7. Q = scheduler_cheat(Q3, h)
    BY <1>1, <1>3, <1>5
  <1>8. Q3 \in Queues /\ LinkedIn(Q3) /\ Detached(Q3, h)
    BY <1>0, <1>6 DEF Detached
  <1>9. /\ Q \in Queues /\ LinkedIn(Q)
        /\ u \in ToSet(Q[m]) <=> u \in ToSet(Q3[m]) \/ (m = RunQ /\ u = h)
    BY <1>7, <1>8, InsertMembers
  <1> QED BY <1>6, <1>9

\* handle_signals with a handler of the program.
LEMMA HandlerStep ==
    ASSUME IInv, TInv', HandleCustom
    PROVE  IInv'
  <1>0. cpu.pc = "handle"
    BY DEF HandleCustom
  <1>t. /\ TInv /\ current \in Tid /\ cpu.arg \in Tid /\ 1 \in Pid
        /\ tstate \in [Tid -> {"FREE", "READY", "WAITING", "FINISHED"}]
        /\ tproc \in [Tid -> Pid] /\ kctx \in [Tid -> Context] /\ cpu \in Context
        /\ pstate \in [Pid -> {"FREE", "LIVE", "FINISHED"}]
        /\ cpu.then \in {"iret", "check", "sent"}
        /\ next_tid \in Nat /\ Boot \in Tid /\ Init0 \in Tid
    BY <1>0, Types, Constants DEF IInv, Init0
  <1>l. PICK h \in Tid, th \in Tid, p \in Pid, w \in Lists :
           /\ h = next_tid /\ th = cpu.arg /\ p = tproc[th] /\ w = TWait(h) /\ w # RunQ
    BY <1>t, ListNames DEF HandleCustom, AllocThread
  <1>p. Pending(p) /\ sigq' = [sigq EXCEPT ![p] = Tail(@)]
    BY <1>l DEF HandleCustom
  <1>d. /\ Running = current /\ current # Boot /\ p # 1 /\ tproc[current] # 1
        /\ cpu.then = "iret" => th = current
        /\ \A t \in threads : New(t) /\ Pending(tproc[t]) => tproc[t] = p
    BY <1>0, <1>l, <1>p, Delivery
  <1>c. tstate[current] = "READY" /\ current \in threads
    BY <1>d, <1>t DEF IInv, Execution, Base, threads
  <1>s. \/ th = current
        \/ tstate[th] = "WAITING" /\ th # current
    BY <1>0, <1>d, <1>l, <1>t, <1>c DEF IInv, Execution, Code, Place, InSignal
  <1>n. /\ tstate[h] = "FREE" /\ h \notin threads
        /\ h # Boot /\ h # Init0 /\ h # current /\ Detached(q, h)
    BY <1>l, NextThread
  <1>h. th # h /\ th # Boot /\ th # Init0 /\ th \in threads /\ pstate[p] = "LIVE"
    <2>1. tstate[th] \in {"READY", "WAITING"} /\ th # h
      BY <1>s, <1>c, <1>n
    <2>2. th \in threads
      BY <2>1 DEF threads
    <2>3. th # Boot
      BY <1>d, <1>s DEF IInv, Tables, System
    <2>4. th # Init0
      BY <1>d, <1>l DEF IInv, Tables, System
    <2>5. pstate[p] # "FREE" /\ pstate[p] # "FINISHED"
      BY <1>l, <2>1, <2>2 DEF IInv, Tables, Processes
    <2> QED BY <1>t, <2>1, <2>2, <2>3, <2>4, <2>5
  <1>q. PICK Q : Q = scheduler_cheat(scheduler_sleep(scheduler_remove(
                         scheduler_insert(q, h), h), th, w), h)
    OBVIOUS
  <1>k. PICK kc : kc = [kctx EXCEPT ![h] = AtFirst(h), ![current] = [cpu EXCEPT !.pc = cpu.then]]
    OBVIOUS
  <1>1. /\ tstate' = [tstate EXCEPT ![h] = "READY", ![th] = "WAITING"]
        /\ tproc' = [tproc EXCEPT ![h] = p]
        /\ pthreads' = [pthreads EXCEPT ![p] = Append(@, h)]
        /\ next_tid' = next_tid + 1 /\ UNCHANGED <<current, plist, pstate, next_pid>>
        /\ Schedule(Q, kc)
    BY <1>l, <1>q, <1>k DEF HandleCustom, AllocThread
  <1>2. /\ tstate'[h] = "READY" /\ tstate'[th] = "WAITING"
        /\ \A t \in Tid \ {h, th} : tstate'[t] = tstate[t]
    BY <1>t, <1>h, <1>1
  <1>3. /\ kc[h] = AtFirst(h) /\ kc[current].pc = cpu.then /\ kc[current].arg = th
        /\ kc[current].then = cpu.then
        /\ \A t \in Tid \ {h, current} : kc[t] = kctx[t]
    <2>1. kc[h] = AtFirst(h) /\ kc[current] = [cpu EXCEPT !.pc = cpu.then]
          /\ \A t \in Tid \ {h, current} : kc[t] = kctx[t]
      BY <1>t, <1>k, <1>n
    <2> QED BY <1>t, <1>l, <2>1 DEF Context
  <1>a. Added(h, p)
    <2>1. \A t \in Tid \ {h} : tstate'[t] = "FREE" <=> tstate[t] = "FREE"
      BY <1>2, <1>h DEF threads
    <2> QED BY <1>l, <1>1, <1>2, <2>1, AddThread
  <1>m. ASSUME NEW m \in Lists, NEW u
        PROVE  /\ Q \in Queues /\ LinkedIn(Q)
               /\ u \in ToSet(Q[m]) <=> \/ u \in ToSet(q[m]) /\ u # th
                                        \/ m = w /\ u = th
                                        \/ m = RunQ /\ u = h
    <2>1. h = next_tid /\ th # h /\ w # RunQ
      BY <1>l, <1>h
    <2> QED BY <1>q, <2>1, CustomQueues
  <1>4. Q \in Queues /\ LinkedIn(Q)
    BY <1>l, <1>m
  <1>5. PlacedIn(Q, tstate', current)
    <2>0. PlacedIn(q, tstate, current)
      BY <1>d DEF IInv, Execution, Placed
    <2> SUFFICES ASSUME NEW t \in Tid
                 PROVE  /\ t \in ToSet(Q[RunQ]) <=> tstate'[t] = "READY" /\ t # current
                        /\ (\E l \in Lists \ {RunQ} : t \in ToSet(Q[l])) <=> tstate'[t] = "WAITING"
      BY DEF PlacedIn
    <2>1. CASE t = h
      BY <1>l, <1>m, <1>n, <1>h, <1>2, <2>1, ListNames DEF Detached
    <2>2. CASE t = th
      BY <1>l, <1>m, <1>h, <1>2, <2>2, ListNames
    <2>3. CASE t # h /\ t # th
      <3>1. \A l \in Lists : t \in ToSet(Q[l]) <=> t \in ToSet(q[l])
        BY <1>m, <2>3
      <3> QED BY <1>2, <2>0, <2>3, <3>1, ListNames DEF PlacedIn
    <2> QED BY <2>1, <2>2, <2>3
  <1>6. HeadsIn(Q, tstate', tproc', pthreads', pstate')
    <2>1. ASSUME NEW r \in Pid, ToSet(Q[PWait(r)]) # {} PROVE pstate'[r] = "LIVE"
      <3>1. PICK u : u \in ToSet(Q[PWait(r)])
        BY <2>1
      <3>2. u \in ToSet(q[PWait(r)])
        BY <1>l, <1>m, <3>1, ListNames
      <3> QED BY <1>1, <3>2 DEF IInv, Tables, Heads, HeadsIn
    <2>2. ASSUME NEW g \in Tid, NEW t \in Tid, t \in ToSet(Q[TWait(g)])
          PROVE  /\ tproc'[t] = tproc'[g] /\ Before(pthreads'[tproc'[g]], t, g)
                 /\ tstate'[g] \in {"READY", "WAITING"}
      <3>1. t \in ToSet(q[TWait(g)]) \/ (g = h /\ t = th)
        BY <1>l, <1>m, <2>2, ListNames
      <3>2. CASE t \in ToSet(q[TWait(g)])
        <4>1. tstate[g] \in {"READY", "WAITING"}
          BY <3>2 DEF IInv, Tables, Heads, HeadsIn
        <4> QED BY <1>a, <1>2, <3>2, <4>1 DEF Added
      <3>3. CASE g = h /\ t = th
        <4>1. th \in ToSet(pthreads[p])
          BY <1>h, <1>l DEF IInv, Tables, Members
        <4>2. tproc'[th] = p /\ tproc'[h] = p /\ Before(pthreads'[p], th, h)
          BY <1>a, <1>h, <1>l, <4>1 DEF Added
        <4> QED BY <1>2, <3>3, <4>2
      <3> QED BY <3>1, <3>2, <3>3
    <2> QED BY <2>1, <2>2 DEF HeadsIn
  <1>7. Processes'
    <2>0. Processes
      BY DEF IInv, Tables
    <2>1. ASSUME NEW t \in threads'
          PROVE  /\ pstate[tproc'[t]] # "FREE"
                 /\ pstate[tproc'[t]] = "FINISHED" => tstate'[t] = "FINISHED"
      <3>1. CASE t = h
        BY <1>a, <1>h, <3>1 DEF Added
      <3>2. CASE t # h
        <4>1. t \in threads /\ t \in Tid /\ tproc'[t] = tproc[t]
          BY <1>a, <3>2 DEF Added, threads
        <4>2. CASE t = th
          BY <1>h, <1>l, <4>1, <4>2
        <4>3. CASE t # th
          BY <1>2, <2>0, <3>2, <4>1, <4>3 DEF Processes
        <4> QED BY <4>2, <4>3
      <3> QED BY <3>1, <3>2
    <2> QED BY <1>1, <2>0, <2>1 DEF Processes
  <1>8. System'
    <2>0. System
      BY DEF IInv, Tables
    <2>1. tstate'[Boot] = "READY" /\ tproc'[Boot] = 1 /\ tproc'[Init0] = 1
      BY <1>t, <1>n, <1>h, <1>2, <1>a, <2>0 DEF System, Added
    <2>2. next_tid' >= 3 /\ \A t \in Tid : t >= next_tid' => tstate'[t] = "FREE"
      <3>1. ASSUME NEW t \in Tid, t >= next_tid' PROVE tstate'[t] = "FREE"
        <4>1. t # h /\ t >= next_tid
          BY <1>t, <1>1, <1>l, <3>1 DEF Tid
        <4>2. tstate[t] = "FREE"
          BY <2>0, <4>1 DEF System
        <4>3. t # th
          BY <1>h, <4>2 DEF threads
        <4> QED BY <1>2, <4>1, <4>2, <4>3
      <3>2. next_tid' >= 3
        BY <1>t, <1>1, <2>0 DEF System
      <3> QED BY <3>1, <3>2
    <2> QED BY <1>1, <2>0, <2>1, <2>2 DEF System
  <1>9. \A t \in Tid : tstate'[t] # "FREE" => Resumable(t, tproc'[t], kc[t])
    <2> SUFFICES ASSUME NEW t \in Tid, tstate'[t] # "FREE" PROVE Resumable(t, tproc'[t], kc[t])
      OBVIOUS
    <2>1. CASE t = h
      BY <1>3, <1>n, <2>1 DEF Resumable, AtFirst, K
    <2>2. CASE t = current
      <3>1. tproc'[t] # 1
        BY <1>a, <1>d, <1>n, <2>2 DEF Added
      <3> QED BY <1>3, <1>d, <1>t, <2>2, <3>1 DEF Resumable
    <2>3. CASE t # h /\ t # current
      <3>1. t \in threads /\ kc[t] = kctx[t] /\ tproc'[t] = tproc[t]
        BY <1>a, <1>3, <1>2, <1>h, <2>3 DEF Added, threads
      <3> QED BY <1>d, <2>3, <3>1 DEF IInv, Execution, Contexts
    <2> QED BY <2>1, <2>2, <2>3
  <1>10. sigq'[p] = <<>> /\ \A r \in Pid \ {p} : sigq'[r] = sigq[r]
    BY <1>p, TakeSignal
  <1>11. (\A r \in Pid : Len(sigq'[r]) <= 1) /\ sigq'[1] = <<>>
    <2>1. (\A r \in Pid : Len(sigq[r]) <= 1) /\ sigq[1] = <<>> /\ Len(<<>>) = 0
      BY DEF IInv, Execution, Signals
    <2> QED BY <1>d, <1>t, <1>10, <2>1
  <1>12. ASSUME NEW t \in Tid, tstate'[t] # "FREE", kc[t].pc = "first", t # current
         PROVE  sigq'[tproc'[t]] = <<>>
    <2>1. CASE t = h
      BY <1>a, <1>10, <2>1 DEF Added
    <2>2. CASE t # h
      <3>1. t \in threads /\ kc[t] = kctx[t] /\ tproc'[t] = tproc[t] /\ tproc[t] \in Pid
        BY <1>a, <1>t, <1>3, <1>2, <1>h, <1>12, <2>2 DEF Added, threads
      <3>2. tproc[t] = p \/ sigq[tproc[t]] = <<>>
        BY <1>d, <1>12, <3>1 DEF New, Pending
      <3> QED BY <1>10, <3>1, <3>2
    <2> QED BY <2>1, <2>2
  <1>13. tstate'[current] # "FREE" /\ kc[current].pc # "first" /\ Members'
    BY <1>a, <1>c, <1>2, <1>3, <1>n, <1>t, <1>s DEF Added
  <1>14. \A t \in Tid : tstate'[t] # "FREE" /\ kc[t].pc = "first" /\ t # current
                              => sigq'[tproc'[t]] = <<>>
    BY <1>12
  <1>15. Schedule(Q, kc) /\ current' = current
    BY <1>1
  <1> QED BY <1>4, <1>5, <1>6, <1>7, <1>8, <1>9, <1>11, <1>13, <1>14, <1>15, ScheduleStep

-----------------------------------------------------------------------------
(* Threads and processes that are freed *)

\* free_thread of a thread that does not run and is no list's head.
LEMMA FreeStep ==
    ASSUME IInv, TInv', NEW t \in Tid, NEW p \in Pid, FreeThread(t, p),
           t \in ToSet(pthreads[p]), t # current, t # Running, t # Boot,
           ToSet(q[TWait(t)]) = {}, cpu.pc \in {"clean", "exit", "free"},
           UNCHANGED <<current, cpu, cr3, plist, pstate, sigq, next_tid, next_pid>>
    PROVE  IInv'
  <1>t. /\ TInv /\ current \in Tid /\ q \in Queues /\ Running \in Tid
        /\ tstate \in [Tid -> {"FREE", "READY", "WAITING", "FINISHED"}]
        /\ tproc \in [Tid -> Pid] /\ kctx \in [Tid -> Context]
        /\ pthreads \in [Pid -> Seq(Tid)] /\ Boot \in Tid /\ Init0 \in Tid
    BY Types, Constants DEF IInv, Init0
  <1>1. /\ tstate' = [tstate EXCEPT ![t] = "FREE"] /\ tproc' = [tproc EXCEPT ![t] = 1]
        /\ kctx' = [kctx EXCEPT ![t] = AtFirst(t)] /\ q' = scheduler_remove(q, t)
        /\ pthreads' = [pthreads EXCEPT ![p] = Unlink(@, t)]
    BY DEF FreeThread
  <1>2. /\ tstate'[t] = "FREE"
        /\ \A u \in Tid \ {t} : /\ tstate'[u] = tstate[u] /\ tproc'[u] = tproc[u]
                                /\ kctx'[u] = kctx[u]
        /\ pthreads'[p] = Unlink(pthreads[p], t)
        /\ \A r \in Pid \ {p} : pthreads'[r] = pthreads[r]
    BY <1>t, <1>1
  <1>3. t \in threads /\ tproc[t] = p /\ t # Init0
    BY DEF IInv, Tables, Members
  <1>4. \A u \in Tid : u \in threads' <=> u \in threads /\ u # t
    BY <1>2 DEF threads
  <1>r. Running' = Running
    BY DEF Running
  <1>m. ASSUME NEW m \in Lists, NEW u
        PROVE  LinkedIn(q') /\ (u \in ToSet(q'[m]) <=> u \in ToSet(q[m]) /\ u # t)
    <2>1. PICK R : R = scheduler_remove(q, t)
      OBVIOUS
    <2>2. q \in Queues /\ LinkedIn(q)
      BY <1>t DEF IInv, Tables, Linked
    <2>3. LinkedIn(R) /\ (u \in ToSet(R[m]) <=> u \in ToSet(q[m]) /\ u # t)
      BY <2>1, <2>2, RemoveMembers
    <2> QED BY <1>1, <2>1, <2>3
  <1>5. Linked'
    BY <1>m, ListNames DEF Linked
  <1>6. Heads'
    <2>1. ASSUME NEW r \in Pid, ToSet(q'[PWait(r)]) # {} PROVE pstate'[r] = "LIVE"
      <3>1. PICK u : u \in ToSet(q'[PWait(r)])
        BY <2>1
      <3>2. u \in ToSet(q[PWait(r)])
        BY <1>m, <3>1, ListNames
      <3> QED BY <3>2 DEF IInv, Tables, Heads, HeadsIn
    <2>2. ASSUME NEW g \in Tid, NEW u \in Tid, u \in ToSet(q'[TWait(g)])
          PROVE  /\ tproc'[u] = tproc'[g] /\ Before(pthreads'[tproc'[g]], u, g)
                 /\ tstate'[g] \in {"READY", "WAITING"}
      <3>1. u \in ToSet(q[TWait(g)]) /\ u # t
        BY <1>m, <2>2, ListNames
      <3>2. g # t
        BY <3>1
      <3>3. /\ tproc[u] = tproc[g] /\ Before(pthreads[tproc[g]], u, g)
            /\ tstate[g] \in {"READY", "WAITING"}
        BY <3>1 DEF IInv, Tables, Heads, HeadsIn
      <3>4. tproc'[u] = tproc[u] /\ tproc'[g] = tproc[g] /\ tstate'[g] = tstate[g]
        BY <1>2, <3>1, <3>2
      <3>5. Before(pthreads'[tproc[g]], u, g)
        <4>1. CASE tproc[g] = p
          <5>1. pthreads[p] \in Seq(Tid) /\ Before(pthreads[p], u, g)
            BY <1>t, <3>3, <4>1
          <5>2. Before(Unlink(pthreads[p], t), u, g)
            BY <3>1, <3>2, <5>1, BeforeUnlink
          <5> QED BY <1>2, <4>1, <5>2
        <4>2. CASE tproc[g] # p
          BY <1>t, <1>2, <3>3, <4>2
        <4> QED BY <4>1, <4>2
      <3> QED BY <3>3, <3>4, <3>5
    <2> QED BY <2>1, <2>2 DEF Heads, HeadsIn
  <1>7. Members'
    <2>0. Members
      BY DEF IInv, Tables
    <2>1. /\ ToSet(pthreads'[p]) = ToSet(pthreads[p]) \ {t}
          /\ IsInjective(pthreads'[p])
      <3>1. pthreads[p] \in Seq(Tid) /\ IsInjective(pthreads[p])
        BY <1>t, <2>0 DEF Members
      <3> QED BY <1>2, <3>1, UnlinkSet
    <2>2. \A r \in Pid : IsInjective(pthreads'[r])
      BY <1>2, <2>0, <2>1 DEF Members
    <2>3. ASSUME NEW r \in Pid, NEW u \in Tid
          PROVE  u \in ToSet(pthreads'[r]) <=> u \in threads' /\ tproc'[u] = r /\ u # Init0
      <3>1. u \in ToSet(pthreads[r]) <=> u \in threads /\ tproc[u] = r /\ u # Init0
        BY <2>0 DEF Members
      <3>2. CASE u = t
        <4>1. u \notin ToSet(pthreads'[r])
          BY <1>2, <1>3, <2>1, <3>1, <3>2
        <4> QED BY <1>4, <3>2, <4>1
      <3>3. CASE u # t
        <4>1. u \in ToSet(pthreads'[r]) <=> u \in ToSet(pthreads[r])
          BY <1>2, <2>1, <3>3
        <4> QED BY <1>2, <1>4, <3>1, <3>3, <4>1
      <3> QED BY <3>2, <3>3
    <2> QED BY <2>2, <2>3 DEF Members
  <1>8. Processes'
    <2>1. \A u \in threads' : u \in threads /\ u \in Tid \ {t}
      BY <1>4 DEF threads
    <2>2. \A u \in threads' : /\ pstate[tproc'[u]] # "FREE"
                              /\ pstate[tproc'[u]] = "FINISHED" => tstate'[u] = "FINISHED"
      BY <1>2, <2>1 DEF IInv, Tables, Processes
    <2> QED BY <2>2 DEF IInv, Tables, Processes
  <1>9. System'
    BY <1>t, <1>2, <1>3 DEF IInv, Tables, System
  <1>10. Placed'
    <2>0. PlacedIn(q, tstate, Running)
      BY DEF IInv, Execution, Placed
    <2> SUFFICES ASSUME NEW u \in Tid
                 PROVE  /\ u \in ToSet(q'[RunQ]) <=> tstate'[u] = "READY" /\ u # Running
                        /\ (\E l \in Lists \ {RunQ} : u \in ToSet(q'[l])) <=> tstate'[u] = "WAITING"
      BY <1>r DEF Placed, PlacedIn
    <2>1. CASE u = t
      BY <1>2, <1>m, <2>1, ListNames
    <2>2. CASE u # t
      <3>1. \A l \in Lists : u \in ToSet(q'[l]) <=> u \in ToSet(q[l])
        BY <1>m, <2>2
      <3> QED BY <1>2, <2>0, <2>2, <3>1, ListNames DEF PlacedIn
    <2> QED BY <2>1, <2>2
  <1>11. Base'
    BY <1>t, <1>r, <1>2 DEF IInv, Execution, Base
  <1>12. Code'
    BY <1>t, <1>r, <1>2 DEF IInv, Execution, Code, Place, ToUser, InSignal
  <1>13. Contexts'
    <2>1. \A u \in threads' : u \in threads /\ u \in Tid \ {t}
      BY <1>4 DEF threads
    <2> QED BY <1>r, <1>2, <2>1 DEF IInv, Execution, Contexts
  <1>14. Signals'
    <2>1. \A u \in threads' : u \in threads /\ u \in Tid \ {t}
      BY <1>4 DEF threads
    <2>2. NoNewPending'
      BY <1>2, <2>1 DEF IInv, Execution, Signals, NoNewPending, New, Pending
    <2> QED BY <2>2 DEF IInv, Execution, Signals
  <1> QED BY <1>5, <1>6, <1>7, <1>8, <1>9, <1>10, <1>11, <1>12, <1>13, <1>14
          DEF IInv, Tables, Execution

\* clean_threads: the thread is finished, so it does not run and nothing
\* sleeps behind it.
LEMMA CleanStep ==
    ASSUME IInv, TInv', CleanFree
    PROVE  IInv'
  <1>t. /\ TInv /\ cpu.pr \in Pid /\ pthreads[cpu.pr] \in Seq(Tid) /\ cpu.pc = "clean"
        /\ q \in Queues
    BY Types DEF IInv, CleanFree
  <1>1. PICK i \in Cleanable(cpu.pr) : FreeThread(pthreads[cpu.pr][i], cpu.pr)
    BY DEF CleanFree
  <1>2. PICK t \in Tid : /\ t = pthreads[cpu.pr][i] /\ t \in ToSet(pthreads[cpu.pr])
                         /\ tstate[t] = "FINISHED" /\ t # current
    BY <1>t, <1>1, SetOf DEF Cleanable
  <1>3. t # Running /\ t # Boot
    BY <1>2 DEF IInv, Execution, Base, Tables, System
  <1>4. ToSet(q[TWait(t)]) = {}
    <2>1. \A u \in Tid : u \notin ToSet(q[TWait(t)])
      BY <1>2 DEF IInv, Tables, Heads, HeadsIn
    <2>2. ToSet(q[TWait(t)]) \subseteq Tid
      BY <1>t, ListNames, QueueMembers
    <2> QED BY <2>1, <2>2
  <1>5. UNCHANGED <<current, cpu, cr3, plist, pstate, sigq, next_tid, next_pid>>
    BY DEF CleanFree, sigVars, idVars
  <1> QED BY <1>t, <1>1, <1>2, <1>3, <1>4, <1>5, FreeStep

\* exit_process and free_process: the oldest thread goes first, so nothing
\* sleeps behind it when its turn comes.
LEMMA FreeOtherStep ==
    ASSUME IInv, TInv', FreeOther
    PROVE  IInv'
  <1>0. cpu.pc \in {"exit", "free"}
    BY DEF FreeOther
  <1>t. /\ TInv /\ cpu.pr \in Pid /\ pthreads[cpu.pr] \in Seq(Tid) /\ q \in Queues
        /\ tproc \in [Tid -> Pid] /\ current \in Tid
    BY <1>0, Types DEF IInv
  <1>c. Running = current /\ tstate[current] = "READY"
    BY <1>0, NotIdle
  <1>1. PICK i \in OthersOf(cpu.pr) : /\ \A j \in OthersOf(cpu.pr) : i <= j
                                      /\ FreeThread(pthreads[cpu.pr][i], cpu.pr)
    BY DEF FreeOther
  <1>2. PICK t \in Tid : /\ t = pthreads[cpu.pr][i] /\ t \in ToSet(pthreads[cpu.pr])
                         /\ t # current
    BY <1>t, <1>1, SetOf DEF OthersOf
  <1>3. tproc[t] = cpu.pr
    BY <1>t, <1>2 DEF IInv, Tables, Members
  <1>4. cpu.pr # 1
    BY <1>0 DEF IInv, Execution, Code, Place, Tables, System
  <1>5. t # Boot
    BY <1>3, <1>4 DEF IInv, Tables, System
  <1>6. ToSet(q[TWait(t)]) = {}
    <2>1. ASSUME NEW u \in Tid, u \in ToSet(q[TWait(t)]) PROVE FALSE
      <3>1. Before(pthreads[cpu.pr], u, t)
        BY <1>3, <2>1 DEF IInv, Tables, Heads, HeadsIn
      <3>2. PICK a \in 1..Len(pthreads[cpu.pr]), b \in 1..Len(pthreads[cpu.pr]) :
               a < b /\ pthreads[cpu.pr][a] = u /\ pthreads[cpu.pr][b] = t
        BY <3>1 DEF Before
      <3>3. i \in 1..Len(pthreads[cpu.pr]) /\ Len(pthreads[cpu.pr]) \in Nat
        BY <1>t, <1>1, SetOf DEF OthersOf
      <3>4. b = i
        <4>1. IsInjective(pthreads[cpu.pr])
          BY <1>t DEF IInv, Tables, Members
        <4> QED BY <1>t, <1>2, <3>2, <3>3, <4>1, SetOf
      <3>5. a \notin OthersOf(cpu.pr)
        BY <1>1, <3>2, <3>3, <3>4
      <3>6. u = current
        BY <3>2, <3>5 DEF OthersOf
      <3>7. tstate[current] = "WAITING"
        BY <1>t, <1>2, <2>1, <3>6, ListNames DEF IInv, Execution, Placed, PlacedIn
      <3> QED BY <1>c, <3>7
    <2>2. ToSet(q[TWait(t)]) \subseteq Tid
      BY <1>t, ListNames, QueueMembers
    <2> QED BY <2>1, <2>2
  <1>7. UNCHANGED <<current, cpu, cr3, plist, pstate, sigq, next_tid, next_pid>>
    BY DEF FreeOther, sigVars, idVars
  <1>8. t # Running /\ cpu.pc \in {"clean", "exit", "free"}
    BY <1>0, <1>2, <1>c
  <1> QED BY <1>t, <1>1, <1>2, <1>5, <1>6, <1>7, <1>8, FreeStep

\* The end of free_process.
LEMMA ReapStep ==
    ASSUME IInv, TInv', FreeDone
    PROVE  IInv'
  <1>0. cpu.pc = "unlink"
    BY DEF FreeDone
  <1>t. /\ TInv /\ cpu.pr \in Pid /\ plist \in Seq(Pid) /\ current \in Tid
        /\ pstate \in [Pid -> {"FREE", "LIVE", "FINISHED"}] /\ tproc \in [Tid -> Pid]
    BY <1>0, Types DEF IInv
  <1>c. Running = current /\ current # Boot /\ tstate[current] = "READY"
    BY <1>0, NotIdle
  <1>p. PICK p \in Pid : p = cpu.pr /\ pstate[p] = "FINISHED" /\ pthreads[p] = <<>> /\ p # 1
    BY <1>0, <1>t DEF IInv, Execution, Code, Place, Tables, System
  <1>k. /\ UNCHANGED <<tstate, tproc, q, pthreads, next_tid, next_pid, kctx, current, cr3>>
        /\ UNCHANGED sigq
    BY DEF FreeDone, thrVars, idVars
  <1>1. CASE parent[p] \notin ToSet(plist)
    <2>1. cpu'.pc = "halt" /\ UNCHANGED Kept
      BY <1>1, <1>k, <1>p DEF FreeDone, AtHalt, K, Kept
    <2>2. Place'
      BY <2>1 DEF Place, InSignal
    <2> QED BY <1>0, <1>c, <1>k, <2>1, <2>2, PlainStep
  <1>2. CASE parent[p] \in ToSet(plist)
    <2>1. /\ pstate' = [pstate EXCEPT ![p] = "FREE"] /\ plist' = Unlink(plist, p)
          /\ cpu'.pc = "handle" /\ cpu'.then = "iret" /\ cpu'.arg = current
      BY <1>2, <1>p DEF FreeDone, AtReturn, K
    <2>2. pstate'[p] = "FREE" /\ \A r \in Pid \ {p} : pstate'[r] = pstate[r]
      BY <1>t, <2>1
    <2>3. \A t \in threads : tproc[t] \in Pid \ {p}
      <3> SUFFICES ASSUME NEW t \in threads, tproc[t] = p PROVE FALSE
        BY <1>t DEF threads
      <3>1. t \in Tid /\ t # Init0
        BY <1>p DEF IInv, Tables, System, threads
      <3>2. t \in ToSet(<<>>)
        BY <1>p, <3>1 DEF IInv, Tables, Members
      <3>3. ToSet(<<>>) = {}
        BY <1>t, EmptySet
      <3> QED BY <3>2, <3>3
    <2>4. threads' = threads
      BY <1>k DEF threads
    <2>5. Linked' /\ Members'
      BY <1>k, <2>4 DEF IInv, Tables, Linked, LinkedIn, Members
    <2>6. Heads'
      <3>1. \A r \in Pid : ToSet(q[PWait(r)]) # {} => pstate'[r] = "LIVE"
        BY <1>p, <2>2 DEF IInv, Tables, Heads, HeadsIn
      <3> QED BY <1>k, <3>1 DEF IInv, Tables, Heads, HeadsIn
    <2>7. Processes'
      <3>0. Processes
        BY DEF IInv, Tables
      <3>1. ToSet(plist') = ToSet(plist) \ {p} /\ IsInjective(plist')
        BY <1>t, <2>1, <3>0, UnlinkSet DEF Processes
      <3>2. \A r \in Pid : r \in ToSet(plist') <=> pstate'[r] # "FREE"
        BY <2>2, <3>0, <3>1 DEF Processes
      <3>3. \A t \in threads' : /\ pstate'[tproc'[t]] # "FREE"
                                /\ pstate'[tproc'[t]] = "FINISHED" => tstate'[t] = "FINISHED"
        BY <1>k, <2>2, <2>3, <2>4, <3>0 DEF Processes
      <3> QED BY <3>1, <3>2, <3>3 DEF Processes
    <2>8. System'
      <3>1. pstate'[1] = "LIVE" /\ \A r \in Pid : r >= next_pid => pstate'[r] = "FREE"
        BY <1>p, <2>2, Constants DEF IInv, Tables, System
      <3> QED BY <1>k, <3>1 DEF IInv, Tables, System
    <2>9. Running' = current
      BY <2>1 DEF Running
    <2>10. Placed' /\ Base'
      BY <1>k, <1>c, <2>9 DEF IInv, Execution, Placed, PlacedIn, Base
    <2>11. Code'
      BY <1>k, <1>c, <2>1, <2>9 DEF Code, Place, ToUser, InSignal
    <2>12. Contexts'
      BY <1>k, <1>c, <2>1, <2>4, <2>9 DEF IInv, Execution, Contexts
    <2>13. Signals'
      <3>1. NoNewPending'
        BY <1>0, <1>k, <2>4 DEF IInv, Execution, Signals, NoNewPending, New, Pending
      <3> QED BY <1>k, <3>1 DEF IInv, Execution, Signals
    <2> QED BY <2>5, <2>6, <2>7, <2>8, <2>10, <2>11, <2>12, <2>13 DEF IInv, Tables, Execution
  <1> QED BY <1>1, <1>2

-----------------------------------------------------------------------------
(* The theorems *)

\* Every step of an orderly system preserves the inductive invariant.
LEMMA NextI ==
    ASSUME Orderly, IInv, [Next]_vars
    PROVE  IInv'
  <1>0. TInv'
    BY NextT DEF IInv
  <1>1. CASE Kernel
    <2>1. CASE CleanFree
      BY <1>0, <2>1, CleanStep
    <2>2. CASE SwitchTo \/ Iret
      BY <1>0, <2>2, SwitchSteps
    <2>3. CASE CheckWaiting
      BY <1>0, <2>3, WaitingSteps
    <2>4. CASE SignalSent
      <3>1. CASE cpu.by = "segv"
        BY <1>0, <2>4, <3>1, PreemptSteps
      <3>2. CASE cpu.by # "segv"
        BY <1>0, <2>4, <3>2, WaitingSteps
      <3> QED BY <3>1, <3>2
    <2>5. CASE HandleNone \/ HandleIgnore \/ HandleTerminate
      BY <1>0, <2>5, HandleSteps
    <2>6. CASE HandleCustom
      BY <1>0, <2>6, HandlerStep
    <2>7. CASE FreeOther
      BY <1>0, <2>7, FreeOtherStep
    <2>8. CASE ExitDone
      BY <1>0, <2>8, ExitStep
    <2>9. CASE WaitTest
      <3>1. CASE pstate[cpu.pr] = "LIVE"
        BY <1>0, <2>9, <3>1, SleepStep
      <3>2. CASE pstate[cpu.pr] # "LIVE"
        BY <1>0, <2>9, <3>2, FamilySteps
      <3> QED BY <3>1, <3>2
    <2>10. CASE FreeAdopt \/ AdoptNext \/ AdoptDone
      BY <1>0, <2>10, FamilySteps
    <2>11. CASE FreeDone
      BY <1>0, <2>11, ReapStep
    <2> QED BY <1>1, <2>1, <2>2, <2>3, <2>4, <2>5, <2>6, <2>7, <2>8, <2>9, <2>10, <2>11
            DEF Kernel
  <1>2. CASE User
    <2>1. CASE Yield
      BY <1>0, <2>1, PreemptSteps
    <2>2. CASE Fork
      BY <1>0, <2>2, ForkStep
    <2>3. CASE ThreadFork
      BY <1>0, <2>3, ThreadForkStep
    <2>4. CASE PageFault \/ \E p \in Pid, s \in Sig : Kill(p, s)
      BY <1>0, <2>4, SendSteps
    <2>5. CASE ReturnFromSignal
      <3>1. CASE kind[current] = "clone"
        BY <1>0, <2>5, <3>1, CallSteps
      <3>2. CASE kind[current] # "clone"
        BY <1>0, <2>5, <3>2, ReturnStep
      <3> QED BY <3>1, <3>2
    <2>6. CASE \/ Exit \/ Execve
               \/ \E p \in Pid : Waitpid(p)
               \/ \E s \in Sig, h \in Handlers : Signal(s, h)
      BY <1>0, <2>6, CallSteps
    <2> QED BY <1>2, <2>1, <2>2, <2>3, <2>4, <2>5, <2>6 DEF User
  <1>3. CASE TimerSchedule
    BY <1>0, <1>3, PreemptSteps
  <1>4. CASE UNCHANGED vars
    <2>1. /\ UNCHANGED <<tstate, tproc, q, pthreads, pstate, plist, next_tid, next_pid>>
          /\ UNCHANGED <<kctx, current, cr3, cpu, sigq>>
      BY <1>4 DEF vars, thrVars, procVars, sigVars, idVars
    <2>2. Tables'
      BY <2>1, TablesKept DEF IInv
    <2>3. Running' = Running /\ threads' = threads
      BY <2>1 DEF Running, threads
    <2>4. Placed' /\ Base' /\ Code'
      BY <2>1, <2>3 DEF IInv, Execution, Placed, PlacedIn, Base, Code, Place, ToUser, InSignal
    <2>5. Contexts' /\ Signals'
      BY <2>1, <2>3 DEF IInv, Execution, Contexts, Signals, NoNewPending, New, Pending
    <2> QED BY <1>0, <2>2, <2>4, <2>5 DEF IInv, Execution
  <1> QED BY <1>1, <1>2, <1>3, <1>4 DEF Next

\* In an orderly system the inductive invariant holds for good.
LEMMA Invariance ==
    ASSUME Orderly
    PROVE  Spec => []IInv
  <1>1. IInv /\ [Next]_vars => IInv'
    BY NextI
  <1> QED BY <1>1, InitI, PTL DEF Spec

\* Lists of threads: no node of a list is ever linked a second time, whatever
\* the order of exits, waits, handlers and context switches, so that the
\* pointer macros of lists.h work on well-formed lists.
THEOREM LinkedOnceSafe == ASSUME Orderly PROVE Spec => []LinkedOnce
  <1>1. IInv => LinkedOnce
    <2> SUFFICES ASSUME IInv PROVE LinkedOnce
      OBVIOUS
    <2>1. q \in Queues /\ LinkedIn(q)
      BY Types DEF IInv, Tables, Linked
    <2>2. ASSUME NEW l \in Occupied, NEW i \in 1..Len(q[l]), NEW j \in 1..Len(q[l]),
                 q[l][i] = q[l][j]
          PROVE  i = j
      <3>1. l \in Lists
        BY DEF Occupied
      <3>2. q[l] \in Seq(Tid) /\ IsInjective(q[l])
        BY <2>1, <3>1, QueueMembers DEF LinkedIn
      <3> QED BY <2>2, <3>2, SetOf
    <2>3. ASSUME NEW l \in Occupied, NEW m \in Occupied, l # m
          PROVE  ToSet(q[l]) \cap ToSet(q[m]) = {}
      <3>1. l \in Lists /\ m \in Lists
        BY DEF Occupied
      <3>2. ToSet(q[l]) \subseteq Tid
        BY <2>1, <3>1, QueueMembers
      <3>3. \A t \in Tid : ~ (t \in ToSet(q[l]) /\ t \in ToSet(q[m]))
        BY <2>1, <2>3, <3>1 DEF LinkedIn
      <3> QED BY <3>2, <3>3
    <2> QED BY <2>2, <2>3 DEF LinkedOnce
  <1>2. Spec => []IInv
    BY Invariance
  <1> QED BY <1>1, <1>2, PTL

\* Scheduler: every ready thread but the running one is on the run queue,
\* every sleeping one on a waiting list, and no other is on a list: no thread
\* is lost by schedule() and none runs while it is queued.
THEOREM QueueMatchesStateSafe == ASSUME Orderly PROVE Spec => []QueueMatchesState
  <1>1. IInv => QueueMatchesState
    <2> SUFFICES ASSUME IInv, NEW t \in threads
                 PROVE  /\ t \in ToSet(q[RunQ]) <=> tstate[t] = "READY" /\ t # Running
                        /\ (\E l \in Occupied \ {RunQ} : t \in ToSet(q[l]))
                              <=> tstate[t] = "WAITING"
      BY DEF QueueMatchesState
    <2>1. /\ t \in ToSet(q[RunQ]) <=> tstate[t] = "READY" /\ t # Running
          /\ (\E l \in Lists \ {RunQ} : t \in ToSet(q[l])) <=> tstate[t] = "WAITING"
      BY DEF IInv, Execution, Placed, PlacedIn, threads
    <2>2. \A l \in Lists : t \in ToSet(q[l]) => l \in Occupied
      <3> SUFFICES ASSUME NEW l \in Lists, t \in ToSet(q[l]), q[l] = <<>> PROVE FALSE
        BY DEF Occupied
      <3>1. q[l] \in Seq(Tid)
        BY Types, QueueMembers DEF IInv
      <3> QED BY <3>1, EmptySet
    <2>3. Occupied \subseteq Lists
      BY DEF Occupied
    <2> QED BY <2>1, <2>2, <2>3
  <1>2. Spec => []IInv
    BY Invariance
  <1> QED BY <1>1, <1>2, PTL

\* free_thread and free_process: what they free is on no list, and no list
\* that still has members has its head in freed memory.
THEOREM NoFreedMemberOrHeadSafe == ASSUME Orderly PROVE Spec => []NoFreedMemberOrHead
  <1>1. IInv => NoFreedMemberOrHead
    <2> SUFFICES ASSUME IInv, NEW l \in Occupied
                 PROVE  /\ ToSet(q[l]) \subseteq threads
                        /\ \/ l = RunQ
                           \/ \E p \in ToSet(plist) : l = PWait(p)
                           \/ \E t \in threads : l = TWait(t)
      BY DEF NoFreedMemberOrHead
    <2>1. l \in Lists /\ q[l] # <<>>
      BY DEF Occupied
    <2>2. q[l] \in Seq(Tid) /\ ToSet(q[l]) \subseteq Tid
      BY <2>1, Types, QueueMembers DEF IInv
    <2>3. ToSet(q[l]) \subseteq threads
      <3> SUFFICES ASSUME NEW t \in ToSet(q[l]) PROVE t \in threads
        OBVIOUS
      <3>1. t \in Tid
        BY <2>2
      <3>2. tstate[t] \in {"READY", "WAITING"}
        BY <2>1, <3>1 DEF IInv, Execution, Placed, PlacedIn
      <3> QED BY <3>1, <3>2 DEF threads
    <2>4. PICK u \in Tid : u \in ToSet(q[l])
      BY <2>1, <2>2, EmptySet
    <2>5. ASSUME NEW p \in Pid, l = PWait(p) PROVE p \in ToSet(plist)
      <3>1. pstate[p] = "LIVE"
        BY <2>4, <2>5 DEF IInv, Tables, Heads, HeadsIn
      <3> QED BY <3>1 DEF IInv, Tables, Processes
    <2>6. ASSUME NEW h \in Tid, l = TWait(h) PROVE h \in threads
      <3>1. tstate[h] \in {"READY", "WAITING"}
        BY <2>4, <2>6 DEF IInv, Tables, Heads, HeadsIn
      <3> QED BY <3>1 DEF threads
    <2>7. l = RunQ \/ (\E p \in Pid : l = PWait(p)) \/ (\E t \in Tid : l = TWait(t))
      BY <2>1, ListNames
    <2> QED BY <2>3, <2>5, <2>6, <2>7
  <1>2. Spec => []IInv
    BY Invariance
  <1> QED BY <1>1, <1>2, PTL

\* clean_threads, exit_process and free_process never free the stack in use,
\* the thread being switched to, or their processes.
THEOREM RunningAllocatedSafe == ASSUME Orderly PROVE Spec => []RunningAllocated
  <1>1. IInv => RunningAllocated
    <2> SUFFICES ASSUME IInv PROVE RunningAllocated
      OBVIOUS
    <2>1. TInv /\ current \in Tid /\ Running \in Tid /\ tproc \in [Tid -> Pid]
      BY Types DEF IInv
    <2>2. current \in threads /\ Running \in threads
      BY <2>1 DEF IInv, Execution, Base, threads
    <2>3. \A t \in threads : tproc[t] \in ToSet(plist)
      BY <2>1 DEF IInv, Tables, Processes, threads
    <2> QED BY <2>2, <2>3 DEF RunningAllocated
  <1>2. Spec => []IInv
    BY Invariance
  <1> QED BY <1>1, <1>2, PTL

\* switch_process: user code runs in its own address space, in a ready thread
\* of a process that has not exited.
THEOREM OwnAddressSpaceSafe == ASSUME Orderly PROVE Spec => []OwnAddressSpace
  <1>1. IInv => OwnAddressSpace
    <2> SUFFICES ASSUME IInv, cpu.pc = "user"
                 PROVE  /\ cr3 = tproc[current] /\ tstate[current] = "READY"
                        /\ pstate[tproc[current]] = "LIVE"
      BY DEF OwnAddressSpace
    <2>1. /\ TInv /\ current \in Tid /\ tproc \in [Tid -> Pid]
          /\ pstate \in [Pid -> {"FREE", "LIVE", "FINISHED"}]
      BY Types DEF IInv
    <2>2. Running = current
      BY DEF Running
    <2>3. cr3 = tproc[current] /\ tstate[current] = "READY"
      BY <2>2 DEF IInv, Execution, Base
    <2>4. pstate[tproc[current]] # "FREE" /\ pstate[tproc[current]] # "FINISHED"
      BY <2>1, <2>3 DEF IInv, Tables, Processes, threads
    <2> QED BY <2>1, <2>3, <2>4
  <1>2. Spec => []IInv
    BY Invariance
  <1> QED BY <1>1, <1>2, PTL

\* What a step may not do to processes and threads that are finished.
Final ==
    /\ \A p \in ToSet(plist) : p \notin ToSet(plist') => pstate[p] = "FINISHED"
    /\ \A t \in threads : tstate[t] = "FINISHED" => tstate'[t] \in {"FINISHED", "FREE"}
    /\ \A p \in ToSet(plist) : pstate[p] = "FINISHED" => pstate'[p] # "LIVE"

\* No step wakes a finished thread or revives a finished process.
LEMMA FinalStep ==
    ASSUME IInv, [Next]_vars
    PROVE  Final
  <1>t. /\ TInv /\ current \in Tid /\ plist \in Seq(Pid)
        /\ tstate \in [Tid -> {"FREE", "READY", "WAITING", "FINISHED"}]
        /\ pstate \in [Pid -> {"FREE", "LIVE", "FINISHED"}]
        /\ ToSet(plist) \subseteq Pid /\ threads \subseteq Tid
        /\ \A p \in ToSet(plist) : pstate[p] # "FREE"
    <2>1. TInv /\ plist \in Seq(Pid)
      BY Types DEF IInv
    <2>2. ToSet(plist) \subseteq Pid
      BY <2>1, SetOf
    <2>3. \A p \in ToSet(plist) : pstate[p] # "FREE"
      BY <2>2 DEF IInv, Tables, Processes
    <2> QED BY <2>1, <2>2, <2>3, Types DEF threads
  <1>w. \A l \in Lists \ {RunQ}, t \in Tid : t \in ToSet(q[l]) => tstate[t] = "WAITING"
    BY DEF IInv, Execution, Placed, PlacedIn
  <1>1. CASE UNCHANGED <<tstate, plist, pstate>>
    BY <1>1, <1>t DEF Final
  <1>2. CASE CleanFree \/ FreeOther
    <2>1. UNCHANGED <<plist, pstate>>
      BY <1>2 DEF CleanFree, FreeOther
    <2>2. PICK u : tstate' = [tstate EXCEPT ![u] = "FREE"]
      BY <1>2 DEF CleanFree, FreeOther, FreeThread
    <2>3. \A t \in threads : tstate'[t] \in {tstate[t], "FREE"}
      BY <1>t, <2>2
    <2> QED BY <1>t, <2>1, <2>3 DEF Final
  <1>3. CASE HandleCustom
    <2>1. UNCHANGED <<plist, pstate>> /\ cpu.pc = "handle" /\ Pending(tproc[cpu.arg])
      BY <1>3 DEF HandleCustom
    <2>2. PICK h \in Tid : h = next_tid
      BY <1>3 DEF HandleCustom, AllocThread
    <2>3. tstate' = [tstate EXCEPT ![h] = "READY", ![cpu.arg] = "WAITING"]
      BY <1>3, <2>2 DEF HandleCustom
    <2>4. tstate[h] = "FREE"
      BY <2>2, NextThread
    <2>5. tstate[cpu.arg] # "FINISHED" /\ cpu.arg \in Tid
      <3>1. cpu.arg \in Tid /\ cpu.then \in {"iret", "check", "sent"}
        BY <2>1, <1>t, Types
      <3>2. Running = current /\ (cpu.then = "iret" => cpu.arg = current)
        BY <2>1, Delivery
      <3>3. tstate[current] = "READY"
        BY <3>2 DEF IInv, Execution, Base
      <3>4. cpu.arg = current \/ tstate[cpu.arg] = "WAITING"
        BY <2>1, <3>1, <3>2 DEF IInv, Execution, Code, Place, InSignal
      <3> QED BY <3>1, <3>3, <3>4
    <2>6. \A t \in threads : tstate[t] = "FINISHED" => tstate'[t] = "FINISHED"
      BY <1>t, <2>3, <2>4, <2>5
    <2> QED BY <2>1, <2>6 DEF Final
  <1>4. CASE ExitDone
    <2>1. /\ plist' = plist /\ cpu.pc = "exit" /\ pstate' = [pstate EXCEPT ![cpu.pr] = "FINISHED"]
          /\ tstate' = [t \in Tid |-> IF t \in ToSet(q[PWait(cpu.pr)]) THEN "READY"
                                      ELSE IF t = current THEN "FINISHED" ELSE tstate[t]]
      BY <1>4 DEF ExitDone
    <2>2. PWait(cpu.pr) \in Lists \ {RunQ}
      BY <2>1, <1>t, Types, ListNames
    <2>3. \A t \in threads : tstate[t] = "FINISHED" => tstate'[t] = "FINISHED"
      BY <1>t, <1>w, <2>1, <2>2
    <2>4. \A p \in Pid : pstate[p] = "FINISHED" => pstate'[p] = "FINISHED"
      BY <1>t, <2>1
    <2> QED BY <1>t, <2>1, <2>3, <2>4 DEF Final
  <1>5. CASE WaitTest
    <2>1. UNCHANGED <<plist, pstate>> /\ cpu.pc = "wait"
      BY <1>5 DEF WaitTest, procVars
    <2>2. tstate' = tstate \/ tstate' = [tstate EXCEPT ![current] = "WAITING"]
      BY <1>5 DEF WaitTest
    <2>3. tstate[current] = "READY"
      BY <2>1, NotIdle
    <2>4. \A t \in threads : tstate[t] = "FINISHED" => tstate'[t] = "FINISHED"
      BY <1>t, <2>2, <2>3
    <2> QED BY <2>1, <2>4 DEF Final
  <1>6. CASE ReturnFromSignal
    <2>1. UNCHANGED <<plist, pstate>>
      BY <1>6 DEF ReturnFromSignal, procVars
    <2>2. \/ tstate' = tstate
          \/ tstate' = [t \in Tid |-> IF t = current THEN "FINISHED"
                                      ELSE IF t \in ToSet(q[TWait(current)]) THEN "READY"
                                      ELSE tstate[t]]
      BY <1>6 DEF ReturnFromSignal
    <2>3. TWait(current) \in Lists \ {RunQ}
      BY <1>t, ListNames
    <2>4. \A t \in threads : tstate[t] = "FINISHED" => tstate'[t] = "FINISHED"
      BY <1>t, <1>w, <2>2, <2>3
    <2> QED BY <2>1, <2>4 DEF Final
  <1>7. CASE ThreadFork \/ Fork
    <2>1. PICK h \in Tid : h = next_tid /\ tstate[h] = "FREE"
      <3>1. PICK h \in Tid : h = next_tid
        BY <1>7 DEF ThreadFork, Fork, AllocThread
      <3> QED BY <3>1, NextThread
    <2>2. PICK v : tstate' = [tstate EXCEPT ![h] = v]
      BY <1>7, <2>1 DEF ThreadFork, Fork
    <2>3. \A t \in threads : tstate'[t] = tstate[t]
      BY <1>t, <2>1, <2>2 DEF threads
    <2>4. CASE ThreadFork
      BY <2>3, <2>4 DEF Final, ThreadFork
    <2>5. CASE Fork
      <3>1. PICK c \in Pid : c = next_pid
        BY <2>5 DEF Fork
      <3>2. plist' = Append(plist, c) /\ pstate' = [pstate EXCEPT ![c] = "LIVE"]
        BY <2>5, <3>1 DEF Fork
      <3>3. pstate[c] = "FREE"
        BY <3>1, <1>t, Types DEF IInv, Tables, System, Pid
      <3>4. ToSet(plist') = ToSet(plist) \cup {c}
        BY <1>t, <3>2, AppendSet
      <3>5. \A p \in ToSet(plist) : pstate'[p] = pstate[p]
        BY <1>t, <3>2, <3>3
      <3> QED BY <2>3, <3>4, <3>5 DEF Final
    <2> QED BY <1>7, <2>4, <2>5
  <1>8. CASE FreeDone
    <2>1. tstate' = tstate /\ cpu.pc = "unlink"
      BY <1>8 DEF FreeDone, thrVars
    <2>2. \/ UNCHANGED <<plist, pstate>>
          \/ plist' = Unlink(plist, cpu.pr) /\ pstate' = [pstate EXCEPT ![cpu.pr] = "FREE"]
      BY <1>8 DEF FreeDone
    <2>3. pstate[cpu.pr] = "FINISHED"
      BY <2>1 DEF IInv, Execution, Code, Place
    <2>4. \A p \in ToSet(plist) : p \notin ToSet(plist') => p = cpu.pr
      BY <1>t, <2>2, UnlinkSet
    <2>5. \A p \in Pid : pstate'[p] \in {pstate[p], "FREE"}
      BY <1>t, <2>2
    <2> QED BY <1>t, <2>1, <2>3, <2>4, <2>5 DEF Final
  <1>9. CASE \/ SwitchTo \/ CheckWaiting \/ SignalSent \/ Iret
             \/ HandleNone \/ HandleIgnore \/ HandleTerminate
             \/ FreeAdopt \/ AdoptNext \/ AdoptDone
             \/ TimerSchedule \/ Yield \/ Exit \/ Execve \/ PageFault
             \/ (\E p \in Pid : Waitpid(p))
             \/ (\E s \in Sig, h \in Handlers : Signal(s, h))
             \/ (\E p \in Pid, s \in Sig : Kill(p, s))
             \/ UNCHANGED vars
    <2>1. UNCHANGED <<tstate, plist, pstate>>
      BY <1>9 DEF SwitchTo, CheckWaiting, SignalSent, Iret, HandleNone, HandleIgnore,
            HandleTerminate, FreeAdopt, AdoptNext, AdoptDone, TimerSchedule, Yield, Exit,
            Execve, PageFault, Waitpid, Signal, Kill, vars, thrVars, procVars
    <2> QED BY <1>1, <2>1
  <1> QED BY <1>2, <1>3, <1>4, <1>5, <1>6, <1>7, <1>8, <1>9 DEF Next, Kernel, User

\* waitpid and free_process: a process leaves the process list only after it
\* has finished, a finished thread never becomes ready again and a finished
\* process never runs again.
THEOREM ReapedOnceFinishedSafe == ASSUME Orderly PROVE Spec => ReapedOnceFinished
  <1>1. IInv /\ [Next]_vars => [Final]_vars
    BY FinalStep
  <1>2. Spec => [][Final]_vars
    BY <1>1, Invariance, PTL DEF Spec
  <1> QED BY <1>2 DEF ReapedOnceFinished, Final

=============================================================================
