------------------------------- MODULE Process -------------------------------
(***************************************************************************)
(* Processes, threads, scheduling and signals of the kernel.               *)
(*                                                                         *)
(* The kernel runs on one processor with interrupts disabled, so the only  *)
(* points where another thread can take over are the calls of schedule().  *)
(* The state therefore has one program counter, cpu, and one saved         *)
(* continuation per thread, kctx (thread_t.kernel_thread and the kernel    *)
(* stack it points into).  cpu.pc = "user" means that `current` executes   *)
(* user code (the idle loop, for the boot thread); every other value names *)
(* the place in the kernel where the handler continues, and then no user   *)
(* action and no interrupt is enabled.                                     *)
(*                                                                         *)
(* What a user program does is restricted only by Misuse: the set of       *)
(* behaviours no program under tarfs/ shows but the system calls allow.    *)
(***************************************************************************)
EXTENDS Scheduler, FiniteSets

CONSTANTS
    MaxTid,      \* bound on the threads ever allocated (next_tid)
    MaxPid,      \* bound on the processes ever allocated (next_pid)
    MaxKill,     \* bound on the signals ever sent
    Sig,         \* the signal numbers in use
    Misuse       \* allowed behaviours that no shipped program shows

ASSUME BoundsAssumption == /\ MaxTid \in Nat /\ MaxTid >= 2
                           /\ MaxPid \in Nat /\ MaxPid >= 1
                           /\ MaxKill \in Nat
ASSUME SigAssumption == Sig \subseteq {"KILL", "TERM", "SEGV", "CHLD"}
ASSUME MisuseAssumption ==
    Misuse \subseteq {"signal_new", "signal_burst", "segv_handler", "wait_any",
                      "fork_in_handler"}

Tid  == 1..MaxTid
Pid  == 1..MaxPid
None == 0           \* the null pointer
Boot == 1           \* boot_thread, which runs _idle
Init0 == 2          \* the first user thread, which runs /bin/init

Lists == {RunQ} \cup {PWait(p) : p \in Pid} \cup {TWait(t) : t \in Tid}

VARIABLES
    tstate,      \* thread_t.state, FREE for a thread that is not allocated
    tproc,       \* thread_t.proc
    kind,        \* where the thread's user stack returns to (see below)
    kctx,        \* continuation loaded when the thread is switched to
    q,           \* the queues of Scheduler
    current,     \* owner of the kernel stack in use
    cpu,         \* the kernel's program counter and its locals
    cr3,         \* process whose page directory is loaded
    plist,       \* process_list
    pthreads,    \* process_t.threads
    pstate,      \* process_t.state, FREE for a process that is not allocated
    parent,      \* process_t.parent
    child,       \* process_t.child: the youngest one
    older,       \* process_t.older_sibling
    younger,     \* process_t.younger_sibling
    sigq,        \* process_t.signal_queue
    handler,     \* process_t.signal_handler
    next_tid, next_pid,
    kills        \* signals sent so far (bounded by MaxKill)

thrVars  == <<tstate, tproc, kind>>
family   == <<parent, child, older, younger>>
procVars == <<plist, pthreads, pstate, family>>
sigVars  == <<sigq, handler, kills>>
idVars   == <<next_tid, next_pid>>
vars == <<thrVars, kctx, q, current, cpu, cr3, procVars, sigVars, idVars>>

(***************************************************************************)
(* Continuations.  arg is the thread a kernel function works on (or the    *)
(* sibling a loop has reached), pr the process, by what called             *)
(* signal_process and then where handle_signals returns to.                *)
(***************************************************************************)
PCs == {"user", "first", "handle", "iret", "check", "sent", "exit", "clean",
        "wait", "free", "adopt", "unlink", "halt"}

\* The places the kernel must not reach.
Halts == {"end_of_exit", "after_segv", "after_signal_return", "no_thread",
          "freed_process", "freed_parent", "no_init", "null_sibling", "copied_list_head"}

K(pc, arg, pr, by, then) ==
    [pc |-> pc, arg |-> arg, pr |-> pr, by |-> by, then |-> then]

Context == [pc : PCs, arg : Nat, pr : Nat,
            by : {"none", "kill", "segv"} \cup Halts,
            then : {"none", "iret", "check", "sent"}]

AtUser(t)   == K("user", t, None, "none", "none")
\* kernel_thread = &th->r of a thread that has not run yet
AtFirst(t)  == K("first", t, None, "none", "none")
\* Mutants of AtReturn: the return address of handle_signals is lost; signals
\* are not looked at on the way back to user mode.
AtReturnLost(t) == K("handle", t, None, "none", "none")
AtReturnNoSignals(t) == K("iret", t, None, "none", "none")

\* idt_handler on its way back to user mode: handle_signals(th), then iret
AtReturn(t) == K("handle", t, None, "none", "iret")
AtWait(p)   == K("wait", None, p, "none", "none")
AtHalt(why) == K("halt", None, None, why, "none")

NoKin == [p \in Pid |-> None]

Handlers == {"DFL", "IGN", "CUSTOM"}
AllDefault == [s \in Sig |-> "DFL"]
Terminating == {"KILL", "TERM", "SEGV"}   \* default_sign[] ends in _exit

(***************************************************************************)
(* After kinit: the boot thread and the init thread share process 1; both  *)
(* were inserted into the run queue and switch_kernel_thread(0) took the   *)
(* boot thread from its head.  Only the boot thread is on the process'     *)
(* list of threads.                                                        *)
(***************************************************************************)
Init ==
    /\ tstate = [t \in Tid |-> IF t \in {Boot, Init0} THEN "READY" ELSE "FREE"]
    /\ tproc = [t \in Tid |-> 1]
    /\ kind = [t \in Tid |-> "main"]
    /\ kctx = [t \in Tid |-> IF t = Boot THEN AtUser(Boot) ELSE AtFirst(t)]
    /\ q = [l \in Lists |-> IF l = RunQ THEN <<Init0>> ELSE <<>>]
    /\ current = Boot
    /\ cpu = AtUser(Boot)
    /\ cr3 = 1
    /\ plist = <<1>>
    /\ pthreads = [p \in Pid |-> IF p = 1 THEN <<Boot>> ELSE <<>>]
    /\ pstate = [p \in Pid |-> IF p = 1 THEN "LIVE" ELSE "FREE"]
    /\ parent = NoKin /\ child = NoKin /\ older = NoKin /\ younger = NoKin
    /\ sigq = [p \in Pid |-> <<>>]
    /\ handler = [p \in Pid |-> AllDefault]
    /\ next_tid = 3
    /\ next_pid = 2
    /\ kills = 0

-----------------------------------------------------------------------------
(* thread.c *)

threads == {t \in Tid : tstate[t] # "FREE"}

\* Mutant of FreeThread: the thread stays on its queue.
FreeThreadQueued(t, p) ==
    /\ tstate' = [tstate EXCEPT ![t] = "FREE"]
    /\ tproc' = [tproc EXCEPT ![t] = 1]
    /\ kind' = [kind EXCEPT ![t] = "main"]
    /\ kctx' = [kctx EXCEPT ![t] = AtFirst(t)]
    /\ q' = q
    /\ pthreads' = [pthreads EXCEPT ![p] = Unlink(@, t)]

\* free_thread.  What is left in the freed memory is not looked at again; it
\* gets the values of a thread that was never allocated.
FreeThread(t, p) ==
    /\ tstate' = [tstate EXCEPT ![t] = "FREE"]
    /\ tproc' = [tproc EXCEPT ![t] = 1]
    /\ kind' = [kind EXCEPT ![t] = "main"]
    /\ kctx' = [kctx EXCEPT ![t] = AtFirst(t)]
    /\ q' = scheduler_remove(q, t)
    /\ pthreads' = [pthreads EXCEPT ![p] = Unlink(@, t)]

\* Mutants of Schedule: the caller is not put back on the run queue; the page
\* directory is not switched.
ScheduleDropCurrent(Q, kc) ==
    LET head == scheduler_next(Q, None)
        next == IF head = None THEN Boot ELSE head
    IN  /\ q' = IF head = None THEN Q ELSE scheduler_remove(Q, next)
        /\ kctx' = kc
        /\ cr3' = tproc'[next]
        /\ cpu' = K("clean", next, tproc'[next], "none", "none")

ScheduleKeepCr3(Q, kc) ==
    LET Q1   == IF tstate'[current] = "READY"
                THEN scheduler_insert(Q, current) ELSE Q
        head == scheduler_next(Q1, None)
        next == IF head = None THEN Boot ELSE head
    IN  /\ q' = IF head = None THEN Q1 ELSE scheduler_remove(Q1, next)
        /\ kctx' = kc
        /\ cr3' = cr3
        /\ cpu' = K("clean", next, tproc'[next], "none", "none")

\* schedule(): switch_kernel_thread on the queues Q, saving kc as the
\* continuations.  The new values of tstate and tproc are those of the step.
Schedule(Q, kc) ==
    LET Q1   == IF tstate'[current] = "READY"
                THEN scheduler_insert(Q, current) ELSE Q
        head == scheduler_next(Q1, None)
        next == IF head = None THEN Boot ELSE head
    IN  /\ q' = IF head = None THEN Q1 ELSE scheduler_remove(Q1, next)
        /\ kctx' = kc
        /\ cr3' = tproc'[next]
        /\ cpu' = K("clean", next, tproc'[next], "none", "none")

\* schedule() when nothing but the caller's continuation has changed
ScheduleFrom(Q, k) == Schedule(Q, [kctx EXCEPT ![current] = k])

\* Mutant of Cleanable: the stack in use may be freed.
CleanableCurrent(p) ==
    {i \in 1..Len(pthreads[p]) : tstate[pthreads[p][i]] = "FINISHED"}

\* Threads that clean_threads(p) frees, by their place in the list.
Cleanable(p) ==
    {i \in 1..Len(pthreads[p]) : /\ tstate[pthreads[p][i]] = "FINISHED"
                                 /\ pthreads[p][i] # current}

\* One iteration of clean_threads that frees a finished thread.
CleanFree ==
    /\ cpu.pc = "clean"
    /\ \E i \in Cleanable(cpu.pr) :
          /\ \A j \in Cleanable(cpu.pr) : i <= j
          /\ FreeThread(pthreads[cpu.pr][i], cpu.pr)
    /\ UNCHANGED <<current, cpu, cr3, plist, pstate, family, sigVars, idVars>>

\* End of clean_threads and of switch_kernel_thread: the saved context of the
\* next thread is loaded.  A thread that has not run yet has a user mode
\* frame, and idt_handler calls handle_signals for it on the stack of the
\* thread that called schedule().
SwitchTo ==
    /\ cpu.pc = "clean"
    /\ Cleanable(cpu.pr) = {}
    /\ IF kctx[cpu.arg].pc = "first"
       THEN /\ cpu' = AtReturn(cpu.arg)
            /\ UNCHANGED <<current, kctx>>
       ELSE /\ cpu' = kctx[cpu.arg]
            /\ current' = cpu.arg
            /\ kctx' = [kctx EXCEPT ![cpu.arg] = AtUser(cpu.arg)]
    /\ UNCHANGED <<thrVars, q, cr3, procVars, sigVars, idVars>>

\* alloc_thread: t is the thread that next_tid numbers.
AllocThread(t, p, k) ==
    /\ t = next_tid
    /\ t \in Tid
    /\ next_tid' = next_tid + 1
    /\ tproc' = [tproc EXCEPT ![t] = p]
    /\ kind' = [kind EXCEPT ![t] = k]

\* Thread numbers that pending signals may still need; SIGKILL has no handler.
Reserved == Cardinality({x \in Pid \X (1..MaxKill) :
                             x[2] <= Len(sigq[x[1]]) /\ sigq[x[1]][x[2]] # "KILL"})
MayAlloc == next_tid + Reserved <= MaxTid

-----------------------------------------------------------------------------
(* signals.c *)

\* signal_process(p, s), up to the call of handle_signals at line 102 or the
\* test at line 104.
signal_process(p, s, by) ==
    IF pstate[p] = "FINISHED"
    THEN /\ cpu' = K("sent", None, p, by, "none")
         /\ UNCHANGED sigq
    ELSE /\ sigq' = [sigq EXCEPT ![p] = Append(@, s)]
         /\ cpu' = IF p = tproc[current]
                   THEN K("handle", current, p, by, "check")
                   ELSE K("check", None, p, by, "none")

\* Lines 104-110: the first thread of p is woken up for the signal if it
\* sleeps.
CheckWaiting ==
    /\ cpu.pc = "check"
    /\ cpu' = IF pthreads[cpu.pr] = <<>>
              THEN AtHalt("no_thread")
              ELSE LET th == Head(pthreads[cpu.pr])
                   IN  IF tstate[th] = "WAITING"
                       THEN K("handle", th, cpu.pr, cpu.by, "sent")
                       ELSE K("sent", None, cpu.pr, cpu.by, "none")
    /\ UNCHANGED <<thrVars, kctx, q, current, cr3, procVars, sigVars, idVars>>

\* Return of signal_process: kill() goes back to user mode, the page fault
\* handler calls schedule() and does not expect to come back.
SignalSent ==
    /\ cpu.pc = "sent"
    /\ UNCHANGED tstate
    /\ UNCHANGED tproc
    /\ IF cpu.by = "segv"
       THEN ScheduleFrom(q, AtHalt("after_segv"))
       ELSE /\ cpu' = AtReturn(current)
            /\ UNCHANGED <<kctx, q, cr3>>
    /\ UNCHANGED <<kind, current, procVars, sigVars, idVars>>

\* handle_signals(cpu.arg) returning without having blocked
HandleReturn == cpu' = [cpu EXCEPT !.pc = cpu.then]

Pending(p) == sigq[p] # <<>>

\* No signal is queued.
HandleNone ==
    /\ cpu.pc = "handle"
    /\ ~ Pending(tproc[cpu.arg])
    /\ HandleReturn
    /\ UNCHANGED <<thrVars, kctx, q, current, cr3, procVars, sigVars, idVars>>

Ignored(p, s) ==
    \/ handler[p][s] = "IGN"
    \/ handler[p][s] = "DFL" /\ s \notin Terminating

\* SIG_IGN, or a default handler that does nothing (ignore, stop, continue).
HandleIgnore ==
    /\ cpu.pc = "handle"
    /\ LET p == tproc[cpu.arg] IN
          /\ Pending(p)
          /\ Ignored(p, Head(sigq[p]))
          /\ sigq' = [sigq EXCEPT ![p] = Tail(@)]
    /\ HandleReturn
    /\ UNCHANGED <<thrVars, kctx, q, current, cr3, procVars, handler, kills, idVars>>

\* sighandler_terminate or sighandler_coredump: _exit() by the current thread.
HandleTerminate ==
    /\ cpu.pc = "handle"
    /\ LET p == tproc[cpu.arg] IN
          /\ Pending(p)
          /\ handler[p][Head(sigq[p])] = "DFL"
          /\ Head(sigq[p]) \in Terminating
          /\ sigq' = [sigq EXCEPT ![p] = Tail(@)]
    /\ cpu' = K("exit", None, tproc[current], "none", "none")
    /\ UNCHANGED <<thrVars, kctx, q, current, cr3, procVars, handler, kills, idVars>>

\* A handler of the program: a new thread h runs it, th sleeps on h->waiting.
HandleCustom ==
    /\ cpu.pc = "handle"
    /\ LET th == cpu.arg
           p  == tproc[th]
           h  == next_tid
       IN /\ Pending(p)
          /\ handler[p][Head(sigq[p])] = "CUSTOM"
          /\ AllocThread(h, p, "func")
          /\ pthreads' = [pthreads EXCEPT ![p] = Append(@, h)]
          /\ sigq' = [sigq EXCEPT ![p] = Tail(@)]
          /\ tstate' = [tstate EXCEPT ![h] = "READY", ![th] = "WAITING"]
          /\ LET Q1 == scheduler_remove(scheduler_insert(q, h), h)
                 Q2 == scheduler_sleep(Q1, th, TWait(h))
             IN  Schedule(scheduler_cheat(Q2, h),
                          [kctx EXCEPT ![h] = AtFirst(h),
                                       ![current] = [cpu EXCEPT !.pc = cpu.then]])
    /\ UNCHANGED <<current, plist, pstate, family, handler, kills, next_pid>>

\* idt_handler loads the user mode frame of cpu.arg.
Iret ==
    /\ cpu.pc = "iret"
    /\ current' = cpu.arg
    /\ cpu' = AtUser(cpu.arg)
    /\ UNCHANGED <<thrVars, kctx, q, cr3, procVars, sigVars, idVars>>

-----------------------------------------------------------------------------
(* process.c *)

OthersOf(p) == {i \in 1..Len(pthreads[p]) : pthreads[p][i] # current}

\* One iteration of the loop of exit_process or of free_process that frees a
\* thread of the process.
FreeOther ==
    /\ cpu.pc \in {"exit", "free"}
    /\ \E i \in OthersOf(cpu.pr) :
          /\ \A j \in OthersOf(cpu.pr) : i <= j
          /\ FreeThread(pthreads[cpu.pr][i], cpu.pr)
    /\ UNCHANGED <<current, cpu, cr3, plist, pstate, family, sigVars, idVars>>

\* Mutants of ExitDone: the caller stays ready; the waiters are not woken.
ExitDoneReady ==
    /\ cpu.pc = "exit"
    /\ OthersOf(cpu.pr) = {}
    /\ pstate' = [pstate EXCEPT ![cpu.pr] = "FINISHED"]
    /\ tstate' = [t \in Tid |-> IF t \in ToSet(q[PWait(cpu.pr)]) THEN "READY"
                               ELSE tstate[t]]
    /\ UNCHANGED tproc
    /\ ScheduleFrom(scheduler_wake(q, PWait(cpu.pr)), AtHalt("end_of_exit"))
    /\ UNCHANGED <<kind, current, plist, pthreads, family, sigVars, idVars>>

ExitDoneNoWake ==
    /\ cpu.pc = "exit"
    /\ OthersOf(cpu.pr) = {}
    /\ pstate' = [pstate EXCEPT ![cpu.pr] = "FINISHED"]
    /\ tstate' = [tstate EXCEPT ![current] = "FINISHED"]
    /\ UNCHANGED tproc
    /\ ScheduleFrom(q, AtHalt("end_of_exit"))
    /\ UNCHANGED <<kind, current, plist, pthreads, family, sigVars, idVars>>

\* The rest of exit_process and of _exit: the waiters become ready and the
\* caller gives up the processor for good.
ExitDone ==
    /\ cpu.pc = "exit"
    /\ OthersOf(cpu.pr) = {}
    /\ pstate' = [pstate EXCEPT ![cpu.pr] = "FINISHED"]
    /\ tstate' = [t \in Tid |-> IF t \in ToSet(q[PWait(cpu.pr)]) THEN "READY"
                               ELSE IF t = current THEN "FINISHED" ELSE tstate[t]]
    /\ UNCHANGED tproc
    /\ ScheduleFrom(scheduler_wake(q, PWait(cpu.pr)), AtHalt("end_of_exit"))
    /\ UNCHANGED <<kind, current, plist, pthreads, family, sigVars, idVars>>

\* Mutant of WaitTest: waitpid does not look at the state of the process.
WaitTestNoLoop ==
    /\ cpu.pc = "wait"
    /\ cpu.pr \in ToSet(plist)
    /\ cpu' = [cpu EXCEPT !.pc = "free"]
    /\ UNCHANGED <<thrVars, kctx, q, cr3, current, procVars, sigVars, idVars>>

\* The loop condition of waitpid.
WaitTest ==
    /\ cpu.pc = "wait"
    /\ UNCHANGED tproc
    /\ \/ /\ pstate[cpu.pr] # "LIVE"
          /\ cpu' = IF pstate[cpu.pr] = "FINISHED"
                    THEN [cpu EXCEPT !.pc = "free"] ELSE AtHalt("freed_process")
          /\ UNCHANGED <<tstate, kctx, q, cr3>>
       \/ /\ pstate[cpu.pr] = "LIVE"
          /\ tstate' = [tstate EXCEPT ![current] = "WAITING"]
          /\ ScheduleFrom(scheduler_sleep(q, current, PWait(cpu.pr)), cpu)
    /\ UNCHANGED <<kind, current, procVars, sigVars, idVars>>

\* free_process from line 70 on: the loop over the children starts.
FreeAdopt ==
    /\ cpu.pc = "free"
    /\ OthersOf(cpu.pr) = {}
    /\ cpu' = IF plist = <<>> THEN AtHalt("no_init")
              ELSE IF child[cpu.pr] # None
              THEN K("adopt", child[cpu.pr], cpu.pr, "none", "none")
              ELSE K("unlink", None, cpu.pr, "none", "none")
    /\ UNCHANGED <<thrVars, kctx, q, current, cr3, procVars, sigVars, idVars>>

\* One iteration of the loop at lines 76-80.
AdoptNext ==
    /\ cpu.pc = "adopt"
    /\ older[cpu.arg] # None
    /\ parent' = [parent EXCEPT ![cpu.arg] = Head(plist)]
    /\ cpu' = K("adopt", older[cpu.arg], cpu.pr, "none", "none")
    /\ UNCHANGED <<thrVars, kctx, q, current, cr3, plist, pthreads, pstate,
                   child, older, younger, sigVars, idVars>>

\* Mutant of AdoptDone: the children of init are cut off from the new ones.
AdoptDoneOneWay ==
    /\ cpu.pc = "adopt"
    /\ older[cpu.arg] = None
    /\ child' = [child EXCEPT ![Head(plist)] = child[cpu.pr]]
    /\ cpu' = K("unlink", None, cpu.pr, "none", "none")
    /\ UNCHANGED <<thrVars, kctx, q, current, cr3, plist, pthreads, pstate,
                   parent, older, younger, sigVars, idVars>>

\* Lines 81-83: the children go in front of those of init.
AdoptDone ==
    /\ cpu.pc = "adopt"
    /\ older[cpu.arg] = None
    /\ LET init == Head(plist)
           last == child[init]
       IN  IF last = None
           THEN cpu' = AtHalt("null_sibling") /\ UNCHANGED <<child, older, younger>>
           ELSE /\ older' = [older EXCEPT ![cpu.arg] = last]
                /\ younger' = [younger EXCEPT ![last] = cpu.arg]
                /\ child' = [child EXCEPT ![init] = child[cpu.pr]]
                /\ cpu' = K("unlink", None, cpu.pr, "none", "none")
    /\ UNCHANGED <<thrVars, kctx, q, current, cr3, plist, pthreads, pstate, parent,
                   sigVars, idVars>>

\* The pointer f of process p set to v, when p is not the null pointer.
SetKin(f, p, v) == IF p = None THEN f ELSE [f EXCEPT ![p] = v]

\* Lines 86-107: out of the process tree and of the process list; waitpid
\* returns.
FreeDone ==
    /\ cpu.pc = "unlink"
    /\ LET p == cpu.pr
           heir == IF younger[p] # None THEN younger[p] ELSE older[p]
       IN  IF parent[p] \notin ToSet(plist)
           THEN /\ cpu' = AtHalt("freed_parent")
                /\ UNCHANGED <<plist, pstate, family, handler>>
           ELSE /\ child' = [(IF child[parent[p]] = p
                              THEN SetKin(child, parent[p], heir) ELSE child)
                             EXCEPT ![p] = None]
                /\ younger' = [SetKin(younger, older[p], younger[p]) EXCEPT ![p] = None]
                /\ older' = [SetKin(older, younger[p], older[p]) EXCEPT ![p] = None]
                /\ parent' = [parent EXCEPT ![p] = None]
                /\ pstate' = [pstate EXCEPT ![p] = "FREE"]
                /\ handler' = [handler EXCEPT ![p] = AllDefault]
                /\ plist' = Unlink(plist, p)
                /\ cpu' = AtReturn(current)
    /\ UNCHANGED <<thrVars, kctx, q, current, cr3, pthreads, sigq, kills, idVars>>

-----------------------------------------------------------------------------
(* System calls and interrupts, taken by the current thread in user mode. *)

Me == tproc[current]
InUser == cpu.pc = "user" /\ current # Boot

\* timer_tick with ticks % 10 = 0.  In the idle loop the interrupted context
\* is a kernel mode one and handle_signals is not called on return.
TimerSchedule ==
    /\ cpu.pc = "user"
    /\ UNCHANGED tstate
    /\ UNCHANGED tproc
    /\ ScheduleFrom(q, IF current = Boot THEN AtUser(Boot) ELSE AtReturn(current))
    /\ UNCHANGED <<kind, current, procVars, sigVars, idVars>>

\* yield() has the same effect but for the idle loop, which never calls it.
Yield ==
    /\ InUser
    /\ UNCHANGED tstate
    /\ UNCHANGED tproc
    /\ ScheduleFrom(q, AtReturn(current))
    /\ UNCHANGED <<kind, current, procVars, sigVars, idVars>>

\* fork(): fork_process, clone_thread, scheduler_insert.
Fork ==
    /\ InUser
    /\ next_pid \in Pid
    /\ MayAlloc
    /\ kind[current] = "main" \/ "fork_in_handler" \in Misuse
    /\ LET c == next_pid
           t == next_tid
           elder == child[Me]
       IN /\ AllocThread(t, c, IF kind[current] = "main" THEN "main" ELSE "clone")
          /\ tstate' = [tstate EXCEPT ![t] = tstate[current]]
          /\ kctx' = [kctx EXCEPT ![t] = AtFirst(t)]
          /\ q' = scheduler_insert(q, t)
          /\ plist' = Append(plist, c)
          /\ pthreads' = [pthreads EXCEPT ![c] = <<t>>]
          /\ pstate' = [pstate EXCEPT ![c] = "LIVE"]
          /\ parent' = [parent EXCEPT ![c] = Me]
          /\ child' = [child EXCEPT ![c] = None, ![Me] = c]
          /\ older' = [older EXCEPT ![c] = elder]
          /\ younger' = SetKin([younger EXCEPT ![c] = None], elder, c)
          /\ sigq' = [sigq EXCEPT ![c] = <<>>]
          /\ handler' = [handler EXCEPT ![c] = handler[Me]]
          /\ next_pid' = next_pid + 1
    /\ cpu' = AtReturn(current)
    /\ UNCHANGED <<current, cr3, kills>>

\* exit(): _exit up to the loop of exit_process.
Exit ==
    /\ InUser
    /\ Me # 1                 \* /bin/init never returns
    /\ cpu' = K("exit", None, Me, "none", "none")
    /\ UNCHANGED <<thrVars, kctx, q, current, cr3, procVars, sigVars, idVars>>

WaitsFor(t, p) == t \in threads /\ kctx[t].pc = "wait" /\ kctx[t].pr = p

\* waitpid(p).  Programs wait for a child of theirs, once.
Waitpid(p) ==
    /\ InUser
    /\ p \in ToSet(plist)
    /\ \/ "wait_any" \in Misuse
       \/ /\ parent[p] = Me
          /\ \A t \in Tid \ {current} : ~ WaitsFor(t, p)
    /\ cpu' = AtWait(p)
    /\ UNCHANGED <<thrVars, kctx, q, current, cr3, procVars, sigVars, idVars>>

\* execve() of a program that exists: new image, handlers and queue cleared.
Execve ==
    /\ InUser
    /\ sigq' = [sigq EXCEPT ![Me] = <<>>]
    /\ handler' = [handler EXCEPT ![Me] = AllDefault]
    /\ kind' = [kind EXCEPT ![current] = "main"]
    /\ cpu' = AtReturn(current)
    /\ UNCHANGED <<tstate, tproc, kctx, q, current, cr3, procVars, kills,
                   idVars>>

\* thread_fork(): new_thread in the same process.
ThreadFork ==
    /\ InUser
    /\ MayAlloc
    /\ AllocThread(next_tid, Me, "func")
    /\ tstate' = [tstate EXCEPT ![next_tid] = "READY"]
    /\ kctx' = [kctx EXCEPT ![next_tid] = AtFirst(next_tid)]
    /\ q' = scheduler_insert(q, next_tid)
    /\ pthreads' = [pthreads EXCEPT ![Me] = Append(@, next_tid)]
    /\ cpu' = AtReturn(current)
    /\ UNCHANGED <<current, cr3, plist, pstate, family, sigVars, next_pid>>

\* signal(s, h)
Signal(s, h) ==
    /\ InUser
    /\ s = "KILL" => h = "DFL"
    /\ s = "SEGV" /\ h # "DFL" => "segv_handler" \in Misuse
    /\ handler' = [handler EXCEPT ![Me][s] = h]
    /\ cpu' = AtReturn(current)
    /\ UNCHANGED <<thrVars, kctx, q, current, cr3, procVars, sigq, kills, idVars>>

\* No signal is pending for p, and every thread of p has run unless p is the
\* caller's own process: a signal sent now is handled on the stack of the
\* thread that it interrupts.
Settled(p) ==
    /\ "signal_burst" \in Misuse \/ ~ Pending(p)
    /\ \/ "signal_new" \in Misuse \/ p = Me
       \/ \A t \in threads : tproc[t] = p => kctx[t].pc # "first"

\* kill(p, s).  /bin/init sends no signal and no program signals it.
Kill(p, s) ==
    /\ InUser
    /\ Me # 1
    /\ p \in ToSet(plist) \ {1}
    /\ kills < MaxKill
    /\ s # "KILL" => MayAlloc
    /\ Settled(p)
    /\ signal_process(p, s, "kill")
    /\ kills' = kills + 1
    /\ UNCHANGED <<thrVars, kctx, q, current, cr3, procVars, handler, idVars>>

\* A user mode page fault that procmm cannot handle.
PageFault ==
    /\ InUser
    /\ "SEGV" \in Sig
    /\ Me # 1
    /\ kills < MaxKill
    /\ MayAlloc
    /\ Settled(Me)
    /\ signal_process(Me, "SEGV", "segv")
    /\ kills' = kills + 1
    /\ UNCHANGED <<thrVars, kctx, q, current, cr3, procVars, handler, idVars>>

\* The page fault at SIGNAL_RETURN_ADDRESS when the function of a handler or
\* of a thread_fork thread returns: return_from_signal.  The list head in a
\* cloned thread is a copy whose pointers lead into another thread.
ReturnFromSignal ==
    /\ InUser
    /\ kind[current] # "main"
    /\ UNCHANGED tproc
    /\ IF kind[current] = "clone"
       THEN /\ cpu' = AtHalt("copied_list_head")
            /\ UNCHANGED <<tstate, kctx, q, cr3>>
       ELSE /\ tstate' = [t \in Tid |->
                              IF t = current THEN "FINISHED"
                              ELSE IF t \in ToSet(q[TWait(current)]) THEN "READY"
                              ELSE tstate[t]]
            /\ ScheduleFrom(scheduler_remove(scheduler_wake(q, TWait(current)), current),
                            AtHalt("after_signal_return"))
    /\ UNCHANGED <<kind, current, procVars, sigVars, idVars>>

-----------------------------------------------------------------------------
\* The kernel's own steps: at most one is enabled, and only outside user mode.
Kernel ==
    \/ CleanFree \/ SwitchTo
    \/ CheckWaiting \/ SignalSent
    \/ HandleNone \/ HandleIgnore \/ HandleTerminate \/ HandleCustom \/ Iret
    \/ FreeOther \/ ExitDone \/ WaitTest
    \/ FreeAdopt \/ AdoptNext \/ AdoptDone \/ FreeDone

User ==
    \/ Yield \/ Fork \/ Exit \/ Execve \/ ThreadFork \/ PageFault \/ ReturnFromSignal
    \/ \E p \in Pid : Waitpid(p)
    \/ \E s \in Sig, h \in Handlers : Signal(s, h)
    \/ \E p \in Pid, s \in Sig : Kill(p, s)

Next == Kernel \/ User \/ TimerSchedule

Spec == Init /\ [][Next]_vars

\* The processor executes the kernel, and the timer, whose interrupt stays
\* pending in the PIC while interrupts are off, keeps ticking.
Fairness == WF_vars(Kernel) /\ SF_vars(TimerSchedule)

FairSpec == Spec /\ Fairness

-----------------------------------------------------------------------------
(* Properties. *)

TypeOK ==
    /\ tstate \in [Tid -> {"FREE", "READY", "WAITING", "FINISHED"}]
    /\ tproc \in [Tid -> Pid]
    /\ kind \in [Tid -> {"main", "func", "clone"}]
    /\ q \in [Lists -> Seq(Tid)]
    /\ current \in Tid
    /\ cr3 \in Pid
    /\ plist \in Seq(Pid)
    /\ pthreads \in [Pid -> Seq(Tid)]
    /\ pstate \in [Pid -> {"FREE", "LIVE", "FINISHED"}]
    /\ parent \in [Pid -> Pid \cup {None}]
    /\ child \in [Pid -> Pid \cup {None}]
    /\ older \in [Pid -> Pid \cup {None}]
    /\ younger \in [Pid -> Pid \cup {None}]
    /\ sigq \in [Pid -> Seq(Sig)]
    /\ handler \in [Pid -> [Sig -> Handlers]]
    /\ next_tid \in Nat
    /\ next_pid \in Nat
    /\ kills \in Nat
    /\ cpu \in Context
    /\ kctx \in [Tid -> Context]

\* The thread that the processor works for: the one being switched to, the
\* one whose frame idt_handler is about to load, or the current one.
Running == IF cpu.pc \in {"clean", "iret"} \/ (cpu.pc = "handle" /\ cpu.then = "iret")
           THEN cpu.arg ELSE current

\* The lists that hold a thread.
Occupied == {l \in Lists : q[l] # <<>>}

\* A list node is linked into at most one list, and once: scheduler_insert,
\* scheduler_cheat and scheduler_sleep never link a linked node.
LinkedOnce ==
    /\ \A l \in Occupied : \A i, j \in 1..Len(q[l]) : q[l][i] = q[l][j] => i = j
    /\ \A l, m \in Occupied : l # m => ToSet(q[l]) \cap ToSet(q[m]) = {}

\* Where a thread is follows from its state: ready threads other than the
\* running one are on the run queue, sleeping ones on a waiting list and
\* finished ones nowhere; no thread is lost and none runs while queued.
QueueMatchesState ==
    \A t \in threads :
        /\ t \in ToSet(q[RunQ]) <=> tstate[t] = "READY" /\ t # Running
        /\ (\E l \in Occupied \ {RunQ} : t \in ToSet(q[l])) <=> tstate[t] = "WAITING"

\* Only allocated threads are queued, and only on lists whose head is in an
\* allocated thread or process (free_thread, free_process).
NoFreedMemberOrHead ==
    \A l \in Occupied :
        /\ ToSet(q[l]) \subseteq threads
        /\ \/ l = RunQ
           \/ \E p \in ToSet(plist) : l = PWait(p)
           \/ \E t \in threads : l = TWait(t)

\* The stack in use, the thread switched to and their process are allocated:
\* clean_threads, exit_process and free_process never free them.
RunningAllocated ==
    /\ {current, Running} \subseteq threads
    /\ tproc[current] \in ToSet(plist)
    /\ tproc[Running] \in ToSet(plist)

\* The kernel never reaches the end of _exit, the end of the page fault
\* handler, a null or a freed structure.
NoHalt == cpu.pc # "halt"

\* User code runs in the address space of its own, unfinished process
\* (switch_process in switch_kernel_thread and in handle_signals).
OwnAddressSpace ==
    cpu.pc = "user" => /\ cr3 = tproc[current]
                       /\ tstate[current] = "READY"
                       /\ pstate[tproc[current]] = "LIVE"

\* The sibling lists are doubly linked, lead through allocated processes and
\* start at a youngest child, and no process is lost from them (fork_process,
\* free_process), whenever no free_process is under way.
FamilyTree ==
    cpu.pc \notin {"adopt", "unlink"} =>
        \A p \in ToSet(plist) :
            /\ older[p] # None => older[p] \in ToSet(plist) /\ younger[older[p]] = p
            /\ younger[p] # None => younger[p] \in ToSet(plist) /\ older[younger[p]] = p
            /\ child[p] # None => child[p] \in ToSet(plist) /\ younger[child[p]] = None
            /\ p # 1 /\ younger[p] = None => \E r \in ToSet(plist) : child[r] = p

\* A process leaves the process list only after it finished, and its
\* finished state and those of its threads are final.
ReapedOnceFinished ==
    [][/\ \A p \in ToSet(plist) : p \notin ToSet(plist') => pstate[p] = "FINISHED"
       /\ \A t \in threads : tstate[t] = "FINISHED" => tstate'[t] \in {"FINISHED", "FREE"}
       /\ \A p \in ToSet(plist) : pstate[p] = "FINISHED" => pstate'[p] # "LIVE"]_vars

\* Round robin: a thread on the run queue runs, or its process is gone.
NoStarvation ==
    \A t \in Tid : t \in ToSet(q[RunQ]) ~> (Running = t \/ t \notin threads)

\* waitpid: once the process has finished, the thread that waits for it
\* frees it, unless it is freed itself or sleeps behind a signal handler.
Reaped ==
    \A p \in Pid, t \in Tid :
        WaitsFor(t, p) /\ pstate[p] = "FINISHED"
            ~> \/ pstate[p] = "FREE"
               \/ t \notin threads
               \/ \E h \in threads : t \in ToSet(q[TWait(h)])

\* A signal queued for a live process leaves the queue or the process ends.
SignalTaken ==
    \A p \in Pid : Pending(p) ~> (~ Pending(p) \/ pstate[p] # "LIVE")

(***************************************************************************)
(* What a comment of the code says and the code does not do.               *)
(***************************************************************************)

\* signals.c:20, in sighandler_terminate: "Terminate process".  The process
\* that a signal terminates is the one whose queue it was taken from.
TerminatesTarget ==
    [][cpu.pc = "handle" /\ cpu'.pc = "exit" => cpu'.pr = tproc[cpu.arg]]_vars
=============================================================================
