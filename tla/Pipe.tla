-------------------------------- MODULE Pipe --------------------------------
(***************************************************************************)
(* Pipes, kernel/fs/pipes.c: a ring buffer addressed by two free running   *)
(* counters, and one list on which readers and writers sleep together.     *)
(*                                                                         *)
(* The kernel is not preempted, so that an iteration of the outer loop of  *)
(* pipe_read or pipe_write, up to its call of schedule(), is one step.  A  *)
(* thread is in no call, or in a loop and ready to run its next iteration, *)
(* or asleep on pipe->waiting.  Which ready thread runs is left open.      *)
(***************************************************************************)
EXTENDS Integers, Sequences, SequencesExt, Scheduler

CONSTANTS Threads,    \* threads that use the pipe
          Byte,       \* values of a byte
          Size,       \* pipe->size
          Wrap,       \* number of values of read_pos and write_pos
          MaxWrite,   \* bound on the length of a write
          ReadSizes,  \* sizes that are asked for
          MaxOpen,    \* bound on the number of open ends of either kind
          LateOpen    \* may the read end be opened while nobody has it open

\* 2^32 is a multiple of the sizes in use, 512 and 1024.
ASSUME SizeAssumption == /\ Size \in Nat \ {0}
                         /\ Wrap \in Nat
                         /\ Wrap > Size
                         /\ Wrap % Size = 0
ASSUME BoundsAssumption == /\ MaxWrite \in Nat
                           /\ MaxOpen \in Nat \ {0}
                           /\ ReadSizes \subseteq Nat
                           /\ LateOpen \in BOOLEAN

EOF == -1
ASSUME ByteAssumption == EOF \notin Byte

VARIABLES buffer, read_pos, write_pos, readers, writers,
          waiting,    \* pipe->waiting
          call,       \* per thread, the call it is in and what is left of it
          result      \* the bytes of the read that returned last

pipeVars == <<buffer, read_pos, write_pos>>
endVars  == <<readers, writers>>
vars == <<pipeVars, endVars, waiting, call, result>>

Data    == UNION {[1..n -> Byte] : n \in 0..MaxWrite}
NoCall  == [op |-> "none", size |-> 0, data |-> <<>>]
Calls   == [op : {"none", "read", "write"}, size : Nat, data : Data]

\* new_pipe, and vfs_open of both ends as sys_fs.c and keyboard.c do it.
Init ==
    /\ buffer \in [0..(Size - 1) -> Byte]        \* malloc does not clear it
    /\ read_pos = 0
    /\ write_pos = 0
    /\ readers = 1
    /\ writers = 1
    /\ waiting = <<>>
    /\ call = [t \in Threads |-> NoCall]
    /\ result = <<>>

Asleep(t) == t \in ToSet(waiting)
Free(t)   == call[t].op = "none"
Lag       == (write_pos - read_pos) % Wrap
Slot(pos) == (pos % Wrap) % Size

\* The first n bytes after read_pos.
Unread(n) == [i \in 1..n |-> buffer[Slot(read_pos + i - 1)]]

\* Mutant of Stored: every byte goes to the slot of the first.
StoredInPlace(d) ==
    [x \in 0..(Size - 1) |->
        IF d # <<>> /\ Slot(write_pos) = x THEN d[Len(d)] ELSE buffer[x]]

\* The buffer after the bytes of d went in at write_pos, in order.
Stored(d) ==
    [x \in 0..(Size - 1) |->
        LET hits == {i \in 1..Len(d) : Slot(write_pos + i - 1) = x}
        IN  IF hits = {} THEN buffer[x]
            ELSE d[CHOOSE i \in hits : \A k \in hits : k <= i]]

\* Mutant of Room: one byte more than fits.
RoomPlusOne(n) ==
    IF readers = 0 THEN n ELSE Min({n, Max({0, Size + 1 - Lag})})

\* Bytes that a write of n may store now.
Room(n) ==
    IF readers = 0 THEN n ELSE Min({n, Max({0, Size - Lag})})

-----------------------------------------------------------------------------
StartRead(t, n) ==
    /\ Free(t)
    /\ readers > 0
    /\ call' = [call EXCEPT ![t] = [NoCall EXCEPT !.op = "read", !.size = n]]
    /\ UNCHANGED <<pipeVars, endVars, waiting, result>>

StartWrite(t, d) ==
    /\ Free(t)
    /\ writers > 0
    /\ call' = [call EXCEPT ![t] = [NoCall EXCEPT !.op = "write", !.data = d]]
    /\ UNCHANGED <<pipeVars, endVars, waiting, result>>

\* pipe_read when there is no writer: one byte, EOF.
ReadEof(t) ==
    /\ call[t].op = "read" /\ ~ Asleep(t)
    /\ writers = 0
    /\ result' = <<EOF>>
    /\ call' = [call EXCEPT ![t] = NoCall]
    /\ UNCHANGED <<pipeVars, endVars, waiting>>

\* Mutant of Read: the sleepers are not woken.
ReadNoWake(t) ==
    /\ call[t].op = "read" /\ ~ Asleep(t)
    /\ writers > 0
    /\ LET n == Min({Lag, call[t].size})
       IN  /\ read_pos' = (read_pos + n) % Wrap
           /\ IF n = 0
              THEN /\ waiting' = Append(waiting, t)
                   /\ UNCHANGED <<call, result>>
              ELSE /\ UNCHANGED waiting
                   /\ call' = [call EXCEPT ![t] = NoCall]
                   /\ result' = Unread(n)
    /\ UNCHANGED <<buffer, write_pos, endVars>>

\* Mutant of Read: the position is not kept to its width.
ReadNoWrap(t) ==
    /\ call[t].op = "read" /\ ~ Asleep(t)
    /\ writers > 0
    /\ Lag > 0
    /\ read_pos' = read_pos + Min({Lag, call[t].size})
    /\ waiting' = <<>>
    /\ call' = [call EXCEPT ![t] = NoCall]
    /\ result' = Unread(Min({Lag, call[t].size}))
    /\ UNCHANGED <<buffer, write_pos, endVars>>

\* An iteration of pipe_read: what there is, up to the size asked for;
\* scheduler_wake; without a byte, scheduler_sleep and schedule().
Read(t) ==
    /\ call[t].op = "read" /\ ~ Asleep(t)
    /\ writers > 0
    /\ LET n == Min({Lag, call[t].size})
       IN  /\ read_pos' = (read_pos + n) % Wrap
           /\ IF n = 0
              THEN /\ waiting' = <<t>>
                   /\ UNCHANGED <<call, result>>
              ELSE /\ waiting' = <<>>
                   /\ call' = [call EXCEPT ![t] = NoCall]
                   /\ result' = Unread(n)
    /\ UNCHANGED <<buffer, write_pos, endVars>>

\* Mutant of Write: the sleepers are woken only when the call returns.
WriteLateWake(t) ==
    /\ call[t].op = "write" /\ ~ Asleep(t)
    /\ LET d == call[t].data
           n == Room(Len(d))
       IN  /\ buffer' = Stored(SubSeq(d, 1, n))
           /\ write_pos' = (write_pos + n) % Wrap
           /\ IF n < Len(d)
              THEN /\ waiting' = Append(waiting, t)
                   /\ call' = [call EXCEPT ![t].data = SubSeq(d, n + 1, Len(d))]
              ELSE /\ waiting' = <<>>
                   /\ call' = [call EXCEPT ![t] = NoCall]
    /\ UNCHANGED <<read_pos, endVars, result>>

\* An iteration of pipe_write: what fits, or everything when there is no
\* reader; scheduler_wake; unless all is written, sleep and schedule().
Write(t) ==
    /\ call[t].op = "write" /\ ~ Asleep(t)
    /\ LET d == call[t].data
           n == Room(Len(d))
       IN  /\ buffer' = Stored(SubSeq(d, 1, n))
           /\ write_pos' = (write_pos + n) % Wrap
           /\ IF n < Len(d)
              THEN /\ waiting' = <<t>>
                   /\ call' = [call EXCEPT ![t].data = SubSeq(d, n + 1, Len(d))]
              ELSE /\ waiting' = <<>>
                   /\ call' = [call EXCEPT ![t] = NoCall]
    /\ UNCHANGED <<read_pos, endVars, result>>

\* pipe_open of either end: fork_process opens the files of the parent for
\* the child, and /dev/kbdraw can be opened while nobody reads it.
OpenRead  == /\ readers < MaxOpen
             /\ readers > 0 \/ LateOpen
             /\ readers' = readers + 1
             /\ UNCHANGED <<pipeVars, writers, waiting, call, result>>
OpenWrite == /\ writers \in 1..(MaxOpen - 1)
             /\ writers' = writers + 1
             /\ UNCHANGED <<pipeVars, readers, waiting, call, result>>

\* pipe_close of either end, also under a sleeping thread; nobody is woken.
CloseRead  == /\ readers > 0
              /\ readers' = readers - 1
              /\ UNCHANGED <<pipeVars, writers, waiting, call, result>>
CloseWrite == /\ writers > 0
              /\ writers' = writers - 1
              /\ UNCHANGED <<pipeVars, readers, waiting, call, result>>

\* exit_process frees a thread in the middle of a call: free_thread takes it
\* off the list it sleeps on.
Freed(t) ==
    /\ ~ Free(t)
    /\ call' = [call EXCEPT ![t] = NoCall]
    /\ waiting' = Unlink(waiting, t)
    /\ UNCHANGED <<pipeVars, endVars, result>>

Step(t) == ReadEof(t) \/ Read(t) \/ Write(t)

Next ==
    \/ \E t \in Threads :
          \/ Step(t) \/ Freed(t)
          \/ \E n \in ReadSizes : StartRead(t, n)
          \/ \E d \in Data : StartWrite(t, d)
    \/ OpenRead \/ OpenWrite \/ CloseRead \/ CloseWrite

Spec == Init /\ [][Next]_vars

\* A ready thread runs: the scheduler is round robin.
FairSpec == Spec /\ \A t \in Threads : WF_vars(Step(t))
-----------------------------------------------------------------------------
TypeOK ==
    /\ buffer \in [0..(Size - 1) -> Byte]
    /\ read_pos \in 0..(Wrap - 1)
    /\ write_pos \in 0..(Wrap - 1)
    /\ readers \in 0..MaxOpen
    /\ writers \in 0..MaxOpen
    /\ waiting \in Seq(Threads)
    /\ call \in [Threads -> Calls]
    /\ result \in Seq(Byte \cup {EOF})

\* No thread sleeps on work it could do: a sleeping reader has seen the pipe
\* empty and a sleeping writer has seen it full, and it still is.  Readers
\* and writers share one list, and pipe_read and pipe_write wake all of it
\* before they go to sleep themselves.
NoLostWakeup ==
    \A t \in ToSet(waiting) :
        /\ call[t].op = "read"  => Lag = 0
        /\ call[t].op = "write" => Lag >= Size \/ readers = 0
        /\ call[t].op # "none"

\* While the pipe has a reader, the counters stay within one buffer of each
\* other, across their wrap around: no unread byte is overwritten.
NoOverrun == readers > 0 => Lag <= Size

\* What the pipe holds, from the reader's point of view.
Contents == Unread(Lag)

Ch == INSTANCE Channel WITH Users <- Threads, Capacity <- Size,
                            open <- readers > 0, chan <- Contents,
                            pending <- [t \in Threads |-> call[t].data],
                            delivered <- result

\* As long as the read end is open, the ring buffer is a bounded first in,
\* first out channel: each read returns the oldest unread bytes, in the order
\* in which they were written, by however many writers in whatever pieces.
ImplementsChannel == Ch!CSpec

\* A read in progress returns or the data in the pipe goes to another reader;
\* a write in progress returns or fills up the pipe.
ReadersServed ==
    \A t \in Threads :
        call[t].op = "read" /\ Lag > 0 ~> call[t].op # "read" \/ Lag = 0
WritersServed ==
    \A t \in Threads :
        call[t].op = "write" /\ Lag < Size ~> call[t].op # "write" \/ Lag >= Size
=============================================================================
