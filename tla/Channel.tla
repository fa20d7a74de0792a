------------------------------- MODULE Channel -------------------------------
(***************************************************************************)
(* What a pipe promises while somebody can read from it: a bounded channel *)
(* of bytes, first in, first out.  Pipe implements this specification.     *)
(***************************************************************************)
EXTENDS Integers, Sequences

CONSTANTS Users, Capacity, EOF

VARIABLES open,       \* does the read end exist
          pending,    \* per user, the bytes it still has to write
          chan,       \* bytes written and not read
          delivered   \* result of the read that returned last

cvars == <<open, pending, chan, delivered>>

CInit == /\ open = TRUE
         /\ pending = [u \in Users |-> <<>>]
         /\ chan = <<>>
         /\ delivered = <<>>

\* A user starts a write, or gives up one.
Submit(u) == /\ pending' = [pending EXCEPT ![u] = pending'[u]]
             /\ UNCHANGED <<open, chan, delivered>>

\* The first k bytes of a write go to the end of the channel.
Send(u, k) == /\ k <= Len(pending[u])
              /\ Len(chan) + k <= Capacity
              /\ chan' = chan \o SubSeq(pending[u], 1, k)
              /\ pending' = [pending EXCEPT ![u] = SubSeq(@, k + 1, Len(@))]
              /\ UNCHANGED <<open, delivered>>

\* A read takes the oldest bytes.
Receive(k) == /\ k <= Len(chan)
              /\ delivered' = SubSeq(chan, 1, k)
              /\ chan' = SubSeq(chan, k + 1, Len(chan))
              /\ UNCHANGED <<open, pending>>

End == delivered' = <<EOF>> /\ UNCHANGED <<open, pending, chan>>

HangUp == open' = FALSE

\* Nothing is promised once the read end is closed, and it stays closed.
CNext == \/ open /\ \E u \in Users : \/ Submit(u)
                                     \/ \E k \in 1..Capacity : Send(u, k)
         \/ open /\ \E k \in 1..Capacity : Receive(k)
         \/ open /\ (End \/ HangUp)
         \/ ~ open /\ UNCHANGED open

CSpec == CInit /\ [][CNext]_cvars
=============================================================================
