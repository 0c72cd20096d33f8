---------------------------- MODULE ResultInbox ----------------------------
(***************************************************************************)
(* What the authority promises to the domain bridges that read results     *)
(* from it, without leases, clocks, rows or garbage collection: for every  *)
(* task an append-only stream of batches whose generations never go back,  *)
(* closed for good by a final batch or by the end of the task, and for     *)
(* every position of the stream at most one settlement, consumed or given  *)
(* up.  A position that is settled is never offered again.                 *)
(***************************************************************************)
EXTENDS Naturals, Sequences

CONSTANTS
    Task,
    Payload,
    Generation      \* the generations a lease may have, natural numbers

VARIABLES
    stream,     \* stream[t]: the batches accepted for t
    unread,     \* the positions <<t, s>> still offered to the readers
    closed      \* the tasks that accept no batch any more

vars == <<stream, unread, closed>>

Entry == [gen : Generation, final : BOOLEAN, data : Payload]

Init ==
    /\ stream = [t \in Task |-> << >>]
    /\ unread = {}
    /\ closed = {}

Fresh(t, entry) ==
    \A a \in 1 .. Len(stream[t]) : stream[t][a].gen <= entry.gen

Accept(t, entry) ==
    /\ t \notin closed
    /\ Fresh(t, entry)
    /\ stream' = [stream EXCEPT ![t] = Append(@, entry)]
    /\ unread' = unread \cup {<<t, Len(stream[t])>>}
    /\ closed' = IF entry.final THEN closed \cup {t} ELSE closed

\* The task ends without a final batch: it was finished or given up.
Close(t) ==
    /\ t \notin closed
    /\ closed' = closed \cup {t}
    /\ UNCHANGED <<stream, unread>>

Settle(p) ==
    /\ p \in unread
    /\ unread' = unread \ {p}
    /\ UNCHANGED <<stream, closed>>

Next ==
    \/ \E t \in Task, entry \in Entry : Accept(t, entry)
    \/ \E t \in Task : Close(t)
    \/ \E p \in unread : Settle(p)

Spec == Init /\ [][Next]_vars
=============================================================================
