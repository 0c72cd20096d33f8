------------------------- MODULE FabricRefinement -------------------------
(***************************************************************************)
(* The authority store implements ResultInbox.  The positions on offer are *)
(* the rows that unconsumed_batches returns; a task is closed when it is   *)
(* COMPLETE or DEAD.                                                       *)
(***************************************************************************)
EXTENDS FabricAuthority

unreadPositions == {<<b.task, b.seq>> : b \in {c \in batches : Unread(c)}}

closedTasks == {t \in Task : work[t].state \in {"COMPLETE", "DEAD"}}

Inbox == INSTANCE ResultInbox WITH Generation <- 1 .. MaxAttempts,
                                   unread <- unreadPositions,
                                   closed <- closedTasks

\* Every step of the authority is a step of the inbox or leaves it alone:
\* leases, crashes, re-claims, retries, quarantine and garbage collection
\* show their readers an ordered stream, each position settled once.
ImplementsInbox == Inbox!Spec
===========================================================================
