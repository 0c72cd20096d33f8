-------------------------- MODULE PostgresSessions --------------------------
(***************************************************************************)
(* The connections of the processes that open a PostgresAuthorityStore     *)
(* (postgres_store.py): API servers, bridges, the command line.  A process *)
(* has one connection and runs one call of the store at a time, statement  *)
(* by statement, beside the statements of the other processes.             *)
(*                                                                         *)
(* External, and modelled from how the store uses them: PostgreSQL at READ *)
(* COMMITTED (a statement sees what is committed when it runs and what its *)
(* own transaction wrote; a row that was selected FOR UPDATE or written is *)
(* locked until the transaction ends), and connection.transaction() of     *)
(* psycopg 3 without autocommit: it begins and commits a transaction if    *)
(* none is open, and is a savepoint inside one that is.  A statement       *)
(* outside of it opens one, which nothing in the store ends.               *)
(*                                                                         *)
(* A statement waits until no other session has locked a row it needs,     *)
(* then locks its rows and takes effect in one step.                       *)
(***************************************************************************)
EXTENDS Naturals, FiniteSets

CONSTANTS
    Session,    \* the processes
    Reader,     \* those that also read outside connection.transaction()
    MaxKept     \* bound: rows that an open transaction has written

ASSUME SessionAssumption == Reader \subseteq Session /\ MaxKept \in Nat

VARIABLE
    session     \* session[s]: the connection of process s

\* Rows by key: none, one, and rows written over others.
NoRows == << >>

RowAt(key, row) == [k \in {key} |-> row]

Over(rows, others) ==
    [k \in DOMAIN rows \cup DOMAIN others |->
       IF k \in DOMAIN rows THEN rows[k] ELSE others[k]]

Idle == [step |-> "idle"]

\* open: a bare read has begun a transaction.  kept, held: what the finished
\* calls wrote and locked in it.  op: the call under way and its next
\* statement.  rows: what its statements see over the committed tables, by
\* key; locks: the rows it has locked.
Connected == [open |-> FALSE, kept |-> NoRows, held |-> {},
              op |-> Idle, rows |-> NoRows, locks |-> {}]

SessionInit == session = [s \in Session |-> Connected]

LockedByOthers(s) ==
    UNION {session[o].locks \cup session[o].held : o \in Session \ {s}}

Free(s, keys) == keys \cap LockedByOthers(s) = {}

At(s, step) == session[s].op.step = step

\* The first statement of a call.
Begins(s, op, rows, locks) ==
    /\ At(s, "idle")
    /\ session' = [session EXCEPT ![s].op = op,
                                  ![s].rows = Over(rows, @),
                                  ![s].locks = locks]

Continues(s, op, locks) ==
    session' = [session EXCEPT ![s].op = op, ![s].locks = @ \cup locks]

\* The last statement and COMMIT.  The tables take rows over session[s].rows.
Commits(s) ==
    /\ ~session[s].open
    /\ session' = [session EXCEPT ![s] = Connected]

\* The last statement and RELEASE SAVEPOINT: nothing is committed, and
\* nothing unlocked.
Releases(s, rows, locks) ==
    LET written == Over(rows, session[s].rows) IN
    /\ session[s].open
    /\ Cardinality(DOMAIN written) <= MaxKept
    /\ session' = [session EXCEPT
                     ![s] = [open |-> TRUE, op |-> Idle,
                             kept |-> written, rows |-> written, locks |-> {},
                             held |-> @.held \cup @.locks \cup locks]]

\* An exception leaves connection.transaction(): ROLLBACK, or ROLLBACK TO
\* SAVEPOINT.
Raises(s) ==
    session' = [session EXCEPT ![s].op = Idle, ![s].locks = {},
                               ![s].rows = session[s].kept]

\* The SELECTs of a method that has no transaction of its own.
Reads(s) ==
    /\ s \in Reader
    /\ At(s, "idle")
    /\ ~session[s].open
    /\ session' = [session EXCEPT ![s].open = TRUE]

\* The process dies, and its transaction with it.
Disconnects(s) ==
    /\ session[s] # Connected
    /\ session' = [session EXCEPT ![s] = Connected]
=============================================================================
