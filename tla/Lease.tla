-------------------------------- MODULE Lease --------------------------------
(****************************************************************************)
(* Lease (lib/src/Database/_Private/Lease.whim): the reference count that   *)
(* keeps a pooled connection checked out while the PooledConnection, a      *)
(* PooledTransaction, or any PooledResult or PooledStatement made from them *)
(* is in use.  A lease is a record and its operations are operators on it;  *)
(* ConnectionPool puts the entry back when an operation releases the lease. *)
(****************************************************************************)
EXTENDS Naturals

CONSTANTS
  MaxDerived,   \* bound: results and statements ever made from a lease
  MaxCommits    \* bound: overlapping commit/rollback calls on a transaction

ASSUME LeaseAssumption == MaxDerived \in Nat /\ MaxCommits \in Nat

newLease ==
  [references  |-> 1,        \* $references
   reusable    |-> TRUE,     \* $reusable
   released    |-> FALSE,    \* $released
   closed      |-> FALSE,    \* PooledConnection::$closed
   made        |-> 0,        \* results and statements made so far
   derived     |-> 0,        \* those not closed yet
   transaction |-> "none",   \* "open" until PooledTransaction::$closed; "again"
                             \* once a second call has closed it
   commits     |-> 0]        \* commit() and rollback() calls that are awaiting

\* No lease was ever given to the call.
noLease == [newLease EXCEPT !.references = 0, !.released = TRUE, !.closed = TRUE]

Leases ==
  [references : Nat, reusable : BOOLEAN, released : BOOLEAN, closed : BOOLEAN,
   made : Nat, derived : Nat, transaction : {"none", "open", "closed", "again"},
   commits : Nat]

------------------------------------------------------------------------------
retain(l) == [l EXCEPT !.references = @ + 1]

releaseEachTime(l, reusable) ==
  [l EXCEPT !.reusable = @ /\ reusable,
            !.references = IF @ = 0 THEN 0 ELSE @ - 1,
            !.released = TRUE]

\* Lease::release.  The caller hands the entry to the pool when this is the
\* call that sets `released`.
release(l, reusable) ==
  IF l.released THEN l
  ELSE [l EXCEPT !.reusable = @ /\ reusable,
                 !.references = @ - 1,
                 !.released = l.references = 1]

\* PooledConnection::execute and prepare, PooledTransaction::execute,
\* PooledStatement::execute: each retains before it awaits the driver.
derive(l) == retain([l EXCEPT !.derived = @ + 1, !.made = @ + 1])
canDerive(l) == ~l.released /\ l.made < MaxDerived

\* The driver call failed, or the result or statement was closed: `closed` is
\* set before the await, so each releases once.
closeDerived(l, reusable) == release([l EXCEPT !.derived = @ - 1], reusable)

\* PooledConnection::begin
begin(l) == retain([l EXCEPT !.transaction = "open"])
canBegin(l) == ~l.released /\ l.transaction = "none"

\* PooledTransaction::commit, rollback and close up to the await of the driver.
commit(l) == [l EXCEPT !.commits = @ + 1]
canCommit(l) == l.transaction = "open" /\ l.commits < MaxCommits

\* Their finally block: `closed` is set and the lease released only now, by
\* each of the calls that found the transaction open.
committed(l, reusable) ==
  release([l EXCEPT !.commits = @ - 1,
                    !.transaction = IF @ = "open" THEN "closed" ELSE "again"], reusable)

\* PooledConnection::close
closeConnection(l) == release([l EXCEPT !.closed = TRUE], TRUE)

\* The objects that may still use the connection.
handles(l) ==
  l.derived + (IF l.closed THEN 0 ELSE 1) + (IF l.transaction = "open" THEN 1 ELSE 0)

==============================================================================
