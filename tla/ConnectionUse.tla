--------------------------- MODULE ConnectionUse ---------------------------
(***************************************************************************)
(* How one pooled connection is taken, used and given back: explicit       *)
(* transactions (dbkit/_async/transaction.py), the scopes of the executor  *)
(* that commit ("write") or do not ("read") (dbkit/_async/executor.py) and *)
(* streams (dbkit/_async/streaming.py).                                    *)
(*                                                                         *)
(* Every await on the way may succeed, fail, lose the connection or be     *)
(* interrupted by a cancellation of the task.  A cleanup that runs under   *)
(* shield_from_cancellation (_compat.py) is a task of its own, `rolling`   *)
(* or `closing`, which goes on whatever happens to its owner.  The pool    *)
(* and the server are external: close() gives the connection back, rolling *)
(* back what is open on it, and a dead connection is replaced.             *)
(***************************************************************************)
EXTENDS Naturals, FiniteSets

CONSTANTS
  Users,        \* tasks that use connections
  Modes,        \* ways of using them
  PoolSize,     \* connections of the pool
  MaxCancels    \* bound: how often a task is cancelled in one use

AllModes == {"transaction", "write", "read", "stream"}

Awaits ==
  {"connecting", "beginning", "settings", "enter_rollback", "body", "committing",
   "commit_rollback", "rollback", "rollback_again", "invalidating", "undoing",
   "aclosing", "closing", "releasing", "releasing_again"}

ASSUME UseAssumption ==
  /\ IsFiniteSet(Users)
  /\ Modes \subseteq AllModes
  /\ PoolSize \in Nat \ {0}
  /\ MaxCancels \in Nat

VARIABLES
  use,     \* the use each task is in, or the last one it was in
  free,    \* connections the pool can hand out
  leaked   \* connections nobody will ever give back

vars == <<use, free, leaked>>

\* verdict is what the caller will be or has been told, tx what the server has made
\* of the transaction; cut records a cancellation inside the body.
Uses ==
  [mode : AllModes, pc : Awaits \cup {"idle"}, conn : {"none", "live", "broken"},
   tx : {"none", "active", "committed", "aborted"},
   verdict : {"none", "returned", "failed", "unknown", "cancelled"},
   cancels : 0 .. MaxCancels, cut : BOOLEAN, rolling : BOOLEAN, closing : BOOLEAN]

Held(u) == use[u].conn # "none"

TypeOK ==
  /\ use \in [Users -> Uses]
  /\ free \in 0 .. PoolSize /\ leaked \in 0 .. PoolSize
  /\ free + leaked + Cardinality({u \in Users : Held(u)}) = PoolSize

Fresh(mode) ==
  [mode |-> mode, pc |-> "connecting", conn |-> "none", tx |-> "none", verdict |-> "none",
   cancels |-> 0, cut |-> FALSE, rolling |-> FALSE, closing |-> FALSE]

Init ==
  /\ use = [u \in Users |-> [Fresh("read") EXCEPT !.pc = "idle"]]
  /\ free = PoolSize
  /\ leaked = 0

-----------------------------------------------------------------------------
Becomes(u, r) == use' = [use EXCEPT ![u] = r] /\ UNCHANGED <<free, leaked>>

Gone(r) == [r EXCEPT !.pc = "idle"]

\* What is open on a connection is rolled back by ROLLBACK and by close().
Undone(r) == [r EXCEPT !.tx = IF @ = "active" THEN "aborted" ELSE @]

\* The last step of every use: the shielded _release of a transaction, or
\* conn.close() in the frame of a scope or a stream.
ToClose(r) ==
  IF r.mode = "transaction" THEN [r EXCEPT !.pc = "releasing", !.closing = TRUE]
                            ELSE [r EXCEPT !.pc = "closing"]

\* The connection is back in the pool.
GivenBack(u, r) ==
  /\ use' = [use EXCEPT ![u] = [Undone(r) EXCEPT !.conn = "none"]]
  /\ free' = free + 1
  /\ UNCHANGED leaked

\* A task starts to use a connection.  What it held and lost count as leaked.
Start(u, mode) ==
  /\ use[u].pc = "idle" /\ ~use[u].rolling /\ ~use[u].closing
  /\ use' = [use EXCEPT ![u] = Fresh(mode)]
  /\ leaked' = IF Held(u) THEN leaked + 1 ELSE leaked
  /\ UNCHANGED free

-----------------------------------------------------------------------------
(* Entering *)

\* engine.connect() returns; scopes and streams go straight on to their body.
Acquired(u) ==
  /\ use[u].pc = "connecting"
  /\ free > 0
  /\ free' = free - 1
  /\ use' = [use EXCEPT ![u] =
       [@ EXCEPT !.conn = "live",
                 !.pc = IF use[u].mode = "transaction" THEN "beginning" ELSE "body",
                 !.tx = IF use[u].mode = "transaction" THEN "none" ELSE "active"]]
  /\ UNCHANGED leaked

\* engine.connect() raises: the pool timed out or the server is not there.
NotAcquired(u) ==
  /\ use[u].pc = "connecting"
  /\ Becomes(u, [Gone(use[u]) EXCEPT !.verdict = "failed"])

Began(u) ==
  /\ use[u].pc = "beginning"
  /\ Becomes(u, [use[u] EXCEPT !.pc = "settings", !.tx = "active"])

\* execution_options() or begin() raises: _cleanup_on_enter_failure has no _trans.
BeginFails(u) ==
  /\ use[u].pc = "beginning"
  /\ \E conn \in {"live", "broken"} :
       Becomes(u, ToClose([use[u] EXCEPT !.verdict = "failed", !.conn = conn]))

SettingsApplied(u) ==
  /\ use[u].pc = "settings"
  /\ Becomes(u, [use[u] EXCEPT !.pc = "body"])

\* SET LOCAL raises.
SettingsFail(u) ==
  /\ use[u].pc = "settings"
  /\ \E conn \in {"live", "broken"} :
       Becomes(u, [use[u] EXCEPT !.pc = "enter_rollback", !.verdict = "failed", !.conn = conn])

\* Mutant: a failed __aenter__ only rolls back.
EnterRolledBack_NoRelease(u) ==
  /\ use[u].pc = "enter_rollback"
  /\ Becomes(u, Gone(Undone(use[u])))

\* The rollback of _cleanup_on_enter_failure returns or raises an Exception.
EnterRolledBack(u) ==
  /\ use[u].pc = "enter_rollback"
  /\ Becomes(u, ToClose(Undone(use[u])))

-----------------------------------------------------------------------------
(* The body and the commit *)

\* The body ends normally: transactions and writes commit, the others are done.
BodyReturns(u) ==
  /\ use[u].pc = "body"
  /\ \/ /\ use[u].mode \in {"transaction", "write"}
        /\ Becomes(u, [use[u] EXCEPT !.pc = "committing"])
     \/ /\ use[u].mode = "read"
        /\ Becomes(u, ToClose([use[u] EXCEPT !.verdict = "returned"]))
     \/ /\ use[u].mode = "stream"
        /\ Becomes(u, [use[u] EXCEPT !.pc = "aclosing", !.verdict = "returned"])

\* What each mode does first about an exception that leaves its body.
Unwinding(r) ==
  CASE r.mode = "transaction" -> [r EXCEPT !.pc = "rollback", !.rolling = TRUE]
    [] r.mode = "stream"      -> [r EXCEPT !.pc = "aclosing"]
    [] OTHER                  -> [r EXCEPT !.pc = "undoing"]

\* The body raises, on a connection that may be lost.
BodyRaises(u) ==
  /\ use[u].pc = "body"
  /\ \E conn \in {"live", "broken"} :
       Becomes(u, Unwinding([use[u] EXCEPT !.verdict = "failed", !.conn = conn]))

CommitSucceeds(u) ==
  /\ use[u].pc = "committing"
  /\ Becomes(u, ToClose([use[u] EXCEPT !.tx = "committed", !.verdict = "returned"]))

\* Mutant: a connection lost during COMMIT is an ordinary failure.
CommitLost_Classified(u) ==
  /\ use[u].pc = "committing"
  /\ \E tx \in {"committed", "aborted"} :
       Becomes(u, ToClose([use[u] EXCEPT !.tx = tx, !.verdict = "failed", !.conn = "broken"]))

\* COMMIT raises a connection error: the server may have done it or not.
CommitLost(u) ==
  /\ use[u].pc = "committing"
  /\ \E tx \in {"committed", "aborted"} :
       Becomes(u, ToClose([use[u] EXCEPT !.tx = tx, !.verdict = "unknown", !.conn = "broken"]))

\* COMMIT is refused by the server.
CommitFails(u) ==
  /\ use[u].pc = "committing"
  /\ Becomes(u, [use[u] EXCEPT !.pc = "commit_rollback", !.tx = "aborted", !.verdict = "failed"])

\* The rollback after a failed COMMIT returns or raises an Exception.
CommitRolledBack(u) ==
  /\ use[u].pc = "commit_rollback"
  /\ Becomes(u, ToClose(Undone(use[u])))

-----------------------------------------------------------------------------
(* Leaving *)

\* _do_rollback, a shielded task, ends; it invalidates the connection on failure.
RollbackEnds(u) ==
  /\ use[u].rolling
  /\ \E conn \in IF use[u].conn = "live" THEN {"live", "broken"} ELSE {use[u].conn} :
       Becomes(u, [Undone(use[u]) EXCEPT !.rolling = FALSE, !.conn = conn])

\* Mutant: a cancelled transaction gives its connection back as it is.
RollbackAwaited_KeepsConnection(u) ==
  /\ use[u].pc \in {"rollback", "rollback_again"} /\ ~use[u].rolling
  /\ Becomes(u, ToClose(use[u]))

\* The owner has awaited it.  A second cancellation is raised right here, otherwise
\* the connection of a cancelled transaction is invalidated.
RollbackAwaited(u) ==
  /\ use[u].pc \in {"rollback", "rollback_again"} /\ ~use[u].rolling
  /\ Becomes(u, IF use[u].pc = "rollback" /\ use[u].cut
                  THEN [use[u] EXCEPT !.pc = "invalidating"]
                  ELSE ToClose(use[u]))

Invalidated(u) ==
  /\ use[u].pc = "invalidating"
  /\ Becomes(u, ToClose([use[u] EXCEPT !.conn = "broken"]))

\* conn.rollback() of a scope returns or raises an Exception.
ScopeUndone(u) ==
  /\ use[u].pc = "undoing"
  /\ Becomes(u, ToClose(Undone(use[u])))

\* aclose() of the row generator of a stream returns or raises an Exception.
CursorClosed(u) ==
  /\ use[u].pc = "aclosing"
  /\ Becomes(u, ToClose(use[u]))

\* conn.close() of a scope or a stream ends.
Closed(u) ==
  /\ use[u].pc = "closing"
  /\ GivenBack(u, Gone(use[u]))

\* _do_release, a shielded task, ends.
ReleaseEnds(u) ==
  /\ use[u].closing
  /\ GivenBack(u, [use[u] EXCEPT !.closing = FALSE])

ReleaseAwaited(u) ==
  /\ use[u].pc \in {"releasing", "releasing_again"} /\ ~use[u].closing
  /\ Becomes(u, Gone(use[u]))

-----------------------------------------------------------------------------
(* Cancellation *)

\* CancelledError is raised in u at one of the awaits of S.
Hit(u, S) ==
  /\ use[u].pc \in S
  /\ use[u].cancels < MaxCancels

Cancelled(u) == [use[u] EXCEPT !.cancels = @ + 1, !.verdict = "cancelled"]

CancelEnter(u) ==
  /\ Hit(u, {"connecting", "beginning", "settings"})
  /\ Becomes(u, CASE use[u].pc = "connecting" -> Gone(Cancelled(u))
                  [] use[u].pc = "beginning"  -> ToClose(Cancelled(u))
                  [] use[u].pc = "settings"   -> [Cancelled(u) EXCEPT !.pc = "enter_rollback"])

CancelBody(u) ==
  /\ Hit(u, {"body"})
  /\ \E conn \in {"live", "broken"} :
       Becomes(u, Unwinding([Cancelled(u) EXCEPT !.cut = TRUE, !.conn = conn]))

\* COMMIT is interrupted; CancelledError is not a connection error, so what is raised
\* is a classified DatabaseError.
CancelCommit(u) ==
  /\ Hit(u, {"committing"})
  /\ \E tx \in {"committed", "active"} :
       Becomes(u, [Cancelled(u) EXCEPT !.pc = "commit_rollback", !.tx = tx,
                                       !.verdict = "failed"])

\* Awaits of the cleanup after which the connection is still closed.
CancelCleanup(u) ==
  /\ Hit(u, {"commit_rollback", "undoing", "invalidating"})
  /\ \E conn \in {use[u].conn, "broken"} :
       Becomes(u, ToClose([Cancelled(u) EXCEPT !.conn = conn]))

\* Awaits of the cleanup whose interruption skips the close.
CancelBeforeClose(u) ==
  /\ Hit(u, {"enter_rollback", "aclosing"})
  /\ Becomes(u, Gone(Cancelled(u)))

\* conn.close() is interrupted: the pool drops the connection and replaces it.
CancelClose(u) ==
  /\ Hit(u, {"closing"})
  /\ GivenBack(u, Gone(Cancelled(u)))

\* Mutant: the owner of a shielded task leaves at the first cancellation.
CancelShielded_AtOnce(u) ==
  \/ /\ Hit(u, {"rollback", "rollback_again"})
     /\ Becomes(u, ToClose(Cancelled(u)))
  \/ /\ Hit(u, {"releasing", "releasing_again"})
     /\ Becomes(u, Gone(Cancelled(u)))

\* shield_from_cancellation awaits its task once more after a first cancellation; a
\* second one ends that await, and the task goes on alone.
CancelShielded(u) ==
  \/ /\ Hit(u, {"rollback"})
     /\ Becomes(u, [Cancelled(u) EXCEPT !.pc = "rollback_again"])
  \/ /\ Hit(u, {"releasing"})
     /\ Becomes(u, [Cancelled(u) EXCEPT !.pc = "releasing_again"])
  \/ /\ Hit(u, {"rollback_again"})
     /\ Becomes(u, ToClose(Cancelled(u)))
  \/ /\ Hit(u, {"releasing_again"})
     /\ Becomes(u, Gone(Cancelled(u)))

Cancel(u) ==
  \/ CancelEnter(u) \/ CancelBody(u) \/ CancelCommit(u)
  \/ CancelCleanup(u) \/ CancelBeforeClose(u) \/ CancelClose(u) \/ CancelShielded(u)

-----------------------------------------------------------------------------
\* The awaits of u that end by themselves, and the shielded tasks.
Proceeds(u) ==
  \/ Acquired(u) \/ NotAcquired(u) \/ Began(u) \/ BeginFails(u)
  \/ SettingsApplied(u) \/ SettingsFail(u) \/ EnterRolledBack(u)
  \/ BodyReturns(u) \/ BodyRaises(u)
  \/ CommitSucceeds(u) \/ CommitLost(u) \/ CommitFails(u) \/ CommitRolledBack(u)
  \/ RollbackAwaited(u) \/ Invalidated(u) \/ ScopeUndone(u) \/ CursorClosed(u)
  \/ Closed(u) \/ ReleaseAwaited(u)

Next ==
  \E u \in Users :
    \/ \E mode \in Modes : Start(u, mode)
    \/ Proceeds(u) \/ RollbackEnds(u) \/ ReleaseEnds(u) \/ Cancel(u)

Spec == Init /\ [][Next]_vars

\* Bodies end, the driver answers or times out, and asyncio runs ready tasks.
FairSpec ==
  Spec /\ \A u \in Users :
    WF_vars(Proceeds(u)) /\ WF_vars(RollbackEnds(u)) /\ WF_vars(ReleaseEnds(u))

-----------------------------------------------------------------------------
(* Properties *)

Ended(u) == use[u].pc = "idle" /\ use[u].verdict # "none"

\* A caller whose write or transaction returned has it committed, and a caller told of
\* a failure other than DatabaseCommitUnknownError has nothing committed, unless its
\* COMMIT was cancelled (transaction.py:3, README.md:250).
ToldRight ==
  \A u \in Users : Ended(u) /\ use[u].mode \in {"transaction", "write"} =>
    /\ use[u].verdict = "returned" => use[u].tx = "committed"
    /\ use[u].verdict = "failed" => use[u].tx # "committed" \/ use[u].cancels > 0

\* The connection of a transaction cancelled inside its body is not used again: it is
\* invalidated before it goes back, unless a further cancellation hits the cleanup.
CutConnectionDropped ==
  [][\A u \in Users :
       use[u].mode = "transaction" /\ use[u].cut /\ use[u].cancels = 1
         /\ Held(u) /\ use'[u].conn = "none" => use[u].conn = "broken"]_vars

\* A shielded cleanup overlaps nothing that its owner does next, and has finished when
\* the use has ended, unless the task was cancelled twice (_compat.py:92).
CleanupUndisturbed ==
  \A u \in Users :
    /\ use[u].rolling /\ use[u].pc \notin {"rollback", "rollback_again"} => use[u].cancels >= 2
    /\ use[u].closing /\ use[u].pc = "idle" => use[u].cancels >= 2

\* A use that has ended without giving its connection back.
Leaks(u) == use[u].pc = "idle" /\ Held(u) /\ ~use[u].closing

\* A connection is lost to the pool only when the rollback of a failed __aenter__ or
\* the aclose() of a stream is cancelled; every other way out gives it back.
LeaksOnlyBeforeClose ==
  [][\A u \in Users : Leaks(u)' /\ ~Leaks(u) =>
       use[u].pc \in {"enter_rollback", "aclosing"} /\ use'[u].cancels > use[u].cancels]_vars

\* What becomes of a connection at the end of its use, when cancellations hit the clean-up.
ReturnsSound == CutConnectionDropped /\ LeaksOnlyBeforeClose

\* Every connection that is taken goes back, however its use fails; only a
\* cancellation can leave it leaked.
ConnectionGivenBack ==
  \A u \in Users : Held(u) ~> ~Held(u) \/ (Leaks(u) /\ use[u].cancels > 0)
=============================================================================
