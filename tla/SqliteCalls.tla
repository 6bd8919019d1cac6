----------------------------- MODULE SqliteCalls -----------------------------
(***************************************************************************)
(* How a call of SQLite ends for the rest of the servers: the wrapper of    *)
(* thread_safe_sqlite.hpp, Statement and Database's assertSqliteOk.         *)
(*                                                                          *)
(* answers is what SQLite says of one call each time it is made; it is long *)
(* enough.  notify is what sqlite3_unlock_notify does: it refuses, calls    *)
(* back before it returns (the lock has gone meanwhile), or will call back. *)
(***************************************************************************)
EXTENDS SequencesExt, FiniteSetsExt, Integers

Code == {"OK", "ROW", "DONE", "LOCKED", "BUSY", "ERROR"}
Notify == {"refuses", "calls at once", "will call"}

Returns(code) == [returns |-> code]
Throws(what) == [throws |-> what]
Hangs == [hangs |-> TRUE]

-----------------------------------------------------------------------------
(* thread_safe_sqlite.hpp *)

(* The mutex is locked before the callback is asked for: one that is made at *)
(* once waits for it in the same thread.  Else uLock owns the mutex and the  *)
(* second unique_lock adopts it: locking it again is an error of its own.    *)
wait_for_unlock_notify(notify) ==
    CASE notify = "refuses"        -> Returns("LOCKED")
      [] notify = "calls at once"  -> Hangs
      [] notify = "will call"      -> Throws("resource_deadlock_would_occur")

(* The loop of sqlite3_blocking_step and of sqlite3_blocking_prepare_v2. *)
blocking(answers, notify) ==
    LET last == Min({k \in DOMAIN answers :
                       answers[k] # "LOCKED" \/ wait_for_unlock_notify(notify) # Returns("OK")})
    IN  IF answers[last] = "LOCKED" THEN wait_for_unlock_notify(notify)
        ELSE Returns(answers[last])

-----------------------------------------------------------------------------
(* Statement, Database *)

assertSqliteOk(result) ==
    IF /\ "returns" \in DOMAIN result
       /\ result.returns \notin {"OK", "ROW", "DONE"}
    THEN Throws(result.returns) ELSE result

(* step: whether there is a row. *)
step(answers, notify) == assertSqliteOk(blocking(answers, notify))

(* executeAndRetryOnLock_: every attempt prepares the query again.           *)
Retried == {"LOCKED", "BUSY"}

Ends(attempts) ==
    {k \in DOMAIN attempts : attempts[k] \notin {Throws(code) : code \in Retried}}

executeAndRetryOnLock(attempts) ==
    IF Ends(attempts) = {} THEN Hangs ELSE attempts[Min(Ends(attempts))]
=============================================================================
