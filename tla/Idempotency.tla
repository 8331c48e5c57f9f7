----------------------------- MODULE Idempotency -----------------------------
(***************************************************************************)
(* One order intent submitted by several workers through the idempotency     *)
(* store: check, lock, place, mark, and the verification after a restart.    *)
(* Redis comes and goes, the database write may fail, keys expire, workers    *)
(* die between any two steps.                                               *)
(*                                                                          *)
(*   backend/execution/idempotency.py, used as its docstring shows          *)
(***************************************************************************)
EXTENDS Naturals, Sequences, FiniteSets

CONSTANTS
    IdWorkers,
    IdMaxOrders     \* bound: orders placed for the intent

ASSUME IdAssumption == IdMaxOrders \in Nat /\ IsFiniteSet(IdWorkers)

VARIABLES
    idRedis,    \* reachable, the record and the lock it keeps
    idDb,       \* the record in the audit log
    idOrders,   \* per order placed: open, done, or unknown to the broker
    idWorker,   \* where each worker is
    idPast      \* what happened, for the properties

idVars == <<idRedis, idDb, idOrders, idWorker, idPast>>

IdNone == "none"
IdStatus == {IdNone, "executing", "done"}
IdIdle == [pc |-> "idle", order |-> 0, told |-> IdNone]

IdInit ==
    /\ idRedis = [up |-> TRUE, rec |-> IdNone, lock |-> FALSE]
    /\ idDb = IdNone
    /\ idOrders = <<>>
    /\ idWorker = [w \in IdWorkers |-> IdIdle]
    \* lossy: a record was stored nowhere, expired or is out of reach; open: the
    \* lock was passed without Redis, or ran out with its holder inside.
    /\ idPast = [marked |-> FALSE, lossy |-> FALSE, open |-> FALSE, missed |-> FALSE]

\* set: Redis, and the database only when Redis fails.
IdSet(status, stored) ==
    IF idRedis.up
      THEN idRedis' = [idRedis EXCEPT !.rec = status] /\ UNCHANGED idDb
      ELSE UNCHANGED idRedis /\ idDb' = IF stored THEN status ELSE idDb

\* A lookup that trusts a Redis that answers.
IdGetRedis == IF idRedis.up THEN idRedis.rec ELSE idDb

\* get: the database when Redis fails or knows nothing.
IdGet == IF idRedis.up /\ idRedis.rec # IdNone THEN idRedis.rec ELSE idDb

\* SET without NX.
IdTakesAlways == TRUE

\* acquire_lock: SET NX, and open when Redis cannot be reached.
IdTakes == ~idRedis.up \/ ~idRedis.lock

IdStep(w, pc) == idWorker' = [idWorker EXCEPT ![w].pc = pc]

-----------------------------------------------------------------------------
\* check: a known intent is not submitted again.
IdCheck(w) ==
    /\ idWorker[w].pc = "idle"
    /\ IdStep(w, IF IdGet = IdNone THEN "checked" ELSE "seen")
    /\ idPast' = [idPast EXCEPT !.missed = @ \/ (IdGet = IdNone /\ idPast.marked /\ ~idPast.lossy)]
    /\ UNCHANGED <<idRedis, idDb, idOrders>>

\* execution_lock.
IdLock(w) ==
    /\ idWorker[w].pc = "checked"
    /\ IdStep(w, IF IdTakes THEN "inside" ELSE "idle")
    /\ idRedis' = IF idRedis.up /\ IdTakes THEN [idRedis EXCEPT !.lock = TRUE] ELSE idRedis
    /\ idPast' = [idPast EXCEPT !.open = @ \/ ~idRedis.up]
    /\ UNCHANGED <<idDb, idOrders>>

IdPlace(w) ==
    /\ idWorker[w].pc = "inside"
    /\ Len(idOrders) < IdMaxOrders
    /\ idOrders' = Append(idOrders, "open")
    /\ idWorker' = [idWorker EXCEPT ![w] = [IdIdle EXCEPT !.pc = "placed", !.order = Len(idOrders) + 1]]
    /\ UNCHANGED <<idRedis, idDb, idPast>>

\* mark_executing; a database that fails is only logged.
IdMark(w) ==
    /\ idWorker[w].pc = "placed"
    /\ IdStep(w, "marked")
    /\ \E stored \in BOOLEAN :
          /\ IdSet("executing", stored)
          /\ idPast' = [idPast EXCEPT !.marked = TRUE, !.lossy = @ \/ (~idRedis.up /\ ~stored)]
    /\ UNCHANGED idOrders

\* release_lock: whoever's it is by now, and not while Redis is away.
IdRelease(w) ==
    /\ idWorker[w].pc \in {"inside", "marked"}
    /\ IdStep(w, "idle")
    /\ idRedis' = IF idRedis.up THEN [idRedis EXCEPT !.lock = FALSE] ELSE idRedis
    /\ UNCHANGED <<idDb, idOrders, idPast>>

\* The worker ends; its next life starts from the order it had placed, if any.
IdEnd(w) ==
    /\ IdStep(w, IF idWorker[w].order = 0 THEN "idle" ELSE "verify")
    /\ UNCHANGED <<idRedis, idDb, idOrders, idPast>>

\* An order is finished, or the broker has no record of it.
IdBroker ==
    /\ \E i \in DOMAIN idOrders, status \in {"done", "void"} :
          idOrders[i] = "open" /\ idOrders' = [idOrders EXCEPT ![i] = status]
    /\ UNCHANGED <<idRedis, idDb, idWorker, idPast>>

\* A verification that takes every record for a finished order.
IdFinishedAny(rec) == rec # IdNone

\* An "executing" record says nothing: the broker is asked.
IdFinished(rec) == rec \notin {IdNone, "executing"}

\* The verification that reads a failed lookup as no record.
IdAnswerNone(order, failed) ==
    IF failed \/ order = "void" THEN "not_found" ELSE IF order = "done" THEN "completed" ELSE "in_flight"

\* The broker's word on an order; a lookup that fails is not "no record".
IdAnswer(order, failed) ==
    IF failed THEN "unknown"
    ELSE IF order = "void" THEN "not_found" ELSE IF order = "done" THEN "completed" ELSE "in_flight"

\* verify: the store first, the broker next; not found lets the intent be
\* submitted again, unknown asks again later.
IdVerify(w) ==
    /\ idWorker[w].pc = "verify"
    /\ \E failed, stored \in BOOLEAN :
          LET asked == IdAnswer(idOrders[idWorker[w].order], failed)
              told == IF IdFinished(IdGet) THEN "completed" ELSE asked
          IN /\ idWorker' = [idWorker EXCEPT ![w].told = told,
                                ![w].pc = CASE told = "unknown" -> "verify"
                                            [] told = "not_found" -> "idle"
                                            [] OTHER -> "seen"]
             /\ IF told = "completed" /\ ~IdFinished(IdGet)
                  THEN IdSet("done", stored) /\ idPast' = [idPast EXCEPT !.marked = TRUE,
                                                             !.lossy = @ \/ (~idRedis.up /\ ~stored)]
                  ELSE UNCHANGED <<idRedis, idDb, idPast>>
    /\ UNCHANGED idOrders

-----------------------------------------------------------------------------
\* Redis goes with what it holds, comes back with it, or lets a key run out.

IdTurn ==
    /\ idRedis' = [idRedis EXCEPT !.up = ~@]
    /\ idPast' = [idPast EXCEPT !.lossy = @ \/ (idRedis.up /\ idRedis.rec # IdNone /\ idDb = IdNone)]
    /\ UNCHANGED <<idDb, idOrders, idWorker>>

IdInside == {w \in IdWorkers : idWorker[w].pc \in {"inside", "placed", "marked"}}

IdExpire ==
    /\ \/ /\ idRedis.lock
          /\ idRedis' = [idRedis EXCEPT !.lock = FALSE]
          /\ idPast' = [idPast EXCEPT !.open = @ \/ IdInside # {}]
       \/ /\ idRedis.rec # IdNone
          /\ idRedis' = [idRedis EXCEPT !.rec = IdNone]
          /\ idPast' = [idPast EXCEPT !.lossy = @ \/ idDb = IdNone]
    /\ UNCHANGED <<idDb, idOrders, idWorker>>

IdNext ==
    \/ \E w \in IdWorkers : IdCheck(w) \/ IdLock(w) \/ IdPlace(w) \/ IdMark(w) \/ IdRelease(w)
                              \/ IdEnd(w) \/ IdVerify(w)
    \/ IdBroker \/ IdTurn \/ IdExpire

IdSpec == IdInit /\ [][IdNext]_idVars

(***************************************************************************)
(* Properties.                                                              *)
(***************************************************************************)

\* The state stays what the code can hold.
IdTypeOK ==
    /\ idRedis \in [up : BOOLEAN, rec : IdStatus, lock : BOOLEAN]
    /\ idDb \in IdStatus
    /\ idOrders \in Seq({"open", "done", "void"}) /\ Len(idOrders) <= IdMaxOrders
    /\ idWorker \in [IdWorkers -> [pc : {"idle", "seen", "checked", "inside", "placed", "marked", "verify"},
                                   order : 0..IdMaxOrders,
                                   told : {IdNone, "unknown", "not_found", "completed", "in_flight"}]]

\* One worker at a time between the lock and its release, deaths included, as
\* long as Redis was there and no lock ran out under its holder.
IdOneInside == ~idPast.open => Cardinality(IdInside) <= 1

\* An intent that was marked is found by every later check, over outages of
\* Redis before and after, while some reachable store still has the record.
IdSeen == ~idPast.missed

\* A restart submits an order again only when the broker has no record of it.
IdNoResubmit == \A w \in IdWorkers : idWorker[w].told = "not_found" => idOrders[idWorker[w].order] = "void"

\* An order taken for completed is: not so when the check before the lock let
\* two orders through, the record then being either's.
IdCompletedIsDone ==
    Len(idOrders) = 1 => \A w \in IdWorkers : idWorker[w].told = "completed" => idOrders[1] = "done"

\* An intent is carried out once and recognised, Redis lost or not.
IdInv == IdTypeOK /\ IdOneInside /\ IdSeen /\ IdNoResubmit /\ IdCompletedIsDone
=============================================================================
