------------------------------ MODULE Freshness ------------------------------
(***************************************************************************)
(* The freshness of one symbol's feeds: what arrives is recorded per tier,    *)
(* a session's thread reads the record later and lets an order through,       *)
(* blocks it, or halts trading.  Sessions share the one service.             *)
(*                                                                          *)
(*   backend/data/stale_detector.py     tracker, classifier, service        *)
(*   backend/data/freshness_gate.py     the gate over it                    *)
(*   backend/data/freshness_config.py   a threshold pair per tier           *)
(***************************************************************************)
EXTENDS Naturals

CONSTANTS
    FrThreads,
    FrWarn,         \* age after which a feed is only warned about
    FrBarStale, FrDailyStale,   \* ages after which a feed of the tier blocks
    FrFailLimit,    \* failures in a row that disconnect a feed
    FrBlockUnknown, \* block_on_unknown
    FrMaxTime       \* bound: the clock

ASSUME FrAssumption ==
    /\ FrFailLimit \in Nat \ {0} /\ FrMaxTime \in Nat /\ FrBlockUnknown \in BOOLEAN
    /\ FrBarStale \in Nat /\ FrDailyStale \in Nat /\ FrWarn \in 0..FrBarStale /\ FrWarn <= FrDailyStale

VARIABLES
    frNow,      \* clock
    frFeed,     \* per tier: last timestamp, status, failures in a row
    frThread,   \* per thread: a call between its record and its reading; alone:
                \* nothing came in for its tier since
    frPast      \* what happened, for the properties

frVars == <<frNow, frFeed, frThread, frPast>>

FrTiers == {"bar", "daily"}
FrStale(t) == IF t = "bar" THEN FrBarStale ELSE FrDailyStale
FrNone == FrMaxTime + 1     \* no timestamp
FrUnseen == [ts |-> FrNone, status |-> "unknown", fails |-> 0]
FrIdle == [op |-> "none", tier |-> "bar", ts |-> FrNone, alone |-> TRUE]

FrInit ==
    /\ frNow = 0
    /\ frFeed = [t \in FrTiers |-> FrUnseen]
    /\ frThread = [s \in FrThreads |-> FrIdle]
    \* came: the timestamp last recorded per tier; gone: disconnected since;
    \* wrong: answers that were
    /\ frPast = [came |-> [t \in FrTiers |-> FrNone], gone |-> [t \in FrTiers |-> FALSE],
                 wrong |-> {}]

FrTick ==
    /\ frNow < FrMaxTime
    /\ frNow' = frNow + 1
    /\ UNCHANGED <<frFeed, frThread, frPast>>

-----------------------------------------------------------------------------
\* One record for all tiers of a symbol.
FrKeyBare(t) == "daily"

\* _resolve: each tier of a symbol is a feed of its own.
FrKey(t) == t

\* An update that leaves the connection as it was.
FrUpdatedOnly(feed, ts) == [feed EXCEPT !.ts = ts, !.fails = 0]

\* record_update, record_failure, record_disconnect of the tracker.
FrUpdated(feed, ts) == [ts |-> ts, status |-> "connected", fails |-> 0]
FrFailed(feed) ==
    [feed EXCEPT !.fails = IF @ < FrFailLimit THEN @ + 1 ELSE @,
                 !.status = IF feed.fails + 1 >= FrFailLimit THEN "disconnected" ELSE @]
FrGone(feed) == [feed EXCEPT !.status = "disconnected"]

FrRecorded(op, feed, ts) ==
    CASE op = "update" -> IF ts = FrNone THEN feed ELSE FrUpdated(feed, ts)
      [] op = "failure" -> FrFailed(feed)
      [] op = "disconnect" -> FrGone(feed)
      [] OTHER -> feed

\* A call begins: data with or without a timestamp, an error, the end of the
\* connection, or the question before an order.
FrCall(s) ==
    /\ frThread[s].op = "none"
    /\ \E op \in {"update", "failure", "disconnect", "ask"}, t \in FrTiers, ts \in (0..frNow) \cup {FrNone} :
          LET k == FrKey(t)
              feed == FrRecorded(op, frFeed[k], ts)
          IN /\ op # "update" => ts = FrNone
             /\ frFeed' = [frFeed EXCEPT ![k] = feed]
             /\ frThread' = [x \in FrThreads |->
                   IF x = s THEN [FrIdle EXCEPT !.op = op, !.tier = t, !.ts = ts]
                   ELSE [frThread[x] EXCEPT !.alone = @ /\ frThread[x].tier # t]]
             /\ frPast' = [frPast EXCEPT
                   !.came[t] = IF op = "update" /\ ts # FrNone THEN ts ELSE @,
                   !.gone[t] = IF op = "update" /\ ts # FrNone THEN FALSE
                               ELSE @ \/ op = "disconnect" \/ (op = "failure" /\ feed.status = "disconnected")]
    /\ UNCHANGED <<frNow>>

\* classify: disconnected is stale whatever the age.
FrClassified(feed, t) ==
    IF feed.status = "disconnected" THEN "stale"
    ELSE IF feed.ts = FrNone THEN "unknown"
    ELSE IF frNow - feed.ts > FrStale(t) THEN "stale"
    ELSE IF frNow - feed.ts > FrWarn THEN "warning" ELSE "fresh"

\* is_blocking.
FrBlocks(state) == state = "stale" \/ (state = "unknown" /\ FrBlockUnknown)

\* What is true of a tier's feed, from what came in.
FrTruth(t) ==
    IF frPast.gone[t] THEN "stale"
    ELSE IF frPast.came[t] = FrNone THEN "unknown"
    ELSE IF frNow - frPast.came[t] > FrStale(t) THEN "stale" ELSE "fresh"

\* A halt for whatever blocks.
FrHaltsBlocked(state) == FrBlocks(state)

\* Only critical staleness halts.
FrHalts(state) == state = "stale"

\* _evaluate, _finalize: an error on the way counts as stale; data without a
\* timestamp is unknown, whatever the feed was.  The call halts, raises or lets
\* the order through.
FrAnswer(s) ==
    LET c == frThread[s]
    IN
    /\ c.op # "none"
    /\ frThread' = [frThread EXCEPT ![s] = FrIdle]
    /\ \E failed \in BOOLEAN :
          LET intime == c.op = "update" /\ c.ts # FrNone /\ frNow - c.ts <= FrStale(c.tier)
              bare == c.op = "update" /\ c.ts = FrNone
              state == IF bare THEN "unknown" ELSE IF failed THEN "stale"
                       ELSE FrClassified(frFeed[FrKey(c.tier)], c.tier)
              truth == IF failed THEN "stale" ELSE FrTruth(c.tier)
          IN frPast' = [frPast EXCEPT !.wrong = @
                \cup (IF intime /\ c.alone /\ ~failed /\ FrBlocks(state) THEN {"shut"} ELSE {})
                \cup (IF c.op \in {"update", "ask"} /\ FrHalts(state) /\ truth # "stale" THEN {"halt"} ELSE {})
                \cup (IF c.op = "ask" /\ ~FrBlocks(state) /\ truth # "fresh" THEN {"pass"} ELSE {})]
    /\ UNCHANGED <<frNow, frFeed>>

FrNext == FrTick \/ \E s \in FrThreads : FrCall(s) \/ FrAnswer(s)

FrSpec == FrInit /\ [][FrNext]_frVars

(***************************************************************************)
(* Properties.                                                              *)
(***************************************************************************)

\* The state stays what the code can hold.
FrTypeOK ==
    /\ frNow \in 0..FrMaxTime
    /\ frFeed \in [FrTiers -> [ts : 0..FrNone, status : {"unknown", "connected", "disconnected"}, fails : 0..FrFailLimit]]
    /\ frThread \in [FrThreads -> [op : {"none", "update", "failure", "disconnect", "ask"},
                                   tier : FrTiers, ts : 0..FrNone, alone : BOOLEAN]]

\* An order goes through only on data of its own tier that was in time when it
\* was judged, with no end of the connection since; other sessions' records,
\* data without a timestamp and late bars in between change nothing of that.
FrPassIsFresh == FrBlockUnknown => "pass" \notin frPast.wrong

\* Data in time reopens a feed at once, disconnected or failing as it was.
FrReopens == "shut" \notin frPast.wrong

\* Trading is halted only for a feed that had data and lost it, or for an error
\* in the check; a feed never seen, and data without a timestamp, only block.
FrHaltEarned == "halt" \notin frPast.wrong

\* The gate opens on fresh data of the order's own tier and halts for lost data.
FrInv == FrTypeOK /\ FrPassIsFresh /\ FrReopens /\ FrHaltEarned
=============================================================================
