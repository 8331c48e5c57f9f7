-------------------------------- MODULE ClosePosition --------------------------------
(***************************************************************************)
(* Closing a position by hand (api/routers/quick_trade.py: close_position and  *)
(* backend/risk/sellable_qty.py).                                              *)
(*                                                                             *)
(* A close asks the broker how much can be sold, prices it, derives the key    *)
(* from both, takes the sells that are still in flight into account, and goes  *)
(* down the way of every manual order (QuickTrade has that way in full).       *)
(* Clicks of one user on one position are handled by several request threads.  *)
(***************************************************************************)
EXTENDS Integers, Functions

CONSTANTS
    QcClicks,       \* the requests
    QcHeld,         \* shares held, none of them resting in a sell at first
    QcNames,        \* Idempotency-Key headers
    QcPrices,       \* bound: quotes
    QcBuckets,      \* bound: ten-second buckets of a derived key
    QcLost          \* bound: submissions whose answer is lost

ASSUME QcAssumption == {QcHeld, QcPrices, QcBuckets, QcLost} \subseteq Nat \ {0}

VARIABLES
    qcBroker,       \* free: shares no sell has taken; shown: what ord_psbl_qty says of them
    qcQuote, qcBucket, qcLost,
    qcRows,         \* quick_trade_orders, by key
    qcClick,        \* the requests: quiet, while nobody else's step fell between look and submit
    qcSent,         \* history: how often each key's order was sent
    qcOver          \* history: a request that met nobody asked for more than there was

qcVars == <<qcBroker, qcQuote, qcBucket, qcLost, qcRows, qcClick, qcSent, qcOver>>

QcAll == 0          \* no quantity given
QcNoName == "none"
QcIdle == [at |-> "idle", ask |-> QcAll, name |-> QcNoName, seen |-> 0, qty |-> 0, price |-> 0,
           id |-> <<>>, quiet |-> FALSE, known |-> FALSE, out |-> ""]

QcInit ==
    /\ qcBroker = [free |-> QcHeld, shown |-> QcHeld]
    /\ qcQuote = 1 /\ qcBucket = 1 /\ qcLost = 0
    /\ qcRows = <<>> /\ qcSent = <<>> /\ qcOver = FALSE
    /\ qcClick = [c \in QcClicks |-> QcIdle]

QcWith(f, k, v) == [j \in DOMAIN f \union {k} |-> IF j = k THEN v ELSE f[j]]
QcGo(c, at) == qcClick' = [qcClick EXCEPT ![c].at = at]
QcEnd(c, out) == qcClick' = [qcClick EXCEPT ![c].at = "done", ![c].out = out]

\* A step others can see: whoever has looked and not yet submitted is no longer alone.
QcSeen(c, click) ==
    qcClick' = [d \in QcClicks |-> IF d = c THEN click ELSE [qcClick[d] EXCEPT !.quiet = FALSE]]

\* A key of the caller's that has an order is answered with it, if the order is one
\* this close could have made.
QcRequest(c) ==
    /\ qcClick[c].at = "idle"
    /\ \E ask \in QcAll..QcHeld, name \in QcNames \union {QcNoName} :
          LET k == <<name>> IN
          qcClick' = [qcClick EXCEPT ![c] =
              [QcIdle EXCEPT !.ask = ask, !.name = name,
                  !.at = IF k \in DOMAIN qcRows THEN "done" ELSE "look",
                  !.id = IF k \in DOMAIN qcRows THEN k ELSE <<>>,
                  !.known = k \in DOMAIN qcRows,
                  !.out = IF k \notin DOMAIN qcRows THEN ""
                          ELSE IF ask \in {QcAll, qcRows[k].qty} THEN "answered" ELSE "conflict"]]
    /\ UNCHANGED <<qcBroker, qcQuote, qcBucket, qcLost, qcRows, qcSent, qcOver>>

\* _live_sellable: of the shares held those the broker lets us sell, or it does not say.
QcUnknown == -1
QcFigures == {qcBroker.shown, QcUnknown}

\* No figure, nothing to sell, or more asked for than that: no order, and never fewer.
QcLook(c) ==
    /\ qcClick[c].at = "look"
    /\ \E sellable \in QcFigures :
          IF sellable <= 0 \/ qcClick[c].ask > sellable THEN QcEnd(c, "refused")
          ELSE qcClick' = [qcClick EXCEPT ![c].at = "quote", ![c].seen = sellable, ![c].quiet = TRUE,
                              ![c].qty = IF qcClick[c].ask = QcAll THEN sellable ELSE qcClick[c].ask]
    /\ UNCHANGED <<qcBroker, qcQuote, qcBucket, qcLost, qcRows, qcSent, qcOver>>

\* _live_close_price: the quote, or none.
QcNoQuote == 0
QcQuotes == {qcQuote, QcNoQuote}

\* The caller's key, or one of quantity, price and time (derive_idempotency_key).
QcKey(click, price) ==
    IF click.name # QcNoName THEN <<click.name>> ELSE <<click.qty, price, qcBucket>>

QcPriced(c) ==
    /\ qcClick[c].at = "quote"
    /\ \E price \in QcQuotes :
          IF price = QcNoQuote THEN QcEnd(c, "refused")
          ELSE qcClick' = [qcClick EXCEPT ![c].at = "pending", ![c].price = price,
                              ![c].id = QcKey(qcClick[c], price)]
    /\ UNCHANGED <<qcBroker, qcQuote, qcBucket, qcLost, qcRows, qcSent, qcOver>>

\* The quantity of our own sells that the broker has not acknowledged: a row that is
\* anything else has given it back.
QcOpenNone(id) == {}
QcOpen(id) == {k \in DOMAIN qcRows \ {id} : qcRows[k].status = "reserved"}
QcQty == [k \in DOMAIN qcRows |-> qcRows[k].qty]
QcPending(id) == SumFunctionOnSet(QcQty, QcOpen(id))

\* A replay of an order on record is not held up by it: reserve_and_submit answers.
QcReplay(id) == id \in DOMAIN qcRows

QcCheck(c) ==
    LET me == qcClick[c] IN
    /\ me.at = "pending"
    /\ qcClick' = [qcClick EXCEPT
          ![c].known = me.id \in DOMAIN qcRows,
          ![c].at = IF QcReplay(me.id) \/ me.qty <= me.seen - QcPending(me.id) THEN "reserve" ELSE "done",
          ![c].out = IF QcReplay(me.id) \/ me.qty <= me.seen - QcPending(me.id) THEN "" ELSE "refused"]
    /\ UNCHANGED <<qcBroker, qcQuote, qcBucket, qcLost, qcRows, qcSent, qcOver>>

\* reserve_and_submit: the key's row, once.
QcReserve(c) ==
    LET me == qcClick[c] IN
    /\ me.at = "reserve"
    /\ IF me.id \in DOMAIN qcRows
       THEN /\ QcEnd(c, IF qcRows[me.id].qty = me.qty /\ qcRows[me.id].price = me.price
                        THEN "answered" ELSE "conflict")
            /\ UNCHANGED qcRows
       ELSE /\ QcSeen(c, [me EXCEPT !.at = "gate"])
            /\ qcRows' = QcWith(qcRows, me.id, [qty |-> me.qty, price |-> me.price, status |-> "reserved"])
    /\ UNCHANGED <<qcBroker, qcQuote, qcBucket, qcLost, qcSent, qcOver>>

QcMark(id, status) == qcRows' = [qcRows EXCEPT ![id].status = status]

\* The risk gate allows or denies it.
QcGate(c) ==
    /\ qcClick[c].at = "gate"
    /\ \/ QcGo(c, "send") /\ UNCHANGED qcRows
       \/ QcMark(qcClick[c].id, "blocked") /\ QcSeen(c, [qcClick[c] EXCEPT !.at = "done", !.out = "blocked"])
    /\ UNCHANGED <<qcBroker, qcQuote, qcBucket, qcLost, qcSent, qcOver>>

\* What is known of an order whose submission has no answer.
QcUnansweredFailed == "failed"
QcUnanswered == "reserved"

\* The one call to the broker: acknowledged, refused, or no answer, and then the
\* order may have arrived or not.
QcSend(c) ==
    LET me == qcClick[c]
        left == qcBroker.free - me.qty
        done(out) == QcSeen(c, [me EXCEPT !.at = "done", !.out = out])
    IN  /\ me.at = "send"
        /\ qcSent' = IF me.id \in DOMAIN qcSent THEN [qcSent EXCEPT ![me.id] = @ + 1] ELSE QcWith(qcSent, me.id, 1)
        /\ qcOver' = (qcOver \/ (me.quiet /\ left < 0))
        /\ \/ /\ left >= 0 /\ qcBroker' = [free |-> left, shown |-> left]
              /\ QcSeen(c, [me EXCEPT !.at = "note"]) /\ UNCHANGED <<qcRows, qcLost>>
           \/ left < 0 /\ QcMark(me.id, "rejected") /\ done("rejected") /\ UNCHANGED <<qcBroker, qcLost>>
           \/ /\ qcLost < QcLost /\ qcLost' = qcLost + 1
              /\ QcMark(me.id, QcUnanswered) /\ done("unknown")
              /\ qcBroker' \in {qcBroker} \union (IF left >= 0 THEN {[qcBroker EXCEPT !.free = left]} ELSE {})
        /\ UNCHANGED <<qcQuote, qcBucket>>

QcNote(c) ==
    /\ qcClick[c].at = "note"
    /\ QcMark(qcClick[c].id, "submitted") /\ QcSeen(c, [qcClick[c] EXCEPT !.at = "done", !.out = "submitted"])
    /\ UNCHANGED <<qcBroker, qcQuote, qcBucket, qcLost, qcSent, qcOver>>

\* The broker's figure catches up with what it has taken.
QcReflect ==
    /\ qcBroker.shown # qcBroker.free /\ qcBroker' = [qcBroker EXCEPT !.shown = qcBroker.free]
    /\ UNCHANGED <<qcQuote, qcBucket, qcLost, qcRows, qcClick, qcSent, qcOver>>

QcMoves ==
    /\ \/ qcQuote < QcPrices /\ qcQuote' = qcQuote + 1 /\ UNCHANGED qcBucket
       \/ qcBucket < QcBuckets /\ qcBucket' = qcBucket + 1 /\ UNCHANGED qcQuote
    /\ UNCHANGED <<qcBroker, qcLost, qcRows, qcClick, qcSent, qcOver>>

QcNext ==
    \/ \E c \in QcClicks : QcRequest(c) \/ QcLook(c) \/ QcPriced(c) \/ QcCheck(c) \/ QcReserve(c)
                           \/ QcGate(c) \/ QcSend(c) \/ QcNote(c)
    \/ QcReflect \/ QcMoves

-----------------------------------------------------------------------------
QcTypeOK ==
    /\ qcBroker.free \in 0..QcHeld /\ qcBroker.shown \in 0..QcHeld /\ qcLost \in 0..QcLost
    /\ \A k \in DOMAIN qcRows :
          qcRows[k].status \in {"reserved", "submitted", "rejected", "failed", "blocked", "canceled"}
    /\ \A c \in QcClicks :
          qcClick[c].at \in {"idle", "look", "quote", "pending", "reserve", "gate", "send", "note", "done"}

\* A close that met no other asks for no more than there is to sell, even while the
\* broker's figure lags behind a sell whose answer was lost.  (One that met another
\* may: the figure is read before the other's order, the pending sum after it.)
QcNoOverAsk == ~qcOver

\* Shares that have left the free ones are on a row that says they may have.
QcOnRecord ==
    QcHeld - qcBroker.free <=
        SumFunctionOnSet(QcQty, {k \in DOMAIN qcRows : qcRows[k].status \in {"reserved", "submitted"}})

\* A key's order is sent once, however many requests carry or derive it.
QcSentOnce == \A k \in DOMAIN qcSent : qcSent[k] = 1 /\ k \in DOMAIN qcRows

\* A retry is told of the order it repeats, whatever the broker shows meanwhile, and
\* nobody is told of an order of other terms.
QcRetryAnswered ==
    \A c \in QcClicks : qcClick[c].at = "done" =>
        /\ qcClick[c].known => qcClick[c].out \in {"answered", "conflict"}
        /\ qcClick[c].out = "answered" => qcClick[c].ask \in {QcAll, qcRows[qcClick[c].id].qty}

\* What closing by hand promises.
QcInv == QcTypeOK /\ QcNoOverAsk /\ QcOnRecord /\ QcSentOnce /\ QcRetryAnswered
=============================================================================
