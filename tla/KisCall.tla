---------------------------------- MODULE KisCall ----------------------------------
(***************************************************************************)
(* A call through the KIS broker adapter: what its caller is told, and what    *)
(* the broker has really done.                                                 *)
(*                                                                             *)
(*   backend/brokers/kis.py                place, cancel, look up, price       *)
(*   kis_adapter/client.py, pagination.py  the retries, the pages              *)
(*   backend/execution/circuit_breaker.py  ConsecutiveFailureBreaker           *)
(*                                                                             *)
(* Threads call at the same time and share the breaker.  Each cancel and each  *)
(* look-up is about an order of its own.                                       *)
(***************************************************************************)
EXTENDS Naturals, FiniteSets

CONSTANTS
    KcThreads,
    KcTries,        \* MAX_RETRIES
    KcMaxPages,     \* max_pages of an inquiry
    KcThreshold     \* failures in a row that trip the breaker; counted on no further

ASSUME KcAssumption == {KcTries, KcMaxPages, KcThreshold} \subseteq Nat \ {0}

VARIABLES
    kcCall,         \* what each thread is at, and the order its call is about
    kcBreaker,      \* _failures and _tripped_at: not tripped, within the cooldown, past it
    kcHeld          \* calls that began after the breaker tripped

kcVars == <<kcCall, kcBreaker, kcHeld>>

KcKinds == {"place", "cancel", "status", "price"}
KcMetered == {"place", "price"}     \* the calls that ask the breaker and feed it

\* order: what the broker has of it; listed: its page in the inquiry (0: none) of "of" pages.
KcNone == [at |-> "idle", kind |-> "none", try |-> 1, page |-> 1, order |-> "none",
           listed |-> 0, of |-> 1, sent |-> FALSE, res |-> "none"]

KcInit ==
    /\ kcCall = [t \in KcThreads |-> KcNone]
    /\ kcBreaker = [failures |-> 0, tripped |-> "no"]
    /\ kcHeld = {}

KcAt(t, at) == kcCall[t].at = at
KcGo(t, at) == kcCall' = [kcCall EXCEPT ![t].at = at]
KcEnd(t, res) == kcCall' = [kcCall EXCEPT ![t].at = "done", ![t].res = res]

KcBegin(t) ==
    /\ KcAt(t, "idle")
    /\ \E kind \in KcKinds, of \in 1..(KcMaxPages + 1) :
        \E listed \in 0..of :
            /\ kind # "status" => of = 1 /\ listed = 0
            /\ kcCall' = [kcCall EXCEPT ![t] =
                   [KcNone EXCEPT !.at = IF kind \in KcMetered THEN "look" ELSE "ask",
                                  !.kind = kind, !.of = of, !.listed = listed,
                                  !.order = IF kind = "cancel" THEN "live" ELSE "none"]]
            /\ kcHeld' = IF kind \in KcMetered /\ kcBreaker.tripped # "no" THEN kcHeld \cup {t} ELSE kcHeld
    /\ UNCHANGED kcBreaker

(***************************************************************************)
(* The breaker: no lock, and the clock is read between its accesses.           *)
(***************************************************************************)
KcSeesCount(b) == b.failures > KcThreshold
KcSees(b) == b.tripped # "no"

\* is_open: _tripped_at is None.
KcLook(t) ==
    /\ KcAt(t, "look")
    /\ KcGo(t, IF KcSees(kcBreaker) THEN "judge" ELSE "gate")
    /\ UNCHANGED <<kcBreaker, kcHeld>>

\* The cooldown; _tripped_at is read again, and may be None by now (a TypeError).
KcJudge(t) ==
    /\ KcAt(t, "judge")
    /\ CASE kcBreaker.tripped = "no" -> KcEnd(t, "raised")
         [] kcBreaker.tripped = "past" -> KcGo(t, "reset")
         [] OTHER -> KcEnd(t, IF kcCall[t].kind = "place" THEN "rejected" ELSE "raised")
    /\ UNCHANGED <<kcBreaker, kcHeld>>

\* The breaker closes: everything that waited behind it may go.
KcClosed == kcBreaker' = [failures |-> 0, tripped |-> "no"] /\ kcHeld' = {}

KcReset(t) == KcAt(t, "reset") /\ KcGo(t, "gate") /\ KcClosed

\* record_failure counts, then trips.
KcFail(t) ==
    /\ KcAt(t, "fail")
    /\ LET n == kcBreaker.failures + 1
       IN /\ kcBreaker' = [kcBreaker EXCEPT !.failures = IF n > KcThreshold THEN @ ELSE n]
          /\ KcGo(t, IF n >= KcThreshold /\ kcBreaker.tripped = "no" THEN "trip" ELSE "done")
    /\ UNCHANGED kcHeld

KcTrip(t) ==
    /\ KcAt(t, "trip") /\ KcGo(t, "done")
    /\ kcBreaker' = [kcBreaker EXCEPT !.tripped = "within"]
    /\ UNCHANGED kcHeld

KcCools == kcBreaker.tripped = "within" /\ kcBreaker' = [kcBreaker EXCEPT !.tripped = "past"]
           /\ UNCHANGED <<kcCall, kcHeld>>

(***************************************************************************)
(* The call.                                                                   *)
(***************************************************************************)
\* An order is checked against the calendar last: a closed market raises.
KcGate(t) ==
    /\ KcAt(t, "gate")
    /\ \/ KcGo(t, "ask")
       \/ kcCall[t].kind = "place" /\ KcEnd(t, "closed")
    /\ UNCHANGED <<kcBreaker, kcHeld>>

\* What the caller is told of an error: an RT_CD is the broker's word, anything
\* else leaves open whether the order has reached it.
KcVerdictRejects(answer) == "rejected"
KcVerdict(answer) == IF answer = "refused" THEN "rejected" ELSE "unknown"

KcErrs(t, c, answer) ==
    kcCall' = [kcCall EXCEPT ![t] =
        [c EXCEPT !.at = IF c.kind \in KcMetered THEN "fail" ELSE "done",
                  !.res = CASE c.kind = "place" -> KcVerdict(answer)
                            [] c.kind = "cancel" -> "false"
                            [] OTHER -> "raised"]]

\* Hash key and token, asked for before every post and every page.
KcAsk(t) ==
    /\ KcAt(t, "ask")
    /\ \/ KcGo(t, "send")
       \/ KcErrs(t, kcCall[t], "error")
    /\ UNCHANGED <<kcBreaker, kcHeld>>

KcTriesAll(kind) == KcTries
KcTriesOf(kind) == IF kind = "place" THEN 1 ELSE KcTries

\* The broker's side of a post that reaches it.
KcEffect(c) ==
    IF c.kind = "place" THEN IF c.order = "none" THEN "live" ELSE "twice"
    ELSE IF c.order = "live" THEN "cancelled" ELSE c.order

KcAnswered(t, c, res) == kcCall' = [kcCall EXCEPT ![t] = [c EXCEPT !.at = "done", !.res = res]]
KcUnmetered == UNCHANGED <<kcBreaker, kcHeld>>
KcRetry(t, c) == kcCall' = [kcCall EXCEPT ![t] = [c EXCEPT !.try = @ + 1]]

\* place_order: taken, refused by the exchange's hours, refused.
KcPlaced(t, c) ==
    /\ c.kind = "place"
    /\ \/ KcAnswered(t, [c EXCEPT !.order = KcEffect(c)], "submitted") /\ KcClosed
       \/ KcAnswered(t, c, "closed") /\ KcUnmetered
       \/ KcErrs(t, c, "refused") /\ KcUnmetered

\* cancel_order: done, or no; an exception is a no as well.
KcCancelled(t, c) ==
    /\ c.kind = "cancel" /\ KcUnmetered
    /\ \/ c.order = "live" /\ KcAnswered(t, [c EXCEPT !.order = KcEffect(c)], "true")
       \/ KcErrs(t, c, "refused")

\* KISClient.post: an answer; an HTTP error that says no; no answer anyone can
\* use, of a request that was taken or was not.
KcPost(t) ==
    /\ KcAt(t, "send") /\ kcCall[t].kind \in {"place", "cancel"}
    /\ LET c == [kcCall[t] EXCEPT !.sent = TRUE]
       IN \/ KcPlaced(t, c) \/ KcCancelled(t, c)
          \/ KcErrs(t, c, "error") /\ KcUnmetered
          \/ /\ KcUnmetered
             /\ \E x \in {c, [c EXCEPT !.order = KcEffect(c)]} :
                 IF c.try < KcTriesOf(c.kind) THEN KcRetry(t, x) ELSE KcErrs(t, x, "silence")

\* iter_pages, find_row: the row ends the inquiry where it is found; a page that
\* does not say how to go on, or one too many, raises.
KcNoMoreFirst(c) == TRUE
KcNoMore(c) == c.page = c.of

KcPage(t, c) ==
    \/ c.page = c.listed /\ KcAnswered(t, c, "found")
    \/ c.page # c.listed /\ KcNoMore(c) /\ KcAnswered(t, c, "absent")
    \/ /\ c.page # c.listed /\ ~KcNoMore(c)
       /\ \/ KcAnswered(t, c, "raised")
          \/ /\ c.page < KcMaxPages
             /\ kcCall' = [kcCall EXCEPT ![t] = [c EXCEPT !.at = "ask", !.page = @ + 1, !.try = 1]]

\* KISClient._get: a read can be asked again.
KcGet(t) ==
    /\ KcAt(t, "send") /\ kcCall[t].kind \in {"status", "price"}
    /\ LET c == [kcCall[t] EXCEPT !.sent = TRUE]
       IN \/ c.kind = "price" /\ KcAnswered(t, c, "true") /\ KcClosed
          \/ c.kind = "status" /\ KcPage(t, c) /\ KcUnmetered
          \/ KcErrs(t, c, "error") /\ KcUnmetered
          \/ /\ KcUnmetered
             /\ IF c.try < KcTriesOf(c.kind) THEN KcRetry(t, c) ELSE KcErrs(t, c, "silence")

\* The order of a cancel fills meanwhile.
KcFills(t) ==
    /\ kcCall[t].kind = "cancel" /\ kcCall[t].order = "live"
    /\ kcCall' = [kcCall EXCEPT ![t].order = "filled"]
    /\ UNCHANGED <<kcBreaker, kcHeld>>

KcReturn(t) ==
    /\ KcAt(t, "done")
    /\ kcCall' = [kcCall EXCEPT ![t] = KcNone]
    /\ kcHeld' = kcHeld \ {t}
    /\ UNCHANGED kcBreaker

KcNext ==
    \/ KcCools
    \/ \E t \in KcThreads :
          \/ KcBegin(t) \/ KcLook(t) \/ KcJudge(t) \/ KcReset(t) \/ KcFail(t) \/ KcTrip(t)
          \/ KcGate(t) \/ KcAsk(t) \/ KcPost(t) \/ KcGet(t) \/ KcFills(t) \/ KcReturn(t)

KcSpec == KcInit /\ [][KcNext]_kcVars

(***************************************************************************)
(* Properties.                                                                 *)
(***************************************************************************)
KcTypeOK ==
    /\ kcCall \in [KcThreads ->
          [at : {"idle", "look", "judge", "reset", "gate", "ask", "send", "fail", "trip", "done"},
           kind : KcKinds \cup {"none"}, try : 1..KcTries, page : 1..KcMaxPages,
           order : {"none", "live", "twice", "cancelled", "filled"}, listed : 0..(KcMaxPages + 1),
           of : 1..(KcMaxPages + 1), sent : BOOLEAN,
           res : {"none", "submitted", "rejected", "closed", "unknown", "raised", "true", "false", "found", "absent"}]]
    /\ kcBreaker \in [failures : 0..KcThreshold, tripped : {"no", "within", "past"}]
    /\ kcHeld \subseteq KcThreads

KcDone(t, kind) == KcAt(t, "done") /\ kcCall[t].kind = kind

\* No call places two orders, whatever is lost on the way, and an order the
\* broker has taken is reported as submitted or unknown, never as refused.
KcPlacedOnce ==
    \A t \in KcThreads :
        /\ kcCall[t].order # "twice"
        /\ KcDone(t, "place") =>
              /\ kcCall[t].order = "live" => kcCall[t].res \in {"submitted", "unknown"}
              /\ kcCall[t].res = "submitted" => kcCall[t].order = "live"

\* A cancel that reports success has cancelled.  ("False" says nothing: the
\* second try of one whose answer was lost is refused.)
KcCancelTold == \A t \in KcThreads : KcDone(t, "cancel") /\ kcCall[t].res = "true" => kcCall[t].order = "cancelled"

\* "Not there" is said of an order no page lists, never of one nobody got to.
KcAbsent ==
    \A t \in KcThreads : KcDone(t, "status") =>
        /\ kcCall[t].res = "absent" => kcCall[t].listed = 0
        /\ kcCall[t].res = "found" => kcCall[t].listed # 0

\* A call that begins after the breaker has tripped asks the broker for nothing,
\* until the breaker has cooled or a call from before it tripped has succeeded.
KcQuiet == \A t \in kcHeld : ~kcCall[t].sent

KcInv == KcTypeOK /\ KcPlacedOnce /\ KcCancelTold /\ KcAbsent /\ KcQuiet
=============================================================================
