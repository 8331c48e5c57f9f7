------------------------------- MODULE SessionSignal -------------------------------
(***************************************************************************)
(* A market opens: the scheduler writes a row of commands and publishes a      *)
(* message; the worker hears the message, or, while Redis is away, polls the   *)
(* rows; either way the sessions are told unless they were told shortly before *)
(* (backend/worker/scheduler.py, backend/worker/runner.py).                    *)
(*                                                                             *)
(* Time counts in units of which SoWindow are the five minutes of the dedup;   *)
(* the clock is the monotonic one, which starts with the host.  One market.    *)
(***************************************************************************)
EXTENDS Naturals, Sequences, FiniteSets, FiniteSetsExt

CONSTANTS
    SoOpens,        \* bound: openings
    SoWindow,       \* the dedup window
    SoDay,          \* time between two openings, at least
    SoEnd,          \* bound: the clock
    SoLimit,        \* rows a poll takes
    SoMishaps       \* bound: outages of Redis, failed writes, restarts of the worker

ASSUME SoAssumption ==
    /\ {SoOpens, SoDay, SoMishaps} \subseteq Nat /\ {SoWindow, SoEnd, SoLimit} \subseteq Nat \ {0}
    /\ SoDay > SoWindow

VARIABLES
    soClock,
    soRow,          \* the openings' rows: "none", "pending", "processed"
    soPublishing,   \* the opening the scheduler is about to publish, 0 for none
    soRedis,        \* the connection, and the messages on their way to the worker
    soMain,         \* the worker's main thread, and the rows of its poll
    soLast,         \* _last_market_open
    soAt,           \* when an opening was signalled, 0 for not yet
    soTold,         \* how often the sessions were told of an opening
    soSkipped,      \* history: openings ignored, when, and when the sessions had last been told
    soToldAt,       \* history: when the sessions were last told, 0 for never
    soMishaps       \* how often which mishap happened

soVars == <<soClock, soRow, soPublishing, soRedis, soMain, soLast, soAt, soTold, soSkipped, soToldAt, soMishaps>>

Openings == 1..SoOpens
SoListening == [at |-> "listen", batch |-> <<>>, taken |-> <<>>]

SoInit ==
    /\ soClock = 1 /\ soRow = [o \in Openings |-> "none"] /\ soPublishing = 0
    /\ soRedis = [up |-> TRUE, linked |-> TRUE, bus |-> <<>>]
    /\ soMain = SoListening /\ soLast = 0
    /\ soAt = [o \in Openings |-> 0] /\ soTold = [o \in Openings |-> 0]
    /\ soSkipped = {} /\ soToldAt = 0
    /\ soMishaps = [outage |-> 0, write |-> 0, restart |-> 0]

SoMishap(kind) ==
    /\ soMishaps.outage + soMishaps.write + soMishaps.restart < SoMishaps
    /\ soMishaps' = [soMishaps EXCEPT ![kind] = @ + 1]

\* A publish, and the hearing of a message by a worker that listens, take less
\* than a unit.
SoTick ==
    /\ soPublishing = 0 /\ (soMain.at = "listen" => soRedis.bus = <<>>)
    /\ soClock < SoEnd /\ soClock' = soClock + 1
    /\ UNCHANGED <<soRow, soPublishing, soRedis, soMain, soLast, soAt, soTold, soSkipped, soToldAt, soMishaps>>

\* _trigger_kr_session, _trigger_us_session on a trading day: the row first, and
\* whatever becomes of it, then the message.  The scheduler lives in the worker.
SoOpen(o) ==
    /\ soAt[o] = 0 /\ soPublishing = 0 /\ soMain.at # "down"
    /\ \A q \in 1..(o - 1) : soAt[q] # 0 /\ soClock >= soAt[q] + SoDay
    /\ soAt' = [soAt EXCEPT ![o] = soClock]
    /\ soPublishing' = o
    /\ \/ soRow' = [soRow EXCEPT ![o] = "pending"] /\ UNCHANGED soMishaps
       \/ SoMishap("write") /\ UNCHANGED soRow
    /\ UNCHANGED <<soClock, soRedis, soMain, soLast, soTold, soSkipped, soToldAt>>

SoPublish ==
    /\ soPublishing # 0
    /\ soRedis' = IF soRedis.linked THEN [soRedis EXCEPT !.bus = Append(@, soPublishing)] ELSE soRedis
    /\ soPublishing' = 0
    /\ UNCHANGED <<soClock, soRow, soMain, soLast, soAt, soTold, soSkipped, soToldAt, soMishaps>>

\* What the window is counted from after an opening was ignored: nothing changes.
SoLastSlides == soClock
SoLastStays == soLast

\* _handle_market_open: told once in five minutes, whichever way the news came.
\* A market never heard of counts as told when the host came up.
SoHandle(o) ==
    IF soClock - soLast < SoWindow
    THEN /\ soSkipped' = soSkipped \union {[opening |-> o, at |-> soClock, told |-> soToldAt]}
         /\ soLast' = SoLastStays
         /\ UNCHANGED <<soTold, soToldAt>>
    ELSE /\ soTold' = [soTold EXCEPT ![o] = @ + 1]
         /\ soLast' = soClock /\ soToldAt' = soClock
         /\ UNCHANGED soSkipped

\* get_message: an opening, or the connection turns out to be gone.
SoListen ==
    /\ soMain.at = "listen"
    /\ \/ /\ soRedis.linked /\ soRedis.bus # <<>>
          /\ soRedis' = [soRedis EXCEPT !.bus = Tail(@)]
          /\ SoHandle(Head(soRedis.bus))
          /\ UNCHANGED soMain
       \/ /\ ~soRedis.linked
          /\ soMain' = [soMain EXCEPT !.at = "ping"]
          /\ UNCHANGED <<soRedis, soLast, soTold, soSkipped, soToldAt>>
    /\ UNCHANGED <<soClock, soRow, soPublishing, soAt, soMishaps>>

SoPending == {o \in Openings : soRow[o] = "pending"}

\* The oldest rows, at most SoLimit of them.
SoOldest ==
    LET n == IF Cardinality(SoPending) < SoLimit THEN Cardinality(SoPending) ELSE SoLimit
    IN  CHOOSE s \in [1..n -> SoPending] :
            /\ \A i, j \in 1..n : i < j => s[i] < s[j]
            /\ \A o \in SoPending \ {s[i] : i \in 1..n} : \A i \in 1..n : s[i] < o

\* _enter_db_polling_mode: back to Redis as soon as it answers, otherwise a poll.
SoPing ==
    /\ soMain.at = "ping"
    /\ IF soRedis.up
       THEN soMain' = SoListening /\ soRedis' = [soRedis EXCEPT !.linked = TRUE, !.bus = <<>>]
       ELSE soMain' = [at |-> "poll", batch |-> SoOldest, taken |-> SoOldest] /\ UNCHANGED soRedis
    /\ UNCHANGED <<soClock, soRow, soPublishing, soLast, soAt, soTold, soSkipped, soToldAt, soMishaps>>

SoTake ==
    /\ soMain.at = "poll" /\ soMain.batch # <<>>
    /\ SoHandle(Head(soMain.batch))
    /\ soMain' = [soMain EXCEPT !.batch = Tail(@)]
    /\ UNCHANGED <<soClock, soRow, soPublishing, soRedis, soAt, soMishaps>>

\* The rows of the poll are marked together, after the last one.
SoMarksPending == SoPending
SoMarksNone == {}
SoMarks == {soMain.taken[i] : i \in DOMAIN soMain.taken}
SoMark ==
    /\ soMain.at = "poll" /\ soMain.batch = <<>>
    /\ soMain' = [soMain EXCEPT !.at = "ping", !.taken = <<>>]
    /\ \/ soRow' = [o \in Openings |-> IF o \in SoMarks THEN "processed" ELSE soRow[o]] /\ UNCHANGED soMishaps
       \/ SoMishap("write") /\ UNCHANGED soRow
    /\ UNCHANGED <<soClock, soPublishing, soRedis, soLast, soAt, soTold, soSkipped, soToldAt>>

\* Redis goes away: what was on its way to the worker is lost.
SoOutage ==
    /\ soRedis.up /\ SoMishap("outage")
    /\ soRedis' = [up |-> FALSE, linked |-> FALSE, bus |-> <<>>]
    /\ UNCHANGED <<soClock, soRow, soPublishing, soMain, soLast, soAt, soTold, soSkipped, soToldAt>>

SoBack ==
    /\ ~soRedis.up
    /\ soRedis' = [soRedis EXCEPT !.up = TRUE]
    /\ UNCHANGED <<soClock, soRow, soPublishing, soMain, soLast, soAt, soTold, soSkipped, soToldAt, soMishaps>>

\* The worker ends, its memory of the last broadcast with it, and comes back.
SoRestart ==
    /\ \/ soMain.at # "down" /\ SoMishap("restart") /\ soMain' = [SoListening EXCEPT !.at = "down"]
       \/ soMain.at = "down" /\ soMain' = [SoListening EXCEPT !.at = "ping"] /\ UNCHANGED soMishaps
    /\ soLast' = 0 /\ soPublishing' = 0
    /\ soRedis' = [soRedis EXCEPT !.linked = FALSE, !.bus = <<>>]
    /\ UNCHANGED <<soClock, soRow, soAt, soTold, soSkipped, soToldAt>>

SoNext ==
    \/ \E o \in Openings : SoOpen(o)
    \/ SoTick \/ SoPublish \/ SoListen \/ SoPing \/ SoTake \/ SoMark \/ SoOutage \/ SoBack \/ SoRestart

-----------------------------------------------------------------------------
SoTypeOK ==
    /\ soClock \in 1..SoEnd /\ soRow \in [Openings -> {"none", "pending", "processed"}]
    /\ soMain.at \in {"listen", "ping", "poll", "down"} /\ soLast \in 0..SoEnd
    /\ soRedis.linked => soRedis.up

\* The message and the row of an opening tell the sessions once each; only a poll
\* whose marks were not written, or that the worker did not survive, repeats it.
SoTwiceAtMost == \A o \in Openings : soTold[o] <= 2 + soMishaps.write + soMishaps.restart

\* A row is marked only when a poll has put it before the sessions, so that an
\* opening Redis did not carry waits for the poll that gets to it.
SoMarkedWasHeard ==
    \A o \in Openings :
        soRow[o] = "processed" => soTold[o] > 0 \/ \E s \in soSkipped : s.opening = o

\* An opening is ignored only when the sessions were told of one less than the
\* window before, or the host has just come up: what is ignored does not
\* lengthen the window.
SoToldLately ==
    \A s \in soSkipped :
        s.at < SoWindow \/ (s.told > 0 /\ s.at - s.told < SoWindow)

\* With Redis there all the time, and no restart, an opening whose message is out
\* is acted on once and no more, whatever rows are left in the table.
SoOnceInPeace ==
    soMishaps.outage + soMishaps.restart = 0 =>
        \A o \in Openings : soTold[o] <= 1 /\
            (soAt[o] # 0 /\ soAt[o] >= SoWindow /\ soPublishing # o /\ soRedis.bus = <<>> => soTold[o] = 1)

\* What the sessions are told of the markets' openings.
SoInv == SoTypeOK /\ SoTwiceAtMost /\ SoMarkedWasHeard /\ SoToldLately /\ SoOnceInPeace
=============================================================================
