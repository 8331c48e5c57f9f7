--------------------------------- MODULE LiveFeed ---------------------------------
(***************************************************************************)
(* What the operator's screen shows of the account, and who may look at it     *)
(* (backend/worker/portfolio_feed.py, backend/websocket/server.py).            *)
(*                                                                             *)
(* publish_portfolio runs on a thread per fill or timer: one of them reads the *)
(* broker and publishes, the others ask it for one more round.  Redis relays a *)
(* published state to the screens and keeps the last one for newcomers.  The   *)
(* account is the number of fills it has seen.                                 *)
(*                                                                             *)
(* The second half is the sockets' life: a token is verified when a socket     *)
(* connects, and a sweeper closes the sockets whose token has run out.         *)
(***************************************************************************)
EXTENDS Naturals, FiniteSets

CONSTANTS
    LfThreads,      \* threads that may call publish_portfolio
    LfFills,        \* bound: fills
    LfFaults,       \* bound: failed reads, publishes, keeps, and losses of Redis
    WsSockets,      \* sockets
    WsLast,         \* bound: sweeper periods
    WsFaults        \* bound: disconnects that fail

ASSUME LfAssumption == {LfFills, LfFaults, WsLast, WsFaults} \subseteq Nat

VARIABLES
    lfAccount,      \* the fills the account has seen
    lfRunning,      \* _running
    lfPending,      \* _pending
    lfThread,       \* the threads: where each is, its channel, and its reading
    lfKept,         \* ws:last:<channel>
    lfListening,    \* the Redis listener is subscribed
    lfScreen,       \* one operator's screen
    lfFaults,
    lfMissed,       \* history: channels whose last round failed
    lfCut           \* history: a finished publisher cleared the flag of another one

lfVars == <<lfAccount, lfRunning, lfPending, lfThread, lfKept, lfListening, lfScreen, lfFaults, lfMissed, lfCut>>

LfChannels == {"equity", "position"}
LfNext1(ch) == IF ch = "equity" THEN "position" ELSE "none"
LfAfter(ch) == IF ch = "equity" THEN "read" ELSE "check"
LfIdle == [at |-> "idle", ch |-> "none", seen |-> 0]
LfPublishing == {t \in LfThreads : lfThread[t].at \in {"clear", "read", "publish", "keep", "check"}}

LfInit ==
    /\ lfAccount = 0 /\ lfRunning = FALSE /\ lfPending = FALSE
    /\ lfThread = [t \in LfThreads |-> LfIdle]
    /\ lfKept = [ch \in LfChannels |-> 0]
    /\ lfListening = TRUE
    /\ lfScreen = [at |-> "away", ch |-> "none", got |-> 0,
                   shows |-> [ch \in LfChannels |-> 0], passed |-> {}]
    /\ lfFaults = 0 /\ lfMissed = {} /\ lfCut = FALSE

LfGo(t, at, ch) == lfThread' = [lfThread EXCEPT ![t].at = at, ![t].ch = ch]
LfFault == lfFaults < LfFaults /\ lfFaults' = lfFaults + 1

\* A fill moves the account, and its thread will ask for a publish.
LfFill(t) ==
    /\ lfThread[t] = LfIdle /\ lfAccount < LfFills
    /\ lfAccount' = lfAccount + 1
    /\ LfGo(t, "enter", "none")
    /\ UNCHANGED <<lfRunning, lfPending, lfKept, lfListening, lfScreen, lfFaults, lfMissed, lfCut>>

\* One publisher at a time: who finds one running leaves it a note.
LfEnter(t) ==
    /\ lfThread[t].at = "enter"
    /\ IF lfRunning
       THEN lfPending' = TRUE /\ LfGo(t, "idle", "none") /\ UNCHANGED lfRunning
       ELSE lfRunning' = TRUE /\ LfGo(t, "clear", "none") /\ UNCHANGED lfPending
    /\ UNCHANGED <<lfAccount, lfKept, lfListening, lfScreen, lfFaults, lfMissed, lfCut>>

LfClear(t) ==
    /\ lfThread[t].at = "clear"
    /\ lfPending' = FALSE
    /\ LfGo(t, "read", "equity")
    /\ UNCHANGED <<lfAccount, lfRunning, lfKept, lfListening, lfScreen, lfFaults, lfMissed, lfCut>>

\* The balance and the positions are read and published independently.
LfRead(t) ==
    /\ lfThread[t].at = "read"
    /\ lfThread' = [lfThread EXCEPT ![t].at = "publish", ![t].seen = lfAccount]
    /\ UNCHANGED <<lfAccount, lfRunning, lfPending, lfKept, lfListening, lfScreen, lfFaults, lfMissed, lfCut>>

LfNextChannel(t) ==
    lfThread' = [lfThread EXCEPT ![t].at = LfAfter(lfThread[t].ch), ![t].ch = LfNext1(lfThread[t].ch),
                                 ![t].seen = 0]

\* A read or a publish fails: this channel has no news this round.
LfFails(t) ==
    /\ lfThread[t].at \in {"read", "publish"}
    /\ LfFault /\ lfMissed' = lfMissed \union {lfThread[t].ch}
    /\ LfNextChannel(t)
    /\ UNCHANGED <<lfAccount, lfRunning, lfPending, lfKept, lfListening, lfScreen, lfCut>>

\* Redis hands a message to the listener, which emits it to every socket it has
\* by then; "passed" remembers the channels whose news a screen has not been told
\* of, or was told of while it was still being sent the snapshot.
LfPublish(t) ==
    LET ch == lfThread[t].ch IN
    /\ lfThread[t].at = "publish"
    /\ LfGo(t, "keep", ch)
    /\ lfScreen' =
         IF lfScreen.at = "away" THEN lfScreen
         ELSE IF lfListening
           THEN [lfScreen EXCEPT !.shows[ch] = lfThread[t].seen,
                                 !.passed = IF lfScreen.at = "up" THEN @ \ {ch} ELSE @ \union {ch}]
         ELSE [lfScreen EXCEPT !.passed = @ \union {ch}]
    /\ UNCHANGED <<lfAccount, lfRunning, lfPending, lfKept, lfListening, lfFaults, lfMissed, lfCut>>

\* The state is kept after it went out; a failure costs the newcomers only.
LfKeep(t) ==
    LET ch == lfThread[t].ch IN
    /\ lfThread[t].at = "keep"
    /\ \/ /\ lfKept' = [lfKept EXCEPT ![ch] = lfThread[t].seen]
          /\ lfMissed' = lfMissed \ {ch}
          /\ UNCHANGED lfFaults
       \/ /\ LfFault /\ lfMissed' = lfMissed \union {ch}
          /\ UNCHANGED lfKept
    /\ LfNextChannel(t)
    /\ UNCHANGED <<lfAccount, lfRunning, lfPending, lfListening, lfScreen, lfCut>>

LfMoreNever == FALSE
LfMore == lfPending

\* Another round, or the end.
LfCheck(t) ==
    /\ lfThread[t].at = "check"
    /\ IF LfMore
       THEN LfGo(t, "clear", "none") /\ UNCHANGED lfRunning
       ELSE lfRunning' = FALSE /\ LfGo(t, "final", "none")
    /\ UNCHANGED <<lfAccount, lfPending, lfKept, lfListening, lfScreen, lfFaults, lfMissed, lfCut>>

\* The finally clause lowers the flag once more, whoever has raised it by now.
LfFinal(t) ==
    /\ lfThread[t].at = "final"
    /\ lfRunning' = FALSE
    /\ lfCut' = (lfCut \/ lfRunning)
    /\ LfGo(t, "idle", "none")
    /\ UNCHANGED <<lfAccount, lfPending, lfKept, lfListening, lfScreen, lfFaults, lfMissed>>

\* The listener loses Redis and comes back; what was published meanwhile is gone.
LfListener ==
    /\ lfListening' = ~lfListening
    /\ IF lfListening THEN LfFault ELSE UNCHANGED lfFaults
    /\ UNCHANGED <<lfAccount, lfRunning, lfPending, lfThread, lfKept, lfScreen, lfMissed, lfCut>>

\* A screen connects: from now on it is emitted to, and is sent the snapshot.
\* The news published but not kept yet pass it by.
LfJoin ==
    /\ lfScreen.at = "away"
    /\ lfScreen' = [lfScreen EXCEPT !.at = "get", !.ch = "position",
                        !.passed = {lfThread[t].ch : t \in {u \in LfThreads : lfThread[u].at = "keep"}}]
    /\ UNCHANGED <<lfAccount, lfRunning, lfPending, lfThread, lfKept, lfListening, lfFaults, lfMissed, lfCut>>

LfGet ==
    /\ lfScreen.at = "get"
    /\ lfScreen' = [lfScreen EXCEPT !.at = "send", !.got = lfKept[lfScreen.ch]]
    /\ UNCHANGED <<lfAccount, lfRunning, lfPending, lfThread, lfKept, lfListening, lfFaults, lfMissed, lfCut>>

\* ... or the read or the emit fails and the channel waits for its next news.
LfSend ==
    LET ch == lfScreen.ch
        after == [lfScreen EXCEPT !.at = IF ch = "position" THEN "get" ELSE "up", !.got = 0,
                                        !.ch = IF ch = "position" THEN "equity" ELSE "none"]
    IN  /\ \/ /\ lfScreen.at = "send"
              /\ lfScreen' = [after EXCEPT !.shows[ch] = lfScreen.got]
              /\ UNCHANGED lfFaults
           \/ /\ lfScreen.at \in {"get", "send"} /\ LfFault
              /\ lfScreen' = [after EXCEPT !.passed = @ \union {ch}]
        /\ UNCHANGED <<lfAccount, lfRunning, lfPending, lfThread, lfKept, lfListening, lfMissed, lfCut>>

LfNext ==
    \/ \E t \in LfThreads : \/ LfFill(t) \/ LfEnter(t) \/ LfClear(t) \/ LfRead(t) \/ LfFails(t)
                            \/ LfPublish(t) \/ LfKeep(t) \/ LfCheck(t) \/ LfFinal(t)
    \/ LfListener \/ LfJoin \/ LfGet \/ LfSend

-----------------------------------------------------------------------------
VARIABLES
    wsClock,        \* sweeper periods
    wsSocket,       \* the sockets: where each is, its token's expiry, and when it was recorded
    wsEntry,        \* _session_expiry
    wsSweeper,      \* the sweep under way: the sockets it took, and the period of the last sweep
    wsFailed        \* sockets whose disconnect failed

wsVars == <<wsClock, wsSocket, wsEntry, wsSweeper, wsFailed>>

WsInit ==
    /\ wsClock = 0
    /\ \E exp \in [WsSockets -> 0..WsLast] :
         wsSocket = [s \in WsSockets |-> [at |-> "away", open |-> FALSE, exp |-> exp[s], since |-> 0]]
    /\ wsEntry = {} /\ wsSweeper = [batch |-> {}, last |-> 0] /\ wsFailed = {}

\* A good token of an operator: the socket is open from here on.
WsConnect(s) ==
    /\ wsSocket[s].at = "away"
    /\ wsSocket' = [wsSocket EXCEPT ![s].at = IF wsSocket[s].exp > wsClock THEN "verified" ELSE "refused",
                                    ![s].open = wsSocket[s].exp > wsClock]
    /\ UNCHANGED <<wsClock, wsEntry, wsSweeper, wsFailed>>

\* Its expiry goes on record, even if the client has left by now.
WsRegister(s) ==
    /\ wsSocket[s].at = "verified"
    /\ wsSocket' = [wsSocket EXCEPT ![s].at = "up", ![s].since = wsClock]
    /\ wsEntry' = wsEntry \union {s}
    /\ UNCHANGED <<wsClock, wsSweeper, wsFailed>>

\* The client leaves, on_disconnect forgets it.
WsLeave(s) ==
    /\ wsSocket[s].open
    /\ wsSocket' = [wsSocket EXCEPT ![s].open = FALSE]
    /\ wsEntry' = wsEntry \ {s}
    /\ UNCHANGED <<wsClock, wsSweeper, wsFailed>>

WsTick ==
    /\ wsClock < WsLast + 1
    /\ wsSweeper.batch = {} /\ wsSweeper.last = wsClock
    /\ wsClock' = wsClock + 1
    /\ UNCHANGED <<wsSocket, wsEntry, wsSweeper, wsFailed>>

\* A sweep a period: the expired entries go first, under the lock, ...
WsExpire ==
    LET expired == {s \in wsEntry : wsSocket[s].exp <= wsClock} IN
    /\ wsSweeper.batch = {} /\ wsSweeper.last < wsClock
    /\ wsSweeper' = [batch |-> expired, last |-> wsClock]
    /\ wsEntry' = wsEntry \ expired
    /\ UNCHANGED <<wsClock, wsSocket, wsFailed>>

\* ... then each of their sockets is closed; one that fails does not stop the rest.
WsAfterFailureStops(s) == {}
WsAfterFailure(s) == wsSweeper.batch \ {s}
WsClose(s) ==
    /\ s \in wsSweeper.batch
    /\ \/ /\ wsSweeper' = [wsSweeper EXCEPT !.batch = @ \ {s}]
          /\ wsSocket' = [wsSocket EXCEPT ![s].open = FALSE]
          /\ UNCHANGED wsFailed
       \/ /\ Cardinality(wsFailed) < WsFaults
          /\ wsFailed' = wsFailed \union {s}
          /\ wsSweeper' = [wsSweeper EXCEPT !.batch = WsAfterFailure(s)]
          /\ UNCHANGED wsSocket
    /\ UNCHANGED <<wsClock, wsEntry>>

WsNext == WsTick \/ WsExpire \/ \E s \in WsSockets : WsConnect(s) \/ WsRegister(s) \/ WsLeave(s) \/ WsClose(s)

-----------------------------------------------------------------------------
LfTypeOK ==
    /\ lfAccount \in 0..LfFills /\ {lfRunning, lfPending, lfListening, lfCut} \subseteq BOOLEAN
    /\ lfThread \in [LfThreads -> [at : {"idle", "enter", "clear", "read", "publish", "keep", "check", "final"},
                                   ch : LfChannels \union {"none"}, seen : 0..LfFills]]
    /\ lfKept \in [LfChannels -> 0..LfFills] /\ lfFaults \in 0..LfFaults /\ lfMissed \subseteq LfChannels
    /\ wsClock \in 0..(WsLast + 1) /\ wsEntry \subseteq WsSockets /\ wsFailed \subseteq WsSockets
    /\ wsSweeper \in [batch : SUBSET WsSockets, last : 0..(WsLast + 1)]

\* publish_portfolio publishes on one thread at a time, unless a publisher's
\* second lowering of the flag has hit one that began after it.
LfOnePublisher == ~lfCut => Cardinality(LfPublishing) <= 1

\* The last fill is always reflected: when every request is answered, what is
\* kept of a channel is the account as it is, if the channel's last round went
\* through ...
LfQuiet == \A t \in LfThreads : lfThread[t].at \in {"idle", "final"}
LfLastKept == LfQuiet /\ ~lfCut => \A ch \in LfChannels \ lfMissed : lfKept[ch] = lfAccount

\* ... and a screen shows it too: one that connected since, whatever was kept,
\* and one that was there from the first publish that reaches it in peace.
LfLastShown ==
    LfQuiet /\ ~lfCut /\ lfScreen.at = "up" =>
        \A ch \in LfChannels \ (lfMissed \union lfScreen.passed) : lfScreen.shows[ch] = lfAccount

\* A socket outlives its token by at most one sweep, however its steps fall
\* between the sweeper's, unless closing that very socket failed.
WsSoonClosed ==
    \A s \in WsSockets \ wsFailed :
        LET k == wsSocket[s] IN
        k.open /\ k.at = "up" => wsClock <= 1 + (IF k.exp > k.since THEN k.exp ELSE k.since)

\* What the live feed promises the operator.
LfInv == LfTypeOK /\ LfOnePublisher /\ LfLastKept /\ LfLastShown /\ WsSoonClosed
=============================================================================
