--------------------------------- MODULE KisShared ---------------------------------
(***************************************************************************)
(* What the callers of one KIS credential share in a process, each a machine   *)
(* of its own:                                                                 *)
(*                                                                             *)
(*   the access token     kis_adapter/auth.py get_token, revoke_token          *)
(*   the pace             kis_adapter/client.py RateLimiter                    *)
(*   the exchange rate    backend/brokers/kis.py get_fx_rate, _get_fx          *)
(***************************************************************************)
EXTENDS Integers, FiniteSets

CONSTANTS
    ShThreads,
    TkMax,          \* bound: tokens ever issued
    FxRetry,        \* _FX_RETRY_SEC, in ticks of the clock
    FxTtl,          \* _FX_TTL
    FxSizing        \* _FX_SIZING_MAX_AGE

ASSUME ShAssumption ==
    /\ IsFiniteSet(ShThreads) /\ TkMax \in Nat
    /\ FxRetry \in Nat \ {0} /\ FxSizing \in Nat /\ FxTtl \in FxRetry..FxSizing

VARIABLES tkRedis, tkMem, tkLock, tkCall, tkWorld,
          lmLead, lmWait,
          fxRate, fxCall

tkVars == <<tkRedis, tkMem, tkLock, tkCall, tkWorld>>
lmVars == <<lmLead, lmWait>>
fxVars == <<fxRate, fxCall>>

(***************************************************************************)
(* The token.  Tokens are numbered; an entry pairs a token with the expiry of  *)
(* the token it was stored for.  Redis is shared with the other processes.     *)
(***************************************************************************)
TkEmpty == [tok |-> 0, exp |-> 0]
TkIdle == [at |-> "idle", tok |-> 0, exp |-> 0]

\* made: tokens issued; aged: up to this one they are near their end; dead: revoked;
\* ours: issued by this process since a token aged or memory lost it; quiet: the last
\* revoke got through, no get_token ran beside it and Redis held.
TkInit ==
    /\ tkRedis = [up |-> TRUE, has |-> TkEmpty]
    /\ tkMem = TkEmpty
    /\ tkLock = {}
    /\ tkCall = [t \in ShThreads |-> TkIdle]
    /\ tkWorld = [made |-> 0, aged |-> 0, dead |-> {}, ours |-> 0, quiet |-> TRUE]

TkAt(t, at) == tkCall[t].at = at
TkGo(t, at) == tkCall' = [tkCall EXCEPT ![t].at = at]
TkDone(t) == tkCall' = [tkCall EXCEPT ![t] = TkIdle]
TkRevoking == \E t \in ShThreads : tkCall[t].at \in {"drop", "revoke", "delete"}
TkGetting == \E t \in ShThreads : tkCall[t].at \notin {"idle", "drop", "revoke", "delete"}

\* Further from its expiry than _TOKEN_REFRESH_BUFFER.
TkValid(e) == e.exp > tkWorld.aged

\* get_token begins: the token in Redis.
TkBegin(t) ==
    /\ TkAt(t, "idle")
    /\ IF tkRedis.up /\ tkRedis.has.tok # 0
       THEN tkCall' = [tkCall EXCEPT ![t] = [at |-> "expiry", tok |-> tkRedis.has.tok, exp |-> 0]]
       ELSE TkGo(t, "memory")
    /\ tkWorld' = [tkWorld EXCEPT !.quiet = @ /\ ~TkRevoking]
    /\ UNCHANGED <<tkRedis, tkMem, tkLock>>

\* Its expiry, in a read of its own.
TkExpiry(t) ==
    /\ TkAt(t, "expiry")
    /\ tkCall' = [tkCall EXCEPT ![t] = IF tkRedis.up /\ TkValid(tkRedis.has)
                                       THEN [@ EXCEPT !.at = "keep", !.exp = tkRedis.has.exp]
                                       ELSE [TkIdle EXCEPT !.at = "memory"]]
    /\ UNCHANGED <<tkRedis, tkMem, tkLock, tkWorld>>

\* What Redis had is kept in memory as well.
TkKeep(t) ==
    /\ TkAt(t, "keep") /\ TkDone(t)
    /\ tkMem' = [tok |-> tkCall[t].tok, exp |-> tkCall[t].exp]
    /\ tkWorld' = [tkWorld EXCEPT !.ours = IF TkValid(tkMem') THEN @ ELSE 0]
    /\ UNCHANGED <<tkRedis, tkLock>>

\* The token in memory, else the lock to issue one.
TkMemory(t) ==
    /\ TkAt(t, "memory")
    /\ IF TkValid(tkMem) THEN TkDone(t) ELSE TkGo(t, "wait")
    /\ UNCHANGED <<tkRedis, tkMem, tkLock, tkWorld>>

TkLocks(t) ==
    /\ TkAt(t, "wait") /\ tkLock = {}
    /\ tkLock' = {t} /\ TkGo(t, "check")
    /\ UNCHANGED <<tkRedis, tkMem, tkWorld>>

\* Another thread may have issued one while this one waited.
TkAgainNever == FALSE
TkAgain == TkValid(tkMem)

TkCheck(t) ==
    /\ TkAt(t, "check")
    /\ IF TkAgain THEN TkDone(t) /\ tkLock' = {} ELSE TkGo(t, "issue") /\ UNCHANGED tkLock
    /\ UNCHANGED <<tkRedis, tkMem, tkWorld>>

\* The broker issues a token, or refuses (one a minute), or cannot be reached.
TkIssue(t) ==
    /\ TkAt(t, "issue")
    /\ \/ /\ tkWorld.made < TkMax
          /\ tkWorld' = [tkWorld EXCEPT !.made = @ + 1, !.ours = @ + 1]
          /\ tkCall' = [tkCall EXCEPT ![t] = [at |-> "new", tok |-> tkWorld.made + 1, exp |-> tkWorld.made + 1]]
          /\ UNCHANGED tkLock
       \/ TkDone(t) /\ tkLock' = {} /\ UNCHANGED tkWorld
    /\ UNCHANGED <<tkRedis, tkMem>>

TkNew(t) ==
    /\ TkAt(t, "new") /\ TkGo(t, "store")
    /\ tkMem' = [tok |-> tkCall[t].tok, exp |-> tkCall[t].exp]
    /\ UNCHANGED <<tkRedis, tkLock, tkWorld>>

\* Two writes to Redis; one that fails leaves the rest out.
TkStore(t) ==
    /\ TkAt(t, "store")
    /\ IF tkRedis.up THEN TkGo(t, "store2") /\ tkRedis' = [tkRedis EXCEPT !.has.tok = tkCall[t].tok] /\ UNCHANGED tkLock
       ELSE TkDone(t) /\ tkLock' = {} /\ UNCHANGED tkRedis
    /\ UNCHANGED <<tkMem, tkWorld>>
TkStoreExpiry(t) ==
    /\ TkAt(t, "store2") /\ TkDone(t) /\ tkLock' = {}
    /\ tkRedis' = IF tkRedis.up THEN [tkRedis EXCEPT !.has.exp = tkCall[t].exp] ELSE tkRedis
    /\ UNCHANGED <<tkMem, tkWorld>>

\* revoke_token: read, drop, tell the broker, delete.
TkRevoke(t) ==
    /\ TkAt(t, "idle") /\ ~TkRevoking
    /\ tkCall' = [tkCall EXCEPT ![t] = [TkIdle EXCEPT !.at = "drop",
                                                      !.tok = IF tkRedis.up THEN tkRedis.has.tok ELSE 0]]
    /\ tkWorld' = [tkWorld EXCEPT !.quiet = tkRedis.up /\ ~TkGetting]
    /\ UNCHANGED <<tkRedis, tkMem, tkLock>>

TkForgetsUnfound(tok) == tok = 0
TkForgets(tok) == TRUE

TkDrop(t) ==
    /\ TkAt(t, "drop")
    /\ tkMem' = IF TkForgets(tkCall[t].tok) THEN TkEmpty ELSE tkMem
    /\ tkWorld' = [tkWorld EXCEPT !.ours = 0]
    /\ IF tkCall[t].tok = 0 THEN TkDone(t) ELSE TkGo(t, "revoke")
    /\ UNCHANGED <<tkRedis, tkLock>>

\* The request fails before or after the broker has taken it, and the rest is left out.
TkTell(t) ==
    /\ TkAt(t, "revoke")
    /\ \/ TkGo(t, "delete") /\ tkWorld' = [tkWorld EXCEPT !.dead = @ \cup {tkCall[t].tok}]
       \/ TkDone(t) /\ \E dead \in {{}, {tkCall[t].tok}} :
              tkWorld' = [tkWorld EXCEPT !.dead = @ \cup dead, !.quiet = FALSE]
    /\ UNCHANGED <<tkRedis, tkMem, tkLock>>

TkDelete(t) ==
    /\ TkAt(t, "delete") /\ TkDone(t)
    /\ tkRedis' = IF tkRedis.up THEN [tkRedis EXCEPT !.has = TkEmpty] ELSE tkRedis
    /\ UNCHANGED <<tkMem, tkLock, tkWorld>>

\* Another process stores a token it has issued.
TkForeign ==
    /\ tkRedis.up /\ tkWorld.made < TkMax
    /\ tkRedis' = [tkRedis EXCEPT !.has = [tok |-> tkWorld.made + 1, exp |-> tkWorld.made + 1]]
    /\ tkWorld' = [tkWorld EXCEPT !.made = @ + 1]
    /\ UNCHANGED <<tkMem, tkLock, tkCall>>

\* Time passes: the oldest good token nears its end.
TkAge ==
    /\ tkWorld.aged < tkWorld.made
    /\ tkWorld' = [tkWorld EXCEPT !.aged = @ + 1, !.ours = 0]
    /\ UNCHANGED <<tkRedis, tkMem, tkLock, tkCall>>

TkTurn ==
    /\ tkRedis' = [tkRedis EXCEPT !.up = ~@]
    /\ tkWorld' = [tkWorld EXCEPT !.quiet = @ /\ ~TkRevoking]
    /\ UNCHANGED <<tkMem, tkLock, tkCall>>

TkNext ==
    \/ TkForeign \/ TkAge \/ TkTurn
    \/ \E t \in ShThreads :
          \/ TkBegin(t) \/ TkExpiry(t) \/ TkKeep(t) \/ TkMemory(t) \/ TkLocks(t) \/ TkCheck(t)
          \/ TkIssue(t) \/ TkNew(t) \/ TkStore(t) \/ TkStoreExpiry(t)
          \/ TkRevoke(t) \/ TkDrop(t) \/ TkTell(t) \/ TkDelete(t)

\* However many threads find the caches empty, and whatever Redis does, the
\* process is issued one token until a token nears its end, memory is cleared by a
\* revoke, or a reader of Redis keeps a token there late, over a newer one.
TkOneIssued == tkWorld.ours <= 1

\* After a revoke that got through, with no get_token beside it, no revoked token
\* is in memory, then or later.
TkRevokedOut == tkWorld.quiet /\ ~TkRevoking /\ ~TkGetting => tkMem.tok \notin tkWorld.dead

(***************************************************************************)
(* The pace: a slot is claimed under the lock and waited for outside it.       *)
(* lmLead is the last slot claimed, counted from now.                          *)
(***************************************************************************)
LmInit == lmLead = -1 /\ lmWait = [t \in ShThreads |-> -1]

LmSlotNow(lead) == 0
LmSlot(lead) == IF lead < 0 THEN 0 ELSE lead + 1

LmClaim(t) ==
    /\ lmWait[t] <= 0
    /\ lmLead' = LmSlot(lmLead)
    /\ lmWait' = [lmWait EXCEPT ![t] = lmLead']

\* One interval.
LmTick ==
    /\ lmLead' = IF lmLead < 0 THEN -1 ELSE lmLead - 1
    /\ lmWait' = [t \in ShThreads |-> IF lmWait[t] < 0 THEN -1 ELSE lmWait[t] - 1]

LmNext == LmTick \/ \E t \in ShThreads : LmClaim(t)

\* Nobody shares a slot, and nobody waits longer than for those before him.
LmPaced ==
    /\ \A t, u \in ShThreads : t # u /\ lmWait[t] = lmWait[u] => lmWait[t] = -1
    /\ \A t \in ShThreads : lmWait[t] <= Cardinality(ShThreads)

(***************************************************************************)
(* The exchange rate.  Ages are counted up to where they stop to matter.       *)
(* seen: a rate has been fetched; set: since the rate was set (the default at  *)
(* the start counts); tried: since the last attempt.                           *)
(***************************************************************************)
FxIdle == [at |-> "idle", sizes |-> FALSE, since |-> 0, res |-> "none"]
FxInit ==
    /\ fxRate = [seen |-> FALSE, set |-> 0, tried |-> FxRetry]
    /\ fxCall = [t \in ShThreads |-> FxIdle]

FxGo(t, at) == fxCall' = [fxCall EXCEPT ![t].at = at]
FxEnds(t, res) == fxCall' = [fxCall EXCEPT ![t].at = "done", ![t].res = res]
FxFresh(age) == fxRate.seen /\ fxRate.set < age

\* get_fx_rate to size an order, _get_fx to value a balance.
FxBegin(t) ==
    /\ fxCall[t].at = "idle" /\ UNCHANGED fxRate
    /\ \E sizes \in BOOLEAN :
        LET fresh == IF sizes THEN FxFresh(FxTtl) ELSE fxRate.set < FxTtl
        IN fxCall' = [fxCall EXCEPT ![t] = [FxIdle EXCEPT !.sizes = sizes, !.at = IF fresh THEN "read" ELSE "claim"]]

\* _refresh_fx: one attempt in FxRetry, claimed before it is made.
FxClaimsLate == fxRate.tried
FxClaims == 0

FxClaim(t) ==
    /\ fxCall[t].at = "claim"
    /\ IF fxRate.tried < FxRetry THEN FxGo(t, "read") /\ UNCHANGED fxRate
       ELSE fxCall' = [fxCall EXCEPT ![t].at = "fetch", ![t].since = 0] /\ fxRate' = [fxRate EXCEPT !.tried = FxClaims]

FxFetch(t) ==
    /\ fxCall[t].at = "fetch"
    /\ fxCall' = [fxCall EXCEPT ![t].at = "read", ![t].since = 0]
    /\ \/ fxRate' = [fxRate EXCEPT !.seen = TRUE, !.set = 0]
       \/ UNCHANGED fxRate

FxMayUseAny(sizes) == TRUE
FxMayUse(sizes) == ~sizes \/ FxFresh(FxSizing)

FxRead(t) ==
    /\ fxCall[t].at = "read" /\ UNCHANGED fxRate
    /\ FxEnds(t, IF ~FxMayUse(fxCall[t].sizes) THEN "refused" ELSE IF fxRate.seen THEN "fetched" ELSE "default")

FxReturn(t) == fxCall[t].at = "done" /\ fxCall' = [fxCall EXCEPT ![t] = FxIdle] /\ UNCHANGED fxRate

FxTick ==
    /\ fxRate' = [fxRate EXCEPT !.set = IF @ < FxSizing THEN @ + 1 ELSE @,
                                !.tried = IF @ < FxRetry THEN @ + 1 ELSE @]
    /\ fxCall' = [t \in ShThreads |-> IF fxCall[t].at = "fetch" /\ fxCall[t].since < FxRetry
                                     THEN [fxCall[t] EXCEPT !.since = @ + 1] ELSE fxCall[t]]

FxNext == FxTick \/ \E t \in ShThreads : FxBegin(t) \/ FxClaim(t) \/ FxFetch(t) \/ FxRead(t) \/ FxReturn(t)

\* The source is asked once in a while, not by everyone whose rate is old; an
\* order is never sized by the default; a valuation never fails.
FxGentle ==
    /\ Cardinality({t \in ShThreads : fxCall[t].at = "fetch" /\ fxCall[t].since < FxRetry}) <= 1
    /\ \A t \in ShThreads : fxCall[t].at = "done" =>
          /\ fxCall[t].sizes => fxCall[t].res # "default"
          /\ ~fxCall[t].sizes => fxCall[t].res # "refused"

ShTypeOK ==
    /\ tkRedis.up \in BOOLEAN /\ {tkRedis.has, tkMem} \subseteq [tok : 0..TkMax, exp : 0..TkMax]
    /\ tkLock \subseteq ShThreads /\ Cardinality(tkLock) <= 1
    /\ tkCall \in [ShThreads -> [at : {"idle", "expiry", "keep", "memory", "wait", "check", "issue", "new", "store",
                                       "store2", "drop", "revoke", "delete"}, tok : 0..TkMax, exp : 0..TkMax]]
    /\ tkWorld \in [made : 0..TkMax, aged : 0..TkMax, dead : SUBSET (1..TkMax), ours : 0..TkMax, quiet : BOOLEAN]
    /\ lmLead \in Int /\ lmWait \in [ShThreads -> Int]
    /\ fxRate \in [seen : BOOLEAN, set : 0..FxSizing, tried : 0..FxRetry]
    /\ fxCall \in [ShThreads -> [at : {"idle", "claim", "fetch", "read", "done"}, sizes : BOOLEAN, since : 0..FxRetry,
                                 res : {"none", "refused", "fetched", "default"}]]

ShInv == ShTypeOK /\ TkOneIssued /\ TkRevokedOut /\ LmPaced /\ FxGentle
=============================================================================
