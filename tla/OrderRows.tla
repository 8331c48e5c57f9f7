--------------------------------- MODULE OrderRows ---------------------------------
(***************************************************************************)
(* Which row of the orders table is an order's own, when the broker's order    *)
(* numbers start again every day (backend/worker/runner.py: _persist_order,    *)
(* _persist_fill, the number -> row record between them).                      *)
(*                                                                             *)
(* OrderRecord follows one order and one row.  Here are two orders, placed on  *)
(* the same day or across midnight, of one symbol or two.  A write of the      *)
(* database and the change of the record after it are steps of their own, and  *)
(* a fill's write comes after the symbol's lock is released.                   *)
(***************************************************************************)
EXTENDS Naturals, Sequences, FiniteSets, FiniteSetsExt

CONSTANTS
    OrCount,        \* orders
    OrSymbols,      \* symbols; side and symbol together, that is
    OrQty,          \* an order's quantity
    OrMishaps       \* bound: database writes that fail and fills handed over a second time, together

ASSUME OrAssumption == {OrCount, OrQty} \subseteq Nat \ {0}

VARIABLES
    orDay,          \* the Seoul date
    orOrder,        \* the orders, as the broker and the state machine have them
    orRows,         \* the orders table, with the shares filed on a row by order
    orIds,          \* _order_row_ids: order number -> row, 0 for no record
    orRun,          \* what is being written for an order, and how far it is
    orLock,         \* symbols with a pending order
    orFaults, orAgain,
    orLatched,      \* orders with a fill that was reported as unrecorded
    orOdd           \* history: orders that drew a live order's number, or whose row, or a fill told
                    \* again, came a day late

orVars == <<orDay, orOrder, orRows, orIds, orRun, orLock, orFaults, orAgain, orLatched, orOdd>>

OrOrders == 1..OrCount
OrNumbers == 1..OrCount
OrOpen == {"submitted", "partial_filled"}
OrNoRun == [at |-> "none", why |-> "none", row |-> 0, cum |-> 0, taken |-> FALSE]

OrInit ==
    /\ orDay = 0
    /\ orOrder = [o \in OrOrders |-> [number |-> 0, day |-> 0, symbol |-> "none", status |-> "new",
                                      filled |-> 0, at |-> 0, mark |-> 0]]
    /\ orRows = <<>> /\ orIds = [n \in OrNumbers |-> 0]
    /\ orRun = [o \in OrOrders |-> OrNoRun]
    /\ orLock = {} /\ orFaults = 0 /\ orAgain = 0 /\ orLatched = {} /\ orOdd = {}

OrMidnight ==
    /\ orDay = 0 /\ orDay' = 1
    /\ UNCHANGED <<orOrder, orRows, orIds, orRun, orLock, orFaults, orAgain, orLatched, orOdd>>

\* An order the state machine has, or whose writes still use the number's record,
\* or with a repeated fill under way, which no row is remembered for.
OrLive(o) ==
    \/ orOrder[o].status \in OrOpen \/ orRun[o].at \in {"write", "record", "bind"}
    \/ orRun[o].why = "fill" /\ ~orRun[o].taken

\* A strategy places an order for a symbol without one; the broker numbers it from
\* 1 each day.
OrPlace(o) ==
    LET number == 1 + Cardinality({p \in OrOrders : orOrder[p].number # 0 /\ orOrder[p].day = orDay})
        symbol == orOrder'[o].symbol
    IN  /\ orOrder[o].number = 0 /\ \A p \in 1..(o - 1) : orOrder[p].number # 0
        /\ \E s \in OrSymbols \ orLock :
               orOrder' = [orOrder EXCEPT ![o] = [number |-> number, day |-> orDay, symbol |-> s,
                                                  status |-> "submitted", filled |-> 0, at |-> 0, mark |-> 0]]
        /\ orLock' = orLock \union {symbol}
        /\ orRun' = [orRun EXCEPT ![o] = [OrNoRun EXCEPT !.at = "write", !.why = "place"]]
        /\ orOdd' =
             IF \/ \E p \in OrOrders \ {o} : orOrder[p].number = number /\ OrLive(p)
                \/ \E r \in DOMAIN orRows :
                       orRows[r].number = number /\ orRows[r].status \in OrOpen /\ orRows[r].symbol = symbol
             THEN orOdd \union {o} ELSE orOdd
        /\ UNCHANGED <<orDay, orRows, orIds, orFaults, orAgain, orLatched>>

OrBrokerFill(o) ==
    /\ orOrder[o].status \in OrOpen /\ orOrder[o].at < OrQty
    /\ orOrder' = [orOrder EXCEPT ![o].at = @ + 1]
    /\ UNCHANGED <<orDay, orRows, orIds, orRun, orLock, orFaults, orAgain, orLatched, orOdd>>

\* The poller hands over what is new; the state machine takes it unless it has
\* closed the order.  A fill may come a second time, with the same total.
OrFill(o) ==
    LET k == orOrder[o]  new == k.at > k.mark  taken == k.status \in OrOpen IN
    /\ orRun[o].at = "none" /\ k.at > 0 /\ k.number # 0
    /\ new \/ orFaults + orAgain < OrMishaps
    /\ orAgain' = IF new THEN orAgain ELSE orAgain + 1
    /\ orOrder' = IF taken
                  THEN [orOrder EXCEPT ![o].filled = k.at, ![o].mark = k.at,
                            ![o].status = IF k.at = OrQty THEN "filled" ELSE "partial_filled"]
                  ELSE [orOrder EXCEPT ![o].mark = k.at]
    /\ orRun' = [orRun EXCEPT ![o] = [at |-> IF taken THEN "write" ELSE "bind", why |-> "fill", row |-> 0,
                                      cum |-> k.at, taken |-> taken]]
    /\ orOdd' = IF new \/ orDay = k.day THEN orOdd ELSE orOdd \union {o}
    /\ UNCHANGED <<orDay, orRows, orIds, orLock, orFaults, orLatched>>

\* A cancel, once every fill is in.
OrCancel(o) ==
    /\ orRun[o].at = "none" /\ orOrder[o].status \in OrOpen /\ orOrder[o].at = orOrder[o].mark
    /\ orOrder' = [orOrder EXCEPT ![o].status = "canceled"]
    /\ orRun' = [orRun EXCEPT ![o] = [OrNoRun EXCEPT !.at = "write", !.why = "close"]]
    /\ orLock' = orLock \ {orOrder[o].symbol}
    /\ UNCHANGED <<orDay, orRows, orIds, orFaults, orAgain, orLatched, orOdd>>

OrSame(r, o) == orRows[r].symbol = orOrder[o].symbol

\* _open_order_row: the newest open row of the number and the symbol, 0 for none.
OrOpenRowAny(o) ==
    LET rows == {r \in DOMAIN orRows : orRows[r].number = orOrder[o].number /\ OrSame(r, o)}
    IN  IF rows = {} THEN 0 ELSE Max(rows)
OrOpenRow(o) ==
    LET rows == {r \in DOMAIN orRows : /\ orRows[r].number = orOrder[o].number /\ OrSame(r, o)
                                       /\ orRows[r].status \in OrOpen}
    IN  IF rows = {} THEN 0 ELSE Max(rows)

\* The row an order is written to: the recorded one if it is open and the order's,
\* or else an open one, or else a new one.
OrTarget(o) ==
    LET known == orIds[orOrder[o].number] IN
    IF known # 0 /\ orRows[known].status \in OrOpen /\ OrSame(known, o) THEN known ELSE OrOpenRow(o)

OrHasKey(o) ==
    \E r \in DOMAIN orRows : /\ orRows[r].number = orOrder[o].number /\ OrSame(r, o) /\ orRows[r].day = orDay

OrStep(o, at) == orRun' = [orRun EXCEPT ![o].at = at]
OrAfterWrite(o) == IF orRun[o].why = "fill" THEN "bind" ELSE "none"

\* _persist_order: the row is brought up to the state machine, in one commit.
\* Before an insert the number's record is dropped; an order whose key is on file
\* is skipped, and a failure is swallowed.
OrWrite(o) ==
    LET k == orOrder[o]  r == OrTarget(o)  n == k.number IN
    /\ orRun[o].at = "write"
    /\ \/ /\ r # 0
          /\ orRows' = [orRows EXCEPT ![r].status = k.status, ![r].filled = k.filled]
          /\ orRun' = [orRun EXCEPT ![o].at = "record", ![o].row = r]
          /\ UNCHANGED <<orIds, orFaults, orOdd>>
       \/ /\ r = 0 /\ ~OrHasKey(o)
          /\ orIds' = [orIds EXCEPT ![n] = 0]
          /\ orRows' = Append(orRows, [number |-> n, symbol |-> k.symbol, day |-> orDay, status |-> k.status,
                                       filled |-> k.filled, owner |-> o, filed |-> [p \in OrOrders |-> 0]])
          /\ orRun' = [orRun EXCEPT ![o].at = "record", ![o].row = Len(orRows) + 1]
          /\ orOdd' = IF k.day # orDay THEN orOdd \union {o} ELSE orOdd
          /\ UNCHANGED orFaults
       \/ /\ r = 0 /\ OrHasKey(o)
          /\ orIds' = [orIds EXCEPT ![n] = 0]
          /\ OrStep(o, OrAfterWrite(o))
          /\ UNCHANGED <<orRows, orFaults, orOdd>>
       \/ /\ orFaults + orAgain < OrMishaps /\ orFaults' = orFaults + 1
          /\ orIds' = IF r = 0 THEN [orIds EXCEPT ![n] = 0] ELSE orIds
          /\ OrStep(o, OrAfterWrite(o))
          /\ UNCHANGED <<orRows, orOdd>>
    /\ UNCHANGED <<orDay, orOrder, orLock, orAgain, orLatched>>

\* _forget_order_row with a row: the record goes only if it still names that row.
OrForget(n, r) == IF r = 0 \/ orIds[n] = r THEN [orIds EXCEPT ![n] = 0] ELSE orIds

\* A canceled order's record is dropped, any other's is set.
OrRecord(o) ==
    LET n == orOrder[o].number IN
    /\ orRun[o].at = "record"
    /\ orIds' = IF orOrder[o].status = "canceled" THEN OrForget(n, orRun[o].row)
                ELSE [orIds EXCEPT ![n] = orRun[o].row]
    /\ OrStep(o, OrAfterWrite(o))
    /\ UNCHANGED <<orDay, orOrder, orRows, orLock, orFaults, orAgain, orLatched, orOdd>>

\* The fill's row is settled while the symbol is still locked.
OrBind(o) ==
    LET n == orOrder[o].number IN
    /\ orRun[o].at = "bind"
    /\ orRun' = [orRun EXCEPT ![o].at = "release", ![o].row = orIds[n]]
    /\ orIds' = IF orOrder[o].status = "filled" THEN OrForget(n, orIds[n]) ELSE orIds
    /\ UNCHANGED <<orDay, orOrder, orRows, orLock, orFaults, orAgain, orLatched, orOdd>>

\* tracker.on_fill: any fill releases the lock; P&L comes before the fill's row.
OrRelease(o) ==
    /\ orRun[o].at = "release"
    /\ OrStep(o, "file")
    /\ orLock' = orLock \ {orOrder[o].symbol}
    /\ UNCHANGED <<orDay, orOrder, orRows, orIds, orFaults, orAgain, orLatched, orOdd>>

OrSum(r) == MapThenSumSet(LAMBDA p : orRows[r].filed[p], OrOrders)

\* _already_filed_on_closed_row: today's newest closed row of the number has it.
OrOnFile(o) ==
    LET rows == {r \in DOMAIN orRows : /\ orRows[r].number = orOrder[o].number /\ OrSame(r, o)
                                       /\ orRows[r].day = orDay /\ orRows[r].status \notin OrOpen}
    IN  rows # {} /\ OrSum(Max(rows)) >= orRun[o].cum

OrBoundLate(o) == orIds[orOrder[o].number]
OrBound(o) == orRun[o].row

\* _persist_fill: the row settled on before, checked, or else an open one; what the
\* broker's total says is missing is filed, unless it is there already.
OrFile(o) ==
    LET b == OrBound(o)
        r == IF b # 0 /\ OrSame(b, o) THEN b ELSE OrOpenRow(o)
        missing == orRun[o].cum - OrSum(r)
    IN  /\ orRun[o].at = "file"
        /\ orRun' = [orRun EXCEPT ![o] = OrNoRun]
        /\ \/ /\ r # 0 /\ OrSum(r) < orRun[o].cum
              /\ orRows' = [orRows EXCEPT ![r].filed[o] = @ + missing,
                                          ![r].filled = orRun[o].cum,
                                          ![r].status = IF orRun[o].cum = OrQty THEN "filled" ELSE "partial_filled"]
              /\ UNCHANGED <<orFaults, orLatched>>
           \/ /\ \/ r # 0 /\ OrSum(r) >= orRun[o].cum
                 \/ r = 0 /\ OrOnFile(o)
              /\ UNCHANGED <<orRows, orFaults, orLatched>>
           \/ /\ r = 0 /\ ~OrOnFile(o)
              /\ orLatched' = orLatched \union {o}
              /\ UNCHANGED <<orRows, orFaults>>
           \/ /\ orFaults + orAgain < OrMishaps /\ orFaults' = orFaults + 1
              /\ orLatched' = orLatched \union {o}
              /\ UNCHANGED orRows
        /\ UNCHANGED <<orDay, orOrder, orIds, orLock, orAgain, orOdd>>

OrNext ==
    \/ OrMidnight
    \/ \E o \in OrOrders : \/ OrPlace(o) \/ OrBrokerFill(o) \/ OrFill(o) \/ OrCancel(o)
                           \/ OrWrite(o) \/ OrRecord(o) \/ OrBind(o) \/ OrRelease(o) \/ OrFile(o)

-----------------------------------------------------------------------------
OrTypeOK ==
    /\ orDay \in {0, 1} /\ orIds \in [OrNumbers -> 0..Len(orRows)]
    /\ orLock \subseteq OrSymbols /\ orLatched \subseteq OrOrders /\ orOdd \subseteq OrOrders
    /\ \A o \in OrOrders : orOrder[o].mark <= orOrder[o].at /\ orRun[o].row \in 0..Len(orRows)

\* A fill is filed on the row its own order opened, however the number was used
\* before and whoever draws it while the fill is on its way to the table; unless
\* the number was drawn while another order of it was live, or its row left open,
\* or a row was first written, or a fill told again, on a later day.
OrOwnRow ==
    \A r \in DOMAIN orRows, o \in OrOrders :
        orRows[r].filed[o] > 0 => orRows[r].owner = o \/ {o, orRows[r].owner} \intersect orOdd # {}

\* Nothing handed over is left out or filed twice, without a failed write or an odd
\* order: an order's fills are on its row, and no fill is reported as unrecorded that is
\* handed over for the first time.
OrFiled(o) == MapThenSumSet(LAMBDA r : orRows[r].filed[o], DOMAIN orRows)
OrAllFiled ==
    orFaults = 0 /\ orOdd = {} =>
        \A o \in OrOrders : /\ orRun[o].at = "none" => OrFiled(o) = orOrder[o].mark
                            /\ orAgain = 0 => o \notin orLatched

\* What cannot be filed is reported: with writes failing, an order whose fills are
\* not all on file has latched the gate.
OrMissedIsTold ==
    orOdd = {} => \A o \in OrOrders : orRun[o].at = "none" /\ OrFiled(o) < orOrder[o].mark => o \in orLatched

\* Fills never pile up on a row beyond its order.
OrNoOverfill == \A r \in DOMAIN orRows : OrSum(r) <= OrQty

\* The rows of orders whose numbers come again.
OrInv == OrTypeOK /\ OrOwnRow /\ OrAllFiled /\ OrMissedIsTold /\ OrNoOverfill
=============================================================================
