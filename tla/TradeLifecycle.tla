--------------------------- MODULE TradeLifecycle ---------------------------
(***************************************************************************)
(* The life of a trade: from a bar, through the rows the bot writes and    *)
(* the orders it places, to the broker events that are applied to the      *)
(* rows.  The module covers the live path of the bot:                      *)
(*                                                                         *)
(*   - the workers, each evaluating one bar at a time                      *)
(*     (LiveCoordinator.EvaluateBar): exits first, then a buy;             *)
(*   - the database: trades, signals and account_transfers;                *)
(*   - the broker, which accepts or refuses orders and sends events;       *)
(*   - the bounded channel of trade updates and its single consumer.       *)
(*                                                                         *)
(* One action is one database statement or transaction, or one broker      *)
(* call: whatever another goroutine can come between.                      *)
(*                                                                         *)
(* A signal, the trade row made from it and the order placed for that row  *)
(* share one identifier: each signal leads to at most one row and each     *)
(* row to at most one PlaceOrder call.                                     *)
(***************************************************************************)
EXTENDS Integers, Sequences, FiniteSets, FiniteSetsExt, Functions

CONSTANTS
    Workers,        \* the goroutines that evaluate bars
    Symbols,        \* the symbols whose bars arrive
    Ids,            \* identifiers of signals, rows and orders (bounds uuid.New)
    Transfers,      \* account transfers, numbered in the order of created_at
    TargetTrades,   \* the slots each transfer was created with
    ChanCap,        \* capacity of tradeUpdateChan
    BrokerEvents,   \* the events the broker sends
    Faults,         \* what may go wrong around the code
    Null            \* SQL NULL, Go nil, a row that is not there

AckEvents    == {"new", "accepted_for_bidding"}
EndEvents    == {"canceled", "expired", "done_for_day",
                 "rejected", "order_canceled_rejected"}
QuietEvents  == {"pending_new"}   \* stands for the events the mapper ignores
Events       == AckEvents \cup {"partial_fill", "fill"} \cup EndEvents
                          \cup QuietEvents
Statuses     == {"pending", "open", "filled", "rejected", "cancelled"}
Terminal     == {"filled", "rejected", "cancelled"}
Holding      == {"pending", "open", "filled"}   \* statuses that use a slot

Row   == [symbol : Symbols, side : {"buy", "sell"}, status : Statuses,
          parent : Ids \cup {Null}, transfer : Transfers, linked : BOOLEAN]
Order == [symbol : Symbols, side : {"buy", "sell"}, events : SUBSET Events]
Copy  == [id : Ids, row : Row, status : Statuses]

ASSUME TransfersAssumption == Transfers \subseteq Nat
ASSUME TargetAssumption    == TargetTrades \in [Transfers -> Nat]
ASSUME IdsAssumption       == IsFiniteSet(Ids)
ASSUME ChanAssumption      == ChanCap \in Nat
ASSUME EventsAssumption    == BrokerEvents \subseteq Events
ASSUME FaultsAssumption    ==
    Faults \subseteq {"db", "lostReply", "crash", "disconnect", "replay"}
ASSUME NullAssumption      == Null \notin Ids \cup Transfers \cup Symbols
                              /\ Null \notin Row \cup Order \cup Copy

VARIABLES
    trades,     \* Ids -> Row or Null
    signals,    \* Ids -> "none", "new" or "executed"
    remaining,  \* Transfers -> remaining_trades
    orders,     \* Ids -> Order or Null: what the broker knows
    updates,    \* tradeUpdateChan
    cur,        \* ApplyTradeUpdates: the row as read, and the status to write
    pc,         \* what each worker does next
    sym,        \* the symbol of the bar it evaluates
    snap,       \* the buys GetOpenBuyTradesBySymbol saw
    pend,       \* sells committed, orders not placed yet
    mine,       \* the identifier the worker is working on
    budget      \* the transfer GetAvailableBudget returned

db     == <<trades, signals, remaining>>
stream == <<updates, cur>>
local  == <<pc, sym, snap, pend, mine, budget>>
vars   == <<trades, signals, remaining, orders, updates, cur,
            pc, sym, snap, pend, mine, budget>>

-----------------------------------------------------------------------------
(* What the queries return.                                                *)

IsRow(i)     == trades[i] # Null
IsBuy(i)     == IsRow(i) /\ trades[i].side = "buy"
IsSell(i)    == IsRow(i) /\ trades[i].side = "sell"
HasSell(b)   == \E i \in Ids : IsSell(i) /\ trades[i].parent = b

OpenPosition(b) == IsBuy(b) /\ trades[b].status \in Holding /\ ~HasSell(b)

\* Variant of ActiveBuys: a buy that is still pending is not counted.
ActiveBuys_Filled(s) == {b \in Ids : /\ OpenPosition(b) /\ trades[b].symbol = s
                                     /\ trades[b].status # "pending"}

\* hasOpenPositionQuery
ActiveBuys(s) == {b \in Ids : OpenPosition(b) /\ trades[b].symbol = s}
HasOpenPosition(s) == ActiveBuys(s) # {}

\* getOpenBuyTradesBySymbolQuery
OpenBuyTrades(s) == {b \in ActiveBuys(s) : trades[b].status \in {"open", "filled"}}

\* getAvailableBudgetQuery: the oldest transfer with a slot left
FundedTransfers    == {t \in Transfers : remaining[t] > 0}
IsOldestFunded(t)  == /\ t \in FundedTransfers
                      /\ \A u \in FundedTransfers : t <= u

\* uuid.New: an identifier nothing refers to
FreshIds == {i \in Ids : trades[i] = Null /\ signals[i] = "none" /\ orders[i] = Null}

NewBuy(w)     == [symbol |-> sym[w], side |-> "buy", status |-> "pending",
                  parent |-> Null, transfer |-> budget[w], linked |-> FALSE]
NewSell(b)    == [symbol |-> trades[b].symbol, side |-> "sell",
                  status |-> "pending", parent |-> b,
                  transfer |-> trades[b].transfer, linked |-> FALSE]

-----------------------------------------------------------------------------
(* The broker.  An order is for two lots, so that it can fill in part.     *)

OrderLots  == 2
Working(i) == orders[i] # Null /\ orders[i].events \cap (EndEvents \cup {"fill"}) = {}
Lots(i)    == CASE "fill" \in orders[i].events         -> OrderLots
                [] "partial_fill" \in orders[i].events -> 1
                [] OTHER                               -> 0
OrdersOn(s, side)  == {i \in Ids : /\ orders[i] # Null /\ orders[i].symbol = s
                                   /\ orders[i].side = side}
Reserved(i)        == IF Working(i) THEN OrderLots ELSE Lots(i)
AvailableLots(s)   == MapThenSumSet(Lots, OrdersOn(s, "buy"))
                      - MapThenSumSet(Reserved, OrdersOn(s, "sell"))

NewOrder(i) == [symbol |-> trades[i].symbol, side |-> trades[i].side,
                events |-> {}]

\* The broker refuses a sell of shares that are not held; it may refuse any
\* order.
Accepts(i) == trades[i].side = "sell" => AvailableLots(trades[i].symbol) >= OrderLots

-----------------------------------------------------------------------------
Init ==
    /\ trades    = [i \in Ids |-> Null]
    /\ signals   = [i \in Ids |-> "none"]
    /\ remaining = TargetTrades
    /\ orders    = [i \in Ids |-> Null]
    /\ updates   = <<>>
    /\ cur       = Null
    /\ pc        = [w \in Workers |-> "idle"]
    /\ sym       = [w \in Workers |-> Null]
    /\ snap      = [w \in Workers |-> {}]
    /\ pend      = [w \in Workers |-> {}]
    /\ mine      = [w \in Workers |-> Null]
    /\ budget    = [w \in Workers |-> Null]

Goto(w, label) == pc' = [pc EXCEPT ![w] = label]

\* EvaluateBar returns: the worker drops what it held and waits for a bar.
Return(w) ==
    /\ Goto(w, "idle")
    /\ sym'    = [sym EXCEPT ![w] = Null]
    /\ snap'   = [snap EXCEPT ![w] = {}]
    /\ pend'   = [pend EXCEPT ![w] = {}]
    /\ mine'   = [mine EXCEPT ![w] = Null]
    /\ budget' = [budget EXCEPT ![w] = Null]

-----------------------------------------------------------------------------
(* EvaluateAndExecuteExits                                                 *)

\* The statement snapshot of GetOpenBuyTradesBySymbol.  A failed statement
\* leaves the worker idle and changes nothing.
ExitSelect(w) ==
    /\ pc[w] = "idle"
    /\ \E s \in Symbols :
         /\ sym'  = [sym EXCEPT ![w] = s]
         /\ snap' = [snap EXCEPT ![w] = OpenBuyTrades(s)]
    /\ Goto(w, "exitCommit")
    /\ UNCHANGED <<db, orders, stream, pend, mine, budget>>

\* The rows the statement locks and returns.  Under READ COMMITTED a row
\* changed since the snapshot is checked again, but the NOT EXISTS is not:
\* the subquery still sees the snapshot.  Rows locked by another transaction
\* are skipped, and rows whose price levels are not met are passed over:
\* both are left out of "hit" by choice.
StillOpen(w) == {b \in snap[w] : trades[b].status \in {"open", "filled"}}

\* Variant of ViolatesUnique: the partial unique index does not exist.
ViolatesUnique_NoIndex(hit) == FALSE /\ hit = {}

\* trades_one_sell_per_buy
ViolatesUnique(hit) == \E b \in hit : HasSell(b)

InsertSells(w, hit) ==
    \E f \in Injection(hit, FreshIds) :
      LET new == {f[b] : b \in hit}
      IN  /\ trades'  = [i \in Ids |-> IF i \in new
                                       THEN NewSell(CHOOSE b \in hit : f[b] = i)
                                       ELSE trades[i]]
          /\ signals' = [i \in Ids |-> IF i \in new THEN "new" ELSE signals[i]]
          /\ pend'    = [pend EXCEPT ![w] = new]

\* The rest of the transaction: a signal and a sell row for every buy that is
\* triggered, or a rollback (unique violation, failed statement).
ExitCommit(w) ==
    /\ pc[w] = "exitCommit"
    /\ \/ \E hit \in SUBSET StillOpen(w) :
            /\ ~ViolatesUnique(hit)
            /\ InsertSells(w, hit)
            /\ Goto(w, "exits")
            /\ snap' = [snap EXCEPT ![w] = {}]
            /\ UNCHANGED <<remaining, sym, mine, budget>>
       \/ /\ ViolatesUnique(StillOpen(w)) \/ "db" \in Faults
          /\ Return(w)
          /\ UNCHANGED db
    /\ UNCHANGED <<orders, stream>>

\* PlaceOrder for one of the sells.  "lostReply": the broker took the order
\* but the call returned an error.
PlaceSell(w) ==
    /\ pc[w] = "exits"
    /\ \E i \in pend[w] :
         /\ mine' = [mine EXCEPT ![w] = i]
         /\ pend' = [pend EXCEPT ![w] = @ \ {i}]
         /\ \/ /\ Accepts(i)
               /\ orders' = [orders EXCEPT ![i] = NewOrder(i)]
               /\ \/ Goto(w, "sellLink")
                  \/ "lostReply" \in Faults /\ Goto(w, "sellClean")
            \/ /\ Goto(w, "sellClean")
               /\ UNCHANGED orders
    /\ UNCHANGED <<db, stream, sym, snap, budget>>

MarkExecuted(i) == [signals EXCEPT ![i] = "executed"]

\* Update (alpaca_order_id) and MarkExecuted.  Each may fail on its own and
\* is only logged.  Update writes every column of the worker's copy, the
\* status included.
LinkRow(i) ==
    \E stored, marked \in BOOLEAN :
      /\ ~(stored /\ marked) => "db" \in Faults
      /\ trades'  = IF stored
                    THEN [trades EXCEPT ![i].linked = TRUE, ![i].status = "pending"]
                    ELSE trades
      /\ signals' = IF marked THEN MarkExecuted(i) ELSE signals

SellLink(w) ==
    /\ pc[w] = "sellLink"
    /\ LinkRow(mine[w])
    /\ mine' = [mine EXCEPT ![w] = Null]
    /\ Goto(w, "exits")
    /\ UNCHANGED <<remaining, orders, stream, sym, snap, pend, budget>>

\* Variant of SellClean: a refused sell is tried again at once.
SellClean_Requeue(w) ==
    /\ pc[w] = "sellClean"
    /\ pend' = [pend EXCEPT ![w] = @ \cup {mine[w]}]
    /\ mine' = [mine EXCEPT ![w] = Null]
    /\ Goto(w, "exits")
    /\ UNCHANGED <<db, orders, stream, sym, snap, budget>>

\* Variant of SellClean: the signal first; the foreign key keeps it and the
\* cleanup gives up.
SellClean_SignalFirst(w) ==
    /\ pc[w] = "sellClean"
    /\ mine' = [mine EXCEPT ![w] = Null]
    /\ Goto(w, "exits")
    /\ UNCHANGED <<db, orders, stream, sym, snap, pend, budget>>

\* Delete the sell row, then its signal; errors are only logged.  The foreign
\* key trades.signal_id (ON DELETE RESTRICT) keeps the signal when the row is
\* still there.
SellClean(w) ==
    /\ pc[w] = "sellClean"
    /\ \E rowGone, signalGone \in BOOLEAN :
         /\ ~(rowGone /\ signalGone) => "db" \in Faults
         /\ signalGone => rowGone
         /\ trades'  = IF rowGone THEN [trades EXCEPT ![mine[w]] = Null] ELSE trades
         /\ signals' = IF signalGone THEN [signals EXCEPT ![mine[w]] = "none"]
                                     ELSE signals
    /\ mine' = [mine EXCEPT ![w] = Null]
    /\ Goto(w, "exits")
    /\ UNCHANGED <<remaining, orders, stream, sym, snap, pend, budget>>

-----------------------------------------------------------------------------
(* EvaluateBuySignal, GetAvailableBudget and ExecuteBuyTrade               *)

\* The indicator and sentiment layers decide freely; a position, a failed
\* layer or an error ends the bar.
EvaluateBuySignal(w) ==
    /\ pc[w] = "exits" /\ pend[w] = {}
    /\ \/ /\ Return(w)
          /\ UNCHANGED signals
       \/ /\ ~HasOpenPosition(sym[w])
          /\ \E i \in FreshIds :
               /\ signals' = [signals EXCEPT ![i] = "new"]
               /\ mine'    = [mine EXCEPT ![w] = i]
          /\ Goto(w, "budget")
          /\ UNCHANGED <<sym, snap, pend, budget>>
    /\ UNCHANGED <<trades, remaining, orders, stream>>

GetAvailableBudget(w) ==
    /\ pc[w] = "budget"
    /\ \/ \E t \in Transfers :
            /\ IsOldestFunded(t)
            /\ budget' = [budget EXCEPT ![w] = t]
            /\ Goto(w, "buyCheck")
            /\ UNCHANGED <<sym, snap, pend, mine>>
       \/ /\ FundedTransfers = {} \/ "db" \in Faults
          /\ Return(w)
    /\ UNCHANGED <<db, orders, stream>>

\* Position sizing may give zero; the transaction then starts with the second
\* HasOpenPosition.
BuyCheck(w) ==
    /\ pc[w] = "buyCheck"
    /\ \/ /\ ~HasOpenPosition(sym[w])
          /\ Goto(w, "buyCommit")
          /\ UNCHANGED <<sym, snap, pend, mine, budget>>
       \/ Return(w)
    /\ UNCHANGED <<db, orders, stream>>

\* Variant of BuyCommit: the UPDATE does not test remaining_trades.
BuyCommit_NoGuard(w) ==
    /\ pc[w] = "buyCommit"
    /\ trades'    = [trades EXCEPT ![mine[w]] = NewBuy(w)]
    /\ remaining' = [remaining EXCEPT ![budget[w]] = @ - 1]
    /\ Goto(w, "placeBuy")
    /\ UNCHANGED <<signals, orders, stream, sym, snap, pend, mine, budget>>

\* Create and DecrementRemainingTrades, committed together.  The UPDATE locks
\* the transfer and tests remaining_trades > 0 on its newest version.
BuyCommit(w) ==
    /\ pc[w] = "buyCommit"
    /\ \/ /\ remaining[budget[w]] > 0
          /\ trades'    = [trades EXCEPT ![mine[w]] = NewBuy(w)]
          /\ remaining' = [remaining EXCEPT ![budget[w]] = @ - 1]
          /\ Goto(w, "placeBuy")
          /\ UNCHANGED <<sym, snap, pend, mine, budget>>
       \/ /\ remaining[budget[w]] = 0 \/ "db" \in Faults
          /\ Return(w)
          /\ UNCHANGED <<trades, remaining>>
    /\ UNCHANGED <<signals, orders, stream>>

PlaceBuy(w) ==
    /\ pc[w] = "placeBuy"
    /\ \/ /\ Accepts(mine[w])
          /\ orders' = [orders EXCEPT ![mine[w]] = NewOrder(mine[w])]
          /\ \/ Goto(w, "buyLink")
             \/ "lostReply" \in Faults /\ Goto(w, "buyCancel")
       \/ /\ Goto(w, "buyCancel")
          /\ UNCHANGED orders
    /\ UNCHANGED <<db, stream, sym, snap, pend, mine, budget>>

\* Variant of BuyLink: an order id that cannot be stored cancels the trade.
BuyLink_Cancels(w) ==
    /\ pc[w] = "buyLink"
    /\ \/ LinkRow(mine[w]) /\ UNCHANGED remaining
       \/ /\ "db" \in Faults
          /\ trades'    = [trades EXCEPT ![mine[w]].status = "cancelled"]
          /\ remaining' = [remaining EXCEPT ![budget[w]] = @ + 1]
          /\ UNCHANGED signals
    /\ Return(w)
    /\ UNCHANGED <<orders, stream>>

BuyLink(w) ==
    /\ pc[w] = "buyLink"
    /\ LinkRow(mine[w])
    /\ Return(w)
    /\ UNCHANGED <<remaining, orders, stream>>

\* Variant of CancelTradeAndRestoreSlot: the slot is not given back.
CancelTradeAndRestoreSlot_KeepsSlot(w) ==
    /\ pc[w] = "buyCancel"
    /\ trades' = [trades EXCEPT ![mine[w]].status = "cancelled"]
    /\ Return(w)
    /\ UNCHANGED <<remaining, signals, orders, stream>>

\* cancelTradeAndRestoreSlot: both writes or neither.
CancelTradeAndRestoreSlot(w) ==
    /\ pc[w] = "buyCancel"
    /\ \/ /\ trades'    = [trades EXCEPT ![mine[w]].status = "cancelled"]
          /\ remaining' = [remaining EXCEPT ![budget[w]] = @ + 1]
       \/ /\ "db" \in Faults
          /\ UNCHANGED <<trades, remaining>>
    /\ Return(w)
    /\ UNCHANGED <<signals, orders, stream>>

-----------------------------------------------------------------------------
(* The broker's events, the channel and ApplyTradeUpdates                  *)

\* The handler's non-blocking send: an update is dropped when the channel is
\* full.
Send(u) == updates' = IF Len(updates) < ChanCap THEN Append(updates, u) ELSE updates

\* The broker acknowledges an order first, if it does at all, then fills it in
\* part, fills it, or ends it.  Events sent while the stream is disconnected
\* are not delivered.
BrokerEvent(i, e) ==
    /\ Working(i) /\ e \notin orders[i].events
    /\ e \in AckEvents \cup QuietEvents => orders[i].events = {}
    /\ orders' = [orders EXCEPT ![i].events = @ \cup {e}]
    /\ \/ Send([order |-> i, event |-> e])
       \/ "disconnect" \in Faults /\ UNCHANGED updates
    /\ UNCHANGED <<db, cur, local>>

\* An event delivered before is delivered once more.
Redeliver(i, e) ==
    /\ "replay" \in Faults
    /\ orders[i] # Null /\ e \in orders[i].events
    /\ Send([order |-> i, event |-> e])
    /\ UNCHANGED <<db, orders, cur, local>>

\* Variant of MapAlpacaEventToStatus: any fill fills the order.
MapAlpacaEventToStatus_AnyFill(e) ==
    CASE e \in {"partial_fill", "fill"}                 -> "filled"
      [] e \in {"rejected", "order_canceled_rejected"}  -> "rejected"
      [] e \in {"canceled", "expired", "done_for_day"}  -> "cancelled"
      [] OTHER                                          -> Null

MapAlpacaEventToStatus(e) ==
    CASE e \in AckEvents                                -> "pending"
      [] e = "partial_fill"                             -> "open"
      [] e = "fill"                                     -> "filled"
      [] e \in {"rejected", "order_canceled_rejected"}  -> "rejected"
      [] e \in {"canceled", "expired", "done_for_day"}  -> "cancelled"
      [] OTHER                                          -> Null

\* Whether the query finds a row: only once the order id is stored.
GetByAlpacaOrderID(i) == IsRow(i) /\ trades[i].linked

\* Variant of Applicable: events for rows in a terminal status are applied.
Applicable_Terminal(u) == /\ MapAlpacaEventToStatus(u.event) # Null
                          /\ GetByAlpacaOrderID(u.order)

\* Variant of Applicable: the row is found without its stored order id.
Applicable_Unlinked(u) == /\ MapAlpacaEventToStatus(u.event) # Null
                          /\ IsRow(u.order)
                          /\ trades[u.order].status \notin Terminal

\* Variant of Applicable: an open row counts as finished.
Applicable_OpenIsFinal(u) == /\ MapAlpacaEventToStatus(u.event) # Null
                             /\ GetByAlpacaOrderID(u.order)
                             /\ trades[u.order].status = "pending"

\* Events the mapper knows, for rows that are found and not finished.
Applicable(u) == /\ MapAlpacaEventToStatus(u.event) # Null
                 /\ GetByAlpacaOrderID(u.order)
                 /\ trades[u.order].status \notin Terminal

\* The consumer takes an update and reads the row, outside any transaction.
ApplyLookup ==
    /\ updates # <<>> /\ cur = Null
    /\ LET u == Head(updates)
       IN  \/ /\ Applicable(u)
              /\ cur' = [id |-> u.order, row |-> trades[u.order],
                         status |-> MapAlpacaEventToStatus(u.event)]
           \/ /\ ~Applicable(u) \/ "db" \in Faults
              /\ UNCHANGED cur
    /\ updates' = Tail(updates)
    /\ UNCHANGED <<db, orders, local>>

\* Variant of RestoresSlot: a sell that ends gives a slot back as well.
RestoresSlot_AnySide(row, status) ==
    row.side \in {"buy", "sell"} /\ status \in {"rejected", "cancelled"}

RestoresSlot(row, status) == row.side = "buy" /\ status \in {"rejected", "cancelled"}

\* The transaction: every column of the row as it was read is written back
\* with the new status, and the slot of a buy that ended is restored.
ApplyCommit ==
    /\ cur # Null
    /\ \/ /\ trades'    = [trades EXCEPT ![cur.id] = [cur.row EXCEPT !.status = cur.status]]
          /\ remaining' = IF RestoresSlot(cur.row, cur.status)
                          THEN [remaining EXCEPT ![cur.row.transfer] = @ + 1]
                          ELSE remaining
       \/ /\ "db" \in Faults
          /\ UNCHANGED <<trades, remaining>>
    /\ cur' = Null
    /\ UNCHANGED <<signals, orders, updates, local>>

\* The process dies and is started again.  Only the database and the broker
\* remember anything.
Crash ==
    /\ "crash" \in Faults
    /\ updates' = <<>> /\ cur' = Null
    /\ pc'     = [w \in Workers |-> "idle"]
    /\ sym'    = [w \in Workers |-> Null]
    /\ snap'   = [w \in Workers |-> {}]
    /\ pend'   = [w \in Workers |-> {}]
    /\ mine'   = [w \in Workers |-> Null]
    /\ budget' = [w \in Workers |-> Null]
    /\ UNCHANGED <<db, orders>>

-----------------------------------------------------------------------------
\* What a worker does once it has a bar.
Advance(w) ==
    \/ ExitCommit(w) \/ PlaceSell(w) \/ SellLink(w) \/ SellClean(w)
    \/ EvaluateBuySignal(w) \/ GetAvailableBudget(w) \/ BuyCheck(w)
    \/ BuyCommit(w) \/ PlaceBuy(w) \/ BuyLink(w)
    \/ CancelTradeAndRestoreSlot(w)

Consumer == ApplyLookup \/ ApplyCommit

Next ==
    \/ \E w \in Workers : ExitSelect(w) \/ Advance(w)
    \/ Consumer
    \/ \E i \in Ids, e \in BrokerEvents : BrokerEvent(i, e) \/ Redeliver(i, e)
    \/ Crash

Spec == Init /\ [][Next]_vars

-----------------------------------------------------------------------------
(* Fairness.  A goroutine that can run is eventually scheduled, and every   *)
(* call it makes returns.  Nothing is promised about bars or the broker.    *)

FairSpec == Spec /\ \A w \in Workers : WF_vars(Advance(w))
                 /\ WF_vars(Consumer)

-----------------------------------------------------------------------------
(* Properties                                                              *)

Labels == {"idle", "exitCommit", "exits", "sellLink", "sellClean", "budget",
           "buyCheck", "buyCommit", "placeBuy", "buyLink", "buyCancel"}

\* Every variable keeps its shape; remaining_trades in particular never
\* drops below zero, whichever workers race for the last slot
\* (DecrementRemainingTrades).
TypeOK ==
    /\ trades    \in [Ids -> Row \cup {Null}]
    /\ signals   \in [Ids -> {"none", "new", "executed"}]
    /\ remaining \in [Transfers -> Nat]
    /\ orders    \in [Ids -> Order \cup {Null}]
    /\ updates   \in Seq([order : Ids, event : Events])
    /\ cur       \in Copy \cup {Null}
    /\ pc        \in [Workers -> Labels]
    /\ sym       \in [Workers -> Symbols \cup {Null}]
    /\ snap      \in [Workers -> SUBSET Ids]
    /\ pend      \in [Workers -> SUBSET Ids]
    /\ mine      \in [Workers -> Ids \cup {Null}]
    /\ budget    \in [Workers -> Transfers \cup {Null}]

SlotsUsed(t) == {i \in Ids : /\ IsBuy(i) /\ trades[i].transfer = t
                             /\ trades[i].status \in Holding}

\* No slot is lost or made up.  For every transfer the slots left and the buys
\* that are pending, open or filled add up to target_trades, through failed
\* orders, rolled back transactions, replayed events and crashes
\* (ExecuteBuyTrade, cancelTradeAndRestoreSlot, ApplyTradeUpdates).
SlotConservation ==
    \A t \in Transfers : remaining[t] + Cardinality(SlotsUsed(t)) = TargetTrades[t]

\* A buy never has two sell rows, although two workers may read the same buy
\* as open before either has written its sell (EvaluateAndExecuteExits).
OneSellPerBuy ==
    \A i, j \in Ids :
      IsSell(i) /\ IsSell(j) /\ trades[i].parent = trades[j].parent => i = j

\* The rows account for every order at the broker: the order has a row of its
\* symbol and side; the row stays pending until the order id is stored; it
\* says filled only of an order that filled, and rejected or cancelled only
\* of one that ended unfilled (README: a crash "leaves an auditable pending
\* row, not a ghost position").  Assumes that no PlaceOrder reply is lost.
OrderAudited ==
    \A i \in Ids : orders[i] # Null =>
      /\ IsRow(i)
      /\ trades[i].symbol = orders[i].symbol /\ trades[i].side = orders[i].side
      /\ ~trades[i].linked => trades[i].status = "pending"
      /\ trades[i].status = "filled" => "fill" \in orders[i].events
      /\ trades[i].status \in {"rejected", "cancelled"} =>
            ~Working(i) /\ "fill" \notin orders[i].events

\* A row in a terminal status is never written or deleted again, whatever the
\* stream delivers late or twice (ApplyTradeUpdates, "ignore replay").
TerminalIsFinal ==
    [][\A i \in Ids : IsRow(i) /\ trades[i].status \in Terminal =>
                         trades'[i] = trades[i]]_vars

\* At most one buy of a symbol is active at a time (hasOpenPositionQuery, "the
\* one-position-per-symbol rule").
OnePositionPerSymbol ==
    \A i, j \in Ids :
      (/\ OpenPosition(i) /\ OpenPosition(j)
       /\ trades[i].symbol = trades[j].symbol) => i = j

\* A worker that took a bar comes back for another one: neither refused
\* orders nor lost races keep it in EvaluateBar.
BarsFinish == \A w \in Workers : pc[w] # "idle" ~> pc[w] = "idle"

FinalQueued(i) == \E k \in DOMAIN updates :
                     /\ updates[k].order = i
                     /\ updates[k].event \in EndEvents \cup {"fill"}

\* A final event that waits in the channel when the order id is stored gets
\* its row to a terminal status, whatever is queued before it.
UpdatesApplied ==
    \A i \in Ids : (IsRow(i) /\ trades[i].linked /\ FinalQueued(i))
                     ~> (IsRow(i) /\ trades[i].status \in Terminal)

\* Seen from the transfers, all of this is a SlotLedger.
SlotsHeld(i) == IF IsBuy(i) /\ trades[i].status \in Holding
                THEN {trades[i].transfer} ELSE {}
SlotsClosed  == {i \in Ids : IsBuy(i) /\ trades[i].status \notin Holding}

Ledger == INSTANCE SlotLedger WITH held   <- [i \in Ids |-> SlotsHeld(i)],
                                   closed <- SlotsClosed

\* Every step of the bot is, for the slots, one reservation, one release or
\* nothing: a slot goes back to the transfer it came from, and at most once.
LedgerSpec == Ledger!Spec

=============================================================================
