------------------------------ MODULE MarketData ------------------------------
(***************************************************************************)
(* MarketDataService: each trade is pushed on a list in Redis and merged   *)
(* into the cached candles of its time; a cron pops the list and merges    *)
(* what it popped into the candles of the database; charts and tickers     *)
(* read both.  Trades come from matching, and, where they are enabled,     *)
(* from MarketMakerService and the demo cron, which make them up around a  *)
(* reference price; at what prices is left open.                           *)
(*                                                                         *)
(* Redis and the database take one command at a time, and a candle is read *)
(* before it is written.  One asset; the volume bought is left out.        *)
(***************************************************************************)
EXTENDS Integers, Sequences, FiniteSetsExt, Functions

CONSTANTS
  Publishers,   \* recordTrade calls in progress at a time
  Syncers,      \* backends
  Prices, Quantities, \* of trades, positive
  Resolutions,  \* lengths of candles in minutes, in the order recordTrade takes them
  DayMinutes,   \* minutes a ticker looks back
  LastMinute, MaxTrades, MaxMarketFailures \* bounds

ASSUME MarketAssumption ==
  /\ Prices \subseteq Nat \ {0} /\ Quantities \subseteq Nat \ {0}
  /\ Resolutions \in Seq(Nat \ {0}) /\ IsInjective(Resolutions)
  /\ Resolutions # <<>> /\ Head(Resolutions) = 1
  /\ IsFiniteSet(Publishers) /\ IsFiniteSet(Syncers)
  /\ DayMinutes \in Nat \ {0} /\ LastMinute \in Nat /\ MaxTrades \in Nat /\ MaxMarketFailures \in Nat

VARIABLES
  minute,
  pending,    \* list market_data:pending_trades
  cached,     \* keys market_data:ohlc:*
  candles,    \* table Candlestick
  publisher,  \* what each recordTrade carries
  syncer,     \* what each backend's cron carries
  marketFailures,
  recorded,   \* history: trades pushed
  mixed,      \* history: candles two recordTrades were in at once, or one gave up
  broken      \* history: candles two crons held at once, or one gave up

marketHistory == <<recorded, mixed, broken>>
marketVars == <<minute, pending, cached, candles, publisher, syncer, marketFailures, marketHistory>>

MarketIdle == [step |-> "idle"]
NoCandle == [volume |-> 0]

\* getOpenTimeForResolution
OpenTime(at, width) == at - (at % width)
CandleAt(at, width) == [width |-> width, open |-> OpenTime(at, width)]
Candles == {CandleAt(at, Resolutions[i]) : at \in 0 .. LastMinute, i \in DOMAIN Resolutions}
Trades == [price : Prices, quantity : Quantities, at : 0 .. LastMinute]
CandlesOf(trade) == {CandleAt(trade.at, Resolutions[i]) : i \in DOMAIN Resolutions}

OneTrade(trade) ==
  [open |-> trade.price, high |-> trade.price, low |-> trade.price, close |-> trade.price,
   volume |-> trade.quantity]

\* Mutant: the closing price stays.
MergedBefore(candle, next) ==
  IF candle = NoCandle THEN next
  ELSE [open   |-> candle.open,
        high   |-> Max({candle.high, next.high}),
        low    |-> Min({candle.low, next.low}),
        close  |-> candle.close,
        volume |-> candle.volume + next.volume]

Merged(candle, next) ==
  IF candle = NoCandle THEN next
  ELSE [open   |-> candle.open,
        high   |-> Max({candle.high, next.high}),
        low    |-> Min({candle.low, next.low}),
        close  |-> next.close,
        volume |-> candle.volume + next.volume]

MarketInit ==
  /\ minute = 0
  /\ pending = <<>> /\ cached = [k \in Candles |-> NoCandle] /\ candles = [k \in Candles |-> NoCandle]
  /\ publisher = [w \in Publishers |-> MarketIdle] /\ syncer = [b \in Syncers |-> MarketIdle]
  /\ marketFailures = 0 /\ recorded = <<>> /\ mixed = {} /\ broken = {}

\* What is wanted of a list, in its order.
Among(wanted, list) ==
  LET upTo[n \in 0 .. Len(list)] ==
        IF n = 0 THEN <<>>
        ELSE IF list[n] \in wanted THEN Append(upTo[n - 1], list[n]) ELSE upTo[n - 1]
  IN  upTo[Len(list)]

------------------------------------------------------------------------------
(***************************************************************************)
(* recordTrade: push, then read and write one candle after the other       *)
(***************************************************************************)
\* The candles a call has not written yet.
LeftOf(w) ==
  IF publisher[w] = MarketIdle THEN {}
  ELSE {CandleAt(publisher[w].trade.at, Resolutions[i]) : i \in publisher[w].next .. Len(Resolutions)}

\* A trade is dated before it is committed and pushed.
PushTrade(w, price, quantity, at) ==
  LET trade == [price |-> price, quantity |-> quantity, at |-> at]
  IN  /\ publisher[w] = MarketIdle /\ Len(recorded) < MaxTrades
      /\ pending' = Append(pending, trade) /\ recorded' = Append(recorded, trade)
      /\ publisher' = [publisher EXCEPT ![w] = [step |-> "read", trade |-> trade, next |-> 1]]
      /\ mixed' = mixed \cup (CandlesOf(trade) \cap UNION {LeftOf(v) : v \in Publishers \ {w}})
      /\ UNCHANGED <<minute, cached, candles, syncer, marketFailures, broken>>

\* A match of OrderMatchingService, which has committed.
RecordMatch(w) ==
  \E price \in Prices, quantity \in Quantities, at \in {minute, minute - 1} \cap Nat :
    PushTrade(w, price, quantity, at)

\* generateDemoTrades and simulateTrades: dated now.
RecordMadeUp(w) ==
  \E price \in Prices, quantity \in Quantities : PushTrade(w, price, quantity, minute)

cacheUnchanged == <<minute, pending, candles, syncer, recorded, broken>>

Writing(w) == CandleAt(publisher[w].trade.at, Resolutions[publisher[w].next])

ReadCached(w) ==
  /\ publisher[w].step = "read"
  /\ publisher' = [publisher EXCEPT ![w] =
       [step |-> "write", trade |-> @.trade, next |-> @.next, found |-> cached[Writing(w)]]]
  /\ UNCHANGED <<cacheUnchanged, cached, mixed, marketFailures>>

WriteCached(w) ==
  LET p == publisher[w]
  IN  /\ p.step = "write"
      /\ cached' = [cached EXCEPT ![Writing(w)] = Merged(p.found, OneTrade(p.trade))]
      /\ publisher' = [publisher EXCEPT ![w] =
           IF p.next = Len(Resolutions) THEN MarketIdle
           ELSE [step |-> "read", trade |-> p.trade, next |-> p.next + 1]]
      /\ UNCHANGED <<cacheUnchanged, mixed, marketFailures>>

MarketFail == marketFailures < MaxMarketFailures /\ marketFailures' = marketFailures + 1

\* The call throws, or its backend stops, between two commands: the match that
\* made the trade is committed, and nothing records it again.
RecordThrows(w) ==
  /\ publisher[w] # MarketIdle /\ MarketFail
  /\ mixed' = mixed \cup LeftOf(w)
  /\ publisher' = [publisher EXCEPT ![w] = MarketIdle]
  /\ UNCHANGED <<cacheUnchanged, cached>>

NextMinute ==
  /\ minute < LastMinute /\ minute' = minute + 1
  /\ UNCHANGED <<pending, cached, candles, publisher, syncer, marketFailures, marketHistory>>

------------------------------------------------------------------------------
(***************************************************************************)
(* syncTradesToDB: isProcessing keeps a backend from running it twice at a *)
(* time.  The length of the list is asked, as many trades are popped,      *)
(* grouped by candle, and each group is merged into its row.               *)
(***************************************************************************)
syncUnchanged == <<minute, cached, publisher, recorded, mixed>>

StartSync(b) ==
  /\ syncer[b] = MarketIdle /\ pending # <<>>
  /\ syncer' = [syncer EXCEPT ![b] = [step |-> "pop", count |-> Len(pending)]]
  /\ UNCHANGED <<syncUnchanged, pending, candles, marketFailures, broken>>

TradesIn(k, trades) == Among({t \in Trades : k \in CandlesOf(t)}, trades)

Grouped(trades) ==
  [k \in UNION {CandlesOf(trades[i]) : i \in DOMAIN trades} |-> TradesIn(k, trades)]

HeldBy(b) == IF syncer[b].step \in {"group", "store"} THEN DOMAIN syncer[b].groups ELSE {}

PopTrades(b) ==
  LET n      == Min({syncer[b].count, Len(pending)})
      groups == Grouped(SubSeq(pending, 1, n))
  IN  /\ syncer[b].step = "pop"
      /\ pending' = SubSeq(pending, n + 1, Len(pending))
      /\ syncer' = [syncer EXCEPT ![b] =
           IF n = 0 THEN MarketIdle ELSE [step |-> "group", groups |-> groups]]
      /\ broken' = broken \cup (DOMAIN groups \cap UNION {HeldBy(a) : a \in Syncers \ {b}})
      /\ UNCHANGED <<syncUnchanged, candles, marketFailures>>

ReadCandle(b, k) ==
  /\ syncer[b].step = "group" /\ k \in DOMAIN syncer[b].groups
  /\ syncer' = [syncer EXCEPT ![b] =
       [step |-> "store", groups |-> @.groups, candle |-> k, found |-> candles[k]]]
  /\ UNCHANGED <<syncUnchanged, pending, candles, marketFailures, broken>>

GroupCandle(trades) ==
  LET upTo[n \in 0 .. Len(trades)] ==
        IF n = 0 THEN NoCandle ELSE Merged(upTo[n - 1], OneTrade(trades[n]))
  IN  upTo[Len(trades)]

Without(groups, k) == [j \in DOMAIN groups \ {k} |-> groups[j]]

\* What create refuses: the row is there by now.
CreatedMeanwhile(b) == syncer[b].found = NoCandle /\ candles[syncer[b].candle] # NoCandle

StoreCandle(b) ==
  LET s    == syncer[b]
      left == Without(s.groups, s.candle)
  IN  /\ s.step = "store" /\ ~CreatedMeanwhile(b)
      /\ candles' = [candles EXCEPT ![s.candle] = Merged(s.found, GroupCandle(s.groups[s.candle]))]
      /\ syncer' = [syncer EXCEPT ![b] =
           IF DOMAIN left = {} THEN MarketIdle ELSE [step |-> "group", groups |-> left]]
      /\ UNCHANGED <<syncUnchanged, pending, marketFailures, broken>>

\* The cron throws, or its backend stops; what it had popped is gone.
SyncThrows(b) ==
  /\ syncer[b] # MarketIdle
  /\ \/ syncer[b].step = "store" /\ CreatedMeanwhile(b) /\ UNCHANGED marketFailures
     \/ MarketFail
  /\ broken' = broken \cup HeldBy(b)
  /\ syncer' = [syncer EXCEPT ![b] = MarketIdle]
  /\ UNCHANGED <<syncUnchanged, pending, candles>>

------------------------------------------------------------------------------
(***************************************************************************)
(* What a chart and a ticker show                                          *)
(***************************************************************************)
\* getCandles: the cached candle of the present replaces the row.
ChartCandle(k) ==
  IF k = CandleAt(minute, k.width) /\ cached[k] # NoCandle THEN cached[k] ELSE candles[k]

\* emitTickerForAsset: the cached candles of the last minutes.  Without one,
\* high and low are a price that is not modelled.
DayCandles == {k \in Candles : k.width = 1 /\ k.open <= minute /\ minute < k.open + DayMinutes}

Ticker ==
  LET there == {k \in DayCandles : cached[k] # NoCandle}
  IN  [high   |-> IF there = {} THEN 0 ELSE Max({cached[k].high : k \in there}),
       low    |-> IF there = {} THEN 0 ELSE Min({cached[k].low : k \in there}),
       volume |-> SumFunction([k \in there |-> cached[k].volume])]

RecordNext ==
  \/ NextMinute
  \/ \E w \in Publishers :
       RecordMatch(w) \/ RecordMadeUp(w) \/ ReadCached(w) \/ WriteCached(w) \/ RecordThrows(w)

SyncNext ==
  \E b \in Syncers :
    \/ StartSync(b) \/ PopTrades(b) \/ StoreCandle(b) \/ SyncThrows(b)
    \/ \E k \in Candles : ReadCandle(b, k)

MarketNext == RecordNext \/ SyncNext

MarketSpec == MarketInit /\ [][MarketNext]_marketVars

------------------------------------------------------------------------------
\* The candle that trades make, in the order they were pushed.
CandleFrom(trades) ==
  IF trades = <<>> THEN NoCandle
  ELSE LET prices == {trades[i].price : i \in DOMAIN trades}
       IN  [open |-> Head(trades).price, high |-> Max(prices), low |-> Min(prices),
            close |-> trades[Len(trades)].price,
            volume |-> SumFunction([i \in DOMAIN trades |-> trades[i].quantity])]

InHand(b, k) == IF k \in HeldBy(b) THEN Len(syncer[b].groups[k]) ELSE 0

\* How many trades of the candle wait in the list or in a cron's hands.
Unsynced(k) == Len(TradesIn(k, pending)) + SumFunction([b \in Syncers |-> InHand(b, k)])

\* A row of the database is the candle of all its trades that have left the
\* list and the crons, however the crons and recordTrade interleave.
RowsAreTrades ==
  \A k \in Candles \ broken :
    LET all == TradesIn(k, recorded)
    IN  candles[k] = CandleFrom(SubSeq(all, 1, Len(all) - Unsynced(k)))

Recording(k) == \E w \in Publishers : k \in LeftOf(w)

\* Once no recordTrade is in it, a cached candle, the present one of a chart
\* and a ticker's sums are those of all trades of their time; and in no order
\* of events does a cached candle count more than there was.
CacheIsTrades ==
  \A k \in Candles :
    /\ cached[k].volume <= CandleFrom(TradesIn(k, recorded)).volume
    /\ k \notin mixed /\ ~Recording(k) =>
         /\ cached[k] = CandleFrom(TradesIn(k, recorded))
         /\ k = CandleAt(minute, k.width) => ChartCandle(k) = cached[k]

TickerIsTrades ==
  (\A k \in DayCandles : k \notin mixed /\ ~Recording(k)) =>
    LET day == Among({t \in Trades : minute < t.at + DayMinutes}, recorded)
    IN  /\ Ticker.volume = CandleFrom(day).volume
        /\ day # <<>> => Ticker.high = CandleFrom(day).high /\ Ticker.low = CandleFrom(day).low

\* Rows, cache, chart and ticker hold the trades that were recorded, unless two
\* backends' crons, or two recordTrades, were in a candle at once, or one of them gave up.
CandlesHoldTrades == RowsAreTrades /\ CacheIsTrades /\ TickerIsTrades
==============================================================================
