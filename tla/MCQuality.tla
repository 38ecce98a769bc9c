------------------------------ MODULE MCQuality ------------------------------
(***************************************************************************)
(* Instances of Quality for TLC.                                           *)
(***************************************************************************)
EXTENDS Quality

Bar == [bar_date |-> 0, open |-> 20, high |-> 24, low |-> 18, close |-> 22, volume |-> 5,
        adj_close |-> Null, prev_close |-> Null, vwap |-> Null, trade_count |-> Null,
        pre_market_volume |-> Null, post_market_volume |-> Null, shares_outstanding |-> Null,
        exchange |-> Null, split_factor |-> Null, dividend_amount |-> 0,
        is_ex_dividend_date |-> FALSE, is_ex_split_date |-> FALSE,
        has_corporate_action |-> FALSE, is_amended |-> FALSE, fetch_duration_ms |-> Null]

\* Every constellation of prices, volume and volume-weighted price.
Shapes == { <<[Bar EXCEPT !.open = o, !.high = h, !.low = l, !.close = c, !.volume = v, !.vwap = w]>> :
              o, h, l, c \in {0, 1, 2, Null, NaN, Text}, v \in {1, Null, Text}, w \in {Null, 1} }

\* Every constellation of what else a rule reads.
Contexts == { <<[Bar EXCEPT !.prev_close = p, !.open = o, !.pre_market_volume = v,
                            !.fetch_duration_ms = f, !.is_amended = a, !.vwap = w]>> :
                p \in {0, 12, 20, Null, NaN, Text}, o \in {18, 24}, v \in {-1, 0, Null, Text},
                f \in {30000, 30001, Null}, a \in BOOLEAN, w \in {Null, 21, Text} }
Actions  == { <<[Bar EXCEPT !.split_factor = s, !.dividend_amount = d, !.is_ex_split_date = xs,
                            !.is_ex_dividend_date = xd, !.has_corporate_action = h]>> :
                s \in {Null, 2}, d \in {Null, 0, 1}, xs, xd, h \in BOOLEAN }

\* Three bars on any dates of two weeks, one of them rejected or flagged.
Calendars == { <<[Bar EXCEPT !.bar_date = a], [Bar EXCEPT !.bar_date = b, !.low = 23],
                 [Bar EXCEPT !.bar_date = c, !.volume = 0]>> :
                 a, b, c \in (0 .. 13) \cup {Null, Text} }

\* A bar that has every field, or every field but one.
Full     == [Bar EXCEPT !.adj_close = 1, !.prev_close = 20, !.vwap = 21, !.trade_count = 1,
                        !.pre_market_volume = 1, !.post_market_volume = 1,
                        !.shares_outstanding = 1, !.exchange = 1]
Complete == { <<Full>> } \cup { <<[Full EXCEPT ![f] = Null]>> : f \in CoreFields \cup OptionalFields }

AllInputs == Complete \cup Shapes \cup Contexts \cup Actions \cup Calendars

\* What Yahoo returns, dated on a weekend, and complete bars of a week.
YahooBar == [f \in DOMAIN Full |-> IF f \in YahooLacks THEN Null ELSE Full[f]]
Weekend  == { <<[YahooBar EXCEPT !.bar_date = d]>> : d \in 5 .. 6 }
            \cup { <<[Full EXCEPT !.bar_date = d]>> : d \in 0 .. 4 }
Both      == {"for_stream", "direct"}
ForStream == {"for_stream"}

Plain == [symbol |-> "AAPL", source |-> "ibkr", batch_id |-> 0, pipeline_version |-> "v1",
          bar_date |-> 0, bar_interval |-> "1d", bar_time_utc |-> NoValue,
          open |-> 2, high |-> 3, low |-> 1, close |-> 2, volume |-> 1, unadj_close |-> NoValue,
          split_factor |-> NoValue, dividend_amount |-> 0, has_corporate_action |-> FALSE,
          is_amended |-> FALSE, amendment_reason |-> NoValue, supersedes_batch |-> NoValue,
          record_version |-> 1, ingestion_type |-> "scheduled", data_quality_flag |-> FALSE]
SomeArguments ==
    { [Plain EXCEPT !.bar_interval = i, !.bar_time_utc = t, !.has_corporate_action = h] :
        i \in {"1d", "15m", "1m", "2h"}, t \in {NoValue, Blank, 930}, h \in BOOLEAN }
    \cup { [Plain EXCEPT !.symbol = s, !.close = c, !.split_factor = f, !.data_quality_flag = q] :
             s \in {"AAPL", Blank}, c \in {2, NoValue, NotANumber}, f \in {NoValue, 2}, q \in BOOLEAN }
SomeUpdates == {[close |-> 3], [close |-> NoValue], [split_factor |-> 2], [split_factor |-> NoValue],
                [dividend_amount |-> 1, volume |-> 2], [batch_id |-> 9]}
SomeReasons == {"restatement", "no such reason"}
=============================================================================
