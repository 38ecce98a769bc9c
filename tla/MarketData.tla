----------------------------- MODULE MarketData -----------------------------
(***************************************************************************)
(* The providers of daily bars behind MarketDataFactory: which one a job   *)
(* resolves to, and the days each of them can answer for a range.  A bar   *)
(* is a day and a price; the price 0 stands for one that is not positive.  *)
(***************************************************************************)
EXTENDS Integers, Sequences

CONSTANTS
    Priority,     \* sources.priority
    Registered,   \* the names that have a provider class
    Production    \* sources.production_providers

\* The classes that register themselves when the factory loads them.
ASSUME MarketDataAssumption == Registered \subseteq {"ibkr", "ibinsync", "yahoo"}

\* get_provider_chain passes over the names it cannot instantiate.
Chain == SelectSeq(Priority, LAMBDA p : p \in Registered)

\* _resolve_provider: the first healthy provider of the chain, and the guard
\* raises when that one is not approved.
Resolved(healthy) ==
    { p \in healthy \cap Production :
        \E n \in DOMAIN Chain : Chain[n] = p /\ \A m \in 1 .. n - 1 : Chain[m] \notin healthy }

(***************************************************************************)
(* The reach of one call, in days.  Client Portal takes a period and       *)
(* counts it back from now, rounded down; the gateway takes a duration     *)
(* and counts it back from the end of the range, rounded up.               *)
(***************************************************************************)
AtLeastOne(n) == IF n < 1 THEN 1 ELSE n

\* _days_to_period.
PeriodDays(days) ==
    IF days <= 30 THEN days
    ELSE IF days <= 365 THEN 7 * AtLeastOne(days \div 7)
    ELSE 30 * AtLeastOne(days \div 30)

\* _date_range_to_duration: the branch for weeks is never taken.
DurationDays(days) ==
    IF days <= 365 THEN AtLeastOne(days)
    ELSE IF (days \div 7) + 1 <= 52 THEN 7 * ((days \div 7) + 1)
    ELSE 30 * ((days \div 30) + 1)

\* IBKRProvider.get_historical, what is left after the filter.
PortalDays(first, last, now) ==
    { d \in first .. last : now - PeriodDays(last - first + 1) < d /\ d <= now }

\* IBInsyncProvider.get_historical.
GatewayDays(first, last, now) ==
    { d \in first .. last : last - DurationDays(last - first + 1) < d /\ d <= now }

\* YahooProvider.get_historical: the end it passes on is exclusive.
YahooDays(first, last, now) == { d \in first .. now : d < last + 1 }

Reach(p, first, last, now) ==
    CASE p = "ibkr"     -> PortalDays(first, last, now)
      [] p = "ibinsync" -> GatewayDays(first, last, now)
      [] p = "yahoo"    -> YahooDays(first, last, now)

\* _map_bar_to_record drops a bar without positive prices; the others pass it on.
Kept(p, bar) == p = "ibkr" => bar.price > 0
=============================================================================
