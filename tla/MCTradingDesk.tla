---------------------------- MODULE MCTradingDesk ----------------------------
(* The contracts and roots bundled with the code (libs/domain/demo_data.py)  *)
(* of two asset classes; day 0 is Monday, 2026-03-16.                        *)
EXTENDS TradingDesk

Contract(r, d) == [root |-> r, expiry |-> d, last |-> d]

BundledListing ==
    [SiM6 |-> Contract("Si", 94), SiU6 |-> Contract("Si", 185),
     BRK6 |-> Contract("BR", 49), BRM6 |-> Contract("BR", 77)]

BundledRoot(asset, liq, active1, next1, days, share) ==
    [asset |-> asset, liquidity |-> liq, active |-> active1, next |-> next1,
     series |-> [active |-> active1, next |-> next1, toExpiry |-> days, toLastTrade |-> days,
                 rollRisk |-> FALSE, nextShare |-> share]]

BundledRoots ==
    [Si |-> BundledRoot("currency", 920, "SiM6", "SiU6", 73, 2400),
     BR |-> BundledRoot("commodity", 840, "BRK6", "BRM6", 28, 500)]

\* The weekend of days 47 and 48: an entry for each day, in order, and one that links the
\* Saturday to the Tuesday.
MoexCalendars ==
    {47 :> [to |-> 47, weekend |-> FALSE] @@ 48 :> [to |-> 49, weekend |-> TRUE],
     47 :> [to |-> 50, weekend |-> TRUE]}
=============================================================================
