------------------------------ MODULE MCConsole ------------------------------
(* One root quoted, two roots pinned and the bundled contracts traded. *)
EXTENDS Console, MCTradingDesk

\* The page of a signal.  Either the signal has a price and the root has no data yet, or the
\* signal gets its price just after the page has been rendered.
MarketAt(root, signal) == [i \in Items |-> IF i \in Signals THEN signal ELSE root]

Opening ==
    [rendered : {MarketAt(0, 1)}, market : {MarketAt(0, 1)}, of : Signals]
        \cup [rendered : {MarketAt(3, 2)}, market : {MarketAt(3, 3)}, of : Signals]

\* Another tab has pinned every root and signal, at another range.
OtherTabs ==
    {[slots |-> [p \in Place |-> [item |-> CHOOSE i \in ItemsOf(p[1]) : TRUE,
                                 timeframe |-> DefaultTimeframe]],
      ranges |-> [k \in Kinds |-> CHOOSE r \in Ranges : r # FullRange]]}

BoardGains ==
    [x \in BoardRoots \X BoardFrames \X BoardRanges |->
        IF x[1] = "BR" THEN 1 ELSE IF x[3] = "full" THEN 2 ELSE 0]

BoardQuotes == {[regime |-> "above_entry", levels |-> {"entry"}], [regime |-> "pending", levels |-> {}]}

QuotedRoots == <<"Si">>
QuotedFrom == [r \in {"Si"} |-> <<"finam">>]
=============================================================================
