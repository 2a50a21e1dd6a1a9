------------------------------ MODULE MarketData ------------------------------
(***************************************************************************)
(* The live market data behind a page (libs/marketdata/service.py and its  *)
(* callers in libs/dashboard/service.py).                                  *)
(*                                                                         *)
(* The API serves one request at a time.  A request reads the clock once   *)
(* and passes that reading to every lookup it makes: the full snapshot of  *)
(* the selected root, then a quote of every root.  A lookup is answered    *)
(* from the cache or by asking the providers in turn, which takes time.    *)
(* Prices are abstracted: a datum is its provider, its contract and the    *)
(* moment the provider gave it.                                            *)
(***************************************************************************)
EXTENDS Naturals, Sequences, SequencesExt

CONSTANTS
    MarketRoots,  \* the roots the page shows, in their order
    Contracts,    \* the contracts of a root, numbered by their expiry
    Wanted,       \* Wanted[r]: the primary and secondary provider of root r
    Ttl,          \* market_data_cache_ttl_seconds
    MaxClock,     \* bound on the clock
    NoDatum, NoRequest

ASSUME MarketAssumption ==
    /\ MarketRoots \in Seq(STRING) /\ Contracts \subseteq Nat /\ {Ttl, MaxClock} \subseteq Nat
    /\ \E c \in Contracts : \A d \in Contracts : c <= d
    /\ \A r \in Range(MarketRoots) : Wanted[r] \in Seq(STRING)

VARIABLES
    liveEnabled,    \* market_data_live_enabled
    clock,
    contract,       \* contract[r]: the active contract of root r as the database has it
    token,          \* _finam_jwt_token: "none", "valid" or "expired"
    quoteCache,     \* _quote_cache and _snapshot_cache
    request         \* the request being served, or the last one

marketVars == <<liveEnabled, clock, contract, token, quoteCache, request>>

RootSet == Range(MarketRoots)
LookupKinds == {"full", "quote"}
Keys == LookupKinds \X RootSet \X Contracts
Lookups == LookupKinds \X RootSet
Sources == {"moex", "finam"}

Data == [provider : Sources, contract : Contracts, at : 0..MaxClock]

\* _dedupe_preserve_order and _provider_order: moex and finam are tried even when nobody asks.
ProviderOrder(r) ==
    LET Missing(p) == IF Contains(Wanted[r], p) THEN <<>> ELSE <<p>>
    IN  Wanted[r] \o Missing("moex") \o Missing("finam")

\* The candle calls a full snapshot makes after its quote: 1D, 1W and 1M.
CandleCalls(kind) == IF kind = "full" THEN 3 ELSE 0

NoFetch == [left |-> <<>>, datum |-> NoDatum, calls |-> 0]

Fetches ==
    [left : Seq(Sources \cup UNION {Range(Wanted[r]) : r \in RootSet}),
     datum : Data \cup {NoDatum}, calls : 0..3]

Requests ==
    [since : 0..MaxClock, contract : [RootSet -> Contracts], todo : Seq(Lookups), fetch : Fetches,
     shown : [Lookups -> Data \cup {NoDatum}]]

MarketTypeOK ==
    /\ liveEnabled \in BOOLEAN /\ clock \in 0..MaxClock
    /\ contract \in [RootSet -> Contracts]
    /\ token \in {"none", "valid", "expired"}
    /\ DOMAIN quoteCache \subseteq Keys
    /\ \A k \in DOMAIN quoteCache : quoteCache[k] \in [stamp : 0..MaxClock, datum : Data]
    /\ request \in Requests \cup {NoRequest}

MarketInit ==
    /\ liveEnabled \in BOOLEAN /\ clock = 0
    /\ contract = [r \in RootSet |-> Min(Contracts)]
    /\ token \in {"none", "valid"}
    /\ quoteCache = <<>>
    /\ request = NoRequest

-----------------------------------------------------------------------------
Busy == request # NoRequest /\ request.todo # <<>>
Asked == Head(request.todo)
Key == <<Asked[1], Asked[2], request.contract[Asked[2]]>>

\* A handler reads the roots, then the clock, and looks up what its page shows.
BeginRequest(selected) ==
    /\ ~Busy
    /\ request' =
         [since |-> clock, contract |-> contract,
          todo |-> <<<<"full", selected>>>> \o [i \in DOMAIN MarketRoots |-> <<"quote", MarketRoots[i]>>],
          fetch |-> NoFetch, shown |-> [l \in Lookups |-> NoDatum]]
    /\ UNCHANGED <<liveEnabled, clock, contract, token, quoteCache>>

\* A lookup ends: its result is what the page shows, None included.
LookUpAnswered(datum) ==
    [request EXCEPT !.todo = Tail(@), !.fetch = NoFetch, !.shown[Asked] = datum]

NotAsking == Busy /\ request.fetch = NoFetch

EntryServes == Key \in DOMAIN quoteCache /\ request.since - quoteCache[Key].stamp <= Ttl

LookUpOff ==
    /\ NotAsking /\ ~liveEnabled
    /\ request' = LookUpAnswered(NoDatum)
    /\ UNCHANGED <<liveEnabled, clock, contract, token, quoteCache>>

ServeFromCache ==
    /\ NotAsking /\ liveEnabled /\ EntryServes
    /\ request' = LookUpAnswered(quoteCache[Key].datum)
    /\ UNCHANGED <<liveEnabled, clock, contract, token, quoteCache>>

AskProviders ==
    /\ NotAsking /\ liveEnabled /\ ~EntryServes
    /\ request' = [request EXCEPT !.fetch.left = ProviderOrder(Asked[2])]
    /\ UNCHANGED <<liveEnabled, clock, contract, token, quoteCache>>

\* The entry stamped with the moment of the answer.
CacheEntryOnArrival(datum) == [stamp |-> clock, datum |-> datum]

\* The entry is stamped with the request's reading of the clock, not with the moment
\* of the answer.
CacheEntry(datum) == [stamp |-> request.since, datum |-> datum]

Store(datum) == quoteCache' = [k \in DOMAIN quoteCache \cup {Key} |-> IF k = Key THEN CacheEntry(datum) ELSE quoteCache[k]]

Asking == Busy /\ request.fetch.left # <<>>
Provider == Head(request.fetch.left)

\* The next provider, or None when there is none: a quote fetched before a candle call
\* failed is dropped with the provider.
NextProvider ==
    LET left == Tail(request.fetch.left) IN
    request' = IF left = <<>> THEN LookUpAnswered(NoDatum)
               ELSE [request EXCEPT !.fetch = [NoFetch EXCEPT !.left = left]]

\* A provider raises, has no price for the contract, or is none the service knows.
ProviderFails ==
    /\ Asking
    /\ NextProvider
    /\ UNCHANGED <<liveEnabled, clock, contract, token, quoteCache>>

\* Finam needs a token: the first call signs in, and no call drops a token that Finam
\* no longer takes.
SignIn ==
    /\ Asking /\ Provider = "finam" /\ token = "none"
    /\ token' = "valid"
    /\ UNCHANGED <<liveEnabled, clock, contract, quoteCache, request>>

Accepted == Provider = "moex" \/ (Provider = "finam" /\ token = "valid")

Finish(datum) == request' = LookUpAnswered(datum) /\ Store(datum)

QuoteArrives ==
    /\ Asking /\ Accepted /\ request.fetch.datum = NoDatum
    /\ LET datum == [provider |-> Provider, contract |-> request.contract[Asked[2]], at |-> clock]
           calls == CandleCalls(Asked[1])
       IN IF calls = 0 THEN Finish(datum)
          ELSE /\ request' = [request EXCEPT !.fetch = [left |-> @.left, datum |-> datum, calls |-> calls]]
               /\ UNCHANGED quoteCache
    /\ UNCHANGED <<liveEnabled, clock, contract, token>>

CandlesArrive ==
    /\ Asking /\ Accepted /\ request.fetch.datum # NoDatum
    /\ IF request.fetch.calls = 1 THEN Finish(request.fetch.datum)
       ELSE request' = [request EXCEPT !.fetch.calls = @ - 1] /\ UNCHANGED quoteCache
    /\ UNCHANGED <<liveEnabled, clock, contract, token>>

\* Time passes between requests and in the calls to a provider; a JWT runs out; a reference
\* sync rolls a root to its next contract, which only a later request sees.
MarketTick ==
    /\ clock < MaxClock /\ (Asking \/ ~Busy)
    /\ clock' = clock + 1
    /\ UNCHANGED <<liveEnabled, contract, token, quoteCache, request>>

ExpireToken == token = "valid" /\ token' = "expired" /\ UNCHANGED <<liveEnabled, clock, contract, quoteCache, request>>

RollContract(r) ==
    /\ ~Busy /\ contract[r] + 1 \in Contracts
    /\ contract' = [contract EXCEPT ![r] = @ + 1]
    /\ UNCHANGED <<liveEnabled, clock, token, quoteCache, request>>

MarketNext ==
    \/ \E r \in RootSet : BeginRequest(r) \/ RollContract(r)
    \/ LookUpOff \/ ServeFromCache \/ AskProviders
    \/ ProviderFails \/ SignIn \/ QuoteArrives \/ CandlesArrive
    \/ MarketTick \/ ExpireToken

MarketSpec == MarketInit /\ [][MarketNext]_marketVars

-----------------------------------------------------------------------------
\* Whatever a page shows of a root is a price of the contract the page names, given by
\* a provider at most the time to live before the page's request began, however long
\* the requests that filled the two caches took.
ServedFresh ==
    request # NoRequest => \A l \in Lookups :
        LET datum == request.shown[l] IN
        datum # NoDatum => /\ datum.contract = request.contract[l[2]]
                           /\ datum.at + Ttl >= request.since
=============================================================================
