----------------------------- MODULE MarketProofs -----------------------------
(***************************************************************************)
(* Proofs about the market behind the pages: the quotes and their caches,  *)
(* for any roots, contracts, providers and time to live; the reference and *)
(* its syncs, for any number of processes and versions; the desk, for any  *)
(* contracts, calendars of MOEX and suspensions.                           *)
(*                                                                         *)
(* The desk's invariant keeps the trading day from which its rows were     *)
(* made.  That day has passed unless the calendar has taken it back,       *)
(* contracts only stop trading, and two of a root are further apart than   *)
(* the days of a hard roll: so the first two contracts of a root decide    *)
(* what a row and a series can differ in.                                  *)
(***************************************************************************)
EXTENDS MarketData, ReferenceSync, TradingDesk, SequenceTheorems, WellFoundedInduction, TLAPS

(* Quotes. *)

\* What the caches hold: a price of the contract an entry is about, given no earlier than
\* the moment the entry is stamped with.
CacheInv ==
    \A k \in DOMAIN quoteCache :
        quoteCache[k].datum.contract = k[3] /\ quoteCache[k].stamp <= quoteCache[k].datum.at

\* What the request being served has: a reading of the clock that has passed, and, once a
\* provider has answered the quote of a lookup, a price given since.
FetchInv ==
    request # NoRequest =>
        /\ request.since <= clock
        /\ Busy /\ request.fetch.datum # NoDatum =>
              /\ request.fetch.datum.contract = Key[3]
              /\ request.since <= request.fetch.datum.at
              /\ request.fetch.calls > 0

MarketInv == MarketTypeOK /\ CacheInv /\ FetchInv /\ ServedFresh

-----------------------------------------------------------------------------
\* The first lookup of a request that is being served, and its key in the caches.
LEMMA AskedFacts ==
    ASSUME MarketTypeOK, Busy
    PROVE  /\ request \in Requests
           /\ Asked \in Lookups /\ Asked[1] \in LookupKinds /\ Asked[2] \in RootSet
           /\ request.contract[Asked[2]] \in Contracts
           /\ Key \in Keys /\ Key[3] = request.contract[Asked[2]]
           /\ Tail(request.todo) \in Seq(Lookups)
<1>1. request \in Requests /\ request.todo \in Seq(Lookups) /\ request.todo # <<>>
  BY DEF MarketTypeOK, Busy, Requests
<1>2. Asked \in Lookups /\ Tail(request.todo) \in Seq(Lookups)
  BY <1>1 DEF Asked
<1>3. Asked[1] \in LookupKinds /\ Asked[2] \in RootSet
  BY <1>2 DEF Lookups
<1>4. request.contract[Asked[2]] \in Contracts
  BY <1>1, <1>3 DEF Requests
<1>5. Key \in Keys /\ Key[3] = request.contract[Asked[2]]
  BY <1>3, <1>4 DEF Key, Keys
<1> QED
  BY <1>1, <1>2, <1>3, <1>4, <1>5

\* The providers tried for a root are known ones or those the root names.
LEMMA OrderIsSequence ==
    ASSUME NEW r \in RootSet
    PROVE  ProviderOrder(r) \in Seq(Sources \cup UNION {Range(Wanted[q]) : q \in RootSet})
<1> DEFINE Missing(p) == IF Contains(Wanted[r], p) THEN <<>> ELSE <<p>>
           names == Sources \cup UNION {Range(Wanted[q]) : q \in RootSet}
<1>1. Wanted[r] \in Seq(names)
  <2>1. Wanted[r] \in Seq(STRING)
    BY MarketAssumption DEF RootSet
  <2>2. Wanted[r] \in Seq(Range(Wanted[r])) /\ Range(Wanted[r]) \subseteq names
    BY <2>1, SeqOfRange
  <2> QED
    BY <2>2, SeqMonotonic
<1>2. "moex" \in names /\ "finam" \in names
  BY DEF Sources
<1> HIDE DEF names
<1>3. Missing("moex") \in Seq(names) /\ Missing("finam") \in Seq(names)
  <2>1. \A p \in names : <<>> \in Seq(names) /\ <<p>> \in Seq(names)
    OBVIOUS
  <2> QED
    BY <1>2, <2>1, Zenon
<1>4. ProviderOrder(r) = Wanted[r] \o Missing("moex") \o Missing("finam")
  BY Zenon DEF ProviderOrder
<1> HIDE DEF Missing
<1>5. ProviderOrder(r) \in Seq(names)
  BY <1>1, <1>3, <1>4
<1> QED
  BY <1>5 DEF names

\* In the course of a lookup nothing changes but how far it is.
LEMMA FetchingRequest ==
    ASSUME MarketTypeOK, Busy, NEW f \in Fetches, request' = [request EXCEPT !.fetch = f]
    PROVE  /\ request' \in Requests /\ request'.since = request.since /\ request'.contract = request.contract
           /\ request'.shown = request.shown /\ request'.todo = request.todo /\ request'.fetch = f
<1>1. request \in Requests
  BY AskedFacts
<1> QED
  BY <1>1 DEF Requests

LEMMA NoFetchYet == NoFetch \in Fetches /\ NoFetch.datum = NoDatum
BY DEF NoFetch, Fetches

\* A lookup that ends leaves a request, whose other results stay as they were.
LEMMA AnsweredRequest ==
    ASSUME MarketTypeOK, Busy, NEW datum \in Data \cup {NoDatum}
    PROVE  /\ LookUpAnswered(datum) \in Requests
           /\ LookUpAnswered(datum).since = request.since
           /\ LookUpAnswered(datum).contract = request.contract
           /\ LookUpAnswered(datum).fetch.datum = NoDatum
           /\ LookUpAnswered(datum).shown[Asked] = datum
           /\ \A l \in Lookups \ {Asked} : LookUpAnswered(datum).shown[l] = request.shown[l]
BY NoFetchYet, AskedFacts DEF LookUpAnswered, Requests

-----------------------------------------------------------------------------
\* A process starts with empty caches and no request.
LEMMA MarketStart == MarketInit => MarketInv
<1> SUFFICES ASSUME MarketInit PROVE MarketInv
  OBVIOUS
<1>1. Min(Contracts) \in Contracts
  BY MarketAssumption DEF Min
<1>2. MarketTypeOK
  BY <1>1, MarketAssumption DEF MarketInit, MarketTypeOK
<1> QED
  BY <1>2 DEF MarketInit, MarketInv, CacheInv, FetchInv, ServedFresh

\* A request begins with its own reading of the clock and of the contracts.
LEMMA BeginKeeps ==
    ASSUME MarketInv, NEW selected \in RootSet, BeginRequest(selected)
    PROVE  MarketInv'
<1> DEFINE todo == <<<<"full", selected>>>> \o [i \in DOMAIN MarketRoots |-> <<"quote", MarketRoots[i]>>]
<1>1. todo \in Seq(Lookups)
  <2>1. [i \in DOMAIN MarketRoots |-> <<"quote", MarketRoots[i]>>] \in Seq(Lookups)
    <3>1. \A i \in DOMAIN MarketRoots : <<"quote", MarketRoots[i]>> \in Lookups
      BY DEF Lookups, LookupKinds, RootSet, Range
    <3>2. MarketRoots \in Seq(STRING) /\ DOMAIN MarketRoots = 1..Len(MarketRoots) /\ Len(MarketRoots) \in Nat
      BY MarketAssumption
    <3> QED
      BY <3>1, <3>2
  <2>2. <<<<"full", selected>>>> \in Seq(Lookups)
    BY DEF Lookups, LookupKinds
  <2> QED
    BY <2>1, <2>2
<1>2. NoFetch \in Fetches /\ NoFetch.datum = NoDatum
  BY NoFetchYet
<1> DEFINE started == [since |-> clock, contract |-> contract, todo |-> todo,
                       fetch |-> NoFetch, shown |-> [l \in Lookups |-> NoDatum]]
<1>3. request' = started /\ UNCHANGED <<liveEnabled, clock, contract, token, quoteCache>>
  BY Zenon DEF BeginRequest
<1>4. started \in Requests
  BY <1>1, <1>2 DEF MarketInv, MarketTypeOK, Requests
<1>5. MarketTypeOK'
  BY <1>3, <1>4 DEF MarketInv, MarketTypeOK, Requests, Data
<1>6. CacheInv'
  BY <1>3 DEF MarketInv, CacheInv
<1>7. FetchInv'
  BY <1>2, <1>3, MarketAssumption DEF FetchInv, MarketInv, MarketTypeOK
<1>8. ServedFresh'
  BY <1>3 DEF ServedFresh
<1> QED
  BY <1>5, <1>6, <1>7, <1>8 DEF MarketInv

\* A lookup that ends without a price, or with one of the right contract that is fresh.
LEMMA AnswerKeeps ==
    ASSUME MarketInv, Busy, NEW datum \in Data \cup {NoDatum},
           datum # NoDatum => datum.contract = Key[3] /\ datum.at + Ttl >= request.since,
           request' = LookUpAnswered(datum), UNCHANGED <<clock, contract>>
    PROVE  request' \in Requests /\ FetchInv' /\ ServedFresh'
<1>1. /\ request' \in Requests /\ request'.since = request.since /\ request'.contract = request.contract
      /\ request'.fetch.datum = NoDatum /\ request'.shown[Asked] = datum
      /\ \A l \in Lookups \ {Asked} : request'.shown[l] = request.shown[l]
  BY AnsweredRequest DEF MarketInv
<1>2. FetchInv'
  BY <1>1 DEF MarketInv, FetchInv, Busy
<1>3. ServedFresh'
  <2> SUFFICES ASSUME NEW l \in Lookups, request'.shown[l] # NoDatum
               PROVE  /\ request'.shown[l].contract = request'.contract[l[2]]
                      /\ request'.shown[l].at + Ttl >= request'.since
    BY DEF ServedFresh
  <2>1. CASE l = Asked
    BY <1>1, <2>1, AskedFacts DEF MarketInv
  <2>2. CASE l # Asked
    BY <1>1, <2>2 DEF MarketInv, ServedFresh, Busy
  <2> QED
    BY <2>1, <2>2
<1> QED
  BY <1>1, <1>2, <1>3

\* Without a change of the caches the rest of the invariant stays.
LEMMA CachesRest ==
    ASSUME MarketInv, request' \in Requests \cup {NoRequest}, UNCHANGED <<liveEnabled, clock, contract, quoteCache>>,
           token' \in {"none", "valid", "expired"}, FetchInv', ServedFresh'
    PROVE  MarketInv'
BY DEF MarketInv, MarketTypeOK, CacheInv, Requests, Data

LEMMA CacheAnswers ==
    ASSUME MarketInv, LookUpOff \/ ServeFromCache
    PROVE  MarketInv'
<1>1. CASE LookUpOff
  <2>1. Busy /\ request' = LookUpAnswered(NoDatum) /\ UNCHANGED <<liveEnabled, clock, contract, token, quoteCache>>
    BY <1>1 DEF LookUpOff, NotAsking
  <2> QED
    BY <2>1, AnswerKeeps, CachesRest DEF MarketInv, MarketTypeOK
<1>2. CASE ServeFromCache
  <2>1. /\ Busy /\ EntryServes /\ request' = LookUpAnswered(quoteCache[Key].datum)
        /\ UNCHANGED <<liveEnabled, clock, contract, token, quoteCache>>
    BY <1>2 DEF ServeFromCache, NotAsking
  <2>2. quoteCache[Key] \in [stamp : 0..MaxClock, datum : Data] /\ quoteCache[Key].datum.contract = Key[3]
        /\ quoteCache[Key].stamp <= quoteCache[Key].datum.at
    BY <2>1 DEF EntryServes, MarketInv, MarketTypeOK, CacheInv
  <2>3. quoteCache[Key].datum \in Data /\ quoteCache[Key].datum.at + Ttl >= request.since
    <3>1. request.since \in Nat /\ quoteCache[Key].stamp \in Nat /\ quoteCache[Key].datum.at \in Nat
      BY <2>1, <2>2, AskedFacts, MarketAssumption DEF MarketInv, Requests, Data
    <3> QED
      BY <2>1, <2>2, <3>1, MarketAssumption DEF EntryServes
  <2> QED
    BY <2>1, <2>2, <2>3, AnswerKeeps, CachesRest DEF MarketInv, MarketTypeOK
<1> QED
  BY <1>1, <1>2

\* Asking the providers, and going on to the next one, give no price yet.
LEMMA AskKeeps ==
    ASSUME MarketInv, AskProviders \/ ProviderFails
    PROVE  MarketInv'
<1>1. CASE AskProviders
  <2>1. /\ Busy /\ request.fetch = NoFetch
        /\ request' = [request EXCEPT !.fetch.left = ProviderOrder(Asked[2])]
        /\ UNCHANGED <<liveEnabled, clock, contract, token, quoteCache>>
    BY <1>1 DEF AskProviders, NotAsking
  <2> DEFINE f == [left |-> ProviderOrder(Asked[2]), datum |-> NoDatum, calls |-> 0]
  <2>2. f \in Fetches /\ f.datum = NoDatum
    BY <2>1, AskedFacts, OrderIsSequence DEF MarketInv, Fetches
  <2>3. request' = [request EXCEPT !.fetch = f]
    <3>1. request \in Requests
      BY <2>1, AskedFacts DEF MarketInv
    <3> QED
      BY <2>1, <3>1 DEF NoFetch, Requests
  <2> HIDE DEF f
  <2>5. /\ request' \in Requests /\ request'.since = request.since /\ request'.contract = request.contract
        /\ request'.shown = request.shown /\ request'.fetch.datum = NoDatum
    BY <2>1, <2>2, <2>3, FetchingRequest DEF MarketInv
  <2>4. FetchInv' /\ ServedFresh'
    BY <2>1, <2>5 DEF MarketInv, FetchInv, ServedFresh, Busy
  <2> QED
    BY <2>1, <2>4, <2>5, CachesRest DEF MarketInv, MarketTypeOK
<1>2. CASE ProviderFails
  <2>1. /\ Busy /\ request.fetch.left # <<>> /\ NextProvider
        /\ UNCHANGED <<liveEnabled, clock, contract, token, quoteCache>>
    BY <1>2 DEF ProviderFails, Asking
  <2> DEFINE left == Tail(request.fetch.left)
  <2>2. CASE left = <<>>
    <3>1. request' = LookUpAnswered(NoDatum)
      BY <2>1, <2>2 DEF NextProvider
    <3> QED
      BY <2>1, <3>1, AnswerKeeps, CachesRest DEF MarketInv, MarketTypeOK
  <2>3. CASE left # <<>>
    <3>1. request' = [request EXCEPT !.fetch = [NoFetch EXCEPT !.left = left]]
      BY <2>1, <2>3 DEF NextProvider
    <3> DEFINE f == [NoFetch EXCEPT !.left = left]
    <3>2. f \in Fetches /\ f.datum = NoDatum
      <4>1. request.fetch \in Fetches /\ request.fetch.left # <<>>
        BY <2>1, AskedFacts DEF MarketInv, Requests
      <4> QED
        BY <4>1, HeadTailProperties DEF Fetches, NoFetch
    <3> HIDE DEF f
    <3>4. /\ request' \in Requests /\ request'.since = request.since /\ request'.contract = request.contract
          /\ request'.shown = request.shown /\ request'.fetch.datum = NoDatum
      BY <2>1, <3>1, <3>2, FetchingRequest DEF MarketInv, f
    <3>5. FetchInv' /\ ServedFresh'
      BY <2>1, <3>4 DEF MarketInv, FetchInv, ServedFresh, Busy
    <3> QED
      BY <2>1, <3>4, <3>5, CachesRest DEF MarketInv, MarketTypeOK
  <2> QED
    BY <2>2, <2>3
<1> QED
  BY <1>1, <1>2

\* A lookup that is answered with a price given since the request began, which goes into
\* the cache under the request's reading of the clock.
LEMMA FinishKeeps ==
    ASSUME MarketInv, Asking, NEW datum \in Data,
           datum.contract = Key[3], request.since <= datum.at,
           Finish(datum), UNCHANGED <<liveEnabled, clock, contract, token>>
    PROVE  MarketInv'
<1>1. Busy /\ request' = LookUpAnswered(datum) /\ Store(datum)
  BY DEF Asking, Finish
<1>2. request \in Requests /\ Key \in Keys /\ request.since \in 0..MaxClock /\ datum.at \in Nat
  BY <1>1, AskedFacts DEF MarketInv, Requests, Data
<1>3. datum.at + Ttl >= request.since
  BY <1>2, MarketAssumption
<1>4. request' \in Requests /\ FetchInv' /\ ServedFresh'
  BY <1>1, <1>3, AnswerKeeps
<1>5. CacheEntry(datum) \in [stamp : 0..MaxClock, datum : Data]
  BY <1>2 DEF CacheEntry
<1>6. /\ DOMAIN quoteCache' = DOMAIN quoteCache \cup {Key}
      /\ \A k \in DOMAIN quoteCache' : quoteCache'[k] = IF k = Key THEN CacheEntry(datum) ELSE quoteCache[k]
  BY <1>1, Zenon DEF Store
<1>7. CacheInv'
  <2> SUFFICES ASSUME NEW k \in DOMAIN quoteCache'
               PROVE  quoteCache'[k].datum.contract = k[3] /\ quoteCache'[k].stamp <= quoteCache'[k].datum.at
    BY DEF CacheInv
  <2>1. CASE k = Key
    <3>1. quoteCache'[k] = [stamp |-> request.since, datum |-> datum]
      BY <1>6, <2>1 DEF CacheEntry
    <3> QED
      BY <2>1, <3>1
  <2>2. CASE k # Key
    BY <1>6, <2>2 DEF MarketInv, CacheInv
  <2> QED
    BY <2>1, <2>2
<1>8. MarketTypeOK'
  <2>1. DOMAIN quoteCache' \subseteq Keys
    BY <1>2, <1>6 DEF MarketInv, MarketTypeOK
  <2>2. \A k \in DOMAIN quoteCache' : quoteCache'[k] \in [stamp : 0..MaxClock, datum : Data]
    BY <1>5, <1>6 DEF MarketInv, MarketTypeOK
  <2> QED
    BY <1>4, <2>1, <2>2 DEF MarketInv, MarketTypeOK, Requests, Data
<1> QED
  BY <1>4, <1>7, <1>8 DEF MarketInv

\* A provider's quote, with which a lookup of a quote is answered.
LEMMA QuoteKeeps ==
    ASSUME MarketInv, QuoteArrives
    PROVE  MarketInv'
<1> DEFINE datum == [provider |-> Provider, contract |-> request.contract[Asked[2]], at |-> clock]
           calls == CandleCalls(Asked[1])
<1>1. Busy /\ Asking /\ UNCHANGED <<liveEnabled, clock, contract, token>>
  BY DEF QuoteArrives, Asking
<1>2. /\ request \in Requests /\ Asked[1] \in LookupKinds
      /\ request.contract[Asked[2]] \in Contracts /\ Key[3] = request.contract[Asked[2]]
  BY <1>1, AskedFacts DEF MarketInv
<1>3. datum \in Data /\ datum.contract = Key[3] /\ request.since <= datum.at
  <2>1. Provider \in Sources /\ clock \in 0..MaxClock /\ request.since <= clock
    BY <1>1 DEF QuoteArrives, Accepted, Sources, MarketInv, MarketTypeOK, FetchInv, Busy
  <2> QED
    BY <1>2, <2>1 DEF Data
<1>4. CASE calls = 0
  <2>1. Finish(datum)
    BY <1>4 DEF QuoteArrives
  <2> QED
    BY <1>1, <1>3, <2>1, FinishKeeps
<1>5. CASE calls # 0
  <2>1. request' = [request EXCEPT !.fetch = [left |-> @.left, datum |-> datum, calls |-> calls]] /\ UNCHANGED quoteCache
    BY <1>5 DEF QuoteArrives
  <2>2. calls = 3
    BY <1>5 DEF CandleCalls
  <2>3. /\ request' \in Requests /\ request'.since = request.since /\ request'.contract = request.contract
        /\ request'.shown = request.shown /\ request'.todo = request.todo
        /\ request'.fetch.datum = datum /\ request'.fetch.calls = 3
    <3> DEFINE f == [left |-> request.fetch.left, datum |-> datum, calls |-> 3]
    <3>1. request.fetch \in Fetches
      BY <1>2 DEF Requests
    <3>2. f \in Fetches /\ f.datum = datum /\ f.calls = 3
      <4>1. datum \in Data
        BY <1>3
      <4> HIDE DEF datum
      <4> QED
        BY <3>1, <4>1 DEF Fetches
    <3> HIDE DEF datum
    <3>3. request' = [request EXCEPT !.fetch = f]
      BY <1>2, <2>1, <2>2 DEF Requests
    <3> HIDE DEF f
    <3> QED
      BY <1>1, <3>2, <3>3, FetchingRequest DEF MarketInv
  <2>4. Key' = Key
    BY <2>3 DEF Key, Asked
  <2>5. FetchInv' /\ ServedFresh'
    BY <1>1, <1>3, <2>3, <2>4 DEF MarketInv, FetchInv, ServedFresh, Busy
  <2> QED
    BY <1>1, <2>1, <2>3, <2>5, CachesRest DEF MarketInv, MarketTypeOK
<1> QED
  BY <1>4, <1>5

\* The candles of a full snapshot, of which the last ends the lookup.
LEMMA CandlesKeep ==
    ASSUME MarketInv, CandlesArrive
    PROVE  MarketInv'
<1> DEFINE datum == request.fetch.datum
<1>1. Busy /\ Asking /\ datum # NoDatum /\ UNCHANGED <<liveEnabled, clock, contract, token>>
  BY DEF CandlesArrive, Asking
<1>2. request \in Requests /\ datum \in Data
  BY <1>1, AskedFacts DEF MarketInv, Requests, Fetches
<1>3. datum.contract = Key[3] /\ request.since <= datum.at /\ request.fetch.calls > 0
  BY <1>1 DEF MarketInv, FetchInv, Busy
<1>4. CASE request.fetch.calls = 1
  <2>1. Finish(datum)
    BY <1>4 DEF CandlesArrive
  <2> QED
    BY <1>1, <1>2, <1>3, <2>1, FinishKeeps
<1>5. CASE request.fetch.calls # 1
  <2>1. request' = [request EXCEPT !.fetch.calls = @ - 1] /\ UNCHANGED quoteCache
    BY <1>5 DEF CandlesArrive
  <2>2. request.fetch.calls \in 2..3
    BY <1>2, <1>3, <1>5 DEF Requests, Fetches
  <2>3. /\ request' \in Requests /\ request'.since = request.since /\ request'.contract = request.contract
        /\ request'.shown = request.shown /\ request'.todo = request.todo
        /\ request'.fetch.datum = datum /\ request'.fetch.calls > 0
    BY <1>2, <2>1, <2>2 DEF Requests, Fetches
  <2>4. Key' = Key
    BY <2>3 DEF Key, Asked
  <2>5. FetchInv' /\ ServedFresh'
    BY <1>1, <1>3, <2>3, <2>4 DEF MarketInv, FetchInv, ServedFresh, Busy
  <2> QED
    BY <1>1, <2>1, <2>3, <2>5, CachesRest DEF MarketInv, MarketTypeOK
<1> QED
  BY <1>4, <1>5

\* Time, a token, and a roll between requests.
LEMMA WorldKeeps ==
    ASSUME MarketInv, MarketTick \/ SignIn \/ ExpireToken \/ \E r \in RootSet : RollContract(r)
    PROVE  MarketInv'
<1>1. CASE MarketTick
  <2>1. clock \in Nat /\ clock' = clock + 1 /\ clock' \in 0..MaxClock
        /\ UNCHANGED <<liveEnabled, contract, token, quoteCache, request>>
    BY <1>1, MarketAssumption DEF MarketTick, MarketInv, MarketTypeOK
  <2>2. MarketTypeOK' /\ CacheInv' /\ ServedFresh'
    BY <2>1 DEF MarketInv, MarketTypeOK, CacheInv, ServedFresh, Requests, Data
  <2>3. FetchInv'
    <3>1. request # NoRequest => request.since \in Nat /\ request.since <= clock'
      BY <2>1, MarketAssumption DEF MarketInv, MarketTypeOK, FetchInv, Requests
    <3> QED
      BY <2>1, <3>1 DEF MarketInv, FetchInv, Busy, Key, Asked
  <2> QED
    BY <2>2, <2>3 DEF MarketInv
<1>2. CASE SignIn \/ ExpireToken
  <2>1. token' \in {"none", "valid", "expired"} /\ UNCHANGED <<liveEnabled, clock, contract, quoteCache, request>>
    BY <1>2 DEF SignIn, ExpireToken
  <2>2. FetchInv' /\ ServedFresh'
    BY <2>1 DEF MarketInv, FetchInv, ServedFresh, Busy, Key, Asked
  <2> QED
    BY <2>1, <2>2, CachesRest DEF MarketInv, MarketTypeOK
<1>3. CASE \E r \in RootSet : RollContract(r)
  <2>1. PICK r \in RootSet : RollContract(r)
    BY <1>3
  <2>2. contract' \in [RootSet -> Contracts] /\ UNCHANGED <<liveEnabled, clock, token, quoteCache, request>>
    BY <2>1 DEF RollContract, MarketInv, MarketTypeOK
  <2> QED
    BY <2>2 DEF MarketInv, MarketTypeOK, CacheInv, FetchInv, ServedFresh, Busy, Key, Asked, Requests, Data
<1> QED
  BY <1>1, <1>2, <1>3

\* Every step keeps the invariant.
LEMMA MarketStep == MarketInv /\ [MarketNext]_marketVars => MarketInv'
<1> SUFFICES ASSUME MarketInv, [MarketNext]_marketVars PROVE MarketInv'
  OBVIOUS
<1>1. CASE \E r \in RootSet : BeginRequest(r)
  BY <1>1, BeginKeeps
<1>2. CASE LookUpOff \/ ServeFromCache
  BY <1>2, CacheAnswers
<1>3. CASE AskProviders \/ ProviderFails
  BY <1>3, AskKeeps
<1>4. CASE QuoteArrives
  BY <1>4, QuoteKeeps
<1>5. CASE CandlesArrive
  BY <1>5, CandlesKeep
<1>6. CASE MarketTick \/ SignIn \/ ExpireToken \/ \E r \in RootSet : RollContract(r)
  BY <1>6, WorldKeeps
<1>7. CASE UNCHANGED marketVars
  BY <1>7 DEF marketVars, MarketInv, MarketTypeOK, CacheInv, FetchInv, ServedFresh, Busy, Key, Asked, Requests, Data
<1> QED
  BY <1>1, <1>2, <1>3, <1>4, <1>5, <1>6, <1>7 DEF MarketNext

-----------------------------------------------------------------------------
\* The inductive invariant holds of every behaviour: an entry is never stamped later than
\* its price was given, whatever time its request took.
THEOREM MarketInductive == MarketSpec => []MarketInv
BY MarketStart, MarketStep, PTL DEF MarketSpec

\* What a page shows is of the contract it names and not older than the time to live when
\* the page's request began: for any roots, providers and time to live.
THEOREM FreshlyServed == MarketSpec => []ServedFresh
<1>1. MarketInv => ServedFresh
  BY DEF MarketInv
<1> QED
  BY <1>1, MarketInductive, PTL

-----------------------------------------------------------------------------
(* The reference and its syncs. *)

\* What a process may be doing, hold, and have written.
Calls == [step : Steps, source : ReferenceSources, asOf : Ages]
Copies == [copy : Versions, attempt : Ages \cup {Never}, success : Ages \cup {Never}, call : Calls]
RowStates == [version : Versions, rolls : 0 .. MaxRolls, age : Ages]
SyncStates == [source : ReferenceSources, age : Ages]
SpentStates == [restarts : 0 .. MaxRestarts, errors : 0 .. MaxSyncErrors, direct : 0 .. MaxDirect]

\* The invariant: MOEX has published something, and what the processes, the rows and the last sync
\* hold is of what was published.
ReferenceInv ==
    /\ published \in Versions \ {Bundled} /\ rolls \in 0 .. MaxRolls
    /\ proc \in [Processes -> Copies]
    /\ rows \in RowStates \cup {NoRows}
    /\ sync \in SyncStates \cup {NoSync}
    /\ spent \in SpentStates

\* The bounds are numbers, and a process that has just started is one.
LEMMA ReferenceNumbers ==
    /\ Interval \in Nat /\ Interval > 0 /\ MaxPublished \in Nat /\ MaxPublished > 0 /\ MaxRolls \in Nat
    /\ MaxRestarts \in Nat /\ MaxSyncErrors \in Nat /\ MaxDirect \in Nat
    /\ 0 \in Ages /\ 0 \in Versions /\ 1 \in Versions /\ 0 \in 0 .. MaxRolls
    /\ NoCall \in Calls /\ Fresh \in Copies
<1>1. /\ Interval \in Nat /\ Interval > 0 /\ MaxPublished \in Nat /\ MaxPublished > 0 /\ MaxRolls \in Nat
      /\ MaxRestarts \in Nat /\ MaxSyncErrors \in Nat /\ MaxDirect \in Nat
  BY ReferenceAssumption
<1>2. 0 \in Ages /\ 0 \in Versions /\ 1 \in Versions /\ 0 \in 0 .. MaxRolls
  BY <1>1 DEF Ages, Versions, Bundled
<1>3. NoCall \in Calls
  BY <1>2 DEF NoCall, Calls, Steps, ReferenceSources
<1>4. Fresh \in Copies
  BY <1>2, <1>3 DEF Fresh, Copies, Bundled
<1> QED
  BY <1>1, <1>2, <1>3, <1>4

\* An age that is an hour older is an age, and what never happened still has not: Older.
LEMMA OlderIs ==
    /\ \A age \in Ages : Older(age) \in Ages
    /\ \A age \in Ages \cup {Never} : Older(age) \in Ages \cup {Never}
<1>1. \A age \in Ages : Older(age) \in Ages
  BY ReferenceNumbers DEF Older, Ages
<1>2. Older(Never) = Never
  BY DEF Older
<1> QED
  BY <1>1, <1>2

\* The invariant holds of the bootstrapped rows and the first processes: ReferenceInit.
LEMMA ReferenceInitially == ReferenceInit => ReferenceInv
<1> SUFFICES ASSUME ReferenceInit PROVE ReferenceInv
  OBVIOUS
<1>1. published = 1 /\ published # Bundled /\ rolls = 0
  BY DEF ReferenceInit, Bundled
<1>2. proc \in [Processes -> Copies]
  BY ReferenceNumbers DEF ReferenceInit
<1>3. spent \in SpentStates
  BY ReferenceNumbers DEF ReferenceInit, SpentStates
<1> QED
  BY <1>1, <1>2, <1>3, ReferenceNumbers DEF ReferenceInit, ReferenceInv

\* What a process has in memory, field by field.
LEMMA Copied ==
    ASSUME ReferenceInv, NEW p \in Processes
    PROVE  /\ proc[p] \in Copies /\ proc[p].call \in Calls
           /\ proc[p] = [copy |-> proc[p].copy, attempt |-> proc[p].attempt, success |-> proc[p].success, call |-> proc[p].call]
           /\ proc[p].copy \in Versions /\ proc[p].attempt \in Ages \cup {Never} /\ proc[p].success \in Ages \cup {Never}
           /\ proc[p].call.step \in Steps /\ proc[p].call.source \in ReferenceSources /\ proc[p].call.asOf \in Ages
<1>1. proc[p] \in Copies
  BY DEF ReferenceInv
<1>2. /\ proc[p].call \in Calls
      /\ proc[p] = [copy |-> proc[p].copy, attempt |-> proc[p].attempt, success |-> proc[p].success, call |-> proc[p].call]
      /\ proc[p].copy \in Versions /\ proc[p].attempt \in Ages \cup {Never} /\ proc[p].success \in Ages \cup {Never}
  BY <1>1 DEF Copies
<1>3. proc[p].call.step \in Steps /\ proc[p].call.source \in ReferenceSources /\ proc[p].call.asOf \in Ages
  BY <1>2 DEF Calls
<1> QED
  BY <1>1, <1>2, <1>3

\* A call that goes on is a call.
LEMMA StepIs ==
    ASSUME NEW call \in Calls, NEW step \in Steps
    PROVE  [call EXCEPT !.step = step] \in Calls
BY DEF Calls

\* Every operation keeps the invariant: Seed.
LEMMA SeedKept == ASSUME ReferenceInv, NEW p \in Processes, Seed(p) PROVE ReferenceInv'
<1>1. PICK source \in ReferenceSources : source = IF sync = NoSync THEN "bundled_fallback" ELSE sync.source
  BY DEF ReferenceInv, ReferenceSources, SyncStates
<1>2. PICK syncs \in BOOLEAN : syncs = (Due(LatestSync) /\ SyncDue(p))
  OBVIOUS
<1>3. PICK call \in Calls : call = [step |-> IF syncs THEN "auto" ELSE "compare", source |-> source, asOf |-> 0]
  BY ReferenceNumbers DEF Calls, Steps
<1>4. PICK attempt \in Ages \cup {Never} : attempt = IF syncs THEN 0 ELSE proc[p].attempt
  BY Copied, ReferenceNumbers
<1>5. proc' = [proc EXCEPT ![p].call = call, ![p].attempt = attempt]
  BY <1>1, <1>2, <1>3, <1>4, Zenon DEF Seed
<1>6. proc' \in [Processes -> Copies]
  BY <1>5, Copied DEF ReferenceInv, Copies
<1>7. UNCHANGED <<published, rolls, rows, sync, spent>>
  BY DEF Seed
<1> QED
  BY <1>6, <1>7 DEF ReferenceInv

\* DirectSync.
LEMMA DirectSyncKept == ASSUME ReferenceInv, NEW p \in Processes, DirectSync(p) PROVE ReferenceInv'
<1>1. PICK source \in ReferenceSources :
          proc' = [proc EXCEPT ![p].call = [step |-> "direct", source |-> source, asOf |-> 0]]
  BY DEF DirectSync
<1>2. PICK call \in Calls : call = [step |-> "direct", source |-> source, asOf |-> 0]
  BY ReferenceNumbers DEF Calls, Steps
<1>3. proc' \in [Processes -> Copies]
  BY <1>1, <1>2, Copied DEF ReferenceInv, Copies
<1>4. spent' \in SpentStates
  <2>1. spent \in SpentStates /\ spent.direct < MaxDirect /\ spent' = [spent EXCEPT !.direct = @ + 1]
    BY DEF DirectSync, ReferenceInv
  <2>2. spent.direct + 1 \in 0 .. MaxDirect
    BY <2>1, ReferenceNumbers DEF SpentStates
  <2> QED
    BY <2>1, <2>2 DEF SpentStates
<1>5. UNCHANGED <<published, rolls, rows, sync>>
  BY DEF DirectSync
<1> QED
  BY <1>3, <1>4, <1>5 DEF ReferenceInv

\* AutoSynced.
LEMMA AutoSyncedKept == ASSUME ReferenceInv, NEW p \in Processes, AutoSynced(p) PROVE ReferenceInv'
<1>1. PICK call \in Calls : call = [proc[p].call EXCEPT !.step = "compare", !.source = "moex_iss"]
  BY Copied DEF Calls, Steps, ReferenceSources
<1>2. proc' = [proc EXCEPT ![p].copy = published, ![p].success = proc[p].call.asOf, ![p].call = call]
  BY <1>1 DEF AutoSynced
<1>3. published \in Versions
  BY DEF ReferenceInv
<1>4. proc' \in [Processes -> Copies]
  BY <1>2, <1>3, Copied, ZenonT(60) DEF ReferenceInv, Copies
<1>5. sync' \in SyncStates
  BY Copied DEF AutoSynced, SyncStates, ReferenceSources
<1>6. UNCHANGED <<published, rolls, rows, spent>>
  BY DEF AutoSynced
<1> QED
  BY <1>4, <1>5, <1>6 DEF ReferenceInv

\* What a sync makes of the copy is a version: CopyAfter.
LEMMA CopiedAfter == ASSUME ReferenceInv, NEW p \in Processes PROVE CopyAfter(p) \subseteq Versions
BY Copied DEF CopyAfter, ReferenceInv

\* DirectSynced.
LEMMA DirectSyncedKept == ASSUME ReferenceInv, NEW p \in Processes, DirectSynced(p) PROVE ReferenceInv'
<1>1. PICK copy \in Versions : proc' = [proc EXCEPT ![p].copy = copy, ![p].call = [@ EXCEPT !.step = "write"]]
  BY CopiedAfter DEF DirectSynced
<1>2. PICK call \in Calls : call = [proc[p].call EXCEPT !.step = "write"]
  BY Copied, StepIs DEF Steps
<1>3. proc' = [proc EXCEPT ![p].copy = copy, ![p].call = call]
  BY <1>1, <1>2
<1>4. proc' \in [Processes -> Copies]
  BY <1>3, Copied DEF ReferenceInv, Copies
<1>5. UNCHANGED <<published, rolls, rows, sync, spent>>
  BY DEF DirectSynced
<1> QED
  BY <1>4, <1>5 DEF ReferenceInv

\* SyncRaises.
LEMMA SyncRaisesKept == ASSUME ReferenceInv, NEW p \in Processes, SyncRaises(p) PROVE ReferenceInv'
<1>1. PICK copy \in Versions : proc' = [proc EXCEPT ![p].copy = copy,
                      ![p].call = IF At(p, "auto") THEN [@ EXCEPT !.step = "compare"] ELSE NoCall]
  BY CopiedAfter DEF SyncRaises
<1>2. PICK call \in Calls : call = IF At(p, "auto") THEN [proc[p].call EXCEPT !.step = "compare"] ELSE NoCall
  <2>1. "compare" \in Steps
    BY DEF Steps
  <2> QED
    BY <2>1, Copied, StepIs, ReferenceNumbers
<1>3. proc' = [proc EXCEPT ![p].copy = copy, ![p].call = call]
  BY <1>1, <1>2, Zenon
<1>4. proc' \in [Processes -> Copies]
  BY <1>3, Copied DEF ReferenceInv, Copies
<1>5. spent' \in SpentStates
  <2>1. spent \in SpentStates /\ spent.errors < MaxSyncErrors /\ spent' = [spent EXCEPT !.errors = @ + 1]
    BY DEF SyncRaises, ReferenceInv
  <2>2. spent.errors + 1 \in 0 .. MaxSyncErrors
    BY <2>1, ReferenceNumbers DEF SpentStates
  <2> QED
    BY <2>1, <2>2 DEF SpentStates
<1>6. UNCHANGED <<published, rolls, rows, sync>>
  BY DEF SyncRaises
<1> QED
  BY <1>4, <1>5, <1>6 DEF ReferenceInv

\* CompareRows.
LEMMA ComparisonKept == ASSUME ReferenceInv, NEW p \in Processes, CompareRows(p) PROVE ReferenceInv'
<1>1. PICK call \in Calls : call = IF Differs(p) THEN [proc[p].call EXCEPT !.step = "write"] ELSE NoCall
  <2>1. "write" \in Steps
    BY DEF Steps
  <2> QED
    BY <2>1, Copied, StepIs, ReferenceNumbers
<1>2. proc' = [proc EXCEPT ![p].call = call]
  BY <1>1 DEF CompareRows
<1>3. proc' \in [Processes -> Copies]
  BY <1>2, Copied DEF ReferenceInv, Copies
<1>4. UNCHANGED <<published, rolls, rows, sync, spent>>
  BY DEF CompareRows
<1> QED
  BY <1>3, <1>4 DEF ReferenceInv

\* WriteRows.
LEMMA WriteKept == ASSUME ReferenceInv, NEW p \in Processes, WriteRows(p) PROVE ReferenceInv'
<1>1. rows' \in RowStates
  <2>1. PICK age \in {proc[p].call.asOf} \cup (IF rows = NoRows THEN {} ELSE {rows.age}) :
            rows' = [version |-> proc[p].copy, rolls |-> rolls, age |-> age]
    BY DEF WriteRows
  <2>2. rows # NoRows => rows.age \in Ages
    BY DEF ReferenceInv, RowStates
  <2>3. age \in Ages
    BY <2>1, <2>2, Copied
  <2> QED
    BY <2>1, <2>3, Copied DEF RowStates, ReferenceInv
<1>2. PICK call \in Calls : call = [proc[p].call EXCEPT !.step = "record"]
  BY Copied, StepIs DEF Steps
<1>3. proc' = [proc EXCEPT ![p].call = call]
  BY <1>2, Copied DEF WriteRows, Enter, ReferenceInv, Copies
<1>4. proc' \in [Processes -> Copies]
  BY <1>3, Copied DEF ReferenceInv, Copies
<1>5. UNCHANGED <<published, rolls, sync, spent>>
  BY DEF WriteRows
<1> QED
  BY <1>1, <1>4, <1>5 DEF ReferenceInv

\* RecordSync.
LEMMA RecordKept == ASSUME ReferenceInv, NEW p \in Processes, RecordSync(p) PROVE ReferenceInv'
<1>1. sync' \in SyncStates
  BY Copied DEF RecordSync, SyncStates
<1>2. proc' \in [Processes -> Copies]
  BY Copied, ReferenceNumbers DEF RecordSync, ReferenceInv, Copies
<1>3. UNCHANGED <<published, rolls, rows, spent>>
  BY DEF RecordSync
<1> QED
  BY <1>1, <1>2, <1>3 DEF ReferenceInv

\* Restart.
LEMMA RestartKept == ASSUME ReferenceInv, NEW p \in Processes, Restart(p) PROVE ReferenceInv'
<1>1. spent' \in SpentStates
  <2>1. spent \in SpentStates /\ spent.restarts < MaxRestarts /\ spent' = [spent EXCEPT !.restarts = @ + 1]
    BY DEF Restart, ReferenceInv
  <2>2. spent.restarts + 1 \in 0 .. MaxRestarts
    BY <2>1, ReferenceNumbers DEF SpentStates
  <2> QED
    BY <2>1, <2>2 DEF SpentStates
<1>2. proc' \in [Processes -> Copies]
  BY ReferenceNumbers DEF Restart, ReferenceInv
<1>3. UNCHANGED <<published, rolls, rows, sync>>
  BY DEF Restart
<1> QED
  BY <1>1, <1>2, <1>3 DEF ReferenceInv

\* HoursPass.
LEMMA HoursKept == ASSUME ReferenceInv, HoursPass PROVE ReferenceInv'
<1>1. proc' \in [Processes -> Copies]
  <2>1. \A call \in Calls : OlderCall(call) \in Calls
    BY OlderIs DEF OlderCall, Calls
  <2> QED
    BY <2>1, Copied, OlderIs DEF HoursPass, Copies
<1>2. sync' \in SyncStates \cup {NoSync}
  BY OlderIs DEF HoursPass, ReferenceInv, SyncStates
<1>3. rows' \in RowStates \cup {NoRows}
  BY OlderIs DEF HoursPass, ReferenceInv, RowStates
<1>4. UNCHANGED <<published, rolls, spent>>
  BY DEF HoursPass
<1> QED
  BY <1>1, <1>2, <1>3, <1>4 DEF ReferenceInv

\* Every step of the reference keeps the invariant.
LEMMA ReferenceStepKept == ReferenceInv /\ [ReferenceNext]_refVars => ReferenceInv'
<1> SUFFICES ASSUME ReferenceInv, [ReferenceNext]_refVars PROVE ReferenceInv'
  OBVIOUS
<1>1. CASE UNCHANGED refVars
  BY <1>1 DEF refVars, ReferenceInv
<1>2. ASSUME NEW p \in Processes, Seed(p) \/ DirectSync(p) \/ InCall(p) \/ Restart(p) PROVE ReferenceInv'
  BY <1>2, SeedKept, DirectSyncKept, AutoSyncedKept, DirectSyncedKept, SyncRaisesKept, ComparisonKept, WriteKept,
     RecordKept, RestartKept DEF InCall
<1>3. CASE Publish
  <2>1. published \in Versions \ {Bundled} /\ published < MaxPublished /\ published' = published + 1
        /\ UNCHANGED <<rolls, proc, rows, sync, spent>>
    BY <1>3 DEF Publish, ReferenceInv
  <2>2. published' \in Versions \ {Bundled}
    BY <2>1, ReferenceNumbers DEF Versions, Bundled
  <2> QED
    BY <2>1, <2>2 DEF ReferenceInv
<1>4. CASE Roll
  <2>1. rolls \in 0 .. MaxRolls /\ rolls < MaxRolls /\ rolls' = rolls + 1
        /\ UNCHANGED <<published, proc, rows, sync, spent>>
    BY <1>4 DEF Roll, ReferenceInv
  <2>2. rolls' \in 0 .. MaxRolls
    BY <2>1, ReferenceNumbers
  <2> QED
    BY <2>1, <2>2 DEF ReferenceInv
<1>5. CASE HoursPass
  BY <1>5, HoursKept
<1> QED
  BY <1>1, <1>2, <1>3, <1>4, <1>5 DEF ReferenceNext

\* The invariant says what every variable may be.
LEMMA ReferenceTyped == ReferenceInv => ReferenceTypeOK
BY DEF ReferenceInv, ReferenceTypeOK, Copies, Calls, RowStates, SyncStates, SpentStates

-----------------------------------------------------------------------------
(* The contracts of a root, and the days they trade. *)

\* The least of a set of numbers.
LEMMA LeastOf ==
    ASSUME NEW S \in SUBSET Nat, S # {}
    PROVE  \E x \in S : \A y \in S : x <= y
<1> DEFINE less == {ss \in Nat \X Nat : ss[1] < ss[2]}
<1>1. IsWellFoundedOn(less, Nat)
  BY NatLessThanWellFounded DEF OpToRel
<1>2. PICK x \in S : \A y \in S : <<y, x>> \notin less
  <2> HIDE DEF less
  <2> QED
    BY <1>1, WFMin
<1>3. ASSUME NEW y \in S PROVE x <= y
  <2>1. x \in Nat /\ y \in Nat /\ <<y, x>> \notin less
    BY <1>2
  <2> QED
    BY <2>1
<1> QED
  BY <1>3

\* So Min names it.
LEMMA MinOf ==
    ASSUME NEW S \in SUBSET Nat, S # {}
    PROVE  Min(S) \in S /\ \A y \in S : Min(S) <= y
<1>1. \E x \in S : \A y \in S : x <= y
  BY LeastOf
<1> QED
  BY <1>1 DEF Min

\* On a weekend day a session goes by the calendar's link, whatever the rule set: SessionType.
LEMMA WeekendSession ==
    ASSUME NEW d \in Nat, NEW m \in Nat, d % 7 \notin Weekdays
    PROVE  SessionType(d, m) \in {"weekend", "halted"}
<1>1. d % 7 \notin 0 .. 4
  BY DEF Weekdays
<1>2. CASE d >= UnifiedFrom
  <2>1. Windows(d) = UnifiedWindows
    BY <1>2 DEF Windows
  <2>2. /\ DOMAIN UnifiedWindows = 1 .. 4
        /\ UnifiedWindows[1].days = 0 .. 4 /\ UnifiedWindows[2].days = 0 .. 4
        /\ UnifiedWindows[3].days = 0 .. 4 /\ UnifiedWindows[4].type = "weekend"
    BY DEF UnifiedWindows, Window, Weekdays
  <2>3. Fitting(d, m) \subseteq {4}
    BY <1>1, <2>1, <2>2 DEF Fitting
  <2>4. Fitting(d, m) # {} => Min(Fitting(d, m)) = 4
    BY <2>3, MinOf
  <2> QED
    BY <2>1, <2>2, <2>4 DEF SessionType
<1>3. CASE ~(d >= UnifiedFrom)
  <2>1. Windows(d) = LegacyWindows
    BY <1>3 DEF Windows
  <2>2. /\ DOMAIN LegacyWindows = 1 .. 5
        /\ \A i \in 1 .. 5 : LegacyWindows[i].days = 0 .. 4
    BY DEF LegacyWindows, Window, Weekdays
  <2>3. Fitting(d, m) = {}
    BY <1>1, <2>1, <2>2 DEF Fitting
  <2> QED
    BY <2>3 DEF SessionType
<1> QED
  BY <1>2, <1>3

\* The next weekday is within three days, a later day's never before it: NextWeekday.
LEMMA NextWeekdayIs ==
    ASSUME NEW d \in Nat
    PROVE  /\ d % 7 = 5 => NextWeekday(d) = d + 2
           /\ d % 7 = 6 => NextWeekday(d) = d + 1
<1> DEFINE S == {e \in d + 1 .. d + 3 : e % 7 \in Weekdays}
<1>1. S \in SUBSET Nat
  OBVIOUS
<1>2. CASE d % 7 = 5
  <2>1. (d + 1) % 7 = 6 /\ (d + 2) % 7 = 0
    BY <1>2
  <2>2. d + 2 \in S /\ d + 1 \notin S
    BY <2>1 DEF Weekdays
  <2>3. \A e \in S : e >= d + 1 /\ e \in Nat
    OBVIOUS
  <2> HIDE DEF S
  <2>4. Min(S) \in S /\ Min(S) <= d + 2
    BY <1>1, <2>2, MinOf
  <2>5. Min(S) = d + 2
    BY <2>2, <2>3, <2>4
  <2> QED
    BY <1>2, <2>5 DEF NextWeekday, S
<1>3. CASE d % 7 = 6
  <2>1. (d + 1) % 7 = 0
    BY <1>3
  <2>2. d + 1 \in S
    BY <2>1 DEF Weekdays
  <2>3. \A e \in S : e >= d + 1 /\ e \in Nat
    OBVIOUS
  <2> HIDE DEF S
  <2>4. Min(S) \in S /\ Min(S) <= d + 1
    BY <1>1, <2>2, MinOf
  <2>5. Min(S) = d + 1
    BY <2>3, <2>4
  <2> QED
    BY <1>3, <2>5 DEF NextWeekday, S
<1> QED
  BY <1>2, <1>3

\* The links of a calendar that MOEX has answered: parse_calendar.
Linked(cal) == \A d \in DOMAIN cal : cal[d] \in Links

\* The trading day is a day, be it MOEX's or the rule set's: Link, TradingDay.
LEMMA TradingDayIs ==
    ASSUME NEW cal, Linked(cal), NEW d \in Nat, NEW m
    PROVE  Link(cal, d) \in Links /\ TradingDay(cal, d, m) \in Int
<1>1. CASE d \in DOMAIN cal
  <2>1. Link(cal, d) \in Links
    BY <1>1 DEF Linked, Link
  <2> QED
    BY <2>1 DEF Links, TradingDay
<1>2. CASE d \notin DOMAIN cal /\ WeekendDay(d)
  <2>1. d % 7 = 5 \/ d % 7 = 6
    BY <1>2 DEF WeekendDay, Weekdays
  <2>2. NextWeekday(d) \in Int
    BY <2>1, NextWeekdayIs
  <2>3. Link(cal, d) = [to |-> NextWeekday(d), weekend |-> TRUE]
    BY <1>2 DEF Link
  <2> QED
    BY <2>2, <2>3 DEF Links, TradingDay
<1>3. CASE d \notin DOMAIN cal /\ ~WeekendDay(d)
  <2>1. Link(cal, d) = [to |-> d, weekend |-> FALSE]
    BY <1>3 DEF Link
  <2> QED
    BY <2>1 DEF Links, TradingDay
<1> QED
  BY <1>1, <1>2, <1>3

\* The rule sets alone are a calendar in order, whatever the day the unified one begins: so the
\* condition of the theorems holds as long as MOEX names no days.
LEMMA RuleSetsInOrder == Orderly(NoOverrides)
<1> DEFINE to(x) == Link(NoOverrides, x).to
<1>1. \A x : to(x) = IF WeekendDay(x) THEN NextWeekday(x) ELSE x
  BY DEF Link, NoOverrides
<1> HIDE DEF to
<1>2. ASSUME NEW x \in Nat
      PROVE  /\ x % 7 \in 0 .. 4 => to(x) = x
             /\ x % 7 \in {5, 6} => to(x) = IF x >= UnifiedFrom THEN x + 7 - ((x % 7)) ELSE x
  <2>1. x % 7 \in 0 .. 4 => ~WeekendDay(x)
    BY DEF WeekendDay, Weekdays
  <2>2. x % 7 \in {5, 6} => (WeekendDay(x) <=> x >= UnifiedFrom)
    BY DEF WeekendDay, Weekdays
  <2> QED
    BY <1>1, <2>1, <2>2, NextWeekdayIs
<1>3. ASSUME NEW d \in 0 .. LastDay + 2 PROVE (d % 7 \in Weekdays => to(d) = d) /\ to(d) <= to(d + 1)
  <2>1. d \in Nat /\ d + 1 \in Nat /\ UnifiedFrom \in Nat
    BY DeskAssumption
  <2>2. d % 7 \in 0 .. 6 /\ (d + 1) % 7 = IF d % 7 = 6 THEN 0 ELSE (d % 7) + 1
    BY <2>1
  <2>3. to(d + 1) >= d + 1
    BY <1>2, <2>1, <2>2
  <2>4. CASE d % 7 \in 0 .. 4
    BY <1>2, <2>1, <2>3, <2>4
  <2>5. CASE d % 7 = 5
    BY <1>2, <2>1, <2>2, <2>5 DEF Weekdays
  <2>6. CASE d % 7 = 6
    BY <1>2, <2>1, <2>2, <2>6 DEF Weekdays
  <2> QED
    BY <1>2, <2>1, <2>2, <2>4, <2>5, <2>6 DEF Weekdays
<1> QED
  BY <1>3 DEF Orderly, to

\* With a calendar in order, every session of a day belongs to the day's link: a weekday is its
\* own, and the weekend has no session that does not go by the calendar.
LEMMA DayIsLinked ==
    ASSUME NEW cal, Orderly(cal), NEW d \in 0 .. LastDay, NEW m \in Nat
    PROVE  TradingDay(cal, d, m) = Link(cal, d).to
<1>1. d \in Nat /\ d \in 0 .. LastDay + 2
  BY DeskAssumption
<1>2. d % 7 \in Weekdays => Link(cal, d).to = d
  BY <1>1 DEF Orderly
<1>3. d % 7 \notin Weekdays => SessionType(d, m) \in {"weekend", "halted"}
  BY <1>1, WeekendSession
<1> QED
  BY <1>2, <1>3 DEF TradingDay

\* With a calendar in order the next day's trading day is the same or a later one, and no
\* more than a weekend later: the links of the weekend lie between its Friday and its Monday.
LEMMA TradingDayMoves ==
    ASSUME NEW cal, Linked(cal), Orderly(cal),
           NEW d \in 0 .. LastDay, NEW m \in Nat, NEW e \in {d, d + 1}, e <= LastDay, NEW n \in Nat
    PROVE  /\ TradingDay(cal, d, m) <= TradingDay(cal, e, n)
           /\ TradingDay(cal, e, n) <= TradingDay(cal, d, m) + 3
<1>1. LastDay \in Nat /\ d \in Nat /\ e \in 0 .. LastDay
  BY DeskAssumption
<1> DEFINE to(x) == Link(cal, x).to
<1>2. \A x \in Nat : to(x) \in Int
  BY TradingDayIs DEF Links
<1>3. \A x \in 0 .. LastDay + 2 : to(x) <= to(x + 1)
  BY DEF Orderly
<1>4. \A x \in 0 .. LastDay + 2 : x % 7 \in 0 .. 4 => to(x) = x
  BY DEF Orderly, Weekdays
<1>5. TradingDay(cal, d, m) = to(d) /\ TradingDay(cal, e, n) = to(e)
  BY <1>1, DayIsLinked
<1> HIDE DEF to
<1>6. to(d) \in Int /\ to(e) \in Int
  BY <1>1, <1>2
<1>7. to(d) <= to(e)
  BY <1>1, <1>3, <1>6
<1>8. to(e) <= to(d) + 3
  <2>1. CASE e = d
    BY <1>6, <2>1
  <2>2. CASE e = d + 1 /\ d % 7 \in 0 .. 3
    <3>1. e % 7 \in 0 .. 4
      BY <1>1, <2>2
    <3>2. to(d) = d /\ to(e) = e
      BY <1>1, <1>4, <2>2, <3>1
    <3> QED
      BY <1>1, <2>2, <3>2
  <2>3. CASE e = d + 1 /\ d % 7 = 4
    <3>1. (e + 2) % 7 = 0 /\ {e, e + 1, e + 2} \subseteq 0 .. LastDay + 2
      BY <1>1, <2>3
    <3>2. to(d) = d /\ to(e + 2) = e + 2
      BY <1>1, <1>4, <2>3, <3>1
    <3>3. to(e) <= to(e + 1) /\ to(e + 1) <= to(e + 1 + 1) /\ to(e + 1) \in Int
      BY <1>1, <1>2, <1>3, <3>1
    <3>4. e + 1 + 1 = e + 2
      BY <1>1
    <3> QED
      BY <1>1, <1>6, <2>3, <3>2, <3>3, <3>4
  <2>4. CASE e = d + 1 /\ d % 7 = 5
    <3>1. (e + 1) % 7 = 0 /\ d - 1 \in 0 .. LastDay + 2 /\ (d - 1) % 7 = 4 /\ e + 1 \in 0 .. LastDay + 2
      BY <1>1, <2>4
    <3>2. to(d - 1) = d - 1 /\ to(e + 1) = e + 1
      BY <1>4, <3>1
    <3>3. to(d - 1) <= to(d - 1 + 1) /\ to(e) <= to(e + 1)
      BY <1>1, <1>3, <3>1
    <3>4. d - 1 + 1 = d
      BY <1>1
    <3> QED
      BY <1>1, <1>6, <2>4, <3>2, <3>3, <3>4
  <2>5. CASE e = d + 1 /\ d % 7 = 6
    <3>1. e % 7 = 0 /\ {d - 2, d - 1} \subseteq 0 .. LastDay + 2 /\ (d - 2) % 7 = 4
      BY <1>1, <2>5
    <3>2. to(d - 2) = d - 2 /\ to(e) = e
      BY <1>1, <1>4, <3>1
    <3>3. to(d - 2) <= to(d - 2 + 1) /\ to(d - 1) <= to(d - 1 + 1) /\ to(d - 1) \in Int
      BY <1>1, <1>2, <1>3, <3>1
    <3>4. d - 2 + 1 = d - 1 /\ d - 1 + 1 = d
      BY <1>1
    <3> QED
      BY <1>1, <1>6, <2>5, <3>2, <3>3, <3>4
  <2>6. d % 7 \in 0 .. 6
    BY <1>1
  <2> QED
    BY <2>1, <2>2, <2>3, <2>4, <2>5, <2>6
<1> QED
  BY <1>5, <1>7, <1>8

-----------------------------------------------------------------------------
(* Contracts. *)

\* The contracts that can be traded become fewer as the days pass: Eligible.
LEMMA EligibleFacts ==
    ASSUME NEW r, NEW off, NEW today \in Int
    PROVE  /\ Eligible(r, off, today) \subseteq ContractsOf(r) \ off
           /\ \A c \in ContractsOf(r) : Listing[c].last \in Nat
           /\ \A later \in Int : today <= later =>
                /\ Eligible(r, off, later) \subseteq Eligible(r, off, today)
                /\ \A c \in Eligible(r, off, today) :
                       Listing[c].last >= later => c \in Eligible(r, off, later)
<1>1. \A c \in ContractsOf(r) : Listing[c].last \in Nat
  BY DeskAssumption DEF ContractsOf
<1> QED
  BY <1>1 DEF Eligible

\* Two contracts of a root stop trading at least the days of a hard roll apart: DeskAssumption.
LEMMA Apart ==
    ASSUME NEW r, NEW c \in ContractsOf(r), NEW e \in ContractsOf(r), c # e,
           Listing[c].last <= Listing[e].last
    PROVE  Listing[c].last + 3 <= Listing[e].last
<1>1. c \in Codes /\ e \in Codes /\ Listing[c].root = Listing[e].root
  BY DEF ContractsOf
<1> QED
  BY <1>1, DeskAssumption

\* The contract that stops first is one of them: Earliest.
LEMMA EarliestOf ==
    ASSUME NEW r, NEW codes \in SUBSET ContractsOf(r), codes # {}
    PROVE  /\ Earliest(codes) \in codes
           /\ \A e \in codes : Listing[Earliest(codes)].last <= Listing[e].last
<1> DEFINE lasts == {Listing[c].last : c \in codes}
<1>1. \A c \in codes : Listing[c].last \in Nat
  BY DeskAssumption DEF ContractsOf
<1>2. lasts \in SUBSET Nat /\ lasts # {}
  BY <1>1
<1>3. \E x \in lasts : \A y \in lasts : x <= y
  <2> HIDE DEF lasts
  <2> QED
    BY <1>2, LeastOf
<1>4. \E c \in codes : \A e \in codes : Listing[c].last <= Listing[e].last
  BY <1>3
<1> QED
  BY <1>4, Zenon DEF Earliest

\* It is the only one that stops no later than the others.
LEMMA EarliestIs ==
    ASSUME NEW r, NEW codes \in SUBSET ContractsOf(r), NEW c \in codes,
           \A e \in codes : Listing[c].last <= Listing[e].last
    PROVE  Earliest(codes) = c
<1> PICK f : f = Earliest(codes)
  OBVIOUS
<1>1. f \in codes /\ Listing[f].last <= Listing[c].last /\ Listing[c].last <= Listing[f].last
  BY EarliestOf
<1>2. Listing[f].last \in Nat /\ Listing[c].last \in Nat
  BY <1>1, DeskAssumption DEF ContractsOf
<1>3. f # c => Listing[f].last + 3 <= Listing[c].last
  BY <1>1, Apart
<1> QED
  BY <1>1, <1>2, <1>3

\* It stays the first while only others go.
LEMMA EarliestOfFewer ==
    ASSUME NEW r, NEW codes \in SUBSET ContractsOf(r), NEW fewer \in SUBSET codes,
           Earliest(codes) \in fewer
    PROVE  Earliest(fewer) = Earliest(codes)
<1>1. \A e \in fewer : Listing[Earliest(codes)].last <= Listing[e].last
  BY EarliestOf
<1> QED
  BY <1>1, EarliestIs

\* The contract after the earliest, and the earliest itself where it is the only one.
Second(codes) == IF codes = {Earliest(codes)} THEN Earliest(codes) ELSE Earliest(codes \ {Earliest(codes)})

\* The second is one of them, and the first only when there is no other.
LEMMA SecondOf ==
    ASSUME NEW r, NEW codes \in SUBSET ContractsOf(r), codes # {}
    PROVE  /\ Second(codes) \in codes
           /\ Second(codes) = Earliest(codes) <=> codes = {Earliest(codes)}
<1>1. Earliest(codes) \in codes
  BY EarliestOf
<1>2. CASE codes = {Earliest(codes)}
  BY <1>1, <1>2 DEF Second
<1>3. CASE codes # {Earliest(codes)}
  <2>1. codes \ {Earliest(codes)} # {} /\ codes \ {Earliest(codes)} \in SUBSET ContractsOf(r)
    BY <1>1, <1>3
  <2>2. Second(codes) \in codes \ {Earliest(codes)}
    BY <1>3, <2>1, EarliestOf DEF Second
  <2> QED
    BY <1>3, <2>2
<1> QED
  BY <1>2, <1>3

\* The second stays the second while only others go.
LEMMA SecondOfFewer ==
    ASSUME NEW r, NEW codes \in SUBSET ContractsOf(r), NEW fewer \in SUBSET codes,
           Earliest(codes) \in fewer, Second(codes) \in fewer
    PROVE  Second(fewer) = Second(codes)
<1> PICK first : first = Earliest(codes)
  OBVIOUS
<1>1. Earliest(fewer) = first /\ first \in fewer
  BY EarliestOfFewer
<1>2. CASE codes = {first}
  <2>1. fewer = {first}
    BY <1>1, <1>2
  <2> QED
    BY <1>1, <1>2, <2>1 DEF Second
<1>3. CASE codes # {first}
  <2>1. Second(codes) = Earliest(codes \ {first}) /\ Second(codes) # first
    BY <1>1, <1>3, SecondOf DEF Second
  <2>2. fewer # {first}
    BY <2>1
  <2>3. codes \ {first} \in SUBSET ContractsOf(r) /\ fewer \ {first} \in SUBSET (codes \ {first})
    OBVIOUS
  <2>4. Earliest(codes \ {first}) \in fewer \ {first}
    BY <2>1
  <2>5. Earliest(fewer \ {first}) = Earliest(codes \ {first})
    BY <2>3, <2>4, EarliestOfFewer
  <2>6. Second(fewer) = Earliest(fewer \ {first})
    BY <1>1, <2>2 DEF Second
  <2> QED
    BY <2>1, <2>5, <2>6
<1> QED
  BY <1>2, <1>3

\* The bundled contracts are the first to expire.
LEMMA BundledFirst ==
    ASSUME NEW r \in DeskRoots, NEW codes \in SUBSET ContractsOf(r), codes # {}
    PROVE  /\ FrontContract(codes, RootFacts[r].active) = Earliest(codes)
           /\ NextContract(codes, Earliest(codes), RootFacts[r].next) = Second(codes)
<1> PICK a : a = RootFacts[r].active
  OBVIOUS
<1> PICK b : b = RootFacts[r].next
  OBVIOUS
<1>1. /\ a \in ContractsOf(r) /\ b \in ContractsOf(r) /\ a # b
      /\ \A c \in ContractsOf(r) \ {a} :
            Listing[a].last <= Listing[c].last /\ Listing[b].last <= Listing[c].last
  BY BundledAssumption
<1>2. \A c \in ContractsOf(r) : Listing[c].last \in Nat
  BY DeskAssumption DEF ContractsOf
<1>3. a \in codes => Earliest(codes) = a
  BY <1>1, <1>2, EarliestIs
<1>4. FrontContract(codes, a) = Earliest(codes)
  BY <1>3 DEF FrontContract
<1> PICK f : f = Earliest(codes)
  OBVIOUS
<1>5. f \in codes
  BY EarliestOf
<1>6. b \in codes \ {f} => f = a
  <2> SUFFICES ASSUME b \in codes \ {f}, a \notin codes PROVE FALSE
    BY <1>3
  <2>1. \A e \in codes : Listing[b].last <= Listing[e].last
    BY <1>1
  <2>2. Earliest(codes) = b
    BY <2>1, EarliestIs
  <2> QED
    BY <2>2
<1>7. b \in codes \ {f} => Earliest(codes \ {f}) = b
  <2> SUFFICES ASSUME b \in codes \ {f} PROVE Earliest(codes \ {f}) = b
    OBVIOUS
  <2>1. \A e \in codes \ {f} : Listing[b].last <= Listing[e].last
    BY <1>1, <1>6
  <2> QED
    BY <2>1, EarliestIs
<1>8. CASE codes # {f}
  BY <1>4, <1>7, <1>8 DEF NextContract, Second
<1>9. CASE codes = {f}
  BY <1>4, <1>9 DEF NextContract, Second
<1> QED
  BY <1>8, <1>9

-----------------------------------------------------------------------------
(* The rows and the series. *)

\* The row the bundled preference and some contract rows make on a day.
RowOf(r, off, today) ==
    LET codes == Eligible(r, off, today) IN
    IF codes = {} THEN BundledRow(r)
    ELSE LET series == Series(codes, today, BundledRow(r)) IN [active |-> series.active, next |-> series.next]

\* The rows were made on a day that is not ahead of the trading day unless the calendar has
\* taken that one back since, from the status the page shows, and the page is what the deep dive of the moment makes of them.
DeskInv ==
    /\ day \in 0 .. LastDay /\ minute \in Minutes
    /\ suspended \subseteq Codes /\ flags \subseteq Codes
    /\ changes \in 0 .. MaxChanges /\ Linked(overrides) /\ behind \in BOOLEAN
    /\ desk = [r \in DeskRoots |-> DeepDive(r, overrides, day, minute, roots, flags)]
    /\ \E then \in Int :
           /\ behind \/ then <= TradingDay(overrides, day, minute)
           /\ roots = [r \in DeskRoots |-> RowOf(r, flags, then)]

\* What a series says of its contracts: Series.
LEMMA SeriesNames ==
    ASSUME NEW codes, NEW today, NEW preferred
    PROVE  /\ Series(codes, today, preferred).active = FrontContract(codes, preferred.active)
           /\ Series(codes, today, preferred).next =
                  NextContract(codes, FrontContract(codes, preferred.active), preferred.next)
           /\ Series(codes, today, preferred).toLastTrade =
                  Listing[FrontContract(codes, preferred.active)].last - today
           /\ Series(codes, today, preferred).rollRisk =
                  (Listing[FrontContract(codes, preferred.active)].last - today <= 10)
BY DEF Series

\* What the page of a moment says of a root: DeepDive.
LEMMA DeepDiveNames ==
    ASSUME NEW r, NEW cal, NEW d, NEW m, NEW rs, NEW fs
    PROVE  LET codes == Eligible(r, fs, TradingDay(cal, d, m))
               dive == DeepDive(r, cal, d, m, rs, fs)
           IN  /\ dive.tradingDay = TradingDay(cal, d, m) /\ dive.eligible = codes
               /\ dive.series = IF codes = {} THEN RootFacts[r].series ELSE Series(codes, TradingDay(cal, d, m), rs[r])
               /\ dive.event = IF codes = {} THEN NoEvent ELSE RollEvent(dive.series, rs[r])
BY DEF DeepDive

\* A row names the first two contracts of those it was made from.
LEMMA RowNames ==
    ASSUME NEW r \in DeskRoots, NEW off, NEW today \in Int
    PROVE  LET codes == Eligible(r, off, today)
               row == RowOf(r, off, today)
           IN  /\ codes = {} => row.active = RootFacts[r].active /\ row.next = RootFacts[r].next
               /\ codes # {} => row.active = Earliest(codes) /\ row.next = Second(codes)
               /\ row = [active |-> row.active, next |-> row.next]
               /\ row.active \in ContractsOf(r) /\ row.next \in ContractsOf(r)
               /\ codes # {} => row.active \in codes /\ row.next \in codes
<1> PICK codes : codes = Eligible(r, off, today)
  OBVIOUS
<1>1. codes \in SUBSET ContractsOf(r)
  BY EligibleFacts
<1>2. RootFacts[r].active \in ContractsOf(r) /\ RootFacts[r].next \in ContractsOf(r)
  BY BundledAssumption
<1>3. CASE codes = {}
  <2>1. RowOf(r, off, today) = [active |-> RootFacts[r].active, next |-> RootFacts[r].next]
    BY <1>3 DEF RowOf, BundledRow
  <2> QED
    BY <1>2, <1>3, <2>1
<1>4. CASE codes # {}
  <2> PICK first : first = Earliest(codes)
    OBVIOUS
  <2> PICK second : second = NextContract(codes, first, RootFacts[r].next)
    OBVIOUS
  <2>1. BundledRow(r).active = RootFacts[r].active /\ BundledRow(r).next = RootFacts[r].next
    BY DEF BundledRow
  <2>2. FrontContract(codes, BundledRow(r).active) = first
    BY <1>1, <1>4, <2>1, BundledFirst
  <2>3. RowOf(r, off, today) = [active |-> first, next |-> second]
    BY <1>4, <2>1, <2>2, SeriesNames DEF RowOf
  <2>4. second = Second(codes)
    BY <1>1, <1>4, BundledFirst
  <2>5. first \in codes
    BY <1>1, <1>4, EarliestOf
  <2>6. second \in codes
    BY <1>1, <1>4, <2>4, SecondOf
  <2> QED
    BY <1>1, <1>4, <2>3, <2>4, <2>5, <2>6
<1> QED
  BY <1>3, <1>4

\* The series that a row and contract rows make goes on with the earliest contract that is
\* left, and then with the next one, unless the row lags behind.
LEMMA SeriesGoesOn ==
    ASSUME NEW r \in DeskRoots, NEW off, NEW then \in Int, NEW today \in Int, then <= today,
           NEW codes, codes = Eligible(r, off, today), codes # {},
           NEW row, row = RowOf(r, off, then)
    PROVE  /\ FrontContract(codes, row.active) = Earliest(codes)
           /\ row.active = Earliest(codes) => NextContract(codes, Earliest(codes), row.next) = Second(codes)
           /\ NextContract(codes, Earliest(codes), row.next) = Earliest(codes) <=> codes = {Earliest(codes)}
<1> PICK all : all = Eligible(r, off, then)
  OBVIOUS
<1>1. codes \in SUBSET all /\ all \in SUBSET ContractsOf(r) /\ all # {} /\ codes \in SUBSET ContractsOf(r)
  BY EligibleFacts
<1>2. row.active = Earliest(all) /\ row.next = Second(all)
  BY <1>1, RowNames
<1> PICK first : first = Earliest(codes)
  OBVIOUS
<1>3. first \in codes
  BY <1>1, EarliestOf
<1>4. row.active \in codes => row.active = first
  BY <1>1, <1>2, EarliestOfFewer
<1>5. FrontContract(codes, row.active) = first
  BY <1>4 DEF FrontContract
<1>6. codes = {first} => NextContract(codes, first, row.next) = first
  BY DEF NextContract
<1>7. codes # {first} => codes \ {first} # {} /\ codes \ {first} \in SUBSET ContractsOf(r)
  BY <1>1, <1>3
<1>8. codes # {first} => Earliest(codes \ {first}) \in codes \ {first}
  BY <1>7, EarliestOf
<1>9. codes # {first} => NextContract(codes, first, row.next) # first
  BY <1>8 DEF NextContract
<1>10. ASSUME row.active = first PROVE NextContract(codes, first, row.next) = Second(codes)
  <2>1. CASE row.next \in codes
    <3>1. Second(codes) = row.next
      <4>1. Earliest(all) \in codes /\ Second(all) \in codes
        BY <1>2, <1>3, <1>10, <2>1
      <4>2. Second(codes) = Second(all)
        BY <1>1, <4>1, SecondOfFewer
      <4> QED
        BY <1>2, <4>2
    <3>2. row.next = first => codes = {first}
      BY <1>1, <3>1, SecondOf
    <3> QED
      BY <1>6, <2>1, <3>1, <3>2 DEF NextContract, Second
  <2>2. CASE row.next \notin codes
    BY <2>2 DEF NextContract, Second
  <2> QED
    BY <2>1, <2>2
<1> QED
  BY <1>5, <1>6, <1>9, <1>10

\* A calendar without entries, and one into which more are merged.
LEMMA CalendarsLinked == Linked(NoOverrides) /\ \A old, new : Linked(old) /\ Linked(new) => Linked(Updated(old, new))
<1>1. DOMAIN NoOverrides = {}
  BY DEF NoOverrides
<1>2. ASSUME NEW old, NEW new, Linked(old), Linked(new) PROVE Linked(Updated(old, new))
  BY <1>2 DEF Linked, Updated
<1> QED
  BY <1>1, <1>2 DEF Linked

\* The rows are made as the desk starts, from the status of that moment: DeskInit.
LEMMA DeskInitially == DeskInit => DeskInv
<1> SUFFICES ASSUME DeskInit PROVE DeskInv
  OBVIOUS
<1> PICK today : today = TradingDay(overrides, day, minute)
  OBVIOUS
<1>1. /\ day = 0 /\ minute = Min(Minutes) /\ suspended = {} /\ flags = {}
      /\ overrides = NoOverrides /\ changes = 0 /\ behind = FALSE /\ roots = Refreshed(today)
      /\ desk = [r \in DeskRoots |-> DeepDive(r, overrides, day, minute, roots, flags)]
  BY DEF DeskInit
<1>2. day \in 0 .. LastDay /\ changes \in 0 .. MaxChanges /\ minute \in Minutes /\ day \in Nat
  <2>1. Minutes \in SUBSET Nat /\ Minutes # {} /\ {LastDay, MaxChanges} \subseteq Nat
    BY DeskAssumption
  <2>2. Min(Minutes) \in Minutes
    BY <2>1, MinOf
  <2>3. day = 0 /\ minute \in Minutes /\ changes = 0
    BY <1>1, <2>2
  <2> QED
    BY <2>1, <2>3
<1>3. Linked(overrides)
  BY <1>1, CalendarsLinked
<1>4. today \in Int
  BY <1>2, <1>3, TradingDayIs
<1>5. \A r : ExpectedRow(r, today) = RowOf(r, flags, today)
  BY <1>1 DEF ExpectedRow, RowOf
<1>6. roots = [r \in DeskRoots |-> RowOf(r, flags, today)]
  BY <1>1, <1>5, Zenon DEF Refreshed
<1>7. \E then \in Int : then <= today /\ roots = [r \in DeskRoots |-> RowOf(r, flags, then)]
  BY <1>4, <1>6
<1> QED
  BY <1>1, <1>2, <1>3, <1>7 DEF DeskInv

\* The moment of a look, and what it leaves the rows.
LEMMA Looked ==
    ASSUME DeskInv, Look
    PROVE  /\ day' \in 0 .. LastDay /\ minute' \in Minutes /\ day' \in {day, day + 1}
           /\ minute \in Nat /\ minute' \in Nat /\ day \in Nat /\ day' \in Nat
           /\ Linked(overrides') /\ changes' \in 0 .. MaxChanges
           /\ TradingDay(overrides, day, minute) \in Int /\ TradingDay(overrides', day', minute') \in Int
           /\ roots' = [r \in DeskRoots |-> RowOf(r, suspended, TradingDay(overrides', day', minute'))]
           /\ flags' = IF roots' # roots THEN suspended ELSE flags
           /\ behind' = (roots' = roots /\ (behind \/ TradingDay(overrides', day', minute') < TradingDay(overrides, day, minute)))
           /\ desk' = [r \in DeskRoots |-> DeepDive(r, overrides', day', minute', roots', flags')]
           /\ UNCHANGED suspended
<1>1. Minutes \subseteq Nat /\ Minutes # {} /\ LastDay \in Nat /\ day \in 0 .. LastDay /\ minute \in Minutes
  BY DeskAssumption DEF DeskInv
<1>2. /\ day' \in 0 .. LastDay /\ minute' \in Minutes /\ day' \in {day, day + 1}
      /\ Recalculated(overrides', day', minute')
  <2> PICK later \in SUBSET Minutes : later = {m \in Minutes : m > minute}
    OBVIOUS
  <2>1. CASE later # {}
    <3>1. Min(later) \in Minutes
      BY <1>1, <2>1, MinOf
    <3>2. day' = day /\ minute' = Min(later) /\ Recalculated(overrides', day, Min(later))
      BY <2>1 DEF Look, Moment
    <3> QED
      BY <1>1, <3>1, <3>2
  <2>2. CASE later = {}
    <3>1. Min(Minutes) \in Minutes
      BY <1>1, MinOf
    <3>2. day < LastDay /\ day' = day + 1 /\ minute' = Min(Minutes) /\ Recalculated(overrides', day + 1, Min(Minutes))
      BY <2>2 DEF Look, Moment
    <3> QED
      BY <1>1, <3>1, <3>2
  <2> QED
    BY <2>1, <2>2
<1>3. minute \in Nat /\ minute' \in Nat /\ day \in Nat /\ day' \in Nat
  BY <1>1, <1>2
<1>4. Linked(overrides) /\ Linked(overrides') /\ changes' \in 0 .. MaxChanges
  <2>1. Linked(overrides) /\ changes \in 0 .. MaxChanges /\ MaxChanges \in Nat
    BY DeskAssumption DEF DeskInv
  <2>2. \A answer \in Calendars : Linked(answer)
    BY CalendarAssumption DEF Linked
  <2>3. \/ overrides' = overrides /\ changes' = changes
        \/ /\ changes < MaxChanges /\ changes' = changes + 1
           /\ \E answer \in Calendars : overrides' = Updated(overrides, answer)
        \/ overrides' = NoOverrides /\ changes' = changes
    BY DEF Look, CalendarSynced, Change
  <2>4. Linked(overrides')
    BY <2>1, <2>2, <2>3, CalendarsLinked
  <2>5. changes' \in 0 .. MaxChanges
    BY <2>1, <2>3
  <2> QED
    BY <2>1, <2>4, <2>5
<1>5. TradingDay(overrides, day, minute) \in Int /\ TradingDay(overrides', day', minute') \in Int
  <2> PICK cal, new, m, n : cal = overrides /\ new = overrides' /\ m = minute /\ n = minute'
    OBVIOUS
  <2> PICK d \in Nat, e \in Nat : d = day /\ e = day'
    BY <1>3
  <2>1. TradingDay(cal, d, m) \in Int /\ TradingDay(new, e, n) \in Int
    BY <1>4, TradingDayIs
  <2> QED
    BY <2>1
<1> PICK today : today = TradingDay(overrides', day', minute')
  OBVIOUS
<1>6. /\ roots' = Refreshed(today) /\ flags' = FlagsAfter(roots')
      /\ behind' = (roots' = roots /\ (behind \/ today < TradingDay(overrides, day, minute)))
      /\ desk' = [r \in DeskRoots |-> DeepDive(r, overrides', day', minute', roots', flags')]
  BY <1>2 DEF Recalculated
<1>7. \A r, t : ExpectedRow(r, t) = RowOf(r, suspended, t)
  BY DEF ExpectedRow, RowOf
<1>8. roots' = [r \in DeskRoots |-> RowOf(r, suspended, TradingDay(overrides', day', minute'))]
  BY <1>6, <1>7, Zenon DEF Refreshed
<1>9. flags' = IF roots' # roots THEN suspended ELSE flags
  BY <1>6 DEF FlagsAfter
<1>10. UNCHANGED suspended
  BY DEF Look
<1> QED
  BY <1>2, <1>3, <1>4, <1>5, <1>6, <1>8, <1>9, <1>10

\* With the calendar in order and left alone, the look's trading day is at most a weekend later.
LEMMA LookedOn ==
    ASSUME DeskInv, Look, overrides' = overrides, Orderly(overrides)
    PROVE  /\ TradingDay(overrides, day, minute) <= TradingDay(overrides', day', minute')
           /\ TradingDay(overrides', day', minute') <= TradingDay(overrides, day, minute) + 3
<1> PICK cal : cal = overrides
  OBVIOUS
<1> PICK m \in Nat, n \in Nat : m = minute /\ n = minute'
  BY Looked
<1> PICK d \in Nat, e \in Nat : d = day /\ e = day'
  BY Looked
<1>1. d \in 0 .. LastDay /\ e \in {d, d + 1} /\ e <= LastDay /\ Linked(cal) /\ Orderly(cal)
  BY Looked, DeskAssumption DEF DeskInv
<1>2. TradingDay(cal, d, m) <= TradingDay(cal, e, n) /\ TradingDay(cal, e, n) <= TradingDay(cal, d, m) + 3
  BY <1>1, TradingDayMoves
<1> QED
  BY <1>2

\* A look keeps the invariant: Look.
LEMMA LookKept == ASSUME DeskInv, Look PROVE DeskInv'
<1> PICK today \in Int, before \in Int :
        today = TradingDay(overrides', day', minute') /\ before = TradingDay(overrides, day, minute)
  BY Looked
<1>1. flags' \subseteq Codes /\ suspended' \subseteq Codes
  BY Looked DEF DeskInv
<1>2. \E then \in Int : (behind' \/ then <= today) /\ roots' = [r \in DeskRoots |-> RowOf(r, flags', then)]
  <2>1. CASE roots' # roots
    BY <2>1, Looked
  <2>2. CASE roots' = roots
    <3>1. PICK then \in Int :
              (behind \/ then <= before) /\ roots = [r \in DeskRoots |-> RowOf(r, flags, then)]
      BY DEF DeskInv
    <3>2. behind' \/ then <= today
      <4>1. behind' = (behind \/ today < before)
        BY <2>2, Looked, Zenon
      <4>2. ~behind /\ ~(today < before) => then <= today
        BY <3>1
      <4> QED
        BY <4>1, <4>2, Zenon
    <3>3. flags' = flags
      BY <2>2, Looked
    <3> QED
      BY <2>2, <3>1, <3>2, <3>3
  <2> QED
    BY <2>1, <2>2
<1>3. \E then \in Int : /\ behind' \/ then <= TradingDay(overrides', day', minute')
                        /\ roots' = [r \in DeskRoots |-> RowOf(r, flags', then)]
  BY <1>2
<1>4. /\ day' \in 0 .. LastDay /\ minute' \in Minutes
      /\ changes' \in 0 .. MaxChanges /\ Linked(overrides') /\ behind' \in BOOLEAN
      /\ desk' = [r \in DeskRoots |-> DeepDive(r, overrides', day', minute', roots', flags')]
  BY Looked DEF DeskInv
<1> QED
  BY <1>1, <1>3, <1>4, ZenonT(60) DEF DeskInv, DeepDive, RowOf, BundledRow, Eligible, RollEvent, Linked

\* So does a status: SyncStatus.
LEMMA StatusKept == ASSUME DeskInv, SyncStatus PROVE DeskInv'
<1>1. /\ changes < MaxChanges /\ changes' = changes + 1 /\ suspended' \subseteq Codes
      /\ UNCHANGED <<day, minute, overrides, roots, flags, behind, desk>>
  BY DEF SyncStatus, Change
<1>2. changes' \in 0 .. MaxChanges
  BY <1>1, DeskAssumption DEF DeskInv
<1> QED
  BY <1>1, <1>2 DEF DeskInv, Linked

\* And every step of the desk.
LEMMA DeskStepKept == DeskInv /\ [DeskNext]_deskVars => DeskInv'
<1>1. ASSUME DeskInv, UNCHANGED deskVars PROVE DeskInv'
  BY <1>1 DEF DeskInv, deskVars, Linked
<1> QED
  BY <1>1, LookKept, StatusKept DEF DeskNext

\* The rows are, throughout, those of a trading day that has passed or that the calendar has
\* taken back since: the invariant the next theorems rest on, for any contracts, calendars of
\* MOEX, roots and suspensions.
THEOREM DeskInductive == DeskSpec => []DeskInv
BY DeskInitially, DeskStepKept, PTL DEF DeskSpec

\* What TradingDayForward, RollAnnounced and SeriesAsRows say of a step.
GoesForward ==
        (\E r \in DeskRoots : desk'[r].tradingDay < desk[r].tradingDay)
        => overrides' # overrides \/ ~Orderly(overrides)

Announces ==
        \A r \in DeskRoots :
           (/\ desk'[r].series.active # desk[r].series.active
            /\ flags' = flags /\ desk'[r].eligible # {}
            /\ overrides' = overrides /\ Orderly(overrides) /\ ~behind)
           => \/ desk[r].event = [from |-> desk[r].series.active, to |-> desk'[r].series.active, status |-> "pending"]
              \/ /\ desk[r].series.active # roots[r].active
                 /\ desk[r].event = [from |-> roots[r].active, to |-> desk[r].series.active, status |-> "applied"]

FollowsRows ==
        \A r \in DeskRoots :
           (/\ desk' # desk /\ ~behind'
            /\ Eligible(r, suspended', desk'[r].tradingDay) # {})
           => [active |-> desk'[r].series.active, next |-> desk'[r].series.next] = roots'[r]

\* What the page of a moment says of a root, before and after a look.
LEMMA Dives ==
    ASSUME DeskInv, Look, NEW r \in DeskRoots
    PROVE  /\ desk[r] = DeepDive(r, overrides, day, minute, roots, flags)
           /\ desk'[r] = DeepDive(r, overrides', day', minute', roots', flags')
           /\ desk[r].tradingDay = TradingDay(overrides, day, minute)
           /\ desk'[r].tradingDay = TradingDay(overrides', day', minute')
<1>1. desk[r] = DeepDive(r, overrides, day, minute, roots, flags)
  BY DEF DeskInv
<1>2. desk'[r] = DeepDive(r, overrides', day', minute', roots', flags')
  BY Looked
<1> QED
  BY <1>1, <1>2, DeepDiveNames

\* A look by the same calendar, one in order, never goes back to an earlier trading day.
LEMMA LookForward == DeskInv /\ Look => GoesForward
<1> SUFFICES ASSUME DeskInv, Look, overrides' = overrides, Orderly(overrides), NEW r \in DeskRoots
             PROVE  ~(desk'[r].tradingDay < desk[r].tradingDay)
  BY DEF GoesForward
<1> QED
  BY Dives, Looked, LookedOn

\* Nor does any step of the desk: TradingDayForward.
LEMMA ForwardStep == DeskInv /\ [DeskNext]_deskVars => GoesForward
<1>1. ASSUME DeskInv, desk' = desk PROVE GoesForward
  <2> SUFFICES ASSUME NEW r \in DeskRoots PROVE ~(desk'[r].tradingDay < desk[r].tradingDay)
    BY DEF GoesForward
  <2>1. day \in Nat /\ Linked(overrides)
    BY <1>1, DeskAssumption DEF DeskInv
  <2>2. desk[r].tradingDay = TradingDay(overrides, day, minute) /\ desk'[r].tradingDay = desk[r].tradingDay
    BY <1>1, DeepDiveNames DEF DeskInv
  <2>3. TradingDay(overrides, day, minute) \in Int
    BY <2>1, TradingDayIs
  <2> QED
    BY <2>2, <2>3
<1>2. SyncStatus => desk' = desk
  BY DEF SyncStatus
<1>3. UNCHANGED deskVars => desk' = desk
  BY DEF deskVars
<1> QED
  BY <1>1, <1>2, <1>3, LookForward DEF DeskNext

\* A row is two names.
LEMMA RowShape ==
    ASSUME NEW r, NEW off, NEW today
    PROVE  RowOf(r, off, today) = [active |-> RowOf(r, off, today).active, next |-> RowOf(r, off, today).next]
<1>1. Eligible(r, off, today) = {} => RowOf(r, off, today) = [active |-> RootFacts[r].active, next |-> RootFacts[r].next]
  BY DEF RowOf, BundledRow
<1>2. Eligible(r, off, today) # {} => \E a, n : RowOf(r, off, today) = [active |-> a, next |-> n]
  BY DEF RowOf
<1>3. \E a, n : RowOf(r, off, today) = [active |-> a, next |-> n]
  BY <1>1, <1>2
<1> QED
  BY <1>3

\* A row made from the copy now and from the contract rows then is what the series goes on
\* with, while the copy has a contract of the root to trade.
LEMMA RowsFollow ==
    ASSUME NEW r \in DeskRoots, NEW copy, NEW off, NEW then \in Int, NEW today \in Int, then <= today,
           RowOf(r, copy, today) = RowOf(r, off, then), Eligible(r, copy, today) # {}
    PROVE  LET row == RowOf(r, copy, today)
               codes == Eligible(r, off, today)
           IN
           /\ row = [active |-> row.active, next |-> row.next]
           /\ codes = {} => row.active = RootFacts[r].active /\ row.next = RootFacts[r].next
           /\ codes # {} => /\ row.active = FrontContract(codes, row.active)
                           /\ row.next = NextContract(codes, row.active, row.next)
<1> PICK row : row = RowOf(r, copy, today) /\ row = RowOf(r, off, then)
  OBVIOUS
<1> PICK all, codes : all = Eligible(r, copy, today) /\ codes = Eligible(r, off, today)
  OBVIOUS
<1>1. all # {} /\ all \in SUBSET ContractsOf(r) /\ codes \in SUBSET ContractsOf(r)
  BY EligibleFacts
<1>5. row = [active |-> row.active, next |-> row.next]
  BY RowShape
<1>6. row.active \in all /\ row.next \in all
  BY <1>1, RowNames
<1> PICK wide : wide = Eligible(r, off, then)
  OBVIOUS
<1>9. /\ codes \in SUBSET wide /\ wide \in SUBSET ContractsOf(r)
      /\ \A c \in wide : Listing[c].last >= today => c \in codes
  BY EligibleFacts
<1>10. /\ wide = {} => row.active = RootFacts[r].active /\ row.next = RootFacts[r].next
       /\ wide # {} => row.active = Earliest(wide) /\ row.next = Second(wide) /\ row.active \in wide /\ row.next \in wide
  BY RowNames
<1>7. CASE codes = {}
  \* The row's contract can still be traded, by the copy the row was made from.
  <2>2. Listing[row.active].last >= today
    BY <1>6 DEF Eligible
  <2>3. wide = {}
    BY <1>7, <1>9, <1>10, <2>2
  <2> QED
    BY <1>5, <1>7, <1>10, <2>3
<1>8. CASE codes # {}
  <2>1. FrontContract(codes, row.active) = Earliest(codes)
    BY <1>8, SeriesGoesOn
  <2>2. Listing[row.active].last >= today /\ Listing[row.next].last >= today
    BY <1>6 DEF Eligible
  <2>3. row.active \in codes /\ row.next \in codes /\ row.active = Earliest(wide) /\ row.next = Second(wide) /\ wide # {}
    BY <1>8, <1>9, <1>10, <2>2
  <2>4. row.active = Earliest(codes)
    BY <1>9, <2>3, EarliestOfFewer
  <2>5. row.next = NextContract(codes, Earliest(codes), row.next)
    <3>1. Second(codes) = row.next
      BY <1>9, <1>10, <2>3, SecondOfFewer
    <3>2. NextContract(codes, Earliest(codes), row.next) = Second(codes)
      BY <1>8, <2>4, SeriesGoesOn
    <3> QED
      BY <3>1, <3>2
  <2> QED
    BY <1>5, <1>8, <2>1, <2>4, <2>5
<1> QED
  BY <1>7, <1>8

\* What a look shows of a root with a contract to trade is what the rows say.
LEMMA LookFollows == DeskInv /\ Look => FollowsRows
<1> SUFFICES ASSUME DeskInv, Look, NEW r \in DeskRoots, ~behind',
                    Eligible(r, suspended', desk'[r].tradingDay) # {}
             PROVE  [active |-> desk'[r].series.active, next |-> desk'[r].series.next] = roots'[r]
  BY DEF FollowsRows
<1> PICK today \in Int : today = TradingDay(overrides', day', minute')
  BY Looked
<1> PICK copy, off, row, series :
        copy = suspended /\ off = flags' /\ row = roots'[r] /\ series = desk'[r].series
  OBVIOUS
<1> PICK codes : codes = Eligible(r, off, today)
  OBVIOUS
<1> PICK all : all = Eligible(r, copy, today)
  OBVIOUS
<1>1. all # {}
  BY Dives, Looked
<1>2. row = RowOf(r, copy, today)
  BY Looked
<1>3. PICK then \in Int : then <= today /\ row = RowOf(r, off, then)
  BY LookKept, Looked DEF DeskInv
<1>4. /\ codes = {} => series = RootFacts[r].series
      /\ codes # {} => series = Series(codes, today, row)
  BY Dives, DeepDiveNames
<1>5. /\ row = [active |-> row.active, next |-> row.next]
      /\ codes = {} => row.active = RootFacts[r].active /\ row.next = RootFacts[r].next
      /\ codes # {} => /\ row.active = FrontContract(codes, row.active)
                      /\ row.next = NextContract(codes, row.active, row.next)
  <2>1. codes = Eligible(r, off, today)
    OBVIOUS
  <2>2. row = RowOf(r, copy, today)
    BY <1>2
  <2>3. then <= today /\ row = RowOf(r, off, then)
    BY <1>3
  <2>4. row = [active |-> row.active, next |-> row.next]
    BY <2>2, RowShape
  <2>5. RowOf(r, copy, today) = RowOf(r, off, then) /\ Eligible(r, copy, today) # {}
    BY <1>1, <2>2, <2>3
  <2> QED
    BY <2>1, <2>2, <2>3, <2>4, <2>5, RowsFollow
<1>6. series.active = row.active /\ series.next = row.next
  <2>1. codes = {} => series.active = row.active /\ series.next = row.next
    BY <1>4, <1>5, BundledAssumption
  <2>2. codes # {} => series.active = row.active /\ series.next = row.next
    BY <1>4, <1>5, SeriesNames
  <2> QED
    BY <2>1, <2>2
<1> QED
  BY <1>5, <1>6

\* So of every step of the desk: SeriesAsRows.
LEMMA FollowsStep == DeskInv /\ [DeskNext]_deskVars => FollowsRows
<1>1. desk' = desk => FollowsRows
  BY DEF FollowsRows
<1>2. SyncStatus => desk' = desk
  BY DEF SyncStatus
<1>3. UNCHANGED deskVars => desk' = desk
  BY DEF deskVars
<1> QED
  BY <1>1, <1>2, <1>3, LookFollows DEF DeskNext

\* With the contract rows left alone, a series moves on to the contract that was next, within
\* the days of the hard roll; where the row lagged behind, the page said so.
LEMMA RollsOn ==
    ASSUME NEW r \in DeskRoots, NEW off, NEW then \in Int, NEW today \in Int, NEW later \in Int,
           then <= today, today <= later, later <= today + 3,
           Eligible(r, off, later) # {},
           Earliest(Eligible(r, off, later)) # Earliest(Eligible(r, off, today))
    PROVE  LET row == RowOf(r, off, then)
               codes == Eligible(r, off, today)
               series == Series(codes, today, row)
               moved == Earliest(Eligible(r, off, later))
           IN  \/ RollEvent(series, row) = [from |-> series.active, to |-> moved, status |-> "pending"]
               \/ /\ series.active # row.active
                  /\ RollEvent(series, row) = [from |-> row.active, to |-> series.active, status |-> "applied"]
<1> PICK row, codes, left : row = RowOf(r, off, then) /\ codes = Eligible(r, off, today) /\ left = Eligible(r, off, later)
  OBVIOUS
<1> PICK front, moved : front = Earliest(codes) /\ moved = Earliest(left)
  OBVIOUS
<1> PICK series : series = Series(codes, today, row)
  OBVIOUS
<1>1. left \in SUBSET codes /\ codes \in SUBSET ContractsOf(r) /\ left # {} /\ codes # {} /\ front # moved
  BY EligibleFacts
<1>2. front \in codes /\ moved \in left
  BY <1>1, EarliestOf
<1>3. front \notin left
  BY <1>1, EarliestOfFewer
<1>4. /\ Listing[front].last \in Nat /\ Listing[front].last >= today /\ Listing[front].last < later
  <2>1. Listing[front].last \in Nat /\ Listing[front].last >= today
    BY <1>1, <1>2, EligibleFacts DEF Eligible
  <2>2. ~(Listing[front].last >= later)
    BY <1>2, <1>3, EligibleFacts
  <2> QED
    BY <2>1, <2>2
<1>5. series.active = front /\ series.next = NextContract(codes, front, row.next) /\ series.rollRisk = TRUE
  <2>1. FrontContract(codes, row.active) = front
    BY <1>1, SeriesGoesOn
  <2>2. Listing[front].last - today <= 10
    BY <1>4
  <2>3. series.active = front /\ series.next = NextContract(codes, front, row.next)
    BY <2>1, SeriesNames
  <2>4. series.rollRisk = (Listing[front].last - today <= 10)
    <3>1. series.rollRisk = (Listing[FrontContract(codes, row.active)].last - today <= 10)
      BY DEF Series
    <3> QED
      BY <2>1, <3>1, Zenon
  <2>5. (Listing[front].last - today <= 10) = TRUE
    BY <2>2
  <2> QED
    BY <2>3, <2>4, <2>5, Zenon
<1>6. codes # {front}
  BY <1>1, <1>2
<1>7. series.next # front
  BY <1>1, <1>5, <1>6, SeriesGoesOn
<1>8. CASE row.active # front
  BY <1>5, <1>7, <1>8 DEF RollEvent
<1>9. CASE row.active = front
  <2>1. series.next = Second(codes)
    BY <1>1, <1>5, <1>9, SeriesGoesOn
  <2>2. series.next = Earliest(codes \ {front})
    BY <1>6, <2>1 DEF Second
  <2>3. codes \ {front} \in SUBSET ContractsOf(r) /\ codes \ {front} # {} /\ left \in SUBSET (codes \ {front})
    BY <1>1, <1>2, <1>3
  <2>4. series.next \in codes \ {front}
    BY <2>2, <2>3, EarliestOf
  <2>5. series.next \in left
    <3>1. Listing[front].last <= Listing[series.next].last
      BY <1>1, <2>4, EarliestOf
    <3>2. Listing[front].last + 3 <= Listing[series.next].last
      BY <1>1, <1>2, <2>4, <3>1, Apart
    <3>3. Listing[series.next].last \in Nat
      BY <1>1, <2>4, EligibleFacts
    <3>4. Listing[series.next].last >= later
      BY <1>4, <3>2, <3>3
    <3> QED
      BY <2>4, <3>4, EligibleFacts
  <2>6. moved = series.next
    BY <2>2, <2>3, <2>5, EarliestOfFewer
  <2> QED
    BY <1>5, <1>7, <1>9, <2>6 DEF RollEvent
<1> QED
  BY <1>8, <1>9

\* The series of a page whose row was made from the same contract rows.
LEMMA SeriesStarts ==
    ASSUME NEW r \in DeskRoots, NEW off, NEW then \in Int, NEW today \in Int, then <= today,
           Eligible(r, off, today) # {}
    PROVE  Series(Eligible(r, off, today), today, RowOf(r, off, then)).active = Earliest(Eligible(r, off, today))
<1>1. FrontContract(Eligible(r, off, today), RowOf(r, off, then).active) = Earliest(Eligible(r, off, today))
  BY SeriesGoesOn
<1> QED
  BY <1>1, SeriesNames

\* A look shows another active contract only where the page before announced it, or told of a lagging row.
LEMMA LookAnnounces == DeskInv /\ Look => Announces
<1> SUFFICES ASSUME DeskInv, Look, NEW r \in DeskRoots,
                    desk'[r].series.active # desk[r].series.active,
                    flags' = flags, desk'[r].eligible # {},
                    overrides' = overrides, Orderly(overrides), ~behind
             PROVE  \/ desk[r].event = [from |-> desk[r].series.active, to |-> desk'[r].series.active, status |-> "pending"]
                    \/ /\ desk[r].series.active # roots[r].active
                       /\ desk[r].event = [from |-> roots[r].active, to |-> desk[r].series.active, status |-> "applied"]
  BY DEF Announces
<1> PICK today \in Int, later \in Int :
        /\ today = TradingDay(overrides, day, minute) /\ later = TradingDay(overrides', day', minute')
        /\ today <= later /\ later <= today + 3
  BY Looked, LookedOn
<1> PICK off : off = flags
  OBVIOUS
<1>1. PICK then \in Int : then <= today /\ roots[r] = RowOf(r, off, then)
  BY DEF DeskInv
<1>2. PICK since \in Int : since <= later /\ roots'[r] = RowOf(r, off, since)
  <2>1. ~(later < today)
    OBVIOUS
  <2>2. behind' = (roots' = roots /\ (behind \/ later < today))
    BY Looked, Zenon
  <2>3. ~behind'
    BY <2>1, <2>2, Zenon
  <2> QED
    BY <2>3, LookKept DEF DeskInv
<1>3. Eligible(r, off, later) # {} /\ Eligible(r, off, today) # {}
  <2>1. Eligible(r, off, later) # {}
    BY Dives, DeepDiveNames
  <2> QED
    BY <2>1, EligibleFacts
<1>4. /\ desk[r].series = Series(Eligible(r, off, today), today, roots[r])
      /\ desk[r].event = RollEvent(desk[r].series, roots[r])
  <2>1. desk[r] = DeepDive(r, overrides, day, minute, roots, off)
    BY Dives
  <2> QED
    BY <1>3, <2>1, DeepDiveNames
<1>5. desk'[r].series = Series(Eligible(r, off, later), later, roots'[r])
  <2>1. desk'[r] = DeepDive(r, overrides', day', minute', roots', off)
    BY Dives
  <2> QED
    BY <1>3, <2>1, DeepDiveNames
<1>6. desk[r].series.active = Earliest(Eligible(r, off, today))
  BY <1>1, <1>3, <1>4, SeriesStarts
<1>7. desk'[r].series.active = Earliest(Eligible(r, off, later))
  BY <1>2, <1>3, <1>5, SeriesStarts
<1> QED
  BY <1>1, <1>3, <1>4, <1>6, <1>7, RollsOn

\* So of every step of the desk: RollAnnounced.
LEMMA AnnouncesStep == DeskInv /\ [DeskNext]_deskVars => Announces
<1>1. desk' = desk => Announces
  BY DEF Announces
<1>2. SyncStatus => desk' = desk
  BY DEF SyncStatus
<1>3. UNCHANGED deskVars => desk' = desk
  BY DEF deskVars
<1> QED
  BY <1>1, <1>2, <1>3, LookAnnounces DEF DeskNext

-----------------------------------------------------------------------------
(* The council and its signals. *)

\* Division and remainder are integers.
LEMMA DivIs == ASSUME NEW n \in Int, NEW d \in Nat \ {0} PROVE n \div d \in Int /\ n % d \in Int
OBVIOUS

\* Rounding gives an integer: Rounded.
LEMMA RoundedIs ==
    ASSUME NEW n \in Int, NEW d \in Nat \ {0}
    PROVE  Rounded(n, d) \in Int
<1>1. d \div 2 \in Int
  OBVIOUS
<1> QED
  BY <1>1, DivIs DEF Rounded

\* Rounding hundredths of a number gives a number.
LEMMA RoundedNat ==
    ASSUME NEW n \in Nat
    PROVE  Rounded(n, 100) \in Nat
BY DEF Rounded

\* The greater of two numbers: Max.
LEMMA MaxOfTwo == ASSUME NEW x \in Int, NEW y \in Int PROVE Max({x, y}) \in {x, y} /\ Max({x, y}) >= x /\ Max({x, y}) >= y
<1>1. \E z \in {x, y} : \A w \in {x, y} : z >= w
  <2>1. CASE x >= y
    BY <2>1
  <2>2. CASE ~(x >= y)
    BY <2>2
  <2> QED
    BY <2>1, <2>2
<1> QED
  BY <1>1 DEF Max

\* A share is an integer: Share.
LEMMA ShareIs ==
    ASSUME NEW n \in Int, NEW d \in Nat \ {0}
    PROVE  Share(n, d) \in Int
<1>1. (100 * n) \div d \in Int /\ (100 * n) % d \in Int
  BY DivIs
<1>2. Rounded(100 * ((100 * n) % d), d) \in Int
  BY <1>1, RoundedIs
<1> QED
  BY <1>1, <1>2 DEF Share

\* What the council is given, and what it needs of that.
Arguable(case) ==
    /\ case.liquidity \in Nat
    /\ {case.weekend, case.clearing, case.near, case.series.rollRisk} \subseteq BOOLEAN
    /\ {case.series.toLastTrade, case.series.toExpiry, case.series.nextShare} \subseteq Int

\* What probabilities, confidences and weights may be.
Likely == 0 .. 8600
Certain == 0 .. 9300
Floors == {3100, 3300, 3400, 3500}
Weights == {20, 23, 25, 32}

Opinion == [direction : Directions, probability : Likely, weight : Weights, confidence : Certain]

\* At least nothing.
LEMMA MaxOfNone == ASSUME NEW x \in Int PROVE Max({0, x}) \in Nat
<1>1. Max({0, x}) \in {0, x} /\ Max({0, x}) >= 0
  BY MaxOfTwo
<1> QED
  BY <1>1

\* The features a case is argued from are integers: Features.
LEMMA FeaturesTyped ==
    ASSUME NEW case, Arguable(case), NEW h \in Horizons
    PROVE  LET f == Features(case, h) IN
           f.return \in Int /\ f.volatility \in Int /\ f.slope \in Int /\ f.vwap \in Int
<1> PICK scale \in Nat : scale = Scale[h]
  BY DEF Scale, Horizons
<1> PICK last \in Int, left \in Int, share \in Int :
        last = case.series.toLastTrade /\ left = case.series.toExpiry /\ share = case.series.nextShare
  BY DEF Arguable
<1> PICK roll \in Nat : roll = Max({0, 20 - last})
  BY MaxOfNone
<1> PICK expiry \in Nat : expiry = Max({0, 30 - left})
  BY MaxOfNone
<1> PICK a \in Int : a = (800000 + 120 * share - 25000 * roll) * scale
  BY SMT
<1> PICK b \in Int : b = (140000 + 9000 * roll + 2000 * expiry) * scale
  BY SMT
<1> PICK c \in Int : c = (180000 - 3500 * roll) * scale
  BY SMT
<1> PICK d \in Int : d = (120000 + 40 * share - 10000 * roll) * scale
  BY SMT
<1>1. Features(case, h) = [return |-> Rounded(a, 1000), volatility |-> b \div 100, slope |-> c \div 100, vwap |-> d \div 100]
  BY SMT DEF Features
<1>2. Rounded(a, 1000) \in Int
  BY RoundedIs, SMT
<1>3. b \div 100 \in Int /\ c \div 100 \in Int /\ d \div 100 \in Int
  OBVIOUS
<1> QED
  BY <1>1, <1>2, <1>3, SMT

\* A score has a direction: Direction.
LEMMA DirectionIs == ASSUME NEW x, NEW t PROVE Direction(x, t) \in Directions
BY DEF Direction, Directions

\* A clamped number is within its bounds.
LEMMA ConfidenceIs ==
    ASSUME NEW x \in Int
    PROVE  /\ Clamped(Rounded(x, 100), 4000, 9300) \in Certain
           /\ Clamped(Rounded(x, 100), 3800, 9000) \in Certain
           /\ Clamped(Rounded(x, 100), 3600, 8800) \in Certain
           /\ \A low \in Floors : Clamped(Rounded(x, 100), low, 8600) \in Likely
<1>1. PICK whole \in Int : whole = Rounded(x, 100)
  BY RoundedIs, SMT
<1>2. Clamped(whole, 4000, 9300) \in Certain
  BY SMT DEF Clamped, Certain
<1>3. Clamped(whole, 3800, 9000) \in Certain
  BY SMT DEF Clamped, Certain
<1>4. Clamped(whole, 3600, 8800) \in Certain
  BY SMT DEF Clamped, Certain
<1>5. \A low \in Floors : Clamped(whole, low, 8600) \in Likely
  BY SMT DEF Clamped, Likely, Floors
<1> QED
  BY <1>1, <1>2, <1>3, <1>4, <1>5, SMT

\* A probability is at most 86 per cent: Probability.
LEMMA ProbabilityIs ==
    ASSUME NEW x \in Int, NEW floor \in Floors
    PROVE  Probability(x, floor) \in Likely
<1>1. PICK size \in Int : size = Abs(x)
  BY DEF Abs
<1>2. PICK part \in Int : part = (55 * size) \div 100
  BY SMT
<1>3. PICK sum \in Int : sum = 500000 + part
  BY SMT
<1>4. Probability(x, floor) = Clamped(Rounded(sum, 100), floor, 8600)
  BY <1>1, <1>2, <1>3, SMT DEF Probability
<1> QED
  BY <1>4, ConfidenceIs, SMT

\* An opinion, of a score and of what its confidence is clamped from.
LEMMA OpinionIs ==
    ASSUME NEW score \in Int, NEW threshold, NEW floor \in Floors, NEW weight \in Weights,
           NEW confidence \in Certain
    PROVE  [direction |-> Direction(score, threshold), probability |-> Probability(score, floor),
            weight |-> weight, confidence |-> confidence] \in Opinion
<1>1. Probability(score, floor) \in Likely
  BY ProbabilityIs
<1>2. Direction(score, threshold) \in Directions
  BY DirectionIs
<1> QED
  BY <1>1, <1>2 DEF Opinion

\* There are four analysts, and each gives one: Analysts.
LEMMA AnalystsTyped ==
    ASSUME NEW case, Arguable(case), NEW h \in Horizons
    PROVE  /\ DOMAIN Analysts(case, h) = 1 .. 4
           /\ \A i \in 1 .. 4 : Analysts(case, h)[i] \in Opinion
<1> PICK f : f = Features(case, h)
  OBVIOUS
<1>1. f.return \in Int /\ f.volatility \in Int /\ f.slope \in Int /\ f.vwap \in Int
  BY FeaturesTyped, SMT
<1>2. /\ case.liquidity \in Nat /\ case.series.toLastTrade \in Int /\ case.series.nextShare \in Int
      /\ case.weekend \in BOOLEAN /\ case.clearing \in BOOLEAN /\ case.series.rollRisk \in BOOLEAN
  BY SMT DEF Arguable
<1>8. {3100, 3300, 3400, 3500} \subseteq Floors /\ {20, 23, 25, 32} \subseteq Weights
  BY SMT DEF Floors, Weights
<1>3. TrendVol(f) \in Opinion
  <2>1. PICK part \in Int : part = (4 * f.volatility) \div 10
    BY <1>1, SMT
  <2>2. PICK score \in Int : score = f.slope + f.return - part
    BY <1>1, SMT
  <2>3. PICK p \in Int, q \in Int : p = (55 * f.slope) \div 100 /\ q = f.volatility \div 10
    BY <1>1, SMT
  <2>4. PICK sum \in Int : sum = 540000 + p - q
    BY SMT
  <2>5. TrendVol(f) = [direction |-> Direction(score, 120000), probability |-> Probability(score, 3400),
                       weight |-> 32, confidence |-> Clamped(Rounded(sum, 100), 4000, 9300)]
    BY <2>1, <2>2, <2>3, <2>4, SMT DEF TrendVol
  <2> QED
    BY <2>5, <1>8, ConfidenceIs, OpinionIs, SMT
<1>4. FlowLiquidity(case, f) \in Opinion
  <2>1. PICK part \in Int : part = (5 * f.vwap) \div 6
    BY <1>1, SMT
  <2>2. PICK score \in Int : score = part + 450 * (case.liquidity - 500) - 180000
    BY <1>2, SMT
  <2>3. PICK sum \in Int : sum = 480000 + 350 * case.liquidity
    BY <1>2, SMT
  <2>4. FlowLiquidity(case, f) = [direction |-> Direction(score, 120000), probability |-> Probability(score, 3500),
                                  weight |-> 23, confidence |-> Clamped(Rounded(sum, 100), 3800, 9000)]
    BY <2>1, <2>2, <2>3, SMT DEF FlowLiquidity
  <2> QED
    BY <2>4, <1>8, ConfidenceIs, OpinionIs, SMT
<1>5. OiRoll(case, f) \in Opinion
  <2>1. PICK a \in Int : a = Amount(case.series.rollRisk, 180000)
    BY SMT DEF Amount
  <2>2. PICK b \in Int : b = Amount(case.series.toLastTrade <= 5, 120000)
    BY SMT DEF Amount
  <2>3. PICK part \in Int, other \in Int : part = (8 * f.return) \div 10 /\ other = (35 * f.return) \div 100
    BY <1>1, SMT
  <2>4. PICK score \in Int : score = part - 35 * case.series.nextShare - a - b
    BY <1>2, SMT
  <2>5. PICK base \in Int : base = IF case.series.rollRisk THEN -40000 ELSE 180000
    BY SMT
  <2>6. PICK sum \in Int : sum = 460000 + base + other
    BY SMT
  <2>7. OiRoll(case, f) = [direction |-> Direction(score, 80000), probability |-> Probability(score, 3300),
                           weight |-> 25, confidence |-> Clamped(Rounded(sum, 100), 3600, 8800)]
    BY <2>1, <2>2, <2>3, <2>4, <2>5, <2>6, SMT DEF OiRoll
  <2> QED
    BY <2>7, <1>8, ConfidenceIs, OpinionIs, SMT
<1>6. MacroEvent(case) \in Opinion
  <2>1. PICK a \in Int : a = Amount(case.asset = "currency", 80000)
    BY SMT DEF Amount
  <2>2. PICK b \in Int : b = Amount(case.asset = "commodity", 20000)
    BY SMT DEF Amount
  <2>3. PICK c \in Int : c = Amount(case.weekend, 120000)
    BY SMT DEF Amount
  <2>4. PICK d \in Int : d = Amount(case.clearing, 80000)
    BY SMT DEF Amount
  <2>5. PICK e \in Int : e = Amount(case.series.rollRisk, 50000)
    BY SMT DEF Amount
  <2>6. PICK score \in Int : score = 20000 + a - b - c - d - e
    BY SMT
  <2>7. PICK whole \in Certain : whole = 4400 + Amount(case.asset = "currency", 800)
    BY SMT DEF Amount, Certain
  <2>8. MacroEvent(case) = [direction |-> Direction(score, 90000), probability |-> Probability(score, 3100),
                            weight |-> 20, confidence |-> whole]
    BY <2>1, <2>2, <2>3, <2>4, <2>5, <2>6, <2>7, SMT DEF MacroEvent
  <2> QED
    BY <1>8, <2>8, OpinionIs, SMT
<1>7. Analysts(case, h) = <<TrendVol(f), FlowLiquidity(case, f), OiRoll(case, f), MacroEvent(case)>>
  BY SMT DEF Analysts
<1> QED
  BY <1>3, <1>4, <1>5, <1>6, <1>7, SMT

\* The skeptic's score is a per cent: SkepticScore.
LEMMA ScoreIs == ASSUME NEW case, NEW outputs PROVE SkepticScore(case, outputs) \in 0 .. 100
<1>1. PICK a \in Nat : a = Amount(Freshness(case) < 7000, 22)
  BY SMT DEF Amount
<1>2. PICK b \in Nat : b = Amount(LowLiquidity(case), 32)
  BY SMT DEF Amount
<1>3. PICK c \in Nat : c = Amount(NearExpiryFlag(case), 22)
  BY SMT DEF Amount
<1>4. PICK d \in Nat : d = Amount(Unconfirmed(outputs), 10)
  BY SMT DEF Amount
<1>5. PICK e \in Nat : e = Amount(Contradiction(outputs), 16)
  BY SMT DEF Amount
<1>6. PICK left \in Int : left = 100 - a - b - c - d - e /\ left <= 100
  BY SMT
<1>7. SkepticScore(case, outputs) = Max({0, left})
  BY <1>1, <1>2, <1>3, <1>4, <1>5, <1>6, SMT DEF SkepticScore
<1>8. Max({0, left}) \in {0, left} /\ Max({0, left}) \in Nat
  BY MaxOfTwo, MaxOfNone
<1> QED
  BY <1>6, <1>7, <1>8

\* The numbers of an opinion.
LEMMA OpinionParts ==
    ASSUME NEW o \in Opinion
    PROVE  /\ o.probability \in Nat /\ o.probability <= 8600
           /\ o.confidence \in Nat /\ o.weight \in Nat /\ o.weight >= 1
<1>1. o.probability \in Likely /\ o.confidence \in Certain /\ o.weight \in Weights
  BY DEF Opinion
<1>5. \A n \in Likely : n \in Nat /\ n <= 8600
  BY SMT DEF Likely
<1>6. \A n \in Certain : n \in Nat
  BY SMT DEF Certain
<1>2. o.probability \in Nat /\ o.probability <= 8600
  BY <1>1, <1>5
<1>3. o.confidence \in Nat
  BY <1>1, <1>6
<1>4. o.weight \in Nat /\ o.weight >= 1
  BY <1>1, SMT DEF Weights
<1> QED
  BY <1>2, <1>3, <1>4, SMT

\* What an opinion contributes is a number: Contribution.
LEMMA ContributionIs == ASSUME NEW o \in Opinion PROVE Contribution(o) \in Nat
<1>1. PICK p \in Nat, c \in Nat, w \in Nat : p = o.probability /\ c = o.confidence /\ w = o.weight
  BY OpinionParts
<1>2. p * c \in Nat
  OBVIOUS
<1>3. PICK part \in Nat : part = (p * c) \div 10
  BY <1>2
<1>4. PICK whole \in Nat : whole = w * part
  OBVIOUS
<1>5. Contribution(o) = Rounded(whole, 100)
  BY <1>1, <1>3, <1>4 DEF Contribution
<1> QED
  BY <1>5, RoundedNat

\* What an opinion adds to no edge is never nothing.
LEMMA FlatIs ==
    ASSUME NEW o \in Opinion
    PROVE  (IF o.direction = "no_edge" THEN Contribution(o) + 8000 * o.weight
            ELSE (18 * o.weight * (10000 - o.probability)) \div 10) \in Nat \ {0}
<1>1. PICK p \in Nat, w \in Nat : p = o.probability /\ w = o.weight /\ p <= 8600 /\ w >= 1
  BY OpinionParts, SMT
<1>2. Contribution(o) \in Nat
  BY ContributionIs
<1>3. Contribution(o) + 8000 * w \in Nat \ {0}
  BY <1>1, <1>2, SMT
<1>4. PICK rest \in Nat : rest = 10000 - p /\ rest >= 1400
  BY <1>1, SMT
<1>5. w * rest \in Nat /\ w * rest >= 1
  BY <1>1, <1>4, SMT
<1>6. PICK whole \in Nat : whole = 18 * w * rest /\ whole >= 18
  BY <1>5, SMT
<1>7. whole \div 10 \in Nat \ {0}
  BY <1>6, SMT
<1> QED
  BY <1>1, <1>3, <1>4, <1>6, <1>7, SMT

\* The sum of four numbers is a number: Total.
LEMMA TotalIs ==
    ASSUME NEW v, \A i \in 1 .. 4 : v[i] \in Nat
    PROVE  Total(v) \in Nat /\ (v[1] >= 1 => Total(v) >= 1)
BY DEF Total

\* The share of each side is an integer: the whole is never nothing.
LEMMA SharesAre ==
    ASSUME NEW case, NEW outputs, DOMAIN outputs = 1 .. 4, \A i \in 1 .. 4 : outputs[i] \in Opinion
    PROVE  LET p == Probabilities(case, outputs) IN
           p.bullish \in Int /\ p.bearish \in Int /\ p.no_edge \in Int
<1> DEFINE
      Of(d) == [i \in DOMAIN outputs |-> Amount(outputs[i].direction = d, Contribution(outputs[i]))]
      Flat(o) == IF o.direction = "no_edge" THEN Contribution(o) + 8000 * o.weight
                 ELSE (18 * o.weight * (10000 - o.probability)) \div 10
      Flats == [i \in DOMAIN outputs |-> Flat(outputs[i])]
<1>1. PICK score \in 0 .. 100 : score = SkepticScore(case, outputs)
  BY ScoreIs
<1>2. \A d : Total(Of(d)) \in Nat
  <2> SUFFICES ASSUME NEW d PROVE Total(Of(d)) \in Nat
    OBVIOUS
  <2>1. \A i \in 1 .. 4 : Contribution(outputs[i]) \in Nat
    BY ContributionIs
  <2>2. \A i \in 1 .. 4 : Of(d)[i] \in Nat
    BY <2>1 DEF Amount
  <2> QED
    BY <2>2, TotalIs
<1>3. \A i \in 1 .. 4 : Flats[i] \in Nat /\ Flats[i] >= 1
  <2>1. \A i \in 1 .. 4 : Flat(outputs[i]) \in Nat \ {0}
    BY FlatIs
  <2>2. \A i \in 1 .. 4 : Flats[i] = Flat(outputs[i])
    OBVIOUS
  <2> HIDE DEF Flats, Flat
  <2> QED
    BY <2>1, <2>2
<1>4. PICK flat \in Nat \ {0} : flat = Total(Flats)
  <2> HIDE DEF Flats
  <2> QED
    BY <1>3, TotalIs
<1>5. PICK rise \in Nat, fall \in Nat : rise = Total(Of("bullish")) /\ fall = Total(Of("bearish"))
  BY <1>2
<1>6. score * rise \in Nat /\ score * fall \in Nat
  OBVIOUS
<1>7. PICK up \in Nat, down \in Nat : up = Rounded(score * rise, 100) /\ down = Rounded(score * fall, 100)
  BY <1>6, RoundedNat
<1>8. PICK all \in Nat \ {0} : all = up + down + flat + 45000 * (100 - score)
  BY SMT
<1>9. PICK x \in Int, y \in Int : x = Share(up, all) /\ y = Share(down, all)
  <2>1. up \in Int /\ down \in Int
    OBVIOUS
  <2>2. Share(up, all) \in Int
    BY <2>1, ShareIs
  <2>3. Share(down, all) \in Int
    BY <2>1, ShareIs
  <2> QED
    BY <2>2, <2>3
<1>10. PICK rest \in Int : rest = 10000 - x - y
  BY SMT
<1>11. Max({0, rest}) \in Int
  BY MaxOfNone
<1>12. Probabilities(case, outputs) = [bullish |-> x, bearish |-> y, no_edge |-> Max({0, rest})]
  <2> HIDE DEF Of, Flats
  <2>1. Probabilities(case, outputs) =
          LET For(d) == Rounded(score * Total(Of(d)), 100)
              whole == For("bullish") + For("bearish") + Total(Flats) + 45000 * (100 - score)
          IN [bullish |-> Share(For("bullish"), whole), bearish |-> Share(For("bearish"), whole),
              no_edge |-> Max({0, 10000 - Share(For("bullish"), whole) - Share(For("bearish"), whole)})]
    BY <1>1, SMT DEF Probabilities, Of, Flats, Flat
  <2> QED
    BY <1>4, <1>5, <1>7, <1>8, <1>9, <1>10, <2>1, SMT
<1> QED
  BY <1>11, <1>12

\* The distance between the two likeliest sides is an integer: Spread.
LEMMA SpreadIs ==
    ASSUME NEW p, p.bullish \in Int, p.bearish \in Int, p.no_edge \in Int
    PROVE  Spread(p) \in Int
<1>1. PICK x \in Int, y \in Int, z \in Int : x = p.bullish /\ y = p.bearish /\ z = p.no_edge
  OBVIOUS
<1>2. PICK all : all = <<x, y, z>> /\ DOMAIN all = 1 .. 3 /\ all[1] = x /\ all[2] = y /\ all[3] = z
  <2>1. DOMAIN <<x, y, z>> = 1 .. 3
    OBVIOUS
  <2>2. <<x, y, z>>[1] = x /\ <<x, y, z>>[2] = y /\ <<x, y, z>>[3] = z
    OBVIOUS
  <2> QED
    BY <2>1, <2>2, Zenon
<1>3. \A i \in 1 .. 3 : all[i] \in Int
  BY <1>2
<1>4. PICK best : best = CHOOSE i \in DOMAIN all : \A j \in DOMAIN all : all[i] >= all[j]
  OBVIOUS
<1>5. best \in 1 .. 3
  <2>1. \E i \in 1 .. 3 : all[i] >= all[1] /\ all[i] >= all[2] /\ all[i] >= all[3]
    BY <1>2
  <2>2. \E i \in DOMAIN all : \A j \in DOMAIN all : all[i] >= all[j]
    BY <1>2, <2>1
  <2> QED
    BY <1>2, <1>4, <2>2
<1>6. PICK others : others = {all[j] : j \in DOMAIN all \ {best}}
  OBVIOUS
<1>7. \E a \in Int, b \in Int : others = {a, b}
  <2>1. CASE best = 1
    BY <1>2, <1>3, <1>6, <2>1
  <2>2. CASE best = 2
    BY <1>2, <1>3, <1>6, <2>2
  <2>3. CASE best = 3
    BY <1>2, <1>3, <1>6, <2>3
  <2> QED
    BY <1>5, <2>1, <2>2, <2>3
<1>8. Max(others) \in Int
  BY <1>7, MaxOfTwo
<1>9. Spread(p) = all[best] - Max(others)
  BY <1>1, <1>2, <1>4, <1>6 DEF Spread
<1> QED
  BY <1>3, <1>5, <1>8, <1>9

\* What the confidence and the priority of a signal may be.
Sure == 3500 .. 9500
Ranks == 1 .. 99

\* A clamped confidence.
LEMMA SurelyIs == ASSUME NEW x \in Int PROVE Clamped(Rounded(x, 400), 3500, 9500) \in Sure
<1>1. PICK whole \in Int : whole = Rounded(x, 400)
  BY RoundedIs, SMT
<1>2. Clamped(whole, 3500, 9500) \in Sure
  BY SMT DEF Clamped, Sure
<1> QED
  BY <1>1, <1>2, SMT

\* A clamped priority.
LEMMA RankIs == ASSUME NEW x \in Int PROVE Clamped(Rounded(x, 10000), 1, 99) \in Ranks
<1>1. PICK whole \in Int : whole = Rounded(x, 10000)
  BY RoundedIs, SMT
<1>2. Clamped(whole, 1, 99) \in Ranks
  BY SMT DEF Clamped, Ranks
<1> QED
  BY <1>1, <1>2, SMT

\* The confidence of a signal is between 35 and 95 per cent: Confidence.
LEMMA ConfidentIs ==
    ASSUME NEW case, NEW outputs, DOMAIN outputs = 1 .. 4, \A i \in 1 .. 4 : outputs[i] \in Opinion,
           NEW p, p.bullish \in Int, p.bearish \in Int, p.no_edge \in Int
    PROVE  Confidence(case, outputs, p) \in Sure
<1>1. PICK values : values = [i \in DOMAIN outputs |-> outputs[i].confidence]
  OBVIOUS
<1>2. \A i \in 1 .. 4 : values[i] \in Nat
  BY <1>1, OpinionParts
<1>3. PICK total \in Nat : total = Total(values)
  BY <1>2, TotalIs
<1>4. PICK score \in Int : score = SkepticScore(case, outputs)
  BY ScoreIs
<1>5. PICK spread \in Int : spread = Spread(p)
  BY SpreadIs
<1>6. PICK sum \in Int : sum = 55 * total + 14000 * score + 160 * spread
  BY SMT
<1>7. Confidence(case, outputs, p) = Clamped(Rounded(sum, 400), 3500, 9500)
  BY <1>1, <1>3, <1>4, <1>5, <1>6, SMT DEF Confidence
<1> QED
  BY <1>7, SurelyIs, SMT

\* The skeptic says one of its verdicts: Verdict.
LEMMA VerdictIs == ASSUME NEW case, NEW outputs PROVE Verdict(case, outputs) \in Verdicts
BY DEF Verdict, Verdicts

\* The arbiter decides on a direction: FinalDirection.
LEMMA FinalIs == ASSUME NEW p PROVE FinalDirection(p) \in Directions
BY SMT DEF FinalDirection, Directions

\* What a verdict costs is an integer: Deduction.
LEMMA DeductionIs == ASSUME NEW v \in Verdicts PROVE Deduction[v] \in Int
BY SMT DEF Deduction, Verdicts

\* The priority of a signal is between 1 and 99: Priority.
LEMMA PriorityIs ==
    ASSUME NEW case, case.liquidity \in Nat, NEW outputs, NEW p, Confidence(case, outputs, p) \in Sure
    PROVE  Priority(case, outputs, p) \in Ranks
<1>1. PICK fresh \in Int : fresh = Freshness(case)
  <2>1. PICK a \in Int : a = Amount(case.weekend, 400)
    BY SMT DEF Amount
  <2>2. PICK b \in Int : b = Amount(case.series.rollRisk, 500)
    BY SMT DEF Amount
  <2> QED
    BY <2>1, <2>2, SMT DEF Freshness
<1>2. PICK score \in Int : score = SkepticScore(case, outputs)
  BY ScoreIs
<1>3. PICK product \in Int : product = fresh * score + 80000
  BY SMT
<1>4. PICK whole \in Int : whole = Rounded(product, 100)
  BY RoundedIs
<1>5. PICK freshness \in Int : freshness = Clamped(whole, 4000, 9800)
  BY SMT DEF Clamped
<1>6. PICK sure \in Int : sure = Confidence(case, outputs, p)
  <2>1. \A n \in Sure : n \in Int
    BY SMT DEF Sure
  <2> QED
    BY <2>1
<1>7. PICK edge \in Int : edge = Amount(FinalDirection(p) # "no_edge", 100000)
  BY SMT DEF Amount
<1>8. PICK less \in Int : less = Deduction[Verdict(case, outputs)]
  BY VerdictIs, DeductionIs
<1>9. PICK sum \in Int : sum = 100 * sure + 8 * freshness + 120 * case.liquidity + edge - less
  BY SMT
<1>10. Priority(case, outputs, p) = Clamped(Rounded(sum, 10000), 1, 99)
  BY <1>1, <1>2, <1>3, <1>4, <1>5, <1>6, <1>7, <1>8, <1>9, SMT DEF Priority
<1> QED
  BY <1>10, RankIs, SMT

\* A signal is of the contract its case is about, with a confidence and a priority within
\* their bounds: Signal.
LEMMA SignalIs ==
    ASSUME NEW case, Arguable(case), NEW h \in Horizons, NEW s \in Signal(case, h)
    PROVE  /\ s.direction \in Directions /\ s.verdict \in Verdicts /\ s.contract = case.series.active
           /\ s.confidence \in Sure /\ s.priority \in Ranks
<1>1. PICK outputs : outputs = Analysts(case, h)
  OBVIOUS
<1>2. PICK p : p = Probabilities(case, outputs)
  OBVIOUS
<1>3. DOMAIN outputs = 1 .. 4 /\ \A i \in 1 .. 4 : outputs[i] \in Opinion
  BY <1>1, AnalystsTyped
<1>4. p.bullish \in Int /\ p.bearish \in Int /\ p.no_edge \in Int
  BY <1>2, <1>3, SharesAre
<1>5. Confidence(case, outputs, p) \in Sure
  BY <1>3, <1>4, ConfidentIs
<1>6. case.liquidity \in Nat
  BY DEF Arguable
<1>7. Priority(case, outputs, p) \in Ranks
  BY <1>5, <1>6, PriorityIs
<1>8. s = [horizon |-> h, contract |-> case.series.active, direction |-> FinalDirection(p),
           confidence |-> Confidence(case, outputs, p), priority |-> Priority(case, outputs, p),
           verdict |-> Verdict(case, outputs), nearExpiry |-> NearExpiryFlag(case)]
  BY <1>1, <1>2, SMT DEF Signal
<1> QED
  BY <1>5, <1>7, <1>8, VerdictIs, FinalIs

\* What a page hands the council of a root.
LEMMA DeskTyped == DeskInv => DeskTypeOK
<1> SUFFICES ASSUME DeskInv PROVE DeskTypeOK
  OBVIOUS
<1>1. /\ day \in 0 .. LastDay /\ minute \in Minutes /\ suspended \subseteq Codes /\ flags \subseteq Codes
      /\ changes \in 0 .. MaxChanges /\ behind \in BOOLEAN
      /\ \A d \in DOMAIN overrides : overrides[d] \in Links
  BY DEF DeskInv, Linked
<1>2. PICK today \in Int : today = TradingDay(overrides, day, minute)
  <2>1. day \in Nat /\ Linked(overrides)
    BY <1>1, DeskAssumption DEF Linked
  <2> QED
    BY <2>1, TradingDayIs
<1>3. PICK then \in Int : roots = [r \in DeskRoots |-> RowOf(r, flags, then)]
  BY <1>2 DEF DeskInv
<1>4. roots \in [DeskRoots -> [active : Codes, next : Codes]]
  <2>1. \A r \in DeskRoots : RowOf(r, flags, then) \in [active : Codes, next : Codes]
    <3> SUFFICES ASSUME NEW r \in DeskRoots PROVE RowOf(r, flags, then) \in [active : Codes, next : Codes]
      OBVIOUS
    <3>1. RowOf(r, flags, then).active \in ContractsOf(r) /\ RowOf(r, flags, then).next \in ContractsOf(r)
      BY RowNames
    <3>2. RowOf(r, flags, then).active \in Codes /\ RowOf(r, flags, then).next \in Codes
      BY <3>1 DEF ContractsOf
    <3> QED
      BY <3>2, RowShape
  <2> QED
    BY <1>3, <2>1, Zenon
<1>5. ASSUME NEW r \in DeskRoots, NEW s \in desk[r].signals
      PROVE  /\ s.direction \in Directions /\ s.verdict \in Verdicts /\ s.contract \in ContractsOf(r)
             /\ s.confidence \in Sure /\ s.priority \in Ranks
  <2>1. PICK codes : codes = Eligible(r, flags, today)
    OBVIOUS
  <2>2. PICK series : series = IF codes = {} THEN RootFacts[r].series ELSE Series(codes, today, roots[r])
    OBVIOUS
  <2>3. PICK case : case = [asset |-> RootFacts[r].asset, liquidity |-> RootFacts[r].liquidity,
                 weekend |-> WeekendLinked(overrides, day, minute), clearing |-> SessionType(day, minute) = "clearing",
                 near |-> NearExpiry(day, RootFacts[r].active), series |-> series]
    OBVIOUS
  <2>4. desk[r].signals = UNION {Signal(case, h) : h \in Horizons}
    <3>1. desk[r] = DeepDive(r, overrides, day, minute, roots, flags)
      BY <1>5 DEF DeskInv
    <3> QED
      BY <1>2, <2>1, <2>2, <2>3, <3>1 DEF DeepDive
  <2>5. PICK h \in Horizons : s \in Signal(case, h)
    BY <1>5, <2>4
  <2>6. /\ series.active \in ContractsOf(r) /\ series.rollRisk \in BOOLEAN
        /\ series.toLastTrade \in Int /\ series.toExpiry \in Int /\ series.nextShare \in Int
    <3>1. CASE codes = {}
      <4>1. series = RootFacts[r].series
        BY <2>2, <3>1
      <4> QED
        BY <4>1, BundledAssumption
    <3>2. CASE codes # {}
      <4>1. series = Series(codes, today, roots[r])
        BY <2>2, <3>2
      <4>2. PICK front : front = FrontContract(codes, roots[r].active)
        OBVIOUS
      <4>3. codes \in SUBSET ContractsOf(r)
        BY <2>1, EligibleFacts
      <4>4. front \in codes
        BY <3>2, <4>2, <4>3, EarliestOf DEF FrontContract
      <4>5. Listing[front].last \in Nat /\ Listing[front].expiry \in Nat
        BY <4>3, <4>4, DeskAssumption DEF ContractsOf
      <4>6. PICK days \in Int, left \in Int : days = Listing[front].last - today /\ left = Listing[front].expiry - today
        BY <4>5
      <4>7. Max({0, left}) \in Int
        BY MaxOfNone
      <4>8. NextShare(days) \in Int
        <5>1. PICK rest \in Int : rest = (10 - days) * 9000
          BY SMT
        <5>2. Rounded(rest, 7) \in Int
          BY RoundedIs
        <5> QED
          BY <5>1, <5>2, SMT DEF NextShare
      <4>9. /\ series.active = front /\ series.toLastTrade = days /\ series.toExpiry = Max({0, left})
            /\ series.nextShare = NextShare(days)
        BY <4>1, <4>2, <4>6 DEF Series
      <4>10. series.rollRisk \in BOOLEAN
        BY <4>1 DEF Series
      <4> QED
        BY <4>3, <4>4, <4>6, <4>7, <4>8, <4>9, <4>10
    <3> QED
      BY <3>1, <3>2
  <2>7. Arguable(case)
    <3>1. /\ case.liquidity = RootFacts[r].liquidity /\ case.series = series
          /\ case.weekend = WeekendLinked(overrides, day, minute) /\ case.clearing = (SessionType(day, minute) = "clearing")
          /\ case.near = NearExpiry(day, RootFacts[r].active)
      BY <2>3
    <3>2. RootFacts[r].liquidity \in Nat
      BY BundledAssumption
    <3>3. WeekendLinked(overrides, day, minute) \in BOOLEAN /\ NearExpiry(day, RootFacts[r].active) \in BOOLEAN
      <4>1. Link(overrides, day).weekend \in BOOLEAN
        <5>1. Link(overrides, day) \in Links
          BY <1>1, TradingDayIs, DeskAssumption DEF Linked
        <5> QED
          BY <5>1 DEF Links
      <4> QED
        BY <4>1 DEF WeekendLinked, NearExpiry
    <3>4. case.weekend \in BOOLEAN /\ case.clearing \in BOOLEAN /\ case.near \in BOOLEAN
      BY <3>1, <3>3, Zenon
    <3> QED
      BY <2>6, <3>1, <3>2, <3>4 DEF Arguable
  <2>8. case.series = series
    BY <2>3
  <2> QED
    BY <2>5, <2>6, <2>7, <2>8, SignalIs
<1>6. Sure = 3500 .. 9500 /\ Ranks = 1 .. 99
  BY SMT DEF Sure, Ranks
<1> QED
  BY <1>1, <1>4, <1>5, <1>6, SMT DEF DeskTypeOK

-----------------------------------------------------------------------------
\* The desk's state is of the right types throughout: the day is one of the calendar, every series
\* names contracts of its root, and every signal is of the active one (DeepDive, Signal).
THEOREM DeskTypesHold == DeskSpec => []DeskTypeOK
BY DeskInductive, DeskTyped, PTL

\* Whatever the session at which it looks, a page never goes back to an earlier trading day while
\* the calendar of MOEX is in order and stays as it is (Link, TradingDay, SessionType).
THEOREM DaysGoForward == DeskSpec => TradingDayForward
<1>1. DeskInv /\ [DeskNext]_deskVars => GoesForward
  BY ForwardStep
<1>2. DeskSpec => [][GoesForward]_deskVars
  BY <1>1, DeskInductive, PTL DEF DeskSpec
<1> QED
  BY <1>2 DEF TradingDayForward, GoesForward

\* With the contracts' status and an orderly calendar left alone, a look that shows another active contract follows a page
\* that announced this roll, or one that told of the row lagging behind the series (RollEvent).
THEOREM RollsAnnounced == DeskSpec => RollAnnounced
<1>1. DeskInv /\ [DeskNext]_deskVars => Announces
  BY AnnouncesStep
<1>2. DeskSpec => [][Announces]_deskVars
  BY <1>1, DeskInductive, PTL DEF DeskSpec
<1> QED
  BY <1>2 DEF RollAnnounced, Announces

\* What a look shows of a root that has a contract to trade is what its rows say, though the
\* series is computed and the rows are kept (Series, RowOf).
THEOREM SeriesFollowRows == DeskSpec => SeriesAsRows
<1>1. DeskInv /\ [DeskNext]_deskVars => FollowsRows
  BY FollowsStep
<1>2. DeskSpec => [][FollowsRows]_deskVars
  BY <1>1, DeskInductive, PTL DEF DeskSpec
<1> QED
  BY <1>2 DEF SeriesAsRows, FollowsRows
=============================================================================
