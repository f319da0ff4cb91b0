----------------------------- MODULE PriceFeeds -----------------------------
(***************************************************************************)
(* The composite price feed and the price cache.  The feed's task learns   *)
(* mints from an unbounded channel and, at every tick of its interval,     *)
(* asks fillcity for all of them and birdeye for those fillcity did not    *)
(* price.  Each source writes into a local broadcast channel, which is     *)
(* drained into the feed's own broadcast channel; the price cache reads    *)
(* that one in a task of its own.                                          *)
(*                                                                         *)
(* A price is represented by its mint: the properties are about which      *)
(* prices arrive.  A broadcast channel keeps the last `capacity` messages  *)
(* (rounded up to a power of two); a receiver that was overtaken gets one  *)
(* Lagged error.                                                           *)
(***************************************************************************)
EXTENDS Naturals, Sequences, FiniteSets, FiniteSetsExt, SequencesExt

CONSTANTS
    Mints,           \* the mints the updaters may register
    Usdc,            \* the mint fillcity always prices
    FillKnows,       \* the mints fillcity has a price for
    BirdKnows,       \* the mints birdeye has a price for
    SingleMode,      \* configuration.birdeye_single_mode
    SourceChunk,     \* mints per request (50)
    CompositeChunk,  \* mints per refresh_chunk (10,000)
    FeedCapacity,    \* capacity of the feed's channel (16,384)
    MaxRetry,        \* retries of a fillcity request (3)
    MaxFailures      \* bound: failed requests in a behaviour

VARIABLES
    admin,     \* mints in the admin channel
    mints,     \* mints the feed's task knows
    step,      \* where refresh stands
    rest,      \* mints of the refresh not yet in a composite chunk
    asked,     \* mints the current source was asked for
    ahead,     \* mints the current source has still to request
    errors,    \* error_count of the request's RetryCounter
    local,     \* messages in the local channel, not yet received
    feed,      \* messages in the feed's channel, not yet read by the cache
    reader,    \* the cache's task: "live", "lagged" or "stuck"
    cached,    \* mints with a price in latest_prices
    failures   \* failed requests so far

feedVars == <<admin, mints, step, rest, asked, ahead, errors, local>>
priceVars == <<feedVars, feed, reader, cached, failures>>

-----------------------------------------------------------------------------
(* Channels. *)

Pow2(n) == CHOOSE p \in {2^k : k \in 0..n} : p >= n /\ 2 * n > p

(* What a receiver still finds after the last messages were appended. *)
Latest(s, capacity) == IF Len(s) > capacity THEN SubSeq(s, Len(s) - capacity + 1, Len(s)) ELSE s

(* Variant of LocalCapacity: no room for the message beyond the mints. *)
LocalCapacityTight(S) == Pow2(Cardinality(S))

LocalCapacity(S) == Pow2(Cardinality(S) + 1)

(* The chunks an iteration over a hash set may begin with. *)
FirstChunks(S, size) ==
    {C \in SUBSET S : Cardinality(C) = (IF Cardinality(S) < size THEN Cardinality(S) ELSE size)}

-----------------------------------------------------------------------------
(* What a source answers for one request. *)

FillPrices(chunk) == SetToSeq(chunk \cap FillKnows) \o <<Usdc>>

BirdPrices(chunk) == SetToSeq(chunk \cap BirdKnows)

BirdChunk == IF SingleMode THEN 1 ELSE SourceChunk

(* RetryCounter.fail_or_ignore on an error: true to try again. *)
on_new_error(count) == count <= MaxRetry

-----------------------------------------------------------------------------
PriceInit ==
    /\ admin = {} /\ mints = {} /\ step = "idle" /\ rest = {} /\ asked = {} /\ ahead = {}
    /\ errors = 0 /\ local = <<>> /\ feed = <<>> /\ reader = "live" /\ cached = {} /\ failures = 0

(* An updater registers a mint. *)
Register(m) ==
    /\ m \notin admin \cup mints
    /\ admin' = admin \cup {m}
    /\ UNCHANGED <<mints, step, rest, asked, ahead, errors, local, feed, reader, cached, failures>>

(* The admin arm of the feed's select. *)
AddMint(m) ==
    /\ step = "idle" /\ m \in admin
    /\ admin' = admin \ {m}
    /\ mints' = mints \cup {m}
    /\ UNCHANGED <<step, rest, asked, ahead, errors, local, feed, reader, cached, failures>>

(* The interval arm: a refresh of every known mint begins. *)
RefreshTick ==
    /\ step = "idle" /\ mints # {}
    /\ step' = "chunk" /\ rest' = mints
    /\ UNCHANGED <<admin, mints, asked, ahead, errors, local, feed, reader, cached, failures>>

EndRefresh ==
    /\ step' = "idle" /\ rest' = {} /\ asked' = {} /\ ahead' = {} /\ errors' = 0 /\ local' = <<>>

(* The next composite chunk: a new local channel, and fillcity first. *)
RefreshChunk ==
    /\ step = "chunk"
    /\ \/ /\ rest = {}
          /\ EndRefresh
       \/ \E C \in FirstChunks(rest, CompositeChunk) :
            /\ rest # {}
            /\ rest' = rest \ C /\ asked' = C /\ ahead' = C
            /\ step' = "fillcity" /\ local' = <<>> /\ errors' = 0
    /\ UNCHANGED <<admin, mints, feed, reader, cached, failures>>

(* One request to fillcity; a chunk whose retries are used up counts as   *)
(* answered with nothing.                                                  *)
AskFillcity ==
    /\ step = "fillcity" /\ ahead # {}
    /\ \E C \in FirstChunks(ahead, SourceChunk) :
         \/ /\ ahead' = ahead \ C /\ errors' = 0
            /\ local' = local \o FillPrices(C)
            /\ UNCHANGED failures
         \/ /\ failures < MaxFailures /\ failures' = failures + 1
            /\ IF on_new_error(errors + 1) THEN errors' = errors + 1 /\ UNCHANGED ahead
               ELSE errors' = 0 /\ ahead' = ahead \ C
            /\ UNCHANGED local
    /\ UNCHANGED <<admin, mints, step, rest, asked, feed, reader, cached>>

(* One request to birdeye.  An unsent request is an error of the source in *)
(* multi mode, and a mint without a price in single mode; an HTTP error    *)
(* skips the chunk.                                                        *)
AskBirdeye ==
    /\ step = "birdeye" /\ ahead # {}
    /\ \E C \in FirstChunks(ahead, BirdChunk) :
         \/ /\ ahead' = ahead \ C /\ local' = local \o BirdPrices(C)
            /\ UNCHANGED <<step, asked, failures>>
         \/ /\ failures < MaxFailures /\ failures' = failures + 1
            /\ \/ /\ ahead' = ahead \ C
                  /\ UNCHANGED <<step, asked, local>>
               \/ /\ ~SingleMode
                  /\ step' = "chunk" /\ asked' = {} /\ ahead' = {} /\ local' = <<>>
    /\ UNCHANGED <<admin, mints, rest, errors, feed, reader, cached>>

(* handle_source_results, once the source is done: the local channel is    *)
(* drained message by message.  `asked` shrinks to the mints not handled.  *)
(* The receiver of an overrun channel gets Lagged, and `?` abandons the    *)
(* whole refresh.                                                          *)
SourceDone == step \in {"fillcity", "birdeye"} /\ ahead = {}

Overrun == step = "fillcity" /\ Len(local) > LocalCapacity(asked)

AbandonRefresh ==
    /\ SourceDone /\ Overrun
    /\ EndRefresh
    /\ UNCHANGED <<admin, mints, feed, reader, cached, failures>>

StartDrain ==
    /\ SourceDone /\ ~Overrun
    /\ step' = IF step = "fillcity" THEN "drain fillcity" ELSE "drain birdeye"
    /\ UNCHANGED <<admin, mints, rest, asked, ahead, errors, local, feed, reader, cached, failures>>

Forward ==
    /\ step \in {"drain fillcity", "drain birdeye"} /\ local # <<>>
    /\ feed' = Latest(Append(feed, Head(local)), FeedCapacity)
    /\ reader' = IF reader = "live" /\ Len(feed) = FeedCapacity THEN "lagged" ELSE reader
    /\ local' = Tail(local)
    /\ asked' = asked \ {Head(local)}
    /\ UNCHANGED <<admin, mints, step, rest, ahead, errors, cached, failures>>

(* Birdeye is asked for what fillcity left; then the next chunk follows.   *)
NextSource ==
    /\ step \in {"drain fillcity", "drain birdeye"} /\ local = <<>>
    /\ \/ /\ step = "drain fillcity" /\ asked # {}
          /\ step' = "birdeye" /\ ahead' = asked /\ UNCHANGED asked
       \/ /\ step = "drain birdeye" \/ asked = {}
          /\ step' = "chunk" /\ asked' = {} /\ UNCHANGED ahead
    /\ UNCHANGED <<admin, mints, rest, errors, local, feed, reader, cached, failures>>

(* The cache's select: `Ok(update) = receiver.recv()`.  A Lagged error     *)
(* does not match, so the select waits for its other arm, the exit.        *)
ReadPrice ==
    /\ reader = "live" /\ feed # <<>>
    /\ cached' = cached \cup {Head(feed)}
    /\ feed' = Tail(feed)
    /\ UNCHANGED <<feedVars, reader, failures>>

ReadLagged ==
    /\ reader = "lagged"
    /\ reader' = "stuck"
    /\ UNCHANGED <<feedVars, feed, cached, failures>>

FeedStep ==
    \/ \E m \in Mints : AddMint(m)
    \/ RefreshTick \/ RefreshChunk \/ AskFillcity \/ AskBirdeye
    \/ AbandonRefresh \/ StartDrain \/ Forward \/ NextSource

CacheStep == ReadPrice \/ ReadLagged

PriceNext == (\E m \in Mints : Register(m)) \/ FeedStep \/ CacheStep

(* The runtime keeps polling both tasks, the interval keeps ticking, and   *)
(* select takes its arms in random order, so that a queued mint is not     *)
(* passed over for ever.                                                   *)
PriceFairness ==
    /\ WF_priceVars(FeedStep)
    /\ WF_priceVars(CacheStep)
    /\ SF_priceVars(\E m \in Mints : AddMint(m))

PriceSpec == PriceInit /\ [][PriceNext]_priceVars /\ PriceFairness

-----------------------------------------------------------------------------
(* The sizes at which fillcity's answers (a price per mint and one for     *)
(* Usdc per request) do not fit the local channel.                         *)
TooMany(n) == n + (n + SourceChunk - 1) \div SourceChunk > Pow2(n + 1)

(* The price of every mint the feed was told of, and that some source has, *)
(* is in the cache sooner or later: through chunks, retries, the fall back *)
(* to birdeye and requests that fail a bounded number of times.  Two known *)
(* ways for it not to: the number of mints is one at which the local       *)
(* channel always overruns, or the cache's task was overtaken once by the  *)
(* feed and has stopped reading.                                           *)
PricesReachTheCache ==
    \A m \in (FillKnows \cup BirdKnows) \cap Mints :
        m \in mints ~> \/ m \in cached
                       \/ TooMany(Cardinality(mints) % CompositeChunk)
                       \/ reader # "live"
=============================================================================
