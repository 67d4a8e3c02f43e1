# A verification development for nanolob

nanolob is a limit order book with a matching engine, a single-producer
single-consumer ring that feeds it, tools that replay a Binance capture through
it, and a market-making simulator on top. This directory holds TLA+ models of
its components, TLC configurations that check them on small instances, and
theorems about them checked by TLAPS.

`PROJECT.json` maps every definition to the source lines it stands for and lists
the runs, the mutants, the hazards and the theorems. Line numbers below are
those of the files under `src/`.

## 1. Inventory

| component | state | operations | interacts with |
|---|---|---|---|
| Matching engine, `engine.hpp` | order book, two pools, id map, self-trade policy | `add_limit`, `add_market`, `cancel`, `modify` | calls book, pools and id map; calls the handler back in the middle of a match |
| Order book, `book.hpp` | per side: best level, price map, ladder of levels, FIFO of orders per level | `get_or_create_level`, `push_order`, `remove_order`, `remove_level` | nodes come from and return to the pools |
| Pool, `pool.hpp` | slabs, free list, counts | `reserve`, `alloc`, `dealloc` | owned by the engine |
| Flat hash map, `flat_hash_map.hpp` | slots, used flags, size | `insert`, `find`, `erase`, `reserve`, rehash | id map, price maps, and the mirror's maps |
| SPSC ring, `spsc_ring.hpp` | two counters, a cached copy of each, slots | `try_push`, `try_pop`, `size_approx` | feed thread to engine thread |
| Feed messages, `feed.hpp` | none | `apply` | dispatches ring messages to the engine |
| Reference engine, `testing/reference_engine.hpp` | `std::map` of FIFOs per side, live map | the engine's calls | the oracle of the differential test |
| Book mirror, `replay/book_mirror.hpp` | one synthetic order per exchange level | `apply_snapshot`, `apply_diff` | drives the engine |
| Replay, `replay/replay_binance.cpp` | last update id, targets, validations | seeding, sequencing, comparison | drives the mirror |
| Parser, `replay/binance_parser.hpp` | none | a line to a record | feeds replay and simulator |
| Quote simulator, `strategy/quote_sim.hpp` | a virtual quote per side, fills | place, cancel, trade, level update, cross | reads the mirrored book |
| Strategies, `strategy/strategies.hpp` | variance estimate | quotes from the market state | asked by the simulator |
| Simulator, `strategy/mm_sim.cpp` | account, fills seen | one step per capture record | mirror, quote simulator, strategies |
| Benchmarks, `bench/` | workloads of messages, timings | `run_pipeline` (`bench_ring.cpp`) and loops over one structure | feed thread, ring, engine |

**What is hard.** The engine is single threaded, and still its hard states are
in the middle of a call. `match_incoming` runs two nested loops over intrusive
lists while it removes the nodes and the levels it stands on, and calls a
handler between a fill and the removal of the filled order. The same order is in
four structures (FIFO, ladder, price map, id map) and two pools, and a slip in
one shows many calls later. The listeners know the book only from events.
The hash map erases by shifting back entries of chains that may wrap around the
table. The ring is lock free, with relaxed loads of the own counter and stale
caches of the other. The mirror and the replay tool depend on the order of
records and updates that come from outside. The market-making simulator keeps
virtual orders whose place in a queue it can only estimate, and acts on an account
that lags behind its own fills.

**What makes each component correct.**

- *Engine*: it does, event for event, what the reference engine does; it never
  uses a freed node; its four structures describe the same orders; every call
  returns.
- *Reference engine*: both its views of the live orders agree; the book is never
  crossed; price-time priority is never disturbed; the events account for the
  book.
- *Hash map*: a map for its users, whatever the collisions; a probe always meets
  an unused slot.
- *Ring*: a bounded FIFO queue; conflicting accesses of a slot are ordered; what
  is pushed is delivered.
- *Mirror and replay*: after a diff the book equals the exchange's; the
  mirror never trades with itself on an uncrossed input; a passed validation
  means equal books.
- *Feed and pipeline*: with the ring between two threads the engine sees the calls
  it would see from one.
- *Simulator*: the position overshoots the cap by a known amount only; quotes are
  passive; the estimated queue ahead stays within its level and shrinks by no more
  than what left the level.

## 2. Modules

| module | what it is |
|---|---|
| `ReferenceEngine` | `testing/reference_engine.hpp`, and the abstract specification of the engine |
| `EventLedger` | a listener that keeps a ledger from the reference engine's events |
| `ReferenceEngineProofs` | theorems about both |
| `Pool` | `pool.hpp` as operators on a pool record |
| `MatchingEngine` | `engine.hpp` and `book.hpp` over two pools; refines `ReferenceEngine` |
| `MatchingEngineProofs` | theorems about it |
| `BookLemmas` | what they need of lists, ladders and the operations of the book |
| `AbstractMap`, `FlatHashMap` | a finite map; `flat_hash_map.hpp`, which refines it |
| `FlatHashMapProofs` | theorems about it |
| `BoundedQueue`, `SpscRing` | a bounded FIFO queue; `spsc_ring.hpp` under two threads, which refines it |
| `SpscRingSize` | `size_approx` called by a third thread |
| `DirectFeed` | `feed.hpp`: the engine called once for each message, in order |
| `Pipeline` | `bench_ring.cpp`: feed thread, ring and engine thread; refines `DirectFeed` |
| `SpscRingProofs` | theorems about the ring and the pipeline |
| `BookMirror` | `replay/book_mirror.hpp` over `ReferenceEngine` as its engine |
| `MirroredExchange` | the mirror and an exchange it follows without loss |
| `CaptureLine` | how `replay/binance_parser.hpp` reads a diff line, whole or half written |
| `Replay` | `replay/replay_binance.cpp` over the mirror, with an exchange whose diffs may be lost and a capture that may stop in a line |
| `BookMirrorProofs` | theorems about both |
| `QuoteSimulator` | `strategy/quote_sim.hpp` as operators on a quote |
| `MarketMaker` | `strategy/mm_sim.cpp` over the quote simulator, with `clamp` of `strategy/strategies.hpp` |
| `MarketMakerProofs` | theorems about it |
| `DataLemmas` | what the proofs need of recursion, linked lists, sums, sequences and pools |
| `MC*` | symmetry, views, books and workloads for the runs |

### ReferenceEngine

`book` is `bids_` and `asks_`, a FIFO for each side and price (empty where the
`std::map` has no entry), `live` is `live_`. `taker` holds the arguments and
locals of the call in progress and `pc` where it is. A call is cut at every
handler callback and every visit of a maker:

1. an entry action (`AddLimit`, `AddMarket`, `Cancel`, `Reduce`, `Replace`,
   `RejectNew`, `RejectUnknown`) has the guards and early returns of the call;
2. `Trade`, `RemoveFilled`, `StpCancelIncoming`, `StpCancelResting` are the turns
   of `match` (157-205). `on_trade` (190) runs before the filled maker goes
   (191-194), so there is a state between the two;
3. `FullyMatched`, `DropRemainder`, `Rest` are what the call does after `match`.

`EventLedger` runs it with a listener that sees calls and events only and keeps the
open quantity of every id; the run `reference` checks both modules.

`modify` is three actions, as in the code: to zero it is `Cancel`; to a smaller
quantity at the same price `Reduce`; otherwise `Replace`, which takes the order
out, matches, and rests what is left. `event` is what the step emitted.

### MatchingEngine

The heap is one record: the memories of the order and level nodes, the two
pools, `best_` and the price map of each side, and `orders_by_id_`. Pointers are
positions, 0 is `nullptr`, and the list operations are operators from heap to
heap, in the order of the code's assignments. `pc` distinguishes the heads of
the two nested loops, and `cursor` holds the pointers `lvl`, `maker` and `next`
that live from one turn to the next, so a stale one would be used as such. A
freed node is blank, as nothing may be assumed about it. Quantities of levels
are kept modulo `QtyMod` (2^64 in the code). The maps are functions here;
`FlatHashMap` shows that this is what the hash map offers.

`Reference` reads the pointer structures as FIFOs and `ImplementsReference` says
that every step is a step of the reference engine with the same event, or a
stutter (a turn of the inner loop). This is the claim of
`tests/test_differential.cpp`, for every sequence of calls of the instance.

### FlatHashMap

`slots` stands for `slots_` and `used_`. The mixer is a variable chosen in the
initial state and never changed: every function from keys to a set of hash
values, so every collision pattern is explored. A probe is a number of steps
from a key's home; erasure walks the chain with the code's cyclic comparison
(86). The smallest table has 16 slots in the code and `MinCapacity` here.

### SpscRing

Each of `try_push` and `try_pop` is cut into the test against the cached counter,
the acquire load that refreshes the cache, the access to the slot and the
release store. A store becomes visible to the other thread later
(`visibleHead`, `visibleTail`); an acquire load takes the visible value and
synchronises with its store (`acquiredHead`, `acquiredTail`). Counters are exact
and compared modulo `WordMod`, as the code compares 64-bit words. The threads are
those of `tests/test_spsc_ring.cpp:40-68`: the producer spins on `try_push` of
0, 1, 2, ..., the consumer on `try_pop` until it has them all.

### DirectFeed and Pipeline

`DirectFeed` is `apply` over `MatchingEngine`: a message becomes one call. `Pipeline`
runs the ring's two threads with the engine behind the consumer: the engine thread
pops only when the last call has returned (`PopNext`), calls the engine for the
message it popped (`ApplyPopped`) and runs the call to its end, while the feed thread
and the stores go on. The ring carries the index of a message, so that `SpscRing`
is used as it is. `SameAsDirectFeed` says that, seen from the engine, this is
`DirectFeed`; with `ImplementsReference` of the engine it leads from the ring to the
reference engine.

### BookMirror, MirroredExchange and Replay

`BookMirror` instantiates `ReferenceEngine` with one participant and no self-trade
prevention (replay_binance.cpp:59). The code takes order ids from a counter and
compares them only; a level gets a new one only after the mirror forgot the last.
So the id of a level is named after the level, and `tracked` is the set of levels
in `bid_ids_` and `ask_ids_`. A call walks over its updates (`todo`), decides for
each whether it is its turn (`IsDue`, with the state of that moment) and enters
`apply_level`, whose four outcomes are `NothingToDo`, `AddLevel`, `RemoveLevel` and
`SetLevel`; then the engine runs step by step.

`MirroredExchange` adds an exchange (external) that moves from any uncrossed book
to any other and lists the levels that differ and any others, in any order.

`Replay` is the record loop of `run()`. The exchange gives each change of one level
an id; a diff covers the ids of a window and reports the quantities at its end,
and may be lost; a snapshot may land anywhere among the diffs, so the seed may be
older or newer than the diffs around it and may fall inside one. Snapshots may repeat an
id, since the recorder fetches them by the clock: `Emplaced` is `targets.emplace` (203), which
keeps the first of them, so that a repetition changes nothing, before or after the target
or the seed of that id is done with. The file is
complete before it is read, so the exchange rests while a record is processed.
`Seed`, `IgnoreDiff`, `SkipDiff` and `ApplyNextDiff` are what the loop does with a
record, `Validate` is the walk over the targets (235-246). A diff enters the file as a
line of tokens; `CaptureLine` has the parser's searches over them (`Find`,
`FindNumber`, `ParseLevels`, `ParseDiff`). `StopInLine` ends the capture anywhere in a
line, between two tokens or inside one; the line is then refused, or accepted
with some of its asks (`cutOff` holds the levels it lost). Two ghosts state the
properties: `asOf`, the exchange's book at `last_u`, and `missed`, the ids that
never reached the mirror.

### QuoteSimulator and MarketMaker

`QuoteSimulator` has one operator for each step of a virtual quote: `Place`,
`OnLevelUpdate` (the share of a shrinking level that goes from ahead of us), `Consume`
(what a trade print does, with `IsThrough`, `AfterPrint`, `FillQty` and `EmitFill` as
its branches). `queue_ahead` is a double in the code and counts `Grain` parts of a lot
here; the remainder of a division stays ahead of us.

`MarketMaker` is the loop over records (140-213). A trade is one action (`OnTrade`); a
diff is `OnDiff`, then `UpdateQuotes` (level updates and crosses, 162-168), `Requote`
or `NoRequote` (173-189), then `BookFills` (191-200). A diff that leaves a side empty
ends after `OnDiff`, as in the code (156). `Clamp` is the code's. The formulas of the
strategies are replaced by any pair of raw prices, so what is shown holds for each of
them, and `vol` keeps of the variance estimate whether it is ready. The book after a
diff is any uncrossed book: the simulator makes no check that a diff fits, and the
engine below cannot hold another one. Of the fills behind `fills_seen` only the lots
bought and sold are kept (`unbooked`).

## 3. What is checked

| run | instance | states | shows |
|---|---|---|---|
| `reference` | 3 ids, 2 participants, 2 prices, quantities 0-2, all policies, no symmetry | 262 000 | `LiveRefsResolve`, `NotCrossed`, `EmptyOrderIsFilledMaker`, `PriorityKept`, `EventsAccountForBook`, `CallReturns` |
| `engine_lists` | 3 ids, 1 participant, 3 prices, no self-trade prevention | 302 000 | `FifoIntact`, `LadderIntact`, `NoLeak` |
| `engine_refines` | 3 ids, 2 participants, 2 prices, both prevention policies | 241 000 | `NoUseAfterFree`, `ImplementsReference`, `TurnsAreProgress` |
| `hash_map` | 4 keys, 2 values, 5 hash values, tables of 4 and 8 | 9 700 | `ChainsUnbroken`, `LoadAtMostHalf`, `ImplementsMap` |
| `pipeline` | 4 slots, words modulo 8, 3 workloads of 10 messages | 32 000 | `NoDataRace`, `StaleCacheIsSafe`, `ImplementsQueue`, `AllDelivered`, `SameAsDirectFeed`, `AllApplied` |
| `ring_size` | 2 slots, 3 values | stops at the violation | `SizeIsLowerBound` is violated |
| `mirror` | 2 prices, quantities 0-2 | 34 000 | `MirrorEqualsExchange`, `NoSelfMatch`, `TrackedIsLive` |
| `replay` | 2 prices, quantities 0-1, 4 ids, 2 of them with snapshots, each any number of times, loss, a half-written last line | 1 570 000 | `GapFreeMirrors`, `CutLosesAsksOnly`, `GapsAreLosses`, `PhantomMeansGap`, `GapFreeValidates`, `SnapshotsAccountedFor` |
| `replay_phantom` | 2 ids, snapshots at one, loss | stops at the violation | `NoPhantomMatch` is violated |
| `replay_truncated` | 3 prices, 1 id, snapshots of one level a side, no loss | stops at the violation | `TruncatedSideFails` is violated |
| `market_maker` | 3 prices, quantities 0-2, quotes of 2 lots, a cap of 2 lots, halves of lots in the queue | 315 000 | `ExposureBounded`, `QuotesPassive`, `QueueWithinLevel`, `QueueFallsWithLevel` |
| `market_maker_cap` | 2 prices, quantities 0-1, the same quotes and cap | stops at the violation | `InventoryWithinCap` is violated |

Every property of a passing run has a mutant in `PROJECT.json`: a plausible slip
in one operator (a reduction that also allows growth, a maker that is not
advanced past, an order count replaced by a wrapped total, ...) under which TLC
finds the property violated.

**Why the bounds suffice.** *Three ids*: a taker with two makers gives a queue
with an order behind, a sweep over two levels, and a maker that survives; a
cancel in the front, the middle (with three resting) or at the back of a queue;
ids come back after they died. *Three prices* in `engine_lists` make a level
appear and vanish at the best, the middle and the worst position of a ladder.
*Quantities 0, 1, 2* with `QtyMod = 3` make partial, exact and over-full fills,
the zero checks, and a level whose total wraps to zero with orders in it. *Slabs
of one object* make the pools grow while the book is in use. *Five homes* in
tables of 4 and 8 slots give chains that collide at the start, in the middle and
around the end. *A ring* of four slots whose word wraps after eight is full, empty
and past the wrap on the way of ten messages. The *workloads* (`MCPipeline`) rest,
queue, sweep, shrink, grow, replace, cancel and refuse orders, and use ids again.

*Two prices* in `mirror` let a window carry a bid over the old ask, and *three
quantities* let a level appear, shrink, grow and vanish in it; each window is
checked from every uncrossed book in every listing order. *Four ids* in `replay`
give up to four diffs, or fewer with a snapshot inside one; snapshots at *two ids* are a
seed and a target. A line lists up to two bids and two asks, so a *half-written* one
is cut before, between and behind the levels of each side.

In `market_maker` quotes of two lots are filled in part, the cap of one quote is
reached and passed, and three prices let the touch move through a quote, a side
empty under it, and two quotes stand next to each other. The state is finite without
any bound on counters, since the position itself is bounded. *Halves of lots* make
pro-rata shares that do not divide.

`MCMatchingEngine` uses a view that leaves `event` out (no step reads it), so
states that differ only in the last event are explored once; transitions are
still checked with the event they emit. Symmetry is used over ids and
participants (and keys and values), which no definition orders; runs of liveness
properties use none.

**Fairness.** Calls: weak fairness on `Continue`, the steps of a call in
progress. The engine is single threaded and its caller waits for the call, so
nothing else can run until it returns. There is no fairness on `Enter`: nobody
has to call. Ring and pipeline: weak fairness on each thread and on the visibility of stores.
Both threads spin until everything is through, the operating system schedules
them, and C++ asks that a store becomes visible in finite time. `MatchingEngine`
itself has no fairness: `TurnsAreProgress` says that each turn of its loops makes a
rank of the call smaller, which is why calls return, and `AllApplied` checks in the
pipeline that they do.

**Deadlock** is checked in every run. The engine can always accept a call and the
exchange can always change. The joined threads of the pipeline and the end of a capture stutter in an
explicit action; the simulator may always read another record.

## 4. What is proved

`ReferenceEngineProofs` proves, for all sets of ids, participants, integer
prices, natural quantities and policies (the assumptions named in
`ReferenceEngine`):

- `TypeCorrect`: `Spec => []TypeOK`;
- `LiveRefsAlwaysResolve`: `Spec => []LiveRefsResolve`;
- `NeverCrossed`: `Spec => []NotCrossed`;
- `PriorityAlwaysKept`: `Spec => PriorityKept`;
- `EmptyOrderIsAlwaysFilledMaker`: `Spec => []EmptyOrderIsFilledMaker`.

`TypeOK` is inductive. For the others the inductive invariant is

    IInv == TypeOK /\ Filed /\ TakerIdFree /\ NotCrossed

`Filed` is `LiveRefsResolve` in two directions: an order in a FIFO is filed by
its id under exactly that side and price, once, and a live id has such an order.
It needs `TakerIdFree`: the id of a call in progress is not live, or `Rest` would
file it twice. That holds because `validate_new` refuses live ids and `modify`
takes its order out first. `NotCrossed` survives every removal (fewer levels)
and survives `Rest` because the loop ends only when nothing on the other side is
in reach, which uses the totality of the order on prices. `PriorityKept` follows
step by step from `Filed`: an order's id is in the queue once, so the removal of
one, the change of one's quantity and the arrival of one at the back each keep
everybody else's order.

`EmptyOrderIsFilledMaker` is inductive over `TypeOK`: a trade empties the front of the
best facing level or nothing, that level is one level, and every other step finds and
leaves open orders only.

The same module proves `EventsAlwaysAccountForBook`: `LedgerSpec =>
[]EventsAccountForBook`, with one more assumption, that `None` is none of the events. A
step of the listener is a step of the engine, so all of the above holds, and

    LedgerInv == ledger \in [OrderId -> Int] /\ OpenBooked /\ CallBooked /\ OthersZero

is inductive with it: the ledger is right for every resting order, for the call in
progress, and zero for everybody else. `TakerIdFree` keeps the first two apart (a trade
books two different ids), `EmptyOrderIsFilledMaker` lets a filled maker go without an
event, and that an id rests once lets a change of its entry concern one order only.

`MarketMakerProofs` proves, for all sets of prices, books, prints and raw prices, every
quote size, cap and grain: `MakerTypeCorrect` (`TypeOK`), `ExposureAlwaysBounded`,
`QuotesAlwaysPassive`, `QueueAlwaysWithinLevel` and `QueueAlwaysFallsWithLevel`. The
inductive invariant is the conjunction of

- `TypeOK`, `QuotesNeedSeed`;
- `LoadWithinSize`: on either side the lots that wait to be booked are at most one quote,
  and together with the open quote at most one until a requoting places the next;
- `ExposureBounded`, which a requoting preserves because `Clamp` asks for a booked
  inventory below the cap, so that with `LoadWithinSize` the worst case is
  `Cap - 1 + 2 * Size`;
- `PassiveFromPlacing`, `QueuesWithinSeen`, `SeenWithinDepth`: what the two properties
  about quotes say, extended to the phases of a diff in which they hold.

The arithmetic of the pro-rata share (a product divided and rounded up) is in lemmas of
its own.

`SpscRingProofs` proves, for every capacity, every word size that is a multiple of it and
every number of items, of the ring without its fairness (`RingSafety`):
`RingTypeCorrect`, `RingHasNoDataRace`, `RingStaleCacheIsSafe` and `RingImplementsQueue` (the
refinement of `BoundedQueue`). The inductive invariant is

    IInv == /\ TypeOK /\ CountsInOrder /\ CachesAcquired /\ DoneAtEnd
            /\ NoDataRace /\ SlotsHold

`CountsInOrder` is a chain: what the producer acquired of the pops is at most what is
visible of them, at most the pops, at most what the consumer acquired of the pushes, and
so on to the pushes, and the whole chain is at most a capacity long. That makes
the comparison of wrapped words one of counters (`WordDistance`, `WordInjective`) and lets
two items in flight have two slots (`SlotsDistinct`). `CachesAcquired` says that the caches
are the words of what was acquired, so a stale cache errs on the safe side; `SlotsHold` says
what is in the slots between the counters.

Of the pipeline it proves `PipelineRunsRing` (`PipelineSpec => RingSafety`) and
`PipelineIsDirectFeed` (`PipelineSpec => SameAsDirectFeed`) for every engine instance and set
of workloads, from the ring's invariant and that the consumer received the first
messages in their order and the engine applied no more than were received.

`BookMirrorProofs` proves, for every finite set of integer prices and all sets of natural
quantities with zero, of the mirror and an exchange it follows: `MirrorFollowsExchange`
(`MirroredSpec => []MirrorEqualsExchange`), `MirrorNeverMatches` (`NoSelfMatch`) and
`TrackedStaysLive` (`TrackedIsLive`). The inductive invariant (`MirroredInv`) is that the mirror
follows a book `g` (`Follows(g)`), here the exchange's. That means that every level is empty or one
order that carries its id (`OneOrderPerLevel`, so that the depth of a level is the quantity of
that order) and a call in progress is such an order on its way (`CallInProgress`). It also says

- which levels may still differ from those of `g` (`Pending`): those the record names
  until the first pass is over, afterwards those still to be visited and the one in flight;
- that a level above that of `g` exists only in the first pass, and is still to be
  visited there. So when the second pass adds, no level of the mirror is above an
  uncrossed book, no order can cross one, and what is left of the engine is `Rest`.

`ListingTells` shows that a record names what it should: an injection of a finite interval
into a set of as many elements is onto. `TotalOfNone` and `TotalOfOne` unfold the fold of
`depth_at` where it has at most one order.

Of the replay the same module proves, for every finite set of integer prices, all bounds and
all depths, with and without loss:

- `GapsAreExact` (`Spec => []GapsAreLosses`), `SnapshotsAreCounted`
  (`SnapshotsAccountedFor`) and `BidsAreNotCut` (`CutLosesAsksOnly`);
- `PhantomsComeFromGaps` (`PhantomMeansGap`) and `ReplayTypeCorrect` (`TypeOK`);
- `MirrorsWithoutGap` (`GapFreeMirrors`) and `ValidatesWithoutGap` (`GapFreeValidates`), for a
  seed that carries the whole book (`SeedIsWhole`: snapshots have as many levels a side as
  there are prices).

The assumptions are those of `BookMirror`, that depths are numbers and the compared one is not
zero, and that the value for `std::nullopt` is none of the values it stands in for.
`SeedIsWhole` cannot be spared: with snapshots of one level a side of three prices TLC
refutes both properties in a capture that loses nothing. Of levels outside the seed the
mirror knows nothing until a diff touches them, and they may rise into the compared depth.
The recorder asks for 1000 levels a side (`download_binance.py:108`) and the tool compares the 400
best, so what the two theorems leave open is a replay in which the touch moves by hundreds of
levels. The instance of `replay` has whole seeds.

What the sequence check counts is proved from an invariant that says nothing of the mirror,

    IInv == CaptureInv /\ SequenceInv /\ AccountInv /\ CutLosesAsksOnly

`CaptureInv` says that the diffs to be read are windows of the stream in its order,
none overlapping the next or the window being collected. `SequenceInv` says that every
id between the last applied one and the current window is missed or still to be read, and
never both: then a diff that starts above the next id has skipped a missed one, and a diff
that starts at it, or overlaps the seed, has not. `AccountInv` counts the ids of snapshots; a
validation splits the reached ones into three disjoint sets. `BidsAreNotCut` goes
through the tokens of a line: `FindsFirst` gives the bids of a half-written line whose
key for asks was reached, and `FindsNone` refuses every other one (`ParseOfCut`).

What the mirror does is proved from two invariants on top of it (`ReplayInductive`):

- `PastInv`: there is one past, a book of the exchange for every id up to now, of which every
  record is a part. A diff to be read reports, with what was cut off it, every level that
  changes in its window, with the quantity at the window's end (`WirePast`); a snapshot is the
  book at its id, and `asOf` the book at `last_u` (`ReadPast`). The past is not a variable of
  the model but what an existential quantifier binds; a step of the exchange extends it.
- `FollowInv`: until the mirror trades it follows some book `g`, which without a gap
  shows at each level what `asOf` does, or nothing where the seed did not reach, but for
  the levels a cut line has lost. A diff without a gap leads from one such book to the next,
  also the one that straddles the seed: what it repeats of the past ends at the same
  quantities. So the lemmas of the mirror behind an exchange apply with this `g`,
  and no order of the mirror crosses. Behind a gap, or a cut line, `g` may be crossed, and of
  a mirror that has traded `FollowInv` says nothing.

`ReplayTypes` goes on where `FollowInv` ends, in books in which the mirror's orders trade with
each other and ids are left that were matched away: the engine keeps its types by
`TypeInductive` of `ReferenceEngineProofs`, under an instance with the mirror's levels as ids.

`MatchingEngineProofs` proves, for all sets of ids, participants and prices, every word size,
both slab sizes and any number of reserved nodes, of every state of the engine, those in
the middle of a call included: `TypeCorrect` (`Spec => []TypeOK`), `FifosStayIntact`
(`FifoIntact`), `LaddersStayIntact` (`LadderIntact`), `NothingLeaks` (`NoLeak`) and
`PointersStayLive` (`NoUseAfterFree`). The inductive invariant is

    IInv == EngineOK /\ CallOK /\ CursorOK

`EngineOK` says that there are two sequences of levels and a sequence of orders for each of
them of which the heap is the picture. The properties read the lists off the heap by
following `next` and `worse`; whether that ends is what has to be shown, so the invariant
cannot be stated with it. It names the sequences instead:

- `LadderOK`: a side's levels are a doubly linked list from `best_`, strictly from best to
  worst, and the price map holds exactly them;
- `FifoOK`: a level's orders are a doubly linked list from `front` to `back`, each with its
  level, side and price; the count is their number and the total their sum modulo the word;
- `LaddersOK`, `QueuesOK`: the two ladders share no level; the nodes in use are those on the
  lists, and the free ones are blank, so every pointer into a list comes from the list;
- `NoneEmpty`: a level on a ladder has an order (the count decides when it goes; a total may
  wrap to zero);
- `IdsOK`: the id map and the resting orders find each other.

Each operation of the code is then one operation on sequences (`BookUnlinked`, `BookFreed`,
`BookPushed`, `BookTaken`, `BookLevelLinked`, `BookLevelRemoved`, `BookRequantified`): an
element is removed from, put into or appended to one sequence, and the assignments to the
pointers are shown to do that (`ListWithout`, `ListWith`). Between the two halves of an operation
the book has a spare order (`spare`): one that is in use and on no list. `GetOrCreateLevel`
makes a level that is empty until the order is pushed, which is why `NoneEmpty` is no part of
`Book`. `CallOK` says that the id of the call in progress finds nothing, so `Rest` files it
once; `CursorOK` that at a maker the cursor stands at the front of the best level facing the
taker. That survives the handler because nothing is freed before it, and the removal because
`next` was read before it.

The same module proves `EngineImplementsReference` (`Spec => ImplementsReference`):
the engine is the reference engine, event for event, after every sequence of calls and in the
middle of each of them. The map reads the heap, and each operation is read twice, once
on the heap and once on the book of the reference engine:

- `QueueRead`, `LiveRead`: the FIFO of a side and price is the sequence of the level there,
  or empty where there is no level; an id is live exactly where the id map leads;
- `RemovedRead`, `ResizedRead`, `RestedRead`: removing an order, changing its quantity and
  pushing one onto its level, found or made, changes this one FIFO as `RemoveAt`, an update
  and `Append` change it there, and `live_` with it;
- `BestRead`, `FrontRead`: `best_` is the best price of the reference's book, and the cursor's
  maker the order it would look at.

Two facts about the loops are needed that no property of the engine alone needs, and they are
inductive with `IInv` (`LoopOK == CrossOK /\ SpentOK`): between two makers of one level the
price still crosses, which the engine tests at the level only and the reference at every
maker; and an order without quantity is the maker that was just filled. `EnterLevel` and
`LeaveLevel` are stutters, each other action is the action of the same name.

`EveryTurnIsProgress` (`Spec => TurnsAreProgress`) is the measure behind termination: as
long as a call matches, each of its turns makes `Work` smaller. A trade fills at least one lot,
because of `SpentOK`; a removal leaves one order less of finitely many (`RestingFinite`: the
nodes in use are positions of a memory); and a turn of the outer loop is followed by one of the
inner. That turns are taken at all is fairness, and that is TLC's.

`FlatHashMapProofs` proves, for every mixer, all sets of keys and values and every smallest
capacity from two: `TableTypeCorrect` (`TypeOK`), `ChainsNeverBreak` (`ChainsUnbroken`),
`LoadNeverAboveHalf` (`LoadAtMostHalf`) and `TableIsMap` (`Spec => ImplementsMap`). The inductive
invariant is that entries have different keys, chains are unbroken, and the count is right and
at most half the capacity. The load leaves an unused slot, and there the circle is cut
(`ChainsOnLine`): on the line behind it the cyclic comparison of `erase` (86) is one of positions,
and a chain that wraps around the table is a chain like any other. `Shifting` is the
invariant of the loop of `erase`: only an entry ahead of the slot the loop has reached may have
the hole in its chain. A rehash puts the used slots into a fresh table one by
one, and the proof goes along with it.

**Induction.** The library's induction theorems take an operator as a parameter, which the
installed provers cannot instantiate. `DataLemmas` goes another way: a set of natural numbers that
is not empty has a least element (`LeastElement`, from the well-foundedness of `<`), and a set that
holds zero and every successor holds all numbers (`UpTo`); a claim about all numbers is one about the
set of those it holds for. From it follow that recursions on an interval
(`RecursionOnInterval`) and along chains of pointers that fall in some rank
(`RecursionAlongChains`) define what they say. The latter is what the recursive functions of
`MatchingEngine` that follow pointers need: no node outside the lists can start a cycle, since
free nodes are blank. So what these functions compute on a list is proved too (`LadderRead`,
`FifoRead`, `SumRead`, `LastBetterRead`).

Every invariant and every step property of a passing run is stated by a theorem. Only
model-checked is liveness (`CallReturns`, `AllDelivered`, `AllApplied`) and what needs ENABLED,
which are outside what the prover reaches.

## 5. Findings

- `spsc_ring.hpp:62` calls `size_approx` "exact for the consumer, a lower bound
  elsewhere". From a third thread it is not a lower bound. The two loads can be
  apart by any number of pushes and pops; with `tail_` loaded first the
  difference even wraps below zero and the result is almost 2^64. Run
  `ring_size`.

- `book_mirror.hpp:16-18` says that a trade while mirroring means that "the input
  itself was crossed". `replay_binance.cpp:68-82` counts a gap and applies the diff
  all the same, so one lost diff between uncrossed books is enough for the mirror
  to trade with itself. Run `replay_phantom`. (Without a gap it cannot:
  `PhantomMeansGap` and, in `mirror`, `NoSelfMatch`, both proved.)
- `replay_binance.cpp:134-136` says that "a truncated `ours` at the touch is itself a
  failure". The comparison is as deep as the shorter list (137) and asks for one
  compared level on the two sides together (109): an empty side passes. Run
  `replay_truncated`.

- `strategies.hpp:66-67` says that `clamp` will "never quote a side that would push
  inventory past the cap". It quotes a whole `p.size` as long as the inventory is
  below the cap (75-76), and that inventory lacks the fills since the last booking,
  which comes after the requoting (`mm_sim.cpp:173-174`, 191-200). Run
  `market_maker_cap`. How far it can go is `ExposureBounded`, proved: with every open
  quote filled, `Cap - 1 + 2 * Size`.

Seen while modelling, without a run of its own: the number reported as "level
updates -> engine" (`replay_binance.cpp:259`) counts each reduction and removal of a
diff twice, since pass 2 visits again what pass 1 applied; and the top levels are
not "a region diffs always keep current" (87-88) once levels that were outside
the seed rise into it.

Two snapshots with one `lastUpdateId`, fetched while the book rested, become one target
(`targets.emplace`, `replay_binance.cpp:203`), or none when the id is that of the seed (219). The
second is counted among the snapshots of the file (186), but neither compared nor among the
unreachable ones, which are "counted and reported rather than silently skipped"
(240-241). `SnapshotsAccountedFor` therefore speaks of ids and not of records: with
repetitions in the capture, each id still ends as the seed's or in exactly one counter.

In the simulator: `Fill` records "mid immediately before the fill"
(`quote_sim.hpp:39`), but `on_cross` is given the mid after the diff (`mm_sim.cpp:168`); a
print that leaves less than a lot for us after a fractional queue emits a fill of zero
lots, which counts as a fill (`quote_sim.hpp:127-132`); the last report takes inventory and
profit from the last booking and the number of fills from the simulator, so fills
behind the last two-sided diff are in one and not in the other (`mm_sim.cpp:216-223`);
diffs older than the seed are applied (149-151), while `README.md:179-181` requires the
sequence.

In the parser, `binance_parser.hpp:128-130` says that a half-written last line is
refused. A diff line cut off between two asks is accepted with the asks before the
cut (103-124); the bids are safe, since the asks are searched behind them
(`CutLosesAsksOnly`). The properties of `replay` therefore take the levels of such a
cut out. They must: without that exception TLC finds, in a capture from which no diff
is missing and in which no gap is counted, a validation that fails
(`GapFreeValidates`) and a mirror that trades with itself (`PhantomMeansGap`).

## 6. Not modelled

- The C++ memory model beyond release and acquire on the two counters; the
  false-sharing layout; allocation failure.
- Counters that are only reported (`levels_applied_`, diffs applied and skipped).
- Book queries that change nothing (`depth_at`, `open_qty`, `best_bid`, ...).
- Handlers that call back into the engine: no handler in the repository does.
- The formulas of the strategies and of the variance estimate, cash, profit and
  the reports of the simulator: floating-point arithmetic that decides no control but
  what raw prices are, and any raw prices are allowed.
- Of the parser, the text of numbers (`parse_fixed`) and the lines of snapshots and
  trades, which reach `Replay` and `MarketMaker` as records. A snapshot line can be half
  written like a diff line; the replay models a half-written diff only.
- The prefill of `bm_ring_to_engine` (`bench_ring.cpp:57`): calls made before the feed thread
  exists. `Pipeline` starts its threads with an empty book.
- The generator of random workloads and the benchmarks of one structure: loops
  around what is modelled, for their timings. The scripts.

## 7. Plan

What further work would add: `parse_fixed`, the one part of the parser with a numeric edge
(digits beyond the scale, overflow), against a reference definition over short digit sequences.
