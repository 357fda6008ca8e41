# Verification of the frikkinwave backend

TLA+ models of the parts of this repository where several processes meet: the
transactional outbox, the Kafka consumer runtime, the copies that events keep up
to date (the social feed, the ratings, the search index), the request lifecycles
that overlapping web requests act on and what they disclose to whom, and the
slugs of bands and venues. The models are checked with TLC on small instances;
every safety property that the passing runs check is also proved with TLAPS, for
every size (two of them, of the outbox, for the one relay that is deployed).

## 1. The system

A Django backend (`apps/`), one app per bounded context. Web requests change
rows in Postgres and describe the change as an event in the outbox table. A
relay process hands the events to Kafka; one consumer process per app group
applies them. Postgres runs in autocommit mode (`config/settings`: no
`ATOMIC_REQUESTS`), so every statement outside an explicit `atomic()` block is a
transaction of its own.

| Component | State | Operations | Talks to |
|---|---|---|---|
| events: outbox | `OutboxEvent` rows; the relay's batch and producer queue | `publish`, `relay_pending`, `produce`, `purge_published`, `outbox_lag_snapshot` | every producing service; Kafka |
| events: consumer | committed offsets, group membership, message in flight | `run`, `_handle`, `_dead_letter`, SIGTERM | Kafka; the apps' handlers |
| social | `Follow`, `Activity`, `FeedEntry` | follow, unfollow, record activity; fan-out, backfill, prune | outbox, consumer |
| musicians | `MusicianProfile`, instruments, genres, rating rollup | create, update, set rating, list, search, coach | outbox; reviews; search |
| search | OpenSearch documents | index, remove, prune, rebuild command | consumer; musicians |
| reviews | `Review` | create (gated by engagements), recompute rating | engagements, musicians, outbox |
| engagements, connections, listings, bands | request rows with a status | send, accept, decline, complete | outbox |
| venues | venue rows with a slug | create, update, deactivate | - |
| notifications | none | render and send a mail, with or without an address | consumer |
| users | accounts, tokens, throttle counters | register, login, admin login throttle | every app, by `UserRef` |
| schema, views, settings, infra | none of their own | parsing, rendering, deployment | - |

What is hard here, and what makes each part correct:

- **Outbox.** The relay may die or lose its database connection at any point;
  `produce()` may time out with the message still queued; two relays may work
  at once; rows are purged. No event may be lost, no row may be marked published
  that the broker does not have, retries must respect budget and backoff, and no
  event may be forgotten.
- **Consumer.** Offsets are committed by hand after the handler; members crash,
  are evicted, are rolled out. Nothing may be skipped or overtaken in a
  partition, a rollout may repeat nothing, and no message may hold its partition.
- **Social.** Two tables are kept in step by events that arrive in any order and
  more than once, while requests change the follow graph. A drained feed should
  agree with the graph.
- **Musicians, reviews, search.** The rating and the index document are copies
  that several writers overwrite without versions. A profile is edited in up to
  six statements and the event carries what the request believes they left. The
  rebuild of the index reads rows that are edited, created and deleted before its
  writes and its prune. Search should answer what the rows would answer, and the
  prune should take nothing that lives.
- **Request lifecycles.** `accept`, `decline` and `complete` check a status they
  read without a lock, and save it later.
- **Disclosure.** Whether an address is shown is decided from a status in memory,
  read some time before the response or the mail goes out. Nobody may see an
  address whose owner has not accepted.
- **Slugs.** A free slug is looked for, then inserted; long ones are cut to make
  room for a number. A slug must lead to one place for good.

`PROJECT.json` lists every component with its status and every hazard at its
line.

## 2. Modules

| Module | Stands for |
|---|---|
| `Handoff` | the promise of the outbox: a recorded event has a durable row until the broker has it |
| `Outbox` | producers, relays, the producer client, the purge and the clock |
| `OutboxProofs` | the theorems about `Outbox`, and that it implements `Handoff` |
| `MCOutbox` | instances of `Outbox` for TLC |
| `AtLeastOnce` | the promise of a consumer group: it passes a message once that was settled |
| `Consumer` | one consumer group: `run()` of its workers and the group coordinator |
| `ConsumerProofs` | the theorems about `Consumer`, and that it implements `AtLeastOnce` |
| `MCConsumer` | its instance |
| `SocialFeed` | requests and event handlers of `apps/social` |
| `SocialFeedProofs` | the theorems about `SocialFeed` |
| `MCSocialFeed` | its instances |
| `Requests` | contact requests, applications, invitations, hires, reviews; listings and bands |
| `RequestsProofs` | the theorems about `Requests` |
| `MCRequests` | its instances |
| `Ratings` | the rating on a profile: reviews, consumers, backfill, profile edits |
| `RatingsProofs` | the theorems about `Ratings` |
| `MCRatings` | its instance |
| `Profiles` | the rows of a profile and the requests that create, edit and delete them, statement by statement |
| `SearchIndex` | `Profiles` composed with the indexing consumers, the rebuild and its prune, and the answers of a search |
| `SearchIndexProofs` | the theorems about `SearchIndex` |
| `MCSearchIndex` | its instance |
| `Disclosure` | `Requests` composed with lists, single reads, rosters, responses and mails |
| `DisclosureProofs` | the theorems about `Disclosure` |
| `MCDisclosure` | its instance |
| `Places` | creation, renaming, taking down and deletion of bands and venues, and their slugs |
| `PlacesProofs` | the theorems about `Places` |
| `MCPlaces` | its instance |

Operators introduced by a comment "Variant" state a plausible fault of the
definition that follows them. The specifications do not use them; each is there
to show that the properties notice the fault.

### Outbox

`outbox`, `attempts`, `wait`, `published` and `age` are the columns of
`OutboxEvent`; timestamps are kept relative to now (`wait` is `next_attempt_at -
now`, `age` is `now - published_at`), which makes the state space finite without
changing any comparison the code makes. `created` is the order of `created_at`.
`Recorded` is derived from `writer`, the progress of the request that publishes
the event: the domain row commits (`WriteDomain`), then the event row
(`Publish`), and the request may die in between (`WriterDies`).

A relay pass is four kinds of step, one per transaction or external call:
`Sweep` reads the due ids; for each id `Claim` locks the row or `Skip` passes it
over; `Produce`/`ProduceRaises` is the call of `produce()`; `MarkPublished` or
`RecordFailure` commits and releases the lock. `Produce` follows `kafka.py`: it
flushes the whole queue of the cached producer, so copies of earlier calls may
be acknowledged with it or make it fail. `stored`, `queued` and the rest are
the three fates of a copy; the call succeeds only if nothing is left and its own
copy was not rejected. `LateDelivery` and `LateDrop` are librdkafka's thread
working on what a timed-out flush left. `PassFails` is an exception that the loop
swallows, `Crash` a restart of the process.

`calls` counts the calls of `produce()`, a quantity of the model only.

### Consumer

`committed`, `members`, `owner` and `end` belong to the broker (modelled from
how `consumer.py` uses it); `pc`, `current`, `tries`, `stopping` are the locals
of `run()` and `_handle()`. `position` is what the client would return next; it
is set back to the committed offset by every rebalance. `completed` and `parked`
count the effects: handler calls that returned, and records in the dead-letter
topic. A handler may raise at any call; `Unhandleable` messages are malformed or
have no handler. `Evict` is the group going on without a worker that stays in a
handler too long; the worker does not notice before its commit is refused.

### SocialFeed

Outbox, relay and broker are abstracted to a set of messages handled in any
order, each handled again until it is acknowledged: keyless events on three
topics, with per-event retry delays, give no more than that. Handlers are split
where the code commits: `CreateActivity` (get_or_create), `ReadRecipients`,
`InsertEntries` (bulk_create), `ReadRecent`, `Prune`. `rows` is the Activity
table in `created_at` order, so that the backfill's newest `Limit` are defined.
A handler that keeps
failing is given up and its message `parked` in the dead-letter topic.
An Activity is stamped by the worker that inserts it, so it may come before rows of
other workers that are committed already (`Inserted`).

Workers overlap: the Deployment of the consumers sets no strategy, so a rollout
starts the new process before the old one ends, and `replicaCount` is open. Each
message is with one member of the group, but a worker that stays in a handler too
long is `evicted`: its message goes to another one while it still inserts, and its
commit is refused. `StartOver` is a handler that begins again, in the same process
after an exception, or in another one after a crash or a failed commit.

`applied`, `broken`, `interrupted` and `crossed` are history: the last request of an
edge whose event was applied, edges whose events were lost or applied out of order,
activities whose fan-out was aborted after its first step, and the entries that a
prune of their edge met between a worker's read and its insert: what a fan-out was
about to insert for the edge, and what the prune took from a backfill of the edge
that did not read it any more.

### Requests

The four apps share one shape: a service function reads a row, checks it, writes
in a second statement and publishes in a third, each a transaction of its own.
`call`, `pc` and `copy` are the locals of a web request; `Send...` and
`Resolve...` are its first part up to the last check, `InsertRequest`,
`SaveStatus`, `InsertReview` and `SavePlace` the writes, `Publish` the event,
`Die` the end of the process anywhere in between. The rows are `status` and, for
listings and bands, `open` (`is_active`). `Taken` and `Reviewed` are the unique
constraints; hires have none. A call whose check fails changes nothing, so the
checks are guards. Who may answer is `Answerer`: the queries filter by user.

A call is made once; a client that repeats a request makes another call.
`saved`, `published` and `dead` record what became of the calls. `contended`
holds the rows that were read for an answer while another call that had read
them was about to write: the case in which the code's check does not help.

### Ratings

A rating is the number of reviews it was computed from, which is all that the
order of recomputations depends on. `Aggregate` and `WriteRating` are the two
statements of `propagate_rating_to_profile`, run by consumers and by the
backfill. `Load` is the view's read of the profile and `Save` the whole-row
`save()`; an edit that names no column of the row, or fails, is `NoSave`. The
outbox, the relay and the broker are a set of messages, as in `SocialFeed`.
`cause` is history: what may have set a rating back (event `lost` or given up, `overlap` of
two recomputations, `edit` holding the row, profile `late`), since all reviews of
the user were last counted: writing a rating of all reviews clears it but for those
who hold an older rating at that moment. `calm` says that
nothing else was written since the backfill began.

### Profiles and SearchIndex

`content` is what the tables hold of a profile: a column holds the call that
wrote it, which is all that the order of writes depends on, and the two relations
are sets. `pc` is the next statement of a request: the row, `clear` and `fill` for
the instruments (`delete()`, `bulk_create()`), `look` and `set` for the genres
(`set()` reads and writes the difference), the payload, the event. `mem` is the
object that the request works on: the row as loaded with the columns it sets, and
in the end the payload, which mixes what the request believes with what it reads
again. Integrity errors and the death of the process both end a call with its
earlier statements in place (`Abandon`).

A document has no version; `doc` is replaced whole by whoever writes last.
`indexed_at` is only compared with the start of a rebuild, so it is represented
by `stale` (documents stamped before) and `tardy` (writers that hold such a
stamp). `Prepare` is `ensure_index()` and the stamp, `IndexProfile` the write. The
rebuild is `StartRebuild`, `QueryRows` (one result set, `snap`), `ReadBatch` (the
relations of the next rows, `batch`), `PrepareProfile` and `WriteProfile` per
profile, and, if nothing failed, `MatchStale` and `PruneDocument`, which
`delete_by_query` applies to documents that were not written since. `LoseCluster`
is a cluster that comes back empty; a write then makes the index with inferred
mappings. `SearchProfiles` is the query with its filter and the hydration from
the rows.

`excused`, `shared`, `calm`, `overtaken`, `pruned` and `slipped` are history: why a
document may be wrong, and what the rebuild met.

### Disclosure

The views of the four apps read rows in one step and respond in another; in
between the calls of `Requests` go on. `page` is what an evaluated query holds,
the response shows an address from the status that it holds. The response of a
POST shows the object that the service saved. Mails go out at any time after
their event is published, again after a crash, or never. `shown` collects who was
shown what; `None` is the public, which sees the members in a roster.

### Places

Bands and venues do the same in two tables, and a behaviour is about one. Slugs
are sequences, since the property is about how they are cut: `Candidate(n, k)` is
the slug with the number `k`, short enough for the column. `LookForSlug` is a turn
of the loop, `InsertPlace` and `InsertRefused` the INSERT under the unique
constraint, `Announce` the response and the event that carry the slug away.
`links` collects the slugs given out, `raced` the calls whose candidate was
inserted by another one after they had found it free.

## 3. Runs

| Run | Result | What it shows |
|---|---|---|
| `outbox_one_relay` | holds | types, budget and backoff at the moment of dispatch, exhausted rows stay, every recorded event settles |
| `outbox_two_relays` | holds | retry budget, durability, exclusive rows, no dispatch after publish, refinement of `Handoff` |
| `outbox_co_commit` | violated | a row without its event |
| `consumer_group` | holds | at-least-once, order, rollouts, monotone commits, progress, refinement of `AtLeastOnce` |
| `social_feed` | holds | with overlapping and evicted workers, feeds of edges whose events came in order are exact but for entries that crossed a prune |
| `social_feed_reordered` | violated | the feed disagrees with the graph after events overtook each other |
| `requests` | holds | answers stand, acceptances are announced, the review gate, no duplicates, nothing is reopened |
| `requests_answered_twice` | violated | an accept and a decline both succeed |
| `ratings` | holds | drained ratings are exact up to lost events and overlaps, which the backfill repairs |
| `search_index` | holds | search agrees with the rows, a calm rebuild repairs, the prune spares the living, mappings, named columns |
| `disclosure` | holds | addresses only after an acceptance and only to the parties; what was shown stays |
| `places` | holds | a slug leads to one place for good, only races are refused, every allocation ends |

Bounds. `MaxAttempts`, `Batch`, `RetryBase`, `RetryCap`, `Retention`, `Limit`
are parameters of the code with small values: three attempts so that the backoff
doubles, is capped and exhausts; a batch of one against a backlog of two so that
a pass leaves rows behind; a batch of two where two relays are to hold the same
ids. `MaxFaults` bounds crashes and aborted passes in a behaviour, `MaxStops`
SIGTERMs, `MaxRequests` the follow and unfollow requests of an edge, `Length`
the messages of a partition. One fault is enough for each to fall at every step;
three requests give follow, unfollow and follow again around a repeated or lost
event. Two events, relays, workers or activities are what the properties
compare. Failed, timed-out and late produces are not bounded except by the retry
budget. In the two-relay run events and relays are interchangeable, so symmetry
is used; no liveness is checked there. `social_feed` has two workers, the old and the
new one of a rollout, and two faults: an eviction, and one more of any kind while the
evicted worker is still at work. Workers are interchangeable, and so are the two
posts of the one author; a backfill limit of one makes it choose between them.
`outbox_one_relay` is the relay as deployed, which has the strategy `Recreate`.

`requests` makes five calls, which is what it takes to send, accept, complete
and review a hire with one call to spare, or to have two answers and a
completion overlap. Rows that share neither a unique key nor a listing or band
meet in no statement; `OneGroup` therefore limits a behaviour to the calls
around one of four groups: two applications of one user to a listing, an
invitation, a contact request, a hire. Calls are interchangeable.

`ratings` has one user: ratings of different users share only the order in
which a worker comes to them, and the workers take events in any order. Two
reviews, two workers and the backfill, two editors and two faults (a lost event
and a repeated handler) let an old aggregate meet a new one from every pair of
writers.

`search_index` has one profile: profiles meet only in the rebuild's `todo` and
`batch`, which treat each on its own (two profiles with one call each hold as
well, in a run too long to keep). Two calls over it overlap, follow each other,
or have their events change places; the three payloads touch columns only,
a column and a relation, a relation only. One fault of any kind falls at any step.

`disclosure` makes four calls around one request of each kind, for the asker,
the answerer and a stranger: send, accept, complete and one to overlap them.
One reader suffices since readers share nothing.

`places` has three names whose slugs meet: `a`, `a-2`, and one that is cut to `a-2`
when it is numbered, under a limit of three characters. Three calls need at most
three numbers; `MaxSuffix` 4 is never reached (`AllocationEnds` would fail).

The runs without deadlock checking are those of `SocialFeed`, `Requests`,
`Ratings`, `SearchIndex`, `Disclosure` and `Places`, where the system comes to rest
once the bounded requests are handled.

Fairness. `Outbox!FairSpec`: each relay keeps taking steps (the loop catches
every exception, and Kubernetes restarts the pod) and time passes. Nothing makes
a produce succeed. `Consumer!FairSpec`: each worker keeps taking steps and the
coordinator completes a rebalance that stays possible; handlers may raise every
time. `Places!FairSpec`: a request that was received is worked on. No strong
fairness is assumed, and none on arriving requests, SIGTERMs or faults.

### What the violated runs mean

1. `outbox_co_commit`: `publish()` says it must be called inside the producer's
   transaction, but its callers open none, so the row and the event commit
   separately.
2. `social_feed_reordered`: `backfill_feed` and `prune_feed` act on the event
   alone. If the two events of an edge change places, the last one wins over the
   graph.
3. `requests_answered_twice`: `_resolve()` checks a status it read without a lock
   and its save does not repeat the check: two answers that overlap both succeed,
   the asker may be told of an acceptance that the row no longer shows.
   `AnswerStands` says that this is the only way; a conditional UPDATE or
   `select_for_update()` would close it.

Three more limits are stated in the modules and have no run of their own, since
the passing runs show what is left when they are set aside:

- The claim of a row does not repeat the filter of the first query, so two relays
  can dispatch an event beyond `MAX_ATTEMPTS` or inside its backoff. `RetryBudget` of
  `Outbox` says how far: one dispatch more for each relay beyond the first.
  `DispatchedOnlyWhenDue` and `ExhaustedIsFinal` hold for the one relay that is
  deployed. With two, the second can publish a row that the first has given up.
- `fan_out_activity` returns early when the Activity exists, so a retry does not
  finish what the first attempt began (`FanOutIdempotent` of `SocialFeed`). The
  posts are `interrupted`, and the feed properties set them aside.
- A prune does not stop what was read before it: an unfollow and its prune fit
  between the fan-out's read of the followers and its insert, and the entry stays;
  a late prune takes from the backfill of the next follow what that has read too
  early. `OrderedEventsConverge` says that nothing but those entries (`crossed`) is
  wrong.
- `update_profile` saves every column, the rating too. `set_profile_rating` is a
  single UPDATE, but that protects only the edit, not the rating
  (`EditsKeepRatings` of `Ratings`). Two edits undo each other's columns the same
  way, which is the exception `shared` in `OnlyNamedColumns`.

The exceptions in `IndexConverges` are the limits of the index: it keeps what
arrives last, so events of one profile that change places, edits that overlap, a
rebuild that read before an edit and wrote after it, or a direct deletion leave it
wrong until the next rebuild.

## 4. Proofs

`OutboxProofs`, for all sets of events and relays, all budgets, batches, delays,
and any number of faults, from `OutboxConstants` alone:

- `TypeCorrect`: `Spec => []TypeOK`.
- `Durability`: `Spec => []DurableInv`. `DurableInv` joins `PublishedIsDelivered`,
  `NothingLost` and `RowExclusive`, which are not inductive separately, with
  what they rest on: an acknowledged row is on the broker (so that
  `MarkPublished` is safe), rows and queued copies come from `publish()`.
  `PublishedReachedBroker`, `NoEventLost`, `OneHolderPerRow` follow.
- `SingleHandOff`: no `produce()` for a published event, from `RowExclusive`.
- `Refinement`: every step of `Outbox` is a step of `Handoff` or changes nothing
  of it; `Produce` maps to `Deliver` of the copies the flush got through,
  `Purge` to `Discard`, which is where `PublishedIsDelivered` is needed.
- `RetryBudgetHolds`: `RetryBudget`, for any finite number of relays. `BudgetInv`
  counts, for every event, the attempts charged and the relays that have its id in
  their batch or its row in hand: together they stay within the budget, since an id
  is read while an attempt is left, and to record an outcome turns one of the
  relays into an attempt. Every dispatch is charged, about to be charged, or lost
  to a fault; `RowExclusive` lets one at a time be about to be charged.
- `Freshness`, with at most one relay (`OneRelayOnly`): `FreshInv`. What a pass read
  stays true until it is reached, since nobody else writes the rows.
  `OneRelayDispatchesDue` and `OneRelayExhaustedIsFinal` follow. Without
  `OneRelayOnly` they are false, see above.
- `HandoffKeepsPromise`: `NothingLost` of the abstract specification.

`ConsumerProofs`, for all workers, partitions, lengths, attempts, SIGTERMs and
faults, from `ConsumerConstants`. `SafetyInv` has three parts beside the types:

- `GroupInv`: only members own partitions, and a worker that polls is a member.
- `PaceInv`: the owner of a partition has at most one message of it in flight, the
  one at the committed offset; without one, it reads on from there. A worker that
  was evicted holds no later message than the group reads next. This is what the
  rewind at a rebalance and the commit of `offset + 1` have to keep up together.
- `SettledInv`: what is below the committed offset is settled, what waits for its
  commit is, and nothing past the next message is.

`NothingSkippedHolds`, `SettledInOrderHolds` and `CommitsGoForwardHolds` follow.
`RedoneOnlyAfterFaultHolds` counts: the effects of a message, and the workers that
are trying it and may still have one, are covered by the faults so far and by one
more, which the group spends by reading the message and keeps spent by committing
it (`RedoneInv`). The number of workers is not assumed to be finite; that finitely
many of them try a message is part of the invariant.

`Refinement`: every step of a group is a step of `AtLeastOnce` or changes nothing
of it. `arrived` is the end of a partition, `next` its committed offset, and a
message is settled when it was completed or parked. The first effect of a message
maps to `Settle`, an accepted commit to `Advance`; the second effect of a message
whose commit was lost is a stutter. `ArrivedInv` is needed beside `SafetyInv`: what a
worker holds has arrived. `DeliveryKeepsPromise` says that `AtLeastOnce` is strong
enough: what was passed is settled, and what is settled was passed or is next.

`TypeOK` of `Consumer` is proved and therefore not repeated in its run.

`RatingsProofs`, for all users, reviews, consumers, editors and faults:

- `TypeCorrect`.
- `RatingsConvergeHolds`: `RatingsConverge` speaks of a drained system; `WayInv` says
  how it gets there. As long as nothing is held against a user, edits hold the rating
  of the row, at most one process is about to write it, and unless an event is
  still owed, the row is right or a consumer is about to make it so. It has to be a
  consumer: the backfill can fail and is not repeated, a consumer that fails has
  its event again.
- `BackfillRepairsHolds`: while the backfill is undisturbed, every profile is still
  to do, being done, or right (`CalmInv`).

`SocialFeedProofs`, for all users, posts, requests, faults and any backfill limit:

- `TypeCorrect`, `NoPhantomEntriesHolds` and `AuthorsSeeTheirPostsHolds`, for any
  number of workers. What a worker has read and not yet inserted is part of the
  invariant each time: it entitles nobody who never followed (`PhantomInv`), and it
  holds the author's own entry (`AuthorsInv`).
- `OrderedEventsConvergeHolds`, for any number of workers and evictions. The last
  request of an edge was applied or its event is on its way and says what the Follow
  table says (`PendingInv`); what a fan-out or a backfill has read and still holds
  for an edge entitles the follower to it, unless a prune crossed it (`GotInv`,
  `BackInv`); once the last request was applied, the feed agrees with the edge but
  for what the workers are about to insert and what crossed (`AgreeInv`).

`RequestsProofs`, for all requests, users, places and calls, any assignment of
kinds and parties, from `RequestsConstants`:

- `TypeCorrect`: `Spec => []TypeOK`.
- `OneAnswer`: `Spec => []AnswerStands`. The property speaks of saved answers
  only, so `LifeInv` adds what the calls still on their way rely on: outside
  `contended`, at most one call is about to save a row, what it read is still
  there, and an answer that was saved is in the status. A second answer then
  fails its check.
- `ReviewsAreGated`: `Spec => []ReviewGate`. `GateInv` says how a status came
  about: an accepted row had a saved accept, a completed one a saved completion
  too, and a call about to write a completion or a review passed that point. It
  needs no proviso about overlaps.
- `TakenDownForGood`: `Spec => ClosedForGood`, from the fact that an open copy
  is held by edits alone, and edits do not name `is_active`.

- `DuplicatesRefused`: `NoDuplicates`. A row is never taken back, so an INSERT
  that finds its key free makes the only one (`UniqueInv`).
- `AskersAreTold`: `AskerIsTold`. An acceptance that was saved is about to be
  announced, was announced, or its call died; a decline never comes to the
  publication (`TellInv`). With `LifeInv`, the one notice is true.

`TypeOK` of `Requests` is proved and therefore not repeated in its run.

`DisclosureProofs`, for all requests, users, places, calls and viewers:

- `RunsRequests`: a behaviour of `Disclosure` is one of `Requests`, so its
  invariants carry over.
- `OnlyAfterAcceptance`: `RevealOnAccept`. A status that was read as revealing has
  a saved acceptance behind it, in the row (`GateInv`), in a page, in a reply and in
  an event; saved acceptances are never forgotten, however late the page or mail.
- `ShownForGood`: `WhatWasShownStays`. `LifeInv` says that outside `contended` an
  accepted row stays accepted or becomes completed.
- `DisclosureTypeCorrect`.

`PlacesProofs`, for all names, slugs, lengths and calls:

- `SlugsLeadToTheirPlaces`: `LinksStay`. A row keeps the slug that its call came
  to, a link carries that slug, and no two rows have the same.
- `OnlyRacesAreRefused`: `RefusedOnlyByRace`. A call about to insert a slug that is
  taken by now has been overtaken.
- `TypeCorrect`, which rests on the lemma that every numbered and cut candidate
  fits its column.

`SearchIndexProofs`, for all profiles, columns, requests, consumers, batch sizes
and faults, from `ProfilesConstants` and `SearchConstants`:

- `TypeCorrect`. `TypeOK` is not inductive: that a call whose event is outstanding
  is still known, that a consumer handles such an event, and that the rebuild has
  the row of every profile it has to write is `EventInv` and `SnapInv`.
- `MappingsAreOurs`: `MappedByUs`. Who is about to write has seen the index, so if
  it is missing now the cluster was lost in between (`WriteInv`).
- `PruneIsSafe`: `PruneSparesLiving`. After the query, a document of a living
  profile that is still stale is of one that the rebuild has yet to write, or was
  overtaken (`StaleInv`); the prune starts when nothing is left to write. A profile
  inserted after the query has no stale document, since nothing is indexed
  before the row exists (`RowInv`).
- `RebuildsRepair`: `RebuildRepairs`. While nobody else takes a step, what the
  rebuild has read is what the rows hold, what it wrote agrees with them, and all
  else is stale (`CalmInv`).
- `OnlyNamedChange`: `OnlyNamedColumns`. A request about to save a profile that
  nobody wrote since it was loaded holds every other column as it is
  (`HeldColumns`).

- `IndexConvergesHolds`: `IndexConverges`. `FollowsRow` says of every profile that is
  not excused how its document gets right: an active request holds the profile as it
  is but for what it has still to write (`Holds`, statement by statement); at most
  one event is outstanding and carries what the row holds, unless a request has
  written something newer that it will announce (`Written`); the rebuild holds the
  row as it is; and the document is right unless one of these is on its way. It
  rests on the order of the statements (`OrderInv`) and, for the profiles that a
  rebuild takes off the list, on nothing being under way while it is calm
  (`QuietInv`) and on `CalmInv`. The proof needs `Fields # {}`: a profile has columns,
  so a creation has a first statement before its relations.

Model-checked only: liveness (`EventSettles`, `PartitionAdvances`,
`AllocationEnds`). Liveness under fairness is out of the prover's reach; so is
the fact behind `AllocationEnds` that candidates with different numbers differ,
which needs an induction over their digits.

## 5. Not modelled

- Rendering, validation, pagination and authentication; the wording of mails and
  logs. Lists of profiles, venues, listings and posts show rows as they are and
  keep nothing.
- `coach_profile`: a scoring rule over one row that stores nothing.
- `remove_profile` and `delete_index`: nothing in the program publishes the one
  event or calls the other. An empty `OPENSEARCH_URL`, which turns search off.
- `outbox_lag_snapshot` and its alerts: they only read.
- Users: registration is one INSERT under a unique constraint; tokens and
  throttling are the work of libraries.
- Changes by hand in the admin, such as new slugs or listings and bands that are
  opened again (`ClosedForGood` is about the services); the seeders; the inline relay of the
  tests; the metrics endpoint.

Kafka's replication is taken as given: a copy the broker acknowledged stays.
Clocks of different processes are taken as equal, except for the stamps of
activities, which overlapping workers may store in any order.

## 6. Plan

1. `OutboxMonitor`: the three readings of `outbox_lag_snapshot` against a working
   relay: an event that exhausts its attempts between the first two is in neither.
2. `Delivery`: `Handoff` and `AtLeastOnce` composed through a partition, implementing
   delivery of every recorded event that is not exhausted.
3. `Accounts`: registration that checks for a name and then inserts it, and the
   counters of the login throttle.
