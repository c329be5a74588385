# Event Booking & Ticketing API: specifications

This directory models the API in `src/app`: booking (holds, payments through Stripe, cancellations, the
hold sweeper and its leader lock, the seller's changes they depend on), sessions (login, refresh rotation,
logout, lockout, and the changes of an account that end its sessions), and the parts around them: the
e-mail queue and its worker, the catalogue cache, the seller's side of an event with locations and
reviews, and registration with its codes. TLC checks small instances; TLAPS proves, for instances of every
size, that seats and bookings stay consistent, that tokens, revocations and counters do what they promise,
that a stale answer does not outlive its bound, and that requests which do not overlap keep the rules of
an event. `PROJECT.json` maps every definition to the lines it stands for.

    tlc -workers 2 -config SeatRace.cfg MCTickets      # a run
    tlc -workers 2 -config Progress.cfg MCProgress
    tlc -workers 2 -config Sessions.cfg MCSessions     # and GraceGap.cfg
    tlc -workers 2 -config Background.cfg MCBackground
    tlapm SeatProofs.tla                               # a module of proofs

## 1. The system

FastAPI handlers (several workers, each request in a thread with its own SQLAlchemy session),
PostgreSQL, Redis, Stripe, a background sweeper in every worker, and a separate e-mail worker.

| Component | Source | State | Operations | What makes it correct |
|---|---|---|---|---|
| Holds | `routers/bookings.py` | rows of `bookings`, `booking_units`, `inventory_items`, `services`, `users` | `POST /bookings` | no seat twice, no ticket over capacity, hold limit per user |
| Payments | `routers/payments.py` | `payments`, `invoices`, `cancellations`; PaymentIntents at Stripe | `/pay`, webhook, `/cancel` | paid means confirmed, nothing confirmed unpaid, refunds real and final, one mail each |
| Sweeper | `core/tasks.py` | the same rows; a Redis leader lock | one sweep a minute per leader | expired holds end; never takes a paid or confirmed booking |
| Events | `routers/services.py` | `services`, `service_tiers`, `inventory_items` | create, tiers, inventory, update, delete, search | capacity never below what is sold, mode fits seats and bookings, ends after it starts; no event deleted under a booking |
| Stripe (external) | as used by the two above | intents, refunds, idempotency keys, events | create, retrieve, cancel, refund, webhooks | - |
| Jobs | `core/queue.py`, `workers/` | Redis lists `queue:jobs`, `queue:jobs:dead_letter` | enqueue, fall back, pop, handle, retry, stop | no job lost or sent twice but by a fault; four attempts; all done with once no more come in |
| Cache | `core/cache.py` | Redis strings with TTL, a mutex per key | read, recompute, wait, invalidate | a stale answer lasts a computation and a TTL at most; one request recomputes; everyone is answered |
| Sessions | `routers/auth/auth.py`, `core/oauth2.py`, `core/redis.py` | Redis keys with TTL: sessions, rotation markers, blacklist, counters | login, refresh, logout, revoke | a token works once; revoked means revoked; lockout counts |
| Accounts | `routers/auth/users.py` | `users` (with the code), `seller_profiles`, limits and counters in Redis | register, verify, resend, change the address, reset, deactivate | a verified address has proved itself by its own code; a code can be guessed at a few times only |
| Reviews, locations | `routers/reviews.py`, `routers/locations.py` | their tables | CRUD | one review per booking; an active event has a location |

How they interact: the handlers, the sweeper and Stripe share the booking rows. Whoever wants to
change a booking locks its row with `SELECT ... FOR UPDATE`; seats are locked in id order; general
admission locks the service row. Stripe is called *while the booking is locked*, over the network,
before the commit; Stripe calls back with webhooks, at least once and in any order. After a commit
the cache is invalidated and an e-mail job pushed. Sessions live in Redis only: a handler is a
sequence of commands on keys that expire by themselves, and nothing spans two commands. Booking and
sessions meet in `get_current_user` and in `delete_user`, which refuses while there are bookings;
they share no rows that either changes, and are separate specifications. The parts around them touch
bookings in one direction only: handlers push a job, start an invalidation, or read a row of the
catalogue, and nothing of a booking depends on what becomes of the first two.

The hard behaviour, and what the properties are aimed at: several actors deciding about one expired
hold; facts read before a lock or a Stripe call and used after it; Stripe having acted when the
transaction is lost; late and repeated events; a session that keeps locks across candidates; clocks
read before waiting; in Redis, what other requests do between two commands, and keys of different
lives that must outlast each other; a job that is in nobody's list while it is worked on; answers
computed before a commit and stored after it; requests whose checks each held when they were made and
not together. The list with lines is `hazards` in `PROJECT.json`.

## 2. Modules

    StripeGateway    intents, refunds and events at Stripe (external)
    Store            tables, row locks, clock, processes; queries; LockSeat, Crash, Tick
    CreateBooking    POST /bookings
    Payments         POST /bookings/{id}/pay, the webhook, POST /bookings/{id}/cancel
    Sweeper          released_expired_holds
    Services         update_service (max_capacity), delete_service
    TicketSystem     the composition: Init, Next, Spec, the safety properties, the refinement
    SeatLedger       abstract: what reserved seating promises, without locks or money
    TicketLiveness   fairness, bounded failures, the liveness properties
    Accounts         the account, its tokens and its keys in Redis; what a request needs to use them
    Sessions         login, failures, refresh, logout, changes of the account; safety properties
    JobQueue         the lists in Redis, requests that push mails, the worker, its faults
    Cache            one cached answer: its readers, its mutex, commits and invalidations
    Catalogue        services.py in full for one event, locations, closing a seller's account, reviews
    Registration     registering, verifying, another code, changing the address
    Background       the four above in one specification, and their fairness
    MCTickets, MCProgress, MCSessions, MCBackground            instances for TLC
    TicketSystemProofs, SeatProofs, PaymentProofs, LockProofs,
    SessionProofs, CatalogueProofs, RegistrationProofs, BackgroundProofs     theorems

Each module EXTENDS the one above it in the chain from StripeGateway to TicketSystem; the handlers share
the tables, so they share the variables. Sessions EXTENDS Accounts and nothing of the chain. Background
EXTENDS four modules that share no state: `part` says which of them is busy in a behaviour, so that one
run checks the four one after the other.

### The booking core

**Processes.** `Requests` are requests being handled, `Sweepers` sweeps, `Sellers` sellers'
requests. `pc[p]` names the step p takes next, `req[p]` holds its locals. A step begins where the
code waits (for a row lock, for Stripe) and runs to the next wait, or to the commit. Between two
steps anything may happen; `Crash` may end a process at any label, which rolls it back. Every step
that calls Stripe has three outcomes: done, refused or failed, and done at Stripe but failed here.

**Rows.** `bookings[b]` is the row with its `booking_units`; a row with status "none" is not there
yet. `payments[b]` is the one payment a booking may have (the column is unique),
`cancellations[b]` the amount in its audit row. There is one event.

**Locks.** One owner per row, given up by `Release` at commit and rollback. Seat rows are taken one
at a time in `LockSeat`, the smallest id of `want` first. What a handler compares is what the ORM
shows it: `reserved` is the set of seats that were RESERVED when the session loaded them, because a
later `FOR UPDATE` query does not refresh loaded objects; `cap` is the capacity loaded before the
service row was locked; `Written` leaves a column alone when the value assigned is the one loaded.

**Time.** One clock, advanced by `Tick`. A handler's `now` is read when it begins;
`created_at` is PostgreSQL's `now()`, anywhere between that and the lock that follows.

**Inputs.** Requests that the handler would refuse at its first look, and that change nothing, are
not started (BeginPay wants a pending booking, and so on). Who is logged in is not modelled: a
request is one of the booking's owner. Prices are totals fixed at creation.

Correspondence of handlers and actions:

| Code | Actions |
|---|---|
| `create_booking` | BeginCreate, CreateLockUser, LockSeat / CreateSeats or CreateSlot, CreateInsert |
| `create_payment_intent_for_booking` | BeginPay, PayLock, PayRetrieve, PayReread, PayRetrieveFailed, PayConfirm, PayCreate, PayStore |
| `stripe_webhook` | BeginWebhook, HookLock (HookFailed, HookSucceeded), HookSeats or HookService, HookConfirm, HookRefund, HookCancel |
| `cancel_booking_and_refund` | BeginCancel, CancelLock, CancelRefund or CancelIntent, CancelCommit |
| `released_expired_holds` | BeginSweep, SweepNext, SweepLock, SweepIntent, SweepRetrieve, SweepSeats or SweepService, SweepConfirm, SweepRefund, SweepRelease, SweepItemError, SweepEnd |
| `update_service`, `delete_service` | BeginUpdate, UpdateCommit; BeginDelete, DeleteCommit (of Services) |
| `run_hold_sweeper_loop` | SweepBegins, ElectionLost, LeaseEnds (of TicketLiveness) |
| `confirm_booking_and_invoice` | Confirm, in PayConfirm, HookConfirm, SweepConfirm |

### Sessions

**Keys.** One account, since every key carries its id or its e-mail address. A key is the time at
which it expires, or `Gone`; `Tick` advances the clock and deletes what is due. What the value of a
key is matters only for `user_revoked_at` (a time) and for the failure counters, which have a number
in `fails` and an expiry of their own in `window`: INCR and EXPIRE are two commands. The clock has
`Second` ticks a second, because the code cuts the life of a blacklist key to whole seconds.

**Tokens.** `tokens[j]` is what has been made and signed under the id j: the refresh token, its
`exp` and the token it was exchanged for (`parent`); the access token made with it bears the same
name, its `iat` and hence its `exp`. "made" is a token the request still has, "out" one a client has;
clients never forget a token, and present any they have at any time.

**Requests.** As in the booking core: `pc[p]` is the next step, a step is one Redis command or
several that no property tells apart. A request may stop anywhere (no property assumes that it goes
on), which is also what a failing Redis call does. The inputs are bounded by `budget`: tokens made,
wrong passwords or codes tried, codes asked for, changes begun and logouts. The instance offers
several budgets and Init chooses one.

| Code | Actions |
|---|---|
| `login` | BeginLogin, LoginClear, LoginStore; on a wrong password Count, Window (twice), LockOut |
| `refresh_token` | RefreshTake, RefreshUser, RefreshStore, RefreshRotated, RefreshMark; without a session RefreshMarker, RefreshGrace, RefreshRevoke |
| `logout` | BeginLogout, LogoutDelete |
| `get_current_user` | Accepted |
| `forgot_password`, `reset_password` | ForgotPassword; BeginReset, CommitChange, RevokeScan, RevokeDrop, RevokeStamp, Forgive; on a wrong code Count, Window, LockOut |
| `update_user` with a password, `delete_user` | BeginUpdate, CommitChange, RevokeScan, RevokeDrop, RevokeStamp |

### The parts around them

**JobQueue.** A job is a mail with the number of its retries, as in the JSON. `Pop`, `Handle` and
`PutBack` are BRPOP, the handler's SMTP session, and RPUSH; between any two of them the worker may be
killed, and `hand[w]` with it. Faults cost one unit of a budget each: a command that Redis does not
execute, one whose reply is lost (the request then falls back to a background task, and the mail may
go out twice), a killed process, a SIGTERM, a restart of Redis from its last snapshot
(docker-compose: `--save 60 1`). `harm[j]` remembers which of them hit job j, so that properties can
say what only they may cause. A mail that cannot be sent is free, since the retries are for that.
Requests never cease: when nothing is left of a mail, in a list, in a hand or in the snapshot,
`NextMail` gives its name to a new one, so that `Jobs` bounds the mails there are at a time and not
those that ever come.

**Cache.** No handler reads two keys, so there is one, of each kind in turn: a search or an event's
details, both behind a mutex, or a seat map, which has none. The answer is the number of commits it
has seen. A reader is one request; each of its Redis commands may fail, and the code goes on without.
Time is in ticks: TTLs run down, and a computation takes at most `MaxCompute`, which may be more than
the mutex lives.

**Catalogue.** A handler is two steps, what it checks and what it commits, and the constraints of the
tables (unique, foreign keys, the CHECK on the times) are in the second. Nothing in these handlers
takes a lock. `agenda.overlap` says whether requests may come between the two steps of another; this is
what the properties are told apart by. A booking is one ticket, its end one step.

**Registration.** A row and the keys of its addresses. The code is in the row; each request reads the
row, does Redis commands, and writes by id without a lock. Time may pass before any of these: the
request is counted in the rate limit's window (`users.py:147`), and by the time it reads the row
(`users.py:154`) that window may be over and the code be another. `plan` bounds what a behaviour has: two
requests about one code and its time, or one at a time about two addresses and two codes.

| Code | Actions |
|---|---|
| `enqueue_job(_sync)`, `_fallback` | EnqueueJob, FallBack, RunBackground, and NextMail for the next request |
| `worker.main`, `process_single_job`, `handle_shutdown` | Pop, Discard, Handle, PutBack, Stop, Terminate |
| `get_or_compute_cached`, `get_service_seats` | Begin, Query, StoreEntry, Release, Poll |
| `invalidate_services_cache(_sync)`, `invalidate_pattern` | Commit starts it; DeleteKeys, Scan, DropFound, LoseInvalidation |
| `create_services`, `create_service_tier`, `bulk_create_inventory` | CreateService, CreateTier, BulkCreate, each with its ...Commit |
| `update_service`, `delete_service` | BeginUpdate, UpdateCommit; BeginDelete, DeleteCommit |
| `delete_location`; `delete_user` of a seller | DeleteLocation, CloseAccount, each with its ...Commit |
| `create_booking`, its end; `create_review`, `delete_review` | Book, BookCommit, EndBooking; CreateReview, CreateReviewCommit, DeleteReview |
| `create_account`, `resend_otp` | Register, RegisterCommit; BeginResend, ResendRead, Recode |
| `verify_otp` | BeginVerify, VerifyRead, Activate, ClearCounts; on a wrong code Miss, MissWindow, Spoil, ForgetMisses |
| `update_user` with an address | BeginChange, ChangeCommit |

### Assumptions and wrong variants

The operators commented "Wrong variant" or "mutant" stand next to the action they spoil: each is a plausible
bug, and substituting it makes the property it is listed with in `PROJECT.json` fail.

**Four assumptions are constants**, because the code does not ensure them and everything else can be
asked with them or without:

- `RereadAtOnce`: nothing commits between the commit at `payments.py:187` and the read at `:195`,
  so that the row is read as it was written.
- `PayBeatsExpiry`: a `/pay` that confirms does so before the hold it found unexpired runs out.
- `GraceAtOnce`: nobody reads the grace key between the SETs at `auth.py:272` and `:277`.
- `SerialChanges`: one change of the account (password, deletion) at a time.

## 3. Runs

All bounds are constants of the `.cfg`; deadlock is not checked because ids, intents and the clock
run out. Symmetry over bookings, users, processes, tokens and addresses is used in MCTickets and
MCSessions only (no liveness there).

| Run | Asks | Instance |
|---|---|---|
| SeatRace | seats and bookings under every interleaving of the handlers | 2 bookings of 1 seat, 2 requests, 1 sweeper |
| SeatLocks | circles of waits; the hold limit; is it SeatLedger? | 2 bookings of up to 2 seats, so that lock order matters; 2 users, hold limit 1; free `/pay`, cancel, one sweep, no webhook |
| PaymentRetries | payment rows, charges, refunds, audit rows, mails | 1 booking, free or not, 2 intents |
| SlotRace | capacity under expiry; deletion | general admission, capacity 1; 2 requests that are customers' or the seller's |
| Progress | liveness, with `RereadAtOnce` FALSE | 1 request slot, 1 sweeper that needs the leader lock, up to 2 failures |
| Sessions | tokens, revocations and counters of one account | 2 requests, 3 tokens, 2 addresses, keys of 1 or 2 seconds, 2 ticks a second, limits of 2 failures |
| Background | queue: delivery, retries, faults; cache: staleness, mutex; catalogue: the event's rules; registration: codes | 2 mails at a time, without end, 1 worker, 1 retry, 2 faults or a restart of Redis; 2 readers, 1 commit; 2 requests on one event with 2 locations, capacity 2, 3 times; 2 requests about one code, or one about 2 addresses |
| LatePay, DoubleBilling, UnlockedReread, RefundRetry, GraceGap | what a document or comment claims and the code does not keep | the smallest instance that shows it |

Why the bounds are enough to be interesting: two bookings competing for one seat give every pair
of handlers on one booking and on one seat; one booking with two intents gives the retry, its stale
events and its lost refunds; a hold of duration 0 or 1 expires within the run; one sweeper plus
requests covers each pair of actors that meet at a booking row. A request process is reused when it
is idle, so two of them run sequences of any length over the ids there are. Every action and
disjunct is taken in some passing run. What no run has is three bookings at once, or two sweeps in
parallel; the theorems cover both for seats and locks. In Sessions two requests give each race of
two tabs, of a login with a revocation, and of two failures; three tokens give a chain and two
children of one token; the lives are short enough that each key expires in a run while the others
are there, and in the proportions of the code (session and marker alike, grace and lock shorter). With
two ticks a second a token can be made and logged out in the middle of one, so that what is left of it
is no whole number of seconds; the clock runs to the end of the first tokens. The budgets split the
inputs into five mixtures, because all at once is beyond TLC; that is the one place where the theorems
say more than a longer run could.

In Background two mails at a time make one old and one new, and since names are reused there is always a
newer one to come; one retry shows that the count ends where it should; two readers are a leader and a
loser, or two leaders in turn; one commit makes one stale version, and whether it is stale once or twice
changes nothing a reader does; lives are of one or two ticks, and a computation may outlast the mutex. Of
the seller's requests two at a time meet in every pair; the agendas name which handlers a behaviour has,
because all of them with all fields are beyond TLC. Limits of two wrong codes take a code from good to
spoiled within the run, and codes, limit and counter expire within it, also between the steps of one
request. The seller in SlotRace does not change the capacity: shrinking is in Catalogue, where bookings
are plain counts.

### Properties

- `SeatsMatchBookings`: a seat is reserved or booked exactly if one live booking has it, in the
  status that booking calls for. `ImplementsLedger`: all handlers together do to the seats only
  what `SeatLedger` allows (hold together, sell, give back, once per booking).
- `LocksProtect`: what a handler checked under a row lock still holds when it acts on it.
- `BookingNeverRevives`, `AutoRefundIsFinal`: a cancelled booking stays cancelled; an automatically
  refunded seat booking is never confirmed.
- `NoDeadlock`: no circle of waits among row locks.
- `PaidMeansConfirmed`, `ConfirmedHasCharge`, `AuditRefundIsReal`, `MailOnce`: payment rows, the
  charges and refunds at Stripe, audit rows and mails agree.
- `NeverOversold`, `HoldsCapped`, `DeletedHasNoBookings`.
- `ExpiredHoldEnds`, `ChargeSettled` (liveness), now through the election of a leader: its lock may be
  held by a sweep that has died or by a worker that never heard of winning it. `ChargeSettled` is about
  the intent that the payment row goes on naming. With two intents a charge that was not seen may be
  replaced in the row (`payments.py:280`), as in DoubleBilling; the webhook then finds no payment for
  it and nothing settles it. The run has one intent, so there the row names it for good.
- `NoJobVanishes`, `MailedOnce`, `FourAttempts`: a job that no fault has hit is somewhere or delivered; a
  mail goes out twice only after a lost reply, a mail server that fails after taking it, or a Redis that
  came back with an older list; four attempts, then a dead letter. `QueueDrains` (liveness): once
  requests push no more jobs, every job in the queue is done with, in spite of retries at the head of the
  line, killed workers and an older list. While jobs do come in this is not so, see below.
- `StalenessBounded`, `InvalidationReaches`: a stale answer was under way at the commit or its
  invalidation failed, and is gone after a computation and a TTL. `OneLeader`, `ReleasesOwn`: two requests
  recompute at once only if the mutex has expired under one of them, which then leaves the other's mutex
  alone. `CacheConverges`, `ReadersAnswered` (liveness).
- `CatalogueSound`: capacity covers the tickets, the mode fits seats and bookings, an active event has a
  location, after any sequence of requests that do not overlap. `EventEndsAfterStart`,
  `DeletedLeavesNothing`, `ReviewsStand`: what the tables' constraints keep also when requests overlap.
- `VerifiedByOwnCode`: an account is verified by a code sent to the address it has, if requests do not
  overlap. `GuessesBounded`: the wrong guesses at a good code are fewer than twice the limit, and one for
  each other request in flight, whatever expires between whichever steps, as long as the account keeps
  its address.
- `ExchangedOnce`: at most one token comes of a refresh token. `ReplayDetected`: the marker of an
  exchange is there as long as the exchanged token is accepted. `TabsNeverRevoke`: all sessions are
  ended only for a token exchanged longer ago than the grace window.
- `RevokedStaysRevoked`: an access token that was revoked is not accepted again when the key that says
  so has expired, or has been written by somebody else. `LogoutEndsAccess`: nor is one that was logged out,
  until less than a second of its life is left. Then it may be, see below.
- `CountersExpire`: no failure counter is without a TTL, but between INCR and EXPIRE of its maker.
  A request that dies just there leaves one, and the property says so: it is the only way.

### Fairness

`FairSpec` assumes of a process that it goes on when it can and that row locks are granted fairly
(SF on `Works`, since a lock may be taken and given up in between by others); that *some* sweeper gets
the leader lock again when it is free again and again (`run_hold_sweeper_loop` sleeps 60 s, catches every
exception, and the lock lives 50 s; which worker wins is not assumed, and one may always lose); that the
lock expires; that Stripe delivers an
event until it is answered with 200, and charges or declines a submitted card; that time passes.
Customers and sellers owe nothing. Failures (crashes, errors of Stripe, lost answers) may come at
any step, at most `MaxFailures` times in a behaviour: a gateway that fails for ever keeps holds and
money for ever, by design of the code. `ExpiredHoldEnds` has the premise `CardsRest`: the sweeper
skips an intent that is "processing", so a customer submitting a declining card again and again at
just those moments keeps a hold, and the code has nothing against it.

`BackgroundSpec` assumes that the worker goes on and is started again when it has ended
(`restart: unless-stopped`, and every SMTP call ends, `timeout=10`), that a GET that has begun goes on,
and that time passes. Nothing is assumed of who asks, writes or registers, nor of an invalidation:
`CacheConverges` rests on TTLs alone, and `QueueDrains` says as its premise that jobs cease to come in.
That premise is about one action, EnqueueJob; faults, restarts and retries may go on after it.

### What the violation runs show

1. **LatePay**. `/pay` measures the hold against a clock read before it waits for the row lock and
   for Stripe, and confirms without counting tickets. The capacity is exceeded, against
   `docs/scaling-notes.md:3`. With `PayBeatsExpiry` the property holds (SlotRace).
2. **DoubleBilling**. A payment whose card was declined and is being charged again is neither
   succeeded, open nor canceled when `/pay` retrieves it; a second intent is made under a random
   key. Both are charged, against `README.md:145`.
3. **UnlockedReread**. The commit at `payments.py:187` gives up the booking's lock and the handler
   goes on; a seat is sold twice, against `docs/architecture-decisions.md:43`.
4. **RefundRetry**. A refund that Stripe made and the database lost is not remembered: the event's
   next delivery may confirm the booking, against the comment at `payments.py:446`. For reserved
   seats this cannot happen (`AutoRefundIsFinal`): the seats of a pending booking are always its own,
   so only bookings that are over are refunded.
5. **GraceGap**. The rotation marker and the grace key are written in two commands. A second tab
   whose GETs come between them sees a replay and deletes all sessions, the new one of the first tab
   included, against `README.md:84` and the comment at `auth.py:231`. With `GraceAtOnce` the property
   holds (Sessions).

Counterexamples that were met on the way and are not runs, because they need only the constants of
a run changed:

- SlotRace with two capacities: `update_service` counts tickets without a lock (`services.py:625`) and the
  capacity is written later, and `create_booking` compares with the capacity it loaded before the
  lock; `NeverOversold` fails. The theorem has equal capacities as a premise for that reason.
- Background without the premise of `QueueDrains`: a job may wait for ever. RPUSH and BRPOP work on the
  same end of the list (`queue.py:32`, `worker.py:72`), so the worker takes the newest job first. In TLC's
  lasso one job waits while a second one is pushed, popped and delivered, and then the next, and so on. No
  fault is needed for that, only that a new job has come whenever the worker is free. No document of the
  repository promises an order.
- Background with two addresses, two requests and `TryLimit` 3: a code may be guessed at more often than
  `GuessesBounded` allows. A request that has verified the account waits before it clears the counts;
  the owner changes the address away and back, which undoes the verification; the counts are cleared
  then, under the code of the second change. The property has one address as a premise.
- Catalogue with overlapping requests breaks each part of `CatalogueSound`: `CapacityCoversTickets` in the
  same way; `ModeFitsContents` by seats or bookings that come between the check of `services.py:601` and its
  commit; `ActiveEventHasLocation` by a `delete_location` whose check (`locations.py:190`) came before an
  update to that location, or before the event was created there, and whose DELETE comes after. The
  message at `locations.py:213` expects an IntegrityError then, but the foreign key is ON DELETE SET NULL
  (`model.py:175`), and the event silently loses its place.
- Registration with two requests: `VerifiedByOwnCode` fails. Two copies of the form both read a right
  code; one activates the account; the owner changes the address, unverified; the second copy's commit
  (`users.py:199`) sets is_verified by id and verifies the new address.
- The mutex of the cache does not make "exactly 1" request query the database
  (`architecture-decisions.md:48`, `cache.py:126`): when Redis fails at the SET, when the mutex expires
  under a slow leader, and in the losers' fallback (`cache.py:174`) several do. `OneLeader` says what is left.
- The leader lock does not make only one worker sweep (`architecture-decisions.md:51`): a sweep longer
  than 50 s overlaps with the next. No safety property rests on it.
- "Jobs must be safe to run twice" (`scaling-notes.md:113`): a job that does run twice sends its mail twice
  (`MailedOnce` names the ways); nothing marks a mail as sent.
- `update_user` pushes the code for a new address (`users.py:387`) before the checks of the telephone number
  and password, and before the commit; when one of them fails, the mailed code is for nothing.
- `delete_service` (`services.py:723`) may archive an event on which a booking has been made since
  the check. Only the hard delete is protected, by the foreign key (`DeletedHasNoBookings`).
- PaymentRetries with `RereadAtOnce = FALSE`: `PaidMeansConfirmed` and `MailOnce` fail, since a payment
  confirmed by the webhook meanwhile is overwritten at `payments.py:280`. `ConfirmedHasCharge` and
  `AuditRefundIsReal` still hold.
- SlotRace with `RereadAtOnce = FALSE` and two intents: `NeverOversold` fails. A `/pay` that finds its
  intent canceled goes on without the booking's lock (`payments.py:187`), reads a second, failed intent
  that another request has stored meanwhile, and finds it paid after all; by then the booking is
  cancelled and its place sold, and `/pay` confirms it without counting tickets. With one intent this
  cannot happen: it takes one that is canceled and one that is paid.
- SeatLocks with two sweepers: `NoDeadlock` fails. A `continue` of the sweeper (`tasks.py:46` and after)
  keeps the lock of the candidate, and candidates come in no particular order. It takes two sweeps at
  once, so one that outlives the leader lock of 50 s (`tasks.py:202`); PostgreSQL then ends one of
  them with an error, which is SweepItemError.
- Sessions with `SerialChanges = FALSE` and two changes: `RevokedStaysRevoked` fails. The time for
  `user_revoked_at` is read before the SET (`users.py:671`), and the older may be written last.
- Sessions, with `~Accepted(j)` for every logged-out token j: fails. The rest of the token's life is cut
  to whole seconds (`oauth2.py:79`), so its blacklist key may end up to a second before the token, which
  is then accepted again: one made and logged out in the middle of a second, whose `exp` is a whole number,
  has a second and a half left, and a key of one second. `LogoutEndsAccess` says that this last second is all.
- `ResetEndsSessions` (in Sessions, checked by no run): a login that checked the old password, or a
  rotation, stores its session after the scan at `redis.py:218`, and the session outlives the change
  of the password.

## 4. Theorems

| Theorem | Module | Says |
|---|---|---|
| `TypeCorrect` | TicketSystemProofs | `Spec => []TypeOK` |
| `DeletedIsUnbooked` | TicketSystemProofs | `Spec => []DeletedHasNoBookings` |
| `SeatsConsistent` | SeatProofs | `RereadAtOnce` implies `Spec => []SeatsMatchBookings` |
| `LocksSuffice` | SeatProofs | `RereadAtOnce` implies `Spec => []LocksProtect` |
| `CancelledForGood` | SeatProofs | `RereadAtOnce` implies `Spec => BookingNeverRevives` |
| `ReservedSeatsImplementLedger` | SeatProofs | `RereadAtOnce` and `UnitMode` imply `Spec => ImplementsLedger` |
| `ConfirmedIsCharged` | PaymentProofs | `Spec => []ConfirmedHasCharge` |
| `AuditIsReal` | PaymentProofs | `Spec => []AuditRefundIsReal` |
| `PaidIsFinal` | PaymentProofs | `RereadAtOnce` implies `Spec => []PaidMeansConfirmed` |
| `MailedOnceEach` | PaymentProofs | `RereadAtOnce` implies `Spec => []MailOnce` |
| `AutoRefundStays` | PaymentProofs | `RereadAtOnce` and `UnitMode` imply `Spec => []AutoRefundIsFinal` |
| `HoldsAreCapped` | LockProofs | `Spec => []HoldsCapped` |
| `LocksNeverCircle` | LockProofs | finitely many seats and one sweeper at most imply `Spec => []NoDeadlock` |
| `CapacityHolds` | LockProofs | `~UnitMode`, `RereadAtOnce`, `PayBeatsExpiry` and equal `Capacities` imply `Spec => []NeverOversold` |
| `SessionTypes` | SessionProofs | `Spec => []TypeOK` |
| `SingleExchange` | SessionProofs | `Spec => []ExchangedOnce` |
| `CountersEnd` | SessionProofs | `Spec => []CountersExpire` |
| `ReplaysRecognised` | SessionProofs | `Spec => []ReplayDetected` |
| `TabsSafe` | SessionProofs | `GraceAtOnce` implies `Spec => []TabsNeverRevoke` |
| `RevocationsHold` | SessionProofs | `SerialChanges` implies `Spec => []RevokedStaysRevoked` |
| `LogoutsHold` | SessionProofs | `Spec => []LogoutEndsAccess` |
| `JobsStay` | BackgroundProofs | `BackgroundSpec => []NoJobVanishes` |
| `OneMailEach` | BackgroundProofs | `BackgroundSpec => []MailedOnce` |
| `AttemptsCounted` | BackgroundProofs | `BackgroundSpec => []FourAttempts` |
| `StaleEnds` | BackgroundProofs | `BackgroundSpec => []StalenessBounded` |
| `InvalidationWorks` | BackgroundProofs | `BackgroundSpec => []InvalidationReaches` |
| `LeaderAlone` | BackgroundProofs | `BackgroundSpec => []OneLeader` |
| `ReleaseIsOwn` | BackgroundProofs | `BackgroundSpec => ReleasesOwn` |
| `NothingLeft` | CatalogueProofs | `BackgroundSpec => []DeletedLeavesNothing` |
| `TimesOrdered` | CatalogueProofs | `BackgroundSpec => []EventEndsAfterStart` |
| `OneReview` | CatalogueProofs | `BackgroundSpec => []ReviewsStand` |
| `RulesKept` | CatalogueProofs | `BackgroundSpec => []CatalogueSound` |
| `AddressProved` | RegistrationProofs | `BackgroundSpec => []VerifiedByOwnCode` |
| `GuessesAreFew` | RegistrationProofs | `BackgroundSpec => []GuessesBounded` |
| `BackgroundTypes` | BackgroundProofs | `BackgroundSpec => []BackgroundTypeOK` |

Every safety property of the passing runs has its theorem. Those of the booking core (the first
four modules) hold for any sets of customers, seats, requests, sweepers and sellers, any durations
and limits and, where no mode is named, both booking modes, from the ASSUMEs of StripeGateway and
Store alone; those of SessionProofs for any number of requests, tokens and addresses and any lives
and limits, from the ASSUMEs of Accounts; the others for any number of jobs, workers, retries and
faults, of readers, commits, requests, locations, tiers, seats, bookings, addresses and codes, from
the ASSUMEs of JobQueue, Cache, Catalogue and Registration. Background enters their proofs only in
that a part takes no steps but its own.

The premises are needed, and each is about one thing the code does. `RereadAtOnce`: nothing commits
between the commit at `payments.py:187` and the read that follows it. `PayBeatsExpiry`: `/pay` is
done before the hold it has measured runs out. Equal `Capacities`: the seller does not shrink the
event. One sweeper: the leader lock does not expire under a sweep. `GraceAtOnce` and
`SerialChanges` are the same for sessions. UnlockedReread, LatePay, GraceGap and the counterexamples
of section 3 show what happens without each. `UnitMode` is no restriction of the code but names the
kind of event a property speaks of: for general admission SeatLedger has nothing to say, and
RefundRetry refutes the finality of automatic refunds; for reserved seats the table of capacities is
not read. Each premise of a theorem is that of a run, which checks the same property on an instance.

**Seats.** `TypeOK` is not inductive: `Cancel` writes amounts read through `req`, and `Enqueue` and
`Confirm` apply functions at `req[p].bk`, which must not be `Null`; `TypeInv` adds that a process
past its first step has a booking (or a draft with a user). On top of it `RowsExist` says that a
booking somebody works on, or whose payment names an intent, has been inserted: CreateInsert takes
an unused id, and without `RowsExist` it could take one that somebody already holds.
`SeatsMatchBookings` alone is not inductive either: to release or to sell seats a handler relies on
what it checked several steps ago. `LocksProtect` is that missing part: from the check to the commit
p owns the booking's row lock and the row is what p found; the seats of a draft are locked one by
one and stay available; the seats loaded as RESERVED are all the seats of a pending booking. Since
every write to a booking is made by the owner of its lock, no other process can disturb what p
relies on, and since every write to a seat is made for a booking that has it or a draft that locked
it, no other booking can be disturbed. The inductive invariant is `TypeInv`, `RowsExist`,
`SeatsMatchBookings` and `LocksProtect`. `RereadAtOnce` enters in one step, PayReread: with it `/pay`
finds the payment as it has committed it and makes a new intent, and never relies on the booking
whose lock it has given up. `CancelledForGood` follows from the invariant step by step.

Each proof has one lemma per kind of step (a step that touches no row, one that confirms, one that
cancels, ...), and one step per action of Next that cites the lemma for its kind.

**SeatLedger.** The refinement takes a seat's holder, the bookings that are sold and those that are
over from the tables. Inserting is `Hold`, confirming `Sell`, cancelling `GiveBack`, and everything
else, locks, Stripe, retries and crashes included, stutters. Three facts make the steps match: the
seats of a draft are free and locked (`LocksProtect`); a live booking of reserved seating has seats
(`BookingsHaveSeats`, or its sale would not be a sale); and nothing revives.

**Payments.** A handler deals with a booking's money at a time when it may have lost every lock, so
`PayInv` says only what cannot be lost again: an intent is made for one booking, once charged it
stays charged and once refunded it stays so (`IntentsSound`, `IntentsGrow`); an event that reports a
charge tells the truth (`EventsSound`); a payment row names an intent of its own booking
(`RowSound`); and the intent a handler carries is of the booking it works on, charged or refunded as
the label it is at requires (`Sound`). With that `ConfirmedHasCharge` and `AuditRefundIsReal` are kept
by the few steps that confirm or record. The next two need locks: `UnpaidIfKept` says that a booking
about to be cancelled without a refund is not paid, because whoever would pay it needs its lock, and
`MailsFollow` ties the mails to the status, which each booking passes through once. For
`AutoRefundIsFinal` the invariant follows the path to an automatic refund (`RefundPathOK`): with
reserved seats only a booking that is over is refunded there, and `BookingNeverRevives` does the rest.

**Holds and capacity.** Both are counts that a handler makes under a lock and relies on when it
writes. A hold is counted at the time the request came, which is past when the booking is inserted;
holds only expire in between, and nobody else inserts one for a user whose row is locked (`HoldInv`).
Tickets are counted the same way under the lock on the service row (`FitsStill`): until the lock is
given up nobody confirms or inserts, since each who does has that lock too; what `/pay` confirms
without it was counted already, as a pending hold that has not expired (`PayBeatsExpiry`) and does
not expire at the commit. `Tickets` are pairs of a booking and a number, so that a count of tickets is
the cardinality of a set and the lemmas about finite sets apply.

**Locks.** A circle of waits needs an order that somebody breaks. The order is: a user's row or a
booking's first, then seats by increasing id, or the service row, which is the last for everyone who
gets it (`InOrder`). The seat a process in a circle waits for is smaller than the one its blocker waits
for, and the seats are finitely many, so there is no circle of seats; with the service nobody waits
for anything. The sweeper is the exception: a `continue` keeps the row of one booking and goes to the
next, in no particular order. One sweeper alone cannot close a circle with that; two can.

**A deleted event.** delete_service looks for bookings and then deletes; the foreign key refuses the
delete when a booking has come in between, and create_booking finds no service to lock after it.

**Sessions.** `TypeInv` adds to `TypeOK` that a request has the locals its label calls for. For
`ExchangedOnce` the invariant says what a session is: the right to exchange its token. While the key
is there the token has no child and nobody is about to make one; a request that GETDEL gave it to is
alone, and the token a request is making belongs to it alone (`ExchangeInv`). `ReplayDetected` rests
on a comparison of lives: a token never has more than `SessionTTL` left, and its marker is set for
that long before its child is handed out, so the marker outlives it, however the clock runs
(`ReplayInv`). `TabsNeverRevoke` adds that a token is marked only once, by its only exchange, and that
from then on either the exchange is about to write the grace key, or that key lives, or the grace
window is over (`GraceInv`). `RevocationsHold` needs that the times written grow, which is where
`SerialChanges` comes in, and that `user_revoked_at` is kept as long as an access token can live.
`LogoutsHold` computes the life of the blacklist key for every number of ticks in a second: whole seconds
are less than the rest of the token by less than a second (`WholeSeconds`), so from the logout on either
the key ends in the token's last second, or that second has begun (`Ended`). `CountersExpire` is inductive
by itself.

**Queue.** The lists alone do not say how often a job has been tried. `OneCopy` says that a job has at
most one copy, in a list or in a hand, as long as Redis has not come back with an older list; then that
copy counts: its `retries` are the attempts made, one more being under way or failed in the hand of a
worker (`Attempts`). `Deliveries` adds what the request and the mail server have done: a mail that went
out leaves no copy, unless a fault has made a second way to send it. `NextMail` asks that nothing is left
of the old mail, and begins the histories of the new one. A restart of Redis with a job's copies as they
were changes nothing for the job, whatever happens to the others; this is why the history `harm` compares
the copies of each job and not the lists.

**Cache.** `StalenessBounded` speaks of the entry alone; the argument is about who will store it. A
reader about to store has computed for at least as long as its version is superseded (`ReadersFit`);
once stored, what the version has been superseded for and what the entry has left never exceed
`Bound` together (`AgesFit`), because a tick takes from the one what it adds to the other.
`InvalidationReaches` needs that the key of a single event is deleted before its scan begins
(`PunctualGone`). `OneLeader` and `ReleasesOwn` follow from `LeadersHold`: a leader that has computed
for less than the mutex lives holds it, with exactly the rest of its life left. That is also why the
first breaks when a computation outlives the mutex and the second does not: the release compares tokens.

**Catalogue.** Two requests may interleave between check and commit, so what a check has found is no
invariant; what remains is what the constraints of the tables keep (`Consistent`): bookings need the
event, tickets and reviews need bookings, a seat needs its tier. With what a request remembers of its
input (`RequestOK`) that is inductive and gives the first three theorems. For `CatalogueSound` the
requests do not overlap: then all but one client are idle, and everything that one has checked still
holds when it commits (`StillTrue`), in particular that the row it is about to write fits the seats,
the tickets and the locations (`Fits`). Only bookings that end can come in between, and they only
lower the count.

**Registration.** With one request at a time (`OneVisitor`), the code in the row is always one that was
mailed to the row's address (`RowTrue`): a request that changes the address brings a code that it has
mailed there, and one that makes another code mails it to the address it finds. A request about to
verify entered such a code (`VisitorTrue`). Codes are numbered, so that mailing a new one says nothing
of an old one (`CodesMade`).

**Guesses.** Three clocks run: the code's, the rate limit's window, and the counter of wrong codes,
which the bound does not need. The invariant (`CodeOK`) counts together the guesses made at the code in the
row and the requests that have been counted in a window and have still to read the row (`Guessers`).
When a code comes to the row, no guess has been made at it (`FreshCodes`), and such requests are at most
the others, those besides the one that stores it (`Others`); their windows may be over. Each window adds
at most what it counts. One that has less left than the code began before it, and so did the request
that opened it, which is one of those others or has been answered: that is one less. When it ends, the
next window has more left than the code and is the last one to see it. Twice the limit, less one, and the
others: a request may wait between its counting and its reading for as long as it likes, and is counted
once. All that needs that nobody who has verified the account clears the counts of an unverified one,
which is where the address has to stay (`StaysPut`). The bound is not claimed to be the least: the
counter of wrong codes, left out here, spares a guess or so.

Only model-checked: the five liveness properties, `ExpiredHoldEnds`, `ChargeSettled`, `QueueDrains`,
`CacheConverges` and `ReadersAnswered`. They rest on fairness, and so on ENABLED, which is out of the
prover's reach.

## 5. Not modelled

Prices and texts of events, tiers, locations and reviews; whose event it is; the comparison of
`start_time` with the clock when an event is created, updated or reviewed; seller profiles; the rate
limit per client address, which refuses without a trace, and finding that address in headers; the
hashing of cache keys; what mails say; settings, migrations and deployment. In the booking core an
event's `start_time` and mode do not change. The leader lock is only in Progress (sweeps may overlap
freely instead, wherever a run or a theorem has several sweepers; two sweepers with the lock are beyond
TLC there). PostgreSQL is taken to
be what it is at READ COMMITTED: a query sees what is committed, a row lock is held to the end of
the transaction, a deadlock ends one transaction with an error (`Crash`, `SweepItemError`).
`created_at` of a row is compared to microseconds in the code, to ticks here; the two comparisons
with the hold's duration both include the limit, as in the code, so a tick at the limit is a hold
both paid and swept.

Of sessions: decoding and signing (a token is known by its name), hashing and the cap on concurrent
hashes, cookies, and the clocks of Redis and of the workers, which are taken to be one. The locks
after too many failures are there, but that a lock keeps an attempt out is not claimed: requests
that have passed the check go on. `distributed_lock` (`redis.py:225`) is not used by any handler.

Of the parts around: one key, one event and one account at a time. Redis takes one snapshot of lists
with jobs in them. In unit mode `update_service` accepts a capacity unchecked (`services.py:627-629`), and
so does the model; nothing reads it there. Two spellings of a tier's name, which the handler takes for
one and the table for two, have one spelling here. Seats are created one at a time, as one list of codes
either fits the table or does not. Wrong
codes are counted up to the limit only, which is where the code stops looking. Background has no step
that all four parts see, because the code has none.

## 6. Plan

In order, with what is done marked:

1. [done] Holds, payments, webhook, cancellation and sweeper composed; safety, refinement of
   SeatLedger, liveness; types, seats and locks proved.
2. [done] `Sessions`: refresh rotation with its grace window, logout, revocation by scan-and-delete,
   the blacklist and the failure counters, over Redis keys that expire; its seven invariants proved.
3. [done] `Background`: the e-mail job queue and worker, the cache, in one composition with the next two;
   the leader lock of the sweeper, in TicketLiveness.
4. [done] `Catalogue`: creating events, tiers and inventory, changing mode, capacity, place and times,
   deleting, locations and reviews.
5. [done] `Registration`: registering, the codes of verification and of e-mail changes, their limits.
6. [done] Proofs about `Cache`, `Catalogue` and `Registration`.
7. [done] Proofs: that the steps implement SeatLedger; charges, refunds, payment rows and mails; holds,
   capacity and the order of locks; deleted events; the queue; guesses at a code.
8. Proofs of what surrounds these: how far `NoDeadlock` goes with several sweepers and no candidate
   skipped; action properties of single tables (intents, invoices) that the payment proofs establish on the way.

Each further module is parameterised by CONSTANTS with named assumptions and uses no RECURSIVE
operator, so that it can be proved about as well as checked.
