# Truo Identity: a TLA+ model of the service

TLA+ modules, TLC configurations and TLAPS proofs kept beside the Identity API
(NestJS, Prisma on PostgreSQL, BullMQ on Redis). The code is the reference:
every definition that models code is listed with its lines under `map` in
`PROJECT.json`, and each hazard of the code with the properties that watch it
under `hazards`.

## The system

All API processes and queue workers share one database and one queue, and keep
no state of their own between requests. A request is a chain of steps between
two awaits; requests interleave there, on one process or several. What makes
the behaviour hard is therefore the same everywhere: **rows are read in one
statement and written, on the strength of what was read, in a later one**,
processes may die in between, and only the transactions and unique indexes of
the database keep two handlers apart.

| Part | State | Operations | Hard behaviour | What makes it correct |
|---|---|---|---|---|
| Sign-in sessions (`auth.service.ts`, strategies) | `User.password`, `UserSession` | register, login, social login, refresh, logout, changePassword, access-token guard | updateMany of a transaction misses sessions inserted meanwhile; token updates by id of sessions closed meanwhile; half-opened sessions; row locks | what a login or password change closed stays closed; tokens in use match their stored hash; every request ends |
| Password recovery | `PasswordRecoveryCode`, shared users rows and sessions | request, verify, reset | codes judged on a stale read; overlapping requests and resets | guesses and uses bounded by concurrency; a reset is final |
| Premium | `UserPremium` | activate (idempotency key), cancel, history, state | read-then-insert races, retries, dates captured early | one active membership; one membership per key; retries are replays; periods are over before a row ends |
| Avatar verification | `UserProfile` avatar columns, queue jobs | confirm upload, run validation, two jobs, save endpoints | retries, dying workers, superseded avatars, updates without transaction | statuses come to rest, attempts counted alike, verdicts and vectors belong to the avatar |
| Restrictions | `UserRestriction` | create, lift, expire, look | no index against two in force; expiry in every login | nothing ends early or comes back; when two can be in force |
| Accounts | `User` unique columns, `UserIdentityProvider`, `UserBlock` | register, social find-or-create, updateMe, block, unblock | check-then-write races | contacts unique, one user per identity |
| Profile, profile rules | the other `UserProfile` columns | register, first social login, updateMe, public profile, pure functions | boundaries of ages and months, optional fields that are null, a picture and its status from two reads | whoever has a birth date is an adult; a completed profile stays completed; a verdict is shown beside the picture it was given for; periods have the length of their cycle |
| Storage | the bucket's objects | upload URL, existence, signed view | a key that is confirmed before its object is there | part of `Profile`: a key is fresh, and confirmed only when its object is stored |
| Email, notifications, Redis, health, logging, throttling, configuration | none of the program's | I/O | failure | a failing call is a failing step of the flow that waits for it |

Interactions: recovery writes the users row and sessions that AuthSessions owns
(`PasswordRecovery` extends `AuthSessions` and its next-state relation contains
`Next`); login and refresh ask for the account state that restrictions decide
(`BeginRestriction`/`EndRestriction` in AuthSessions are the two outcomes of `Restrictions`); the
upload hands over to the queue and the queue to the two handlers
(`AvatarPipeline` is the composition; `Profile` uses its abstraction
`AvatarLifecycle` for the avatar columns); Premium and Profile compute with the
same dates (`Calendar`); a first social login creates the users
row (`Accounts`) before it opens a session (`AuthSessions.SocialCheck`).

## Modules

| Module | Models | Checked by |
|---|---|---|
| `AuthSessions` | sessions, with every operation on them | `sessions` |
| `AuthSessions_proofs` | the inductive invariant and the theorems | TLAPS |
| `PasswordRecovery` | recovery codes, extends `AuthSessions` | `recovery_codes`, `recovery_sessions` |
| `PasswordRecovery_proofs` | its inductive invariant, which contains that of `AuthSessions`, and the theorems | TLAPS |
| `PremiumLedger` | what Premium promises: each call one atomic step | as a property of `premium` |
| `Premium` | PremiumService, statement by statement | `premium`, `premium_replay` |
| `Premium_proofs` | the inductive invariant, the theorems and the refinement | TLAPS |
| `AvatarLifecycle` | what the avatar goes through: uploaded, learnt, judged | as a property of `avatar_live`, and inside `Profile` |
| `AvatarPipeline` | upload, queue, vector and validation jobs | `avatar`, `avatar_live`, `avatar_vector` |
| `AvatarPipeline_proofs` | the inductive invariant, the theorems and the refinement | TLAPS |
| `Restrictions` | administrative restrictions | `restrictions` |
| `Restrictions_proofs` | the inductive invariant and the theorems | TLAPS |
| `Accounts` | unique contacts, identities, blocks | `accounts` |
| `Accounts_proofs` | the inductive invariant and the theorems | TLAPS |
| `Calendar` | dates, the end of a membership, ages (pure operators) | `profile`, through `Profile` |
| `Calendar_proofs` | the calendar for every date | TLAPS |
| `Profile` | the profile's row, its rules, its public view, its images | `profile`, `profile_pair` |
| `Profile_proofs` | the inductive invariant and the theorems | TLAPS |
| `MC*` | the symmetry of each instance; in `MCProfile` its days and bodies | |

### How the models correspond to the code

* A handler is a record in a request slot (`req`, `rec`, `call`, `request`,
  `job`) with its stage and the values it has read. Each database statement, or
  read with the decision taken on it, is one action; the handler's early
  returns are the guards and the branches of these actions. A slot is reused
  when its handler has ended. `Crash`, `RecoveryCrash`, `Fail`, `Abort`,
  `RequestDies` end a handler between any two steps and roll an open
  transaction back.
* A request that is refused by its very first check changes nothing, and has no
  action.
* A `$transaction` runs at READ COMMITTED. What an `updateMany` reaches is fixed
  when the statement starts (`OpenSnapshot`, `ChangeSnapshot`, `RetireSnapshot`,
  `SweepStale`); its writes, and those of the other statements, become visible
  at the commit, where unique indexes and table checks are enforced. A users row
  that was updated stays locked until then (`rowLock`).
* Ids are named when a request starts instead of when its row is inserted; the
  number of ids is the bound on how many rows are ever created.
* Passwords, codes and tokens are values; a hash comparison is equality. bcrypt
  reads 72 bytes and the first 72 of a refresh token vary with the user only, so
  a session's hash is either the placeholder or a token's.
* The dates of recovery codes matter only by which of two is the later: `before` is
  the relation of the earlier to the later, and a code is dated as its row is inserted
  (`InsertCode`), where the default of its column is filled in.
* An email is a spelling, and `Normalized` maps each to the one that `normalizeEmail`
  makes of it. Register stores and seeks the normal spelling, a social login that of
  the provider, and the index compares spellings.
* Time is a bounded clock where dates are compared with each other (`Premium`,
  `Restrictions`), a calendar date where the code counts months or years
  (`Profile`), and otherwise a set of rows whose date has passed.
* A body is a record whose fields may be `Absent` (undefined in the code) or
  `None` (null): the checks of the profile treat the two differently, and so does
  the model. A text is given or blank, a coordinate exact or rounded.
* `keyTaken`, `spent`, `paid`, `lifted`, `seen`, `checked`, `mishap`, `gaveUp`, `told`,
  `balance` (of `Accounts`), `judged` and `raced` are history: no guard of the modelled code reads them.

## Runs

All bounds are in the configurations. Where a run stops being interesting below
its bound is said here.

| Run | Bounds | Shows |
|---|---|---|
| `sessions` | 1 user, 2 sessions, 2 passwords, 2 requests, no symmetry | Every pair of handlers over one users row, either of which may crash with the lock, under fairness (`RequestsEnd`). Sessions are per user, so a second user adds only independent steps; that a third request changes nothing for the safety properties is proved. |
| `recovery_codes` | 2 recoveries, 2 codes, 2 attempts | Two overlapping requests, guesses or resets. `AttemptsBounded` and `SpentOnlyTogether` name the number of slots: that is how far stale reads go, and no further. A slot is used again when its handler has ended, so that resets one after the other with one code are tried too. |
| `recovery_sessions` | 1 recovery beside 2 auth requests, 2 sessions | the composition: a reset against logins, refreshes and password changes. `ResetIsFinal` needs both modules and is checked here. |
| `premium` | 3 memberships, 2 keys, 2 calls, clock to 2, cycles of 1 and 2 | A membership can start, end, be cancelled and be followed by two others. Also that every behaviour is one of `PremiumLedger`. |
| `premium_replay` | as `premium` | violated, see Findings |
| `avatar` | 2 uploads, 1 validation, 2 workers, 2 attempts, 1 failure | both kinds of job at once, a superseded avatar, a failure or death at any step. |
| `avatar_live` | 1 upload key, 1 validation, 1 request slot, 1 worker, 2 attempts, 2 failures, endpoints called while a job is at work on their result (`CallsWhileAsked`) | every job ends, also one whose worker dies a second time, which the queue then fails; and the whole is a behaviour of `AvatarLifecycle`. `CallsWhileAsked` cuts off calls of the endpoints only, for which no fairness is assumed, so the liveness property loses none of the steps it relies on. With one key the avatar can still change from a provider's picture to the upload and be uploaded again; the refinement for all instances, with and without callbacks, at any time, is proved. |
| `avatar_vector` | no failures | violated, see Findings |
| `restrictions` | 2 rows, 2 calls, clock to 2 | two concurrent calls on rows that start now or later. |
| `accounts` | 2 users, 1 email in 2 spellings, 2 phones, 1 document, 2 subjects at each provider, 2 requests; no step after three identities are linked (`FewLinks`); blocks beside blocks only (`BlocksApart`) | every pair of handlers in a race for one index, two identities of one provider that find one user, and one address that comes in two spellings; blocks and unblocks of one pair of users, which share with the other handlers only that users exist, and no handler takes that back. All of it without these bounds is proved. |
| `profile` | 1 user, 1 request slot, 1 key, a process west of UTC, 6 days: the ends of long and short months, and a day on either side of two 18th birthdays | A row is per user, and the one slot interleaves with uploads, endpoints and days. West of UTC is the harder case: the local day of a birth date is the day before. Ages and periods for all other dates are proved. |
| `profile_pair` | as `profile` | violated, see Findings |

Every property of a passing run has a mutant in its module (`Op_Mutation`, listed
in `PROJECT.json`): the operation with a plausible bug, under which the run fails.

### What the properties say, and what they do not

* *Sessions.* The code does not keep a user to one active session: two
  logins that overlap leave two. Nor does a password change reach a login that was
  validated before it and inserts after it. `SweepsAreFinal` states what holds: all
  that the sweep could see is closed for good.
* *Recovery.* A code may pay for as many resets as had validated it before
  the first committed, and for none that reads it afterwards: `SpentOnlyTogether`
  says that each committed reset had read its code before any other with it had
  committed (`paid` is what the code had paid for when it was read). A limit of
  attempts may be exceeded by the guesses that were being compared at the same
  moment. Requests for a code that overlap leave two usable codes.
* *Avatar.* `mishap` records the cases in which the code itself leaves a status
  behind: a death between two updates, an `add` ignored because the job id
  exists, a superseded job writing its status. `QuietStatusIsFinal` says that
  there are no others. `AvatarLifecycle` states what a user sees: a verdict is
  lost only to an upload, and an upload leaves nothing of the avatar before it. It
  does not promise that a verdict, or a vector, was computed for the avatar it
  is written to: neither does the code (see `avatar_vector`), and a validation that
  was under way when a new avatar was confirmed gives its verdict to that one.
* *Profile.* `BirthDatesAreAdult` allows two days: a process west of UTC reads a
  birth date as the evening before, and that day may be 28 February in one year
  and 29 February 18 years on. `ShownVerdictIsOfPicture` leaves out the public
  profile between whose two reads an upload was confirmed (`raced`): it does show
  the new picture with the old status. `CompletedStaysCompleted` names the one body
  by which a completed profile loses its completeness, a first name of blanks.
  `PeriodsFitTheCalendar` says what overflowing months amount to: a month lasts as
  many days as the month in which it begins has, so from 31 January it ends on 2 or 3
  March.
* *Restrictions.* Two may be in force, in exactly the cases `SecondOnlyUnseen`
  names; lifting one then leaves the other. Nothing in `src/` calls create and
  lift yet; the module models them as exported.
* *Accounts.* An address may have two users: a social login matches and inserts the
  provider's spelling of an email, and who registered with it in lower case is not
  found by `Ana@x`. `ContactsUnique` says that this is the only way to a second
  user, and that an identity signs that user in; no password login or recovery does, as
  they look for the normal spelling. `OneUserPerIdentity` also says that two identities of
  one provider never lead to one user, which only the index on user and provider
  ensures. A violated index is an uncaught database error for register,
  social login and updateMe; for `blockUser` it is a conflict. The state is the
  same. `BlocksAlternate` says that answers to block and unblock fit the rows although
  both check first: successes take turns, however many requests overlap.

## Fairness

`sessions`: `WF` of the steps of a request that has arrived, because the event
loop and the database serve every statement that was issued; `SF` of
`ChangeSnapshot`, because PostgreSQL queues the waiters of a row lock, so a lock
that is freed again and again is granted. Arrivals, crashes and the environment
are not fair. `avatar_live`: `WF` of a worker's steps; `SF` of starting a waiting
job, because BullMQ hands out jobs in order, so a job is not passed over for ever.
Uploads, failures and forgetting are not fair, and failures are bounded.

## Findings

1. `premium_replay`: a replayed activation answers `isPremium: true` from a
   membership that has ended. `docs/catalog-signals-contract.md:30` defines it as
   "currently has an active premium membership".
2. `avatar_vector`: `saveAvatarVectorIfAvatarMatches` compares the storage key in
   one statement and writes in another; the refusal it logs as
   `avatar_changed_before_vector_persisted` is missed when the upload is
   confirmed in between.
3. `profile_pair`: `docs/catalog-signals-contract.md:102` wants coordinates "sent as a
   complete latitude/longitude pair", and `assertCoordinatePair` answers
   'Latitude and longitude must be provided together'; it compares with `undefined`
   only, and a null beside a coordinate leaves half a pair in the profile.

## Proofs

`AuthSessions_proofs` proves for every number of users, sessions, passwords and
requests (assumption: `NoneIsNoValue`) the type invariant, `SweepsAreFinal`,
`ChangeEndsOwnSession`, `DeliveredTokensMatch` and the action property
`ClosedStaysClosed`. None of these is inductive: that a token update does not
revive a session needs to know that the row it names exists and, if the request
is opening one, that no other request names it. The invariant `IInv` adds to the
type invariant and `SweepsAreFinal`:

* `StagesMatch`: which operations pass through which stages;
* `RowsOwned`: a session row has an owner;
* `ReservedIds`: a request that will insert a row is alone in naming its id, so an
  insert never hits a row that was swept;
* `RowsExist`: rows that requests, sweeps and clients refer to exist, and tokens
  handed out have their hash stored;
* `OwnSessionSeen`: a password change sweeps the session it was asked from.

`NextInvariant` has one step per action. The theorems follow with PTL.

`Premium_proofs` proves for any memberships, keys, cycles, requests and any bound of
the clock (assumption: `PremiumConstants`, of which the proofs use that cycles are
positive and that `None` is no id) the type invariant, `AtMostOneActive`,
`OneMembershipPerKey`, `RetryIsReplayed`, `EndedInThePast`, and that `Premium`
implements `PremiumLedger` (`ImplementsLedger`). The invariant is what a request
still knows about the rows after others have committed: `RowsFit` (periods have
a length and have begun, a key is on one row), and per request `RowReserved` (the
row it will insert is absent and named by it alone), `StaleRowsEnded` (what it swept
has ended in the meantime or is still past its end), `RowKnown` (the row it answers
with exists and has its key) and `KeyFound` (a retry can still find its key).
`OneRequestSteps` is the argument about interference: a step in which rows stay,
keep their key and only leave the active state, apart from the one row the request
has reserved, disturbs no other request. Each action is then shown to be such a step
and to leave its own request in order. For the refinement,
`CommitsAreLedgerSteps` maps each commit to `Grant`, `Cancel` or `Expire`; everything
before a commit is a stutter.

`AvatarPipeline_proofs` proves for any keys, validations, requests, workers, attempts
and failures (assumption: `AvatarConstants`, of which the proofs use that attempts
and failures are numbers, and that keys, validations and `None` differ) the type
invariant, `AttemptsAgree`, `ResultMailedOnce`, `QuietStatusIsFinal`, and that
`AvatarPipeline` implements `AvatarLifecycle`. The invariant has two halves. For
each job, in terms of its record alone: `AttemptsStand` (who was told that a job
failed for good, or has thrown, and at which attempt) and `ToldInTime` (mails
against failures). For the row: `StatusesAreDue`, that whoever left a status
unfinished is still on the way to finish it: a request before its `add`, or a job
that is `Busy`; and a job that has saved a vector which an upload then wiped leaves
that to the request of this upload. `JobWrites` carries the first half over every
step of a job, `JobSteps` and `StatusWrites` the second, so that an action's own
lemma has only to look at its own job. For the refinement, `EndIsFinish`,
`AddIsSubmit` and `Unseen` map a step that ends, adds or merely advances a job;
vectors and verdicts are single steps.

`Calendar_proofs` proves for every date of the calendar, without a bound, what
`profile` checks on six days: tomorrow is the next date (`TomorrowIsNext`), every
period fits (`PeriodsFitEveryDate`), and who counts as 18 from the day before the
birth date is 18 within two days (`AdultsWithinTwoDays`). The argument counts months
from year 0: a date has a number, months follow each other by their length, and
`NextMonthStarts` and `LeapYearsApart` are the only places at which the rules of leap
years are looked at.

`Profile_proofs` proves for any days, births, bodies, requests and keys, on either side
of UTC (assumption: `ProfileConstants`), the type invariant, `BirthDatesAreAdult`,
`PeriodsFitTheCalendar`, `ShownVerdictIsOfPicture` and `CompletedStaysCompleted`. Its
invariant `ProfileInv` adds what a check leaves for the write after it
(`CheckedBodies`: a body that has passed names an adult still, since days only go on),
that the row's own birth date passes the code's check (`RowIsAdult`, from which the
calendar's theorem gives the birthday), and that a verdict has a picture it was
given for (`VerdictsAreJudged`).

`PasswordRecovery_proofs` proves for any users, sessions, codes and limit of attempts
and any finite number of requests (assumptions: `NoneIsNoValue` and
`RecoveryConstants`; recovery and session requests differ, and `Recoveries` is finite,
as the bounds below count it) the type invariant, `ResetIsFinal`, `RequestRetiresCodes`,
`AttemptsBounded`, `SpentOnlyTogether` and the action property `UsedStaysUsed`; and that
what `AuthSessions_proofs` says of sessions alone holds beside resets too: the theorems
`SessionsKeptBesideResets` and `NoRevivalBesideResets`. The invariant `RecoveryInv` is
`IInv` of the sessions with three parts:

* `RecoveriesFit`: which operation passes through which stage, and that all that a
  transaction saw will be retired, or closed, by its commit, and is afterwards;
* `AttemptsLeft`: the guesses counted at a code and those about to be counted are
  together within the bound. `AttemptsBounded` alone is not inductive: it must also say
  that a request joins those about to count only when it has read a count below the
  limit. A count so read is at most `MaxAttempts - 1` and is joined by at most all
  requests;
* `SpendsLeft`: the resets a code has paid for and those that hold it and have not
  committed are at most as many as there are requests, and a code that has paid
  is used, so nobody joins: a reset that holds a code read it unused, hence unpaid,
  which is the other half of `SpentOnlyTogether` (theorem `SpendsOverlap`).

The last two count sets of requests (`CountStep`, `CountsChange`). To `IInv` the
commit of a reset is a sweep like that of a password change (`ResetKeepsSessions`); the
other steps of a recovery leave the sessions alone but for the lock (`LocksKeepSessions`,
`SessionsUntouched`), and `QuietStep` serves all the actions that count nothing.

`Restrictions_proofs` proves for any rows, calls and bound of the clock (assumption:
`RestrictionConstants`) the type invariant, `OffIsOverOrLifted`, `SecondOnlyUnseen`,
`PeriodsHaveLength` and the action property `OffStaysOff`. The heart of `RestrictionInv`
is `ClearAt`: no row that a call had seen was in force at the time it looked, and none
will have been, because rows stay, keep their start, and change their end only when
they are switched off (`Later`). A creating call carries this from its look to its
insertion (`CallsFit`), and the row afterwards (`RowsFit`); `NamesUnique` keeps two
calls from inserting one row. That a row is off only when it is over needs no memory of
the list a login has read, since a row's time does not come back.

`Accounts_proofs` proves for any users, contacts, identities and requests (assumption:
`AccountConstants`, of which the proofs use that a phone given by a client is a number
and never a placeholder, as the DTOs demand) the type invariant,
`ContactsUnique`, `OneUserPerIdentity`, `PlaceholdersAreLinked`, `BlocksAlternate` and
`LinksAreFinal`, an action property stated in that module: a linked identity is never
moved or removed. An email of the placeholders' domain is refused by no check, so
`PlaceholdersStayLinked` has the hypothesis that no client gives one for its own
(the instance of `accounts` satisfies it); the invariant's part `PlaceholdersLead` does
without it and excepts those emails. `AccountInv` adds `RequestsFit`, what a request knows at its stage (a
user that was found still exists; placeholders that await insertion are those of the
request's own identity; who has signed in is the user linked; what awaits insertion for a
registration is normalised), `RowsFit`, that a link leads to a
user, that a user has a phone, and that one with a provider's spelling has an identity, and
`StoredUnique`, the contacts as they are stored; `AddressesApart` concludes `ContactsUnique`: two
spellings of one address cannot both be the normal one. The checks that handlers do before they write play no part in
the argument for `ContactsUnique`: the indexes alone carry it.

The invariants were model-checked on the instances of the runs, or follow
from properties that were, before they were proved.

Only model-checked is what is beyond the prover: the two liveness
properties, `RequestsEnd` and `JobsEnd`, as fairness and `ENABLED` are out of its reach. The runs that
expect a violation have nothing to prove. All safety properties, action properties and
refinements that a passing run checks are proved.

## Not modelled

SMTP, Redis connections, health checks, logging, throttling and configuration have
no state that decides anything (see `components`); of the storage, signatures and the
checks of type and size, which refuse a body before anything happens. Distances
between users need real arithmetic, and time zone names are the platform's. Listing
and reading endpoints change nothing, but for the public profile, whose two reads
are modelled. What the database driver reports for a violated index is external: the
code's handling relies on `meta.target` (`premium.service.ts:474`); a driver that
reports otherwise ends the call with an error, which the `Crash` actions cover.

## Plan

Done, in this order: sessions and their proofs, recovery, premium with its ledger
and its proofs, the avatar pipeline, restrictions, accounts; the profile with its
calendar and their proofs, the lifecycle of the avatar, its refinement and the
proofs of the pipeline; the proofs of accounts, restrictions and recovery.

Next: an abstract specification of accounts (a user appears with all of its contacts or
not at all), shown to be implemented by `Accounts`.
