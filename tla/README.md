# IdentityHub in TLA+

IdentityHub is a multi-tenant Go service. Users log in, connect their Jira
account by OAuth, file tickets by hand or through machine API keys, and set up
*automations* that watch a blog and file one Jira ticket per new post. State
lives in Postgres and Redis; any number of API processes and scheduler
processes share it. The code takes no locks of its own: what keeps processes
apart are a claim in SQL, a few Redis commands and the order of calls. This
directory models that part of it, checks it with TLC and proves the central
results with TLAPS.

## The system

| Part | State | Operations | Who else touches the state |
|---|---|---|---|
| Automation scheduler and pipeline (`automation/`, `storage/postgres/automation.go`, `storage/redis/automationseen.go`) | `automations` rows (enabled, status, `next_scan_at`, `locked_at`), seen sets | claim a batch, run a pass per row, complete; create, edit, delete, run now | scheduler replicas, users, the owner's Jira connection |
| Jira credential (`integration/oauthtoken`, `storage/postgres/credential.go`) | one encrypted row per user | fetch a valid token (refresh, persist, mark reauth), save, delete | every request and run of the user, callbacks, the OAuth provider |
| OAuth connect (`integration/`, `storage/redis/oauthstate.go`) | one-time states | start, complete | browser redirects |
| Ticket reports (`ticketreport/`, `storage/redis/ticketcache.go`, `reconcilegate.go`) | per-tenant ticket list, throttle marker, lock | create ticket, list, reconcile | all users and runs of the tenant, people working in Jira |
| API keys (`apitoken/`, `storage/postgres/apitoken.go`, `storage/redis/tokencache.go`) | rows, 60 s cache entries | issue, authenticate, list, revoke | every request that bears the key |
| Sessions (`session/`, `storage/redis/session.go`) | entries with sliding TTL, index set per user | create, resolve, revoke, revoke all | every request of the browser |
| Login, logout, cookies (`transport/http`, `frontend/src/api.ts`) | the browser's cookie jar | login, logout, authentication of every other route | tabs of one browser, late and lost answers |
| What a run files (`automation/service.go`, `automation/discover`, `summarize`) | rows with their fields, the host's sitemaps | create, edit (read, then write), discover, summarise, compose | editors, the host, the model |
| Jira client (`integration/client/jira.go`) | none; Jira's issues | create an issue, search by label in pages | users and runs, people working in Jira |
| Process (`app/`, `platform/`, `cmd/api`) | clients, servers, requests in flight | start, seed, schedule, serve, shut down | signals, other processes that seed |
| Configuration (`config/`) | none | resolve defaults, file and environment; validate | |

How they interact: the HTTP handlers and the scheduler both go through
`ticketreport.Service`, which asks the token manager for a token, calls Jira,
and updates the ticket list. The scheduler's pipeline checks the connection
before each post (`EnsureConnected`) and files through the same
`CreateTicket`. A completed OAuth callback starts a reconcile in the
background. Nothing else is called back. Every process is started by `app.Run`
from a validated configuration; the lifetimes, sizes and caps that the other
parts rely on come from there.

What is hard here, and where: leases and crashed or slow workers; steps of two
processes between two database or Redis calls (read-then-write of the ticket
list, find-then-refresh of a session, row-then-cache of an API key,
load-refresh-persist of a rotating OAuth token); answers of Jira or of the
provider that are lost after the call took effect; deletes and edits in the
middle of a run; a claim order and a cap that must let every automation and
every post have its turn. `PROJECT.json` lists each of these hazards at its
line with the properties that cover it.

What makes each part correct:

- automation: one worker per automation at a time, for as long as it keeps to its
  lease; a post is never lost, is filed at most once for as long as its marks are
  not lost and nobody outruns the lease, and is filed in the end; a crashed run
  recovers;
- credential: no order of overlapping requests loses the grant, nothing resurrects
  a deleted row, and only a request overtaken by another leaves a wrong status or
  a mixed row;
- ticket list: one reconcile at a time, for as long as it keeps to the TTL of its
  lock; the list converges to what Jira has;
- API keys: a dead key is refused after a bounded time;
- sessions: what is gone stays gone, the absolute lifetime holds, the index
  lists every live session;
- connect: a state is consumed once, by the principal that started it, and its
  grant reaches a row if it reaches a site;
- login: a logout answered with success is final, and the cookie ends with its
  session;
- digests: a ticket is about a post of the watched address, in the project asked
  for, the newest posts first, with a description that says what was meant and
  ends with the link; an edit is whole;
- search: pages of any size and changes between them hide no issue;
- process: it only runs with values the rest can rely on, a shutdown drains what
  it accepted or uses its whole time, and it ends.

## Modules

| Module | Models | Status |
|---|---|---|
| `Automation` | table, claim, lease, pipeline, seen set, users, time | done |
| `DigestRun` | rows with fields, edits, posts and tickets with contents | done |
| `Sitemap` | discovery: prefix, children, order, duplicates | done |
| `JiraClient` | issues, their documents and labels, the paged search | done |
| `MCContent` | instance of `DigestRun` and `JiraClient` for TLC | done |
| `ContentProofs` | proofs about `Sitemap`, `JiraClient` and `DigestRun` | done |
| `Digest` | abstract promise of the automation | done |
| `AutomationDigest` | the refinement mapping to `Digest` | done |
| `AutomationProofs` | inductive invariant, safety theorems, refinement of `Digest` | done |
| `Credential`, `MCCredential`, `CredentialProofs` | one user's credential, requests, callbacks, provider | done |
| `Connect`, `MCConnect`, `ConnectProofs` | OAuth states, consents, callbacks, grants | done |
| `ApiToken`, `ApiTokenProofs` | row and cache of an API key | done |
| `Session` | sessions and their index | done |
| `Gateway`, `MCGateway`, `GatewayProofs` | `Session` under the login and logout handlers, the middleware and a browser; the proofs of both | done |
| `TicketView`, `TicketViewProofs` | ticket list, throttle, lock, Jira | done |
| `Config` | layers and validation of the configuration | done |
| `Process`, `MCProcess`, `ProcessProofs` | one process from start to end; `Config` decides what it runs with | done |

The order is that of importance: the automation first, since it is the part
with several processes, crashes and time; then what its runs depend on
(credential, ticket list), then the two caches in front of authentication and
the browser before them, what the tickets say, and the process around it all.

### Automation

`table` is the row (`life`, `enabled`, `status`, `wait`, `age`), with relative
time: `wait` is `next_scan_at - now`, `age` is `now - locked_at`. `seen`,
`tickets` and `feed` are the Redis set, Jira and the site. A worker's `pc`
follows `Scheduler.RunDue` and `Service.RunOnce`:

| Action | Code |
|---|---|
| `ClaimDue` | `claim_due_automations`, one SQL statement, the rows it finds locked, and the loss of its result |
| `StartRun` | `Discover`, `Unseen`, cap, or an error |
| `ExaminePost` | `EnsureConnected`, `Scrape`, `Summarize` |
| `CreateTicket` | `ticketreport.CreateTicket`: refused, failed, filed, filed with the answer lost |
| `MarkSeen` | `seen.Add` and its failure |
| `Complete` | `repo.Complete` with the next scan time, and its failure |
| `Crash` | the process dies or is shut down; the row keeps its claim |
| `Create`, `SetEnabled`, `RunNow`, `DeleteRow`, `ClearSeen` | the service's operations; delete is two calls |
| `Publish`, `ToggleConnection`, `Tick` | the site, the owner's Jira grant, time |

`lapses` counts tickets whose mark was lost (a lost answer, a failed `SADD`, a
crash in between). Nothing in the code makes a batch end within its lease, so a
run may outlast it at any point: the row becomes claimable under its worker.
Two variables of history, which no step reads, keep the account of that: `late`
has the automations a live worker has run beyond the lease, until they are
claimed with nobody on them, and `taken` counts the claims of an automation from
under a live worker. One late run can start a chain, since its `Complete`
releases the row its successor holds; each claim in the chain is counted. A
claim that passes over rows another transaction has locked (`FOR UPDATE SKIP
LOCKED`; an edit may hold one too) is `Selected` with a non-empty `locked`.
`Listing` may miss posts of unreachable child sitemaps. Posts are numbered
oldest first and a run takes the newest first, as `Discover` sorts them.

Between two actions any other process may step. Calls that only read are part
of the action that uses them, except where a write can come in between and
matters.

### Credential

A *pair* is an access token and its refresh token. `row` is the database row;
`valid` and `site` are the provider's memory. `LoadCredential`, `RefreshTokens`,
`Persist`, `MarkReauth` are the steps of `FetchValidToken` between its calls;
`ResolveAuth` and `CallJira` those of `resolveAuth` and its caller. `Exchange`
and `SaveCredential` are the end of a callback. Requests and callbacks of a user
overlap freely, as they do in the code. `overtaken` is history: the requests
under way since which the row was written by somebody else. What the properties
say of a wrong mark, a mixed row or a mismatched call is that it takes such a
request; that it then does happen is what the code does. A pair nobody stores or
holds is issued again under the same name, which keeps the model finite without
a bound on refreshes. A provider that answers without a new refresh token, which
Jira does not, is not modelled.

### Connect

`bound` and `store` are what `GenerateState` writes, `consent`, `codes` and
`grants` the provider's memory, `saved` the credential rows. `ConsumeState` is
`GETDEL` together with the comparison of the principal, which is local;
`ExchangeCode` and `SaveCredential` are the two calls after it. A redirect
(`Callback`) can be loaded any number of times, in anybody's session.
`siteless`, history like `stored`, has the states whose grant turned out to
reach no Jira site, which `ExchangeCode` refuses with every call successful
(oauth/jira.go:209). The state and the code of a redirect belong together, so
that the PKCE verifier, which `ConsumeState` returns, always fits and is left
out. The row's later life is `Credential`'s, whose `Exchange` stands for a
callback that has passed `ConsumeState`.

### ApiToken, Session, TicketView

`ApiToken` splits `AuthenticateToken` at its calls (cache, row, cache) and
`RevokeToken` (row, cache), with ticks for TTL and request latency. `Session`
splits `Resolve` into find, decide and refresh or delete, and the revocation of
all (which no handler calls yet) into its two Redis calls; `mixed` remembers the
sessions of logins between the two; `limit` is the time to `AbsoluteExpiresAt`.
`TicketView` splits `Add` into its read and its write, a reconcile into
throttle check, lock, search, replace, stamp and unlock; the paged search is
one atomic look at Jira's newest `Cap` issues. The lock may expire at any time,
under a reconcile at work too; `outrun` is history and says that it has, until
none is at work (`Leave`).

### Gateway

A request moves through `stage`: the cookie it was sent with (`sent`) is
resolved by the steps of `Session`, then its handler runs, then its answer is
on the way, for at most `Latency`, or is lost. Only an answer that arrives
changes the `jar`. `ih_session` and `ih_csrf` are set, cleared and expire
together and the front end echoes the one with the other, so that one variable
stands for both. Every step of `Gateway` is a step of `Session` or leaves its
variables alone, and the properties of `Session` are checked here, with the
requests the handlers really make.

### DigestRun, Sitemap, JiraClient

Here the data has contents, and the calls neither crash nor lose answers, which
is `Automation`'s part. An edit is two steps, `ReadRow` and `WriteRow`, as
`Service.Update` is `Get` and `Update`; a run keeps the `copy` of the row it
claimed. Addresses are sequences (host, pieces of the path), a `lastmod` is the
rank of its raw text among the texts a sitemap can hold, because `Discover`
sorts by the text and does not parse it: dates of several formats or offsets
sort by their spelling. Texts are sequences of trimmed lines of tokens, and a
token that stands for one of the marks (`Star`, `Bullet`, `Rule`) is that mark
wherever it comes from. `Discover`, `AdfDoc`, `AdfInline`, `Fields`,
`ComposeTitle` and `ComposeDescription` are translated as operators; what recurs
in them (`Kept`, `AdfInline`, `AdfDoc`) is a recursive function on a position in
the sequence. `ReadLine` says what a line means without them: a `**` that has a
partner is gone, by the parity of the marks before it, what stands between the
two is bold, and everything else is there. A line of marks alone (`****`)
becomes a paragraph without content, and `Acceptable` lets it pass: that is what
`adfDoc` writes, and whether Jira refuses it cannot be read from this
repository. `SanitizeLabels` turns blanks to dashes and leaves other white
space, as `sanitizeLabels` does; one label of the instance has a tab. `ReadDoc`
says what a document shows, and `Rendered` compares the two. `digests` is
history: the issues that runs have filed. In the search, `Pages` is the set of
answers Jira may give: any number of issues up to the page size, and each of the
three ways to say that a page is the last.

`MCContent` adds the two up: in one leg a search runs and users create issues
of every description, in the other the automation runs. The two share nothing
but the issues, so that their product would show nothing more.

### Process and Config

`pc` follows `app.Run` from `Load` to `Close`. `Resolved` and `Problems` are
`config.Load` and `Validate`, for the keys that a check or a later step tells
apart. A number of the file may be any integer: viper casts it, to 8 bits for
the parallelism and to 32 for memory, iterations and key length, before
`Validate` sees it (`Narrowed`). `Uint32` is a constant, which the instance sets
to 2^30, for TLC's integers end at 2^31. A list may be a text with commas or a
list with items that are no strings (`NotString`), in any layer
(`getStringSlice`). The two servers listen and fail in goroutines of their own,
requests hold connections of the pool, `left` is what remains of the shutdown
timeout, `age` how long a request has been served, and `spent`, which is
history, the ticks of the timeout that passed in pprof's drain. `OtherSeed` is a
second process with the same seed. What a scheduler does between its start and
its signal is `Automation`'s, what a request does is everybody else's.

Definitions whose comment begins with "Variant" are deliberate mistakes. No
specification uses them: each stands for a plausible bug and shows, put in the
place of the definition after it, that a property is able to fail.

## Runs

| Run | Bounds | Shows |
|---|---|---|
| `AutomationLive` | 2 workers, 1 automation, 3 posts, one of them poison, cap 2, lease 0, 2 failures, 1 claim from under a live worker, fair | overlap only behind a late run; no post lost, none filed twice beyond its lapses and such claims; refinement of `Digest`; the proofs' invariant; a capped backlog drains past a poison post; a crashed row recovers |
| `AutomationTurns` | 1 worker, 2 automations, batch 1, fair | the claim order starves nobody |
| `DigestContent` | 2 editors, 4 requests, 3 webs, 3 answers, cap 2, 3 tickets; 585 texts, 3 label lists, 6 issues, pages of 2, a limit of 3 | edits are whole, newest posts first, no post more often than listed, tickets read as meant, the search skips nothing |
| `CredentialOverlap` | 2 requests and a callback, overlapping, 2 sites, 2 failures, disconnect at any time | no grant lost, a deleted row stays deleted, wrong marks, mixed rows and mismatched calls only by overtaken requests |
| `ConnectOnce` | 2 users, 2 states, 3 codes, 2 callbacks, 2 failures | own grants only, one grant per state, no grant left behind but of accounts without a site |
| `ApiTokenLag` | 2 lookups, 1 revoker, TTL 3, latency 2, 2 failures | bounded life after death |
| `GatewaySessions` | 2 sessions, 2 requests of a browser, TTL 2, absolute 4, latency 1 | no resurrection, absolute limit, index, final logout, cookie and session end together |
| `TicketViewHeal` | 2 creates, 2 reconcilers, cap 1, 2 failures, fair | one reconcile at a time unless one outran the lock; the list converges to Jira |
| `ProcessDrain` | 4 files, 11 environments, 2 requests, 1 profile, timeout 2, fair | valid configuration, clean or patient drain, seeding, termination |

The other runs end in a counterexample: each checks one sentence of the
documentation or of a comment that the code does not keep. `PROJECT.json`
quotes the sentence and says what happens:

| Run | Claim that fails |
|---|---|
| `CredentialReauth` | `needs_reauth` when the refresh token is dead (concurrent requests) |
| `ApiTokenSecond` | a revoked key stops working within a second-ish (a lookup overlaps the revocation; no call fails) |
| `TicketViewShown` | a created ticket shows immediately |

Smaller disagreements with the documentation that the models contain, and that
have no run of their own:

- overlapping scans: src/README.md:158 promises none, but nothing renews
  `locked_at`, and a worker runs a whole batch under one claim time; once the
  lease is over a second worker claims a row still being run, and the first
  one's `Complete` releases it (`late`, `taken`: `OverlapOnlyWhenLate` without
  its exception fails in `AutomationLive`);
- run now, pressed for ever on one automation, keeps an only worker from
  reclaiming another one's crashed row (the premise `UsersRest` of `Recovered`);
- the cookie's Max-Age is set once, so that a browser loses its session one
  sliding TTL after the login, however active it is, and never reaches the
  absolute lifetime (auth_handler.go:84 against docs/DATA-MODEL.md:273;
  `MaxAge`);
- the front end shows a failed logout as done (App.tsx:26): the session and its
  cookie live on (`Logout` after `Fail`);
- with the pprof server on, which is the default, a profile that runs on uses
  up the shutdown timeout, and requests the still open public listener accepted
  meanwhile are cut without a drain (server.go:103; `spent` in
  `PatientDrain`); a failing server ends the process without any drain
  (`ServerFailed`);
- `config.Load` "validates", but not scheduler.tick (0 panics in `NewTicker`),
  lease, claim_batch or the intervals, and the Argon2 numbers only after they have
  been narrowed: a parallelism of 257 is taken for 1 (`Start`, `Narrowed`);
- a PUT of an automation is documented as a full replacement
  (automation_handler.go:125), but an omitted interval or enabled flag keeps the
  value that was read, and may undo another editor's (`Merge`);
- "URLs strictly under the watched prefix" (sitemap.go:86) include /blog-x and
  the page /blog/ itself (`Under`); a post listed twice is filed twice
  (`AsOftenAsListed` is bounded by the listing);
- a search is "bounded to maxTickets" (jira.go:141), but may return up to a page
  less one more when Jira's pages are short (`JiraTypeOK` has the bound that
  holds);
- CORS allows no PUT, by which automations are edited (middleware.go:184), and
  `ListProjects` stops at Jira's first page: neither is modelled;
- a delete during a run: the run goes on from its claimed copy, files its posts
  (again, if the seen set is already cleared) and marks them in a set nobody
  deletes any more (`DeleteRow`, `ClearSeen`, `MarkSeen`);
- posts that can never be scraped or summarised stay unseen and take a place of
  every capped run; as many of them as the cap starve all older posts
  (`Reached`, the condition of `EventuallyFiled`);
- a run now pressed during a run is overwritten by its `Complete`;
- a refresh under way while the user reconnects to another site writes the old
  site's tokens onto the new row, and a reconnect between the two loads of
  `resolveAuth` pairs the token of the old site with the id of the new one (the
  exceptions of `MixedWhenOvertaken` and `AuthMatchesSite`);
- "only one reconcile per tenant runs at a time" ends with the TTL of the lock:
  a reconcile still at work then is joined by another, whose lock it deletes
  (`outrun`);
- the throttle is stamped after a failed reconcile as after a successful one
  (`Stamp`), so that the next connect's reconcile is skipped;
- a login between the two calls of `DeleteAllForUser` leaves a session that no
  index lists (`mixed` in `Session`);
- two connects that both pass the throttle check reconcile one after the other.

**Bounds.** Two workers are the smallest number that can overlap, and the code
treats them alike; `MaxTaken` 1 lets the second take the row from under the
first, and longer chains, like batches of several rows, are left to the proofs,
which hold for every bound. Two automations compete for one worker in
`AutomationTurns`. Three posts with a cap of two, one of them poison, give a
backlog that outlives a run. A lease of no tick ends at the first tick, at any
point of a run; an interval of two and a drain of one keep the order "drain <
interval". `MaxOverdue` only limits how precisely the past is told apart;
`OrderTold` keeps `Tick` from making two rows equally overdue at that limit
while a worker waits, which would lose the order of their due times.
`MaxFailures` bounds failed calls, lost answers, crashes and claims that find
rows locked together; two at once already cover a failure during the recovery
from another. `TTL`, `Latency`, `Absolute` and `Slack` are small numbers in the
order of the real ones. `MaxIssues` 2 with `Cap` 1 reaches the cap. Pages of two
and a limit of three let a search end inside a page, at its limit, on a short, a
full and an empty page. Three lines are enough for every pair of neighbouring
block kinds, and for a list in between. Of the layers of a configuration each
environment changes one thing that a check or a step reacts to. A shutdown
timeout of two ticks separates a request that had all of it from one that had
not; the environments replace it by one, and by the default. No timeout may
exceed `MaxAge`, or ages could not tell such requests apart; the module assumes
so. Two reconcilers are one that outran its lock, or crashed, and one that took
over.

**Fairness.** `FairSpec` of `Automation` is weak fairness of each worker's steps
(the scheduler polls in a loop, and a crashed process is restarted), of the
second half of a delete, and strong fairness of `Tick`, because time passes
whatever is enabled in between. Users, the site, Jira's availability and
failures get none. `EventuallyFiled` assumes in addition that the automation
stays enabled and connected from some time on, that users stop pressing run now
(`UsersRest`), and that poison posts leave a place in the capped runs.
`FairSpec` of `TicketView` has weak fairness of the calls under way, of the
lock's TTL and of somebody pressing the refresh button. `FairSpec` of `Process`
has weak fairness of `Main`, of time and of a handler giving back its
connection, which Postgres' statement and idle timeouts force
(platform/postgres.go); none of a handler or a profile ever ending.

**Assumptions about time.** `ApiToken` and `Session` take the calls of one request
to end within `Latency`, as their timeouts make them. No other operation is
assumed to end in time: a batch may outlast its lease (ten minutes for up to five
automations of five posts each, every one with a summary of up to two minutes),
a reconcile its lock, a handler the shutdown.

## Proofs

TLAPS proves, for all values of the constants that satisfy the `ASSUME` of the
module:

| Module | Theorems | Under |
|---|---|---|
| `AutomationProofs` | `Typed`, `Inductive`, `NothingLost`, `NoOverlap`, `FiledAtMostOnce`, `Refinement` | finitely many workers |
| `ConnectProofs` | `Inductive`, `OwnGrants`, `OneGrantOnly`, `GrantsStored` | |
| `TicketViewProofs` | `ViewTyped`, `OneAtATime` | |
| `ApiTokenProofs` | `Lag`, `DeadKeysStop` | |
| `GatewayProofs` | `SessionTyped`, `NoEndlessSession`, `IndexedSessions`, `NoReturn`, `AllRevoked`, `Implements`, `LoggedOut`, `CookieOutlived` | absolute lifetime >= TTL |
| `CredentialProofs` | `CredentialTyped`, `ReauthWhenOvertaken`, `MixWhenOvertaken`, `GrantNotLost`, `CallsMatch`, `ConnectCreates` | |
| `ProcessProofs` | `ProcessTyped`, `RunsConfigured`, `Drained`, `DrainedPatiently`, `SeedDone` | layers hold known keys with numeric values |
| `ContentProofs` | `ContentTyped`, `SearchComplete`, `EditsWhole`, `FiledAsListed`, `TakesNewest`, `ReadsAsMeant` | the types of sitemaps, requests, answers and payloads |

The absolute lifetime is at least the TTL because `Config.Validate` refuses
anything else.

*The argument for the automation.* None of the properties is inductive.
`OverlapOnlyWhenLate` needs `LeaseInv`: while a worker lives and is not late, the
rows of its batch stay locked and within the lease, so that the claim's `WHERE`
clause cannot pick them (`ClaimIsFresh`); it holds because only a holder releases
a row, and there is no second one short of a late run. `AtMostOnce` needs
`OnceInv`, which counts workers. `Filers` are those that may still file a post:
their run has not begun and will find it unseen, or has it left; `Markers` are
those between the ticket and the mark. The tickets a post has, with one for each
filer, are at most one more than its lapses and the claims from under a live
worker. A claim of an automation nobody runs makes the only filer: there are no
markers then, so every ticket of an unseen post has its lapse. A claim from under
a live worker makes one filer more and is counted. `SeenImpliesFiled`
needs `FiledInv`, that a worker about to mark a post has filed it. `IInv` is the
conjunction, and the run `AutomationLive` checks it. `Refinement` maps the claims
of an automation to the set of workers whose batch holds it, and `OnceInv` is
what `Digest` asks of `File`; all other steps are `Claim`, `End`, `LoseRecord`,
`Drop` or stutters.

*The connect flow.* `StateInv` says that a state still in the store has no grant
and no consumer, and that a consumed one has exactly one consumer, whose session
is the user's it was generated for, and no grant before the exchange; `CarryInv`
that a callback's code was issued with a started state. For `GrantStored`,
`PlacedInv` finds every grant on a row or in the hands of the callback that is
about to store it, or its state in `siteless`; that nothing else is refused after
the exchange is what keeps it.

*The ticket gate.* The release deletes the lock whoever holds it; `LockInv`
shows that a reconcile under way is always the holder until one has outrun the
lock. That the list keeps within its cap
(`NewestBounded`) is a pigeonhole argument: the number of newer issues tells the
newest `Cap` apart, and there are only `Cap` such numbers.

*The API key.* `LagInv` relates the age of a lookup that saw the key alive, the
rest of the cache entry and the time since the key died; each tick moves them
together.

*The session.* A refresh was decided at most `age` ticks ago, so that it can
extend an entry by no more than the limit had left plus that age (`LimitInv`):
hence the latency in `AbsoluteLimit`. The index is renewed at each login for
longer than any refresh of an older session reaches, and a revocation of all has
read every session but those of logins between its two calls (`IndexInv`). A gone
session does not return because the refresh is `EXPIRE`, which does nothing to an
entry that is gone.

*The browser.* `RouteInv` says where in `Session`'s operations a request can be,
for which cookie; with it every step of the gateway is one of `Session`
(`Simulation`), and `SessionInv` carries over. A logout's session stays gone by
`NoReturn`. `Lasts(s, n)` says that a session, whatever refreshes are still under
way, ends no earlier than in `n` ticks unless it is deleted; the cookie is at most
a latency ahead of that (`CookieInv`), since both lose one tick at a time.

*The credential.* The code does not serialise a user's requests, and the
theorems do not assume it. `HoldInv` says that whoever needs a pair has one;
`FitInv` that a request nobody has overtaken still fits the row it read, which
is why a wrong mark, a mixed row or a mismatched call takes an overtaken one.
`RowInv` says that the tokens of a row are one pair, dead when disused. For
`GrantKept`, a pair waiting to be stored is in nobody else's hands (`HeldInv`),
so no other request can use it up; therefore the row's refresh token is good, or
the request that rotated it is about to store its successor (`GrantInv`).
Overlapping requests cost the user a needless reconnect, never the grant, as
long as no call fails.

*The process.* `PhaseInv` ties servers, clients and exit code to where main is,
`FlightInv` shows that clients are closed only behind the drain, and
`PatienceInv` adds what a request has had of the timeout, what pprof's drain has
spent of it and what is left of it.
`SeedInv` says that rows are only added, a user only under a tenant. `ConfigInv`
carries what `Validate` has found from `Load` to every later phase; the narrowing
to 8 and 32 bits is arithmetic about any integer.

*The search.* Jira gives pages of whatever is labelled when it is asked, so that
an issue may lose its label, or appear, between two of them. `SearchInv` says that
what has been read falls strictly, that the token is the last of it, and that every
issue that kept its label is among it or older than the token: hence nothing is
read twice, and nothing that kept its label is missed before the last page or the
limit.

*The runs.* `RowsInv` says that the row, every edit under way and the copy of the
run are each of one request; an edit that lands late overwrites the row, but whole.
`RunInv` puts the posts of a run under the site of its copy, newest first.
`Discovered` is what the proof needs of `Discover`: each address it returns comes
from an entry of its own of what the host lists (`Kept` and `FlattenSeq` give such
an embedding, `KeptPicks`, `FlattenJoins`), by dates that do not rise. So what a run
takes is listed as often (`ListedPosts`), and `CountInv` adds it up: while the
automation exists, whatever has been filed is in the seen set or about to be marked,
and what has been filed and is queued is at most as much as is listed, and one more
while a post that is still queued has been filed but is not marked.

*The tickets.* `ReadInv` says of every issue that its fields are `Fields` of its
payload, and of a digest's ticket that its last line is the line of an address.
The rest is about the operators, for texts of any length. `InlineRead`: the nodes
`AdfInline` makes of the rest of a line read like that rest, by induction from its
end; between two steps of its loop the number of marks read is even, and that is
why the mark it looks for opens and the next one closes. `LineFacts`: a line more
adds to the blocks and to the open list what the line says, whatever kind it is;
`DocRead`: so the whole document says what the text says, in blocks Jira accepts,
and its last block is the text's last line if that is a paragraph. `LinkRead` reads
the line of the address, which is no mark because it is longer than its host
(`UnderHead`).

The inductive invariants are stated with the proofs; that of the automation, of
the connect flow and of the API key stand in the modules themselves.

`ContentProofs` needs induction over the length of a sequence. The library's
induction theorems take a predicate as a parameter, which no prover here can
instantiate; `NatInductionSet` says the same of a set of naturals and
`SeqInductionSet` of a set of sequences, both from the well-founded order of the
finite sets.

Only model-checked: liveness and convergence (`EventuallyFiled`, `Recovered`,
`Heals`, `Stops`), since TLAPS does not do fairness. Not proved, because they do not
hold, are the three claims of the runs that end in a counterexample.

## Not modelled

- Password hashing, encryption, secrets and logging are library calls without
  state; so is the login limiter, of which only the refusal is modelled (it lets
  logins pass when Redis fails).
- Scopes, bearer or cookie, response headers, CORS and the JSON shapes are
  stateless checks and conversions of one request.
- Row-level security is the database's; the models take one tenant at a time.
- What the scraper extracts and the model writes is data; titles and
  descriptions have no length, so the cut at 255 bytes is left out.
- Users of a tenant connected to different Jira sites overwrite each other's
  reconcile; `TicketView` has one site.
- The generated API documentation and the views of the front end.

## Plan

1. The table of routes against authentication methods and scopes.
2. Several Jira sites in one tenant's `TicketView`.
3. The cut of a title at 255 bytes, which may fall inside a character.
