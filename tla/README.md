# Comax, modelled, checked and proved

Comax is a self-hosted secret manager: one Go server over SQLite, a CLI, a Go
client, a TypeScript SDK and a browser dashboard. This directory holds TLA+
modules translated from its source, TLC configurations that check them on small
instances, and TLAPS proofs for every instance. `PROJECT.json` maps each
definition to the lines it stands for and lists runs, mutants, findings,
hazards and theorems.

Two kinds of concurrency make the system hard.

* *The server* has no lock and no queue in memory: what its goroutines, and two
  processes during a rolling restart, share is the database. SQLite serialises
  writers, so **a transaction is one action, and a statement outside of a
  transaction is an action of its own**.
* *Its clients in JavaScript*, the SDK and the dashboard, run one callback at a
  time: **the code between two awaits is one action**. While they wait, answers
  arrive late, in any order or never, other operators change the server, and
  the operator goes on clicking. What was read before an await is used after it.

## Inventory

| Component | State | Operations | Made hard by |
|---|---|---|---|
| Webhook outbox (`internal/store/{webhook,delivery}_repo.go`, `handlers_webhooks.go`) | `webhooks`, `webhook_deliveries` | register, enable, delete (cascade), match and enqueue within a secret's transaction, list | rows a worker holds while requests delete them; ids used again |
| Delivery worker (`internal/webhook/worker.go`) | batch and cached keys of one tick | reclaim, claim, resolve, POST, mark | crashes anywhere, failed statements, two workers, retries, back-off |
| Secret store (`secret_repo.go`, `version_repo.go`, `handlers_secrets.go`) | `secrets`, `secret_versions` | put, delete, roll back, get, list | rollback reads before its transaction; a listing is several reads |
| Audit log (`audit_repo.go`) | `audit_log` | append in every transaction, page | pages while rows arrive; the clock |
| Resolver (`internal/secret`) | per-call caches | inheritance, `${{ env.KEY }}` expansion, cycles | recursion, memoisation, torn reads |
| Tokens (`token_repo.go`, `handlers_tokens.go`) | `service_tokens` | bootstrap, create, revoke, verify, migrate | concurrent start-ups; losing the last admin |
| Sessions (`session_repo.go`, `handlers_sessions.go`) | `dashboard_sessions` | login, logout, revoke by id, list, prune | revocation races; expiry; ids used again |
| Middleware (`middleware.go`) | none | bearer arm, session arm | the session arm is two reads |
| Projects and environments | `projects`, `environments` | create, list, diff | nothing: rows never change |
| CLI (`cmd/cli`, `internal/cli`) | `.env` and credential files | pull, push, run, render | files replaced non-atomically; a push is many requests |
| TypeScript SDK (`sdk`) | cache, epoch, flights | get, preload, reload, auto refresh, the README's webhook route | answers in any order, reloads while they are under way |
| Dashboard session (`lib/{api,auth}.ts`, `router.tsx`, `Login.tsx`, `AppShell.tsx`) | cookie of the browser, CSRF token of each tab | log in, log out, refusal, routes | two tabs share one half of a session and not the other |
| Dashboard lists (`pages/{Projects,Project,Tokens,Webhooks,Sessions}.tsx`) | one query each, dialogs, mutations | create, remove, enable or disable | refetches cancelled or joined; dialogs closed while they wait |
| Dashboard secrets page (`EnvSecrets`, `SecretRow`, `AddSecretDialog`, `VersionTimelinePanel`) | two queries, drafts, dialogs, the drawer | edit, add, delete, roll back | the table is redrawn under open editors and dialogs |
| Audit page (`Audit.tsx`) | pages by filter | filter, more, refetch | pages cut from a log that grows |
| Command palette (`CommandPalette.tsx`) | status, prefetches, the cache | open, retry, choose | prefetches overlap |
| Version diff (`lib/diff.ts`) | table, walk | diff | off by one at the borders of the table |
| Crypto, templates, Go client, other dashboard parts, website, packaging | | | no concurrent state of their own |

What makes each of the modelled ones correct is stated under *Properties* at
the end of its module; the hazards those properties are aimed at are listed,
line by line, in `PROJECT.json`.

Interactions. A secret's transaction writes the row, its version, the audit row
and the deliveries (`handlePutSecret` calls `enqueueWebhooks`); the worker polls
those deliveries. Every handler runs behind the middleware, which reads tokens
and sessions. The start of a process migrates, mints the first token, and
starts the sweeper and the worker. A change's delivery reaches the SDK's route,
which verifies it and reloads the cache. The dashboard's pages send every
request through `apiFetch`, which adds the CSRF token of the tab and hands a
refusal to the session. They share one query cache; the command palette, and the
page that compares environments, use some of the same queries as the pages.

## Modules

| Module | What it is |
|---|---|
| `WebhookOutbox` | the outbox and its workers |
| `DeliveryLedger` | what the outbox promises, without rows, leases or workers, up to the first event acknowledged by a webhook it was not owed to |
| `SecretStore` | secrets, their history, their audit rows; rollback and listing in steps |
| `AccessControl` | tokens, sessions, authentication, start-up, sweeper |
| `SdkCache` | the TypeScript SDK's cache, its requests, and the webhook route |
| `DashboardSession` | cookie, CSRF tokens, tabs, logins and logouts |
| `QueryCache` | one query of the dashboard's query library, as operators |
| `ListPages` | the pages that list and change projects, environments, tokens, webhooks, sessions |
| `SecretPages` | the page of an environment's secrets |
| `AuditFeed` | the audit page and the server's pages |
| `CommandPalette` | the palette and its prefetches |
| `LineDiff` | the line diff of two versions, step by step |
| `MCOutbox`, `MCSecrets`, `MCSdk` | definitions for TLC's instances |
| `MCAccess` | the server's half of who may act (`AccessControl`) and the browser's (`DashboardSession`), as scenes |
| `MCServer` | the secrets (`SecretStore`) and the pruning of sessions (`AccessControl`), as scenes |
| `MCDashboard` | composes the five dashboard modules as scenes |
| `WebhookOutbox_proofs`, `DeliveryLedger_proofs`, `SecretStore_proofs`, `AccessControl_proofs`, `SdkCache_proofs`, `DashboardSession_proofs` | theorems on the module of that name |
| `DashboardPages_proofs` | theorems on what holds queries of the library: `ListPages`, `SecretPages`, `CommandPalette` |
| `Dashboard_proofs` | theorems on `AuditFeed`, `LineDiff` and the composition `MCDashboard` |

Each specification has a section *Faulty variants*: definitions nothing uses,
each with one plausible bug. Put in the place of the definition they vary
(`"mutants"`), they make TLC find the property violated, so that a property that
passes is known to depend on the code.

### WebhookOutbox

`hooks` and `rows` are the two tables, by rowid. `workers[w]` is the local state
of `tick`: the candidates of `ClaimDue`'s SELECT, the claimed batch with each
row as it was read, the webhooks resolved so far this tick (`deliveryResolver`),
the outcome about to be recorded. Actions are in the code's order: `Reclaim`,
`ClaimSelect`, `ClaimCas` (one per candidate), `Resolve`, `Post`, `Mark`, their
failures, and `Crash`/`Restart`. `CommitChange` is the end of any secret's
transaction: `enqueueWebhooks` inserts one row per matching webhook.

* *Ids.* The tables' ids are rowids without AUTOINCREMENT: one more than the
  largest in use. A deleted webhook's rows cascade away and their ids come
  back. `serial` and `reg` tell apart what the ids do not; no guard reads them.
* *Time.* The code compares `next_attempt_at` with now and `claimed_at` with
  now minus `staleAfter`. The model keeps the two differences, saturating where
  no comparison tells values apart, so the clock needs no bound. A claim's
  lease starts at the age of the time read before the SELECT (`clock`).
* *Outcomes.* A 2xx is "ok"; any other status, a timeout and a transport error
  are "fail"; a key that does not open is "unsealable".

### SecretStore

`secrets`, `history` and `audit` are the three tables. Put and delete are one
action each. A rollback is three (`RollbackLookup`, `RollbackTarget`,
`RollbackCommit`), because `handleRollbackSecret` reads the current row and the
target version before it begins its transaction. A listing reads the
environments of the `inherits_from` chain one by one. The chain is a constant:
environments are never changed. A value stands for its ciphertext; reference
expansion works on the text of values and is left out.

### AccessControl

`procs` is how far each process has come in starting: `Migrate`, `CountTokens`,
`Bootstrap`, then it serves. A request is authenticated in one step by bearer,
in two by cookie (`LookupSession`, `LoadSessionToken`), and then handled in one.
`left` is the time to `expires_at`, and `revoked` tells whether a revocation is
of the current second, all that comparing whole seconds can tell apart. The
clock is read before the statement that stores it, so a row may be of a second
that is already over (`RevokedAt`, `Lifetime`). `serial` stands for the cookie.

Databases from before tokens could be admin are initial states too: `Migrate`'s
backfill promotes their oldest token. Its statements are one action: the added
columns show in no property, and a start that dies midway repeats it all.

### SdkCache

`cache`, `inflight` (with `allInflight` under `All`), `epoch` and `refreshing`
are the fields of `SecretsClient`; `flights` are its HTTP requests, each with
the epoch it began under and the rows the server read for it; `callers` are the
pending reads. A request goes through the phases of `HttpClient.request`: sent,
read by the server, headers in (the timer is cleared), settled. `GetSecret` and
`Preload` join or start a request, `Store` and `Cleanup` are what its end does to
the cache and to its slot, `Drop` is `reload`. `Commit` and `ServerReads` stand
for the server, at the granularity of its transactions. `Route` is the
receiver of the SDK's README: it verifies a delivery, reloads and answers.
`floor` is history: what a key was at its last reload.

### DashboardSession

`issued` is the server's table, `jar` the cookie all tabs share, `tabs[t]` a
tab with its CSRF token, its page and the navigation under way, `calls` the
requests under way. An answer lands in two steps: the browser takes its
Set-Cookie (`StoreCookie`), then the script that awaits it runs on (`Land`), and
a navigation the script begins resolves later (`Arrive`). `Enter` is the
`beforeLoad` of the routes. A request that differs in nothing is one. The
server's part is the session arm of the middleware and the two public handlers
of `handlers_sessions.go`.

### The pages

TanStack Query is not in the repository. `QueryCache` says what its pages rely
on under the options of `main.tsx`: a query has cached data and at most one
fetch; invalidating an observed query fetches it again and cancels a fetch under
way, except a first load, which it joins; one that nobody observes is only
marked stale, and an answer that lands clears the mark, also the answer of a
fetch that began before it (`Misses`); when the last observer goes the request is
aborted; `FetchQuery` fetches without observing; a fetch may fail, and be
repeated. The modules of the pages hold queries as records and act on them with
these operators.

* `ListPages`: `kind` picks one of the five pages. `page` is its React state
  (dialog, plaintext of a created token or webhook, row to confirm, `busy` of the
  dialog), `changes` are the mutations under way: sent, done on the server,
  waiting for the refetch that `onSuccess` awaits. `told` is history. The page is
  left and returned to; `watched` is another observer of the same list (the
  palette of the projects, the comparison of environments of the environments),
  and `PrefetchEnvs` is the palette's unobserved fetch of the environments.
* `SecretPages`: `store` are the rows as in `SecretStore`, `secrets` and
  `versions` the two queries, `row`, `dialog` and `writes` the components. `Redraw`
  is what a new answer does to them: a row's React key holds its version, so a
  row of another version is a new instance and drops what it had open. The page
  is left and returned to, and `PrefetchSecrets` is the palette's fetch of the same
  query, also while the page is not up.
* `AuditFeed`: `feed[f]` are the cached pages under a filter. A refetch reads all
  of them again, one after the other, and replaces them at the end. A page is
  an answer that `IsNewestOf` the rows the server selects below the cursor.
* `CommandPalette`: each run of the effect is a prefetch with the targets it
  waits for; its cleanup cancels it; `warm` is the cache.
* `LineDiff`: the table is a recursive function over pairs of lengths; each turn
  of the loop is an action.

`MCDashboard` composes the five as *scenes*: the first state picks one, whose
module then moves while the others stand still, so that the instance has the sum
of their states in place of the product. The parts do share query keys:
`projects`, `envs(p)` and `secrets(p, e)` are the palette's as well as the pages'.
What the palette may do to a page's query is therefore in the page's module
(`WatchList`, `PrefetchEnvs`, `PrefetchSecrets`), at any moment and whatever the
palette's own state. `CommandPalette` in turn needs no steps of the pages: what
they put into the cache the palette finds there sooner, and a page that leaves,
and so aborts a request the palette shares, is a target that fails. Invalidation takes a key as a prefix:
invalidating `projects` marks every `envs(p)`, and invalidating `secrets(p, e)` every
query below it. The modules take the queries each page is about: a further
invalidation makes a query fetch again, and may end a wait early, but makes no
query older, and the proofs of freshness do not use the waits.

## Runs

| Run | Instance | Shows |
|---|---|---|
| `outbox_single` | 1 worker, a webhook and its successor (possibly under its id), 2 deliveries, batch of 2, 2 attempts, 1 fault, fairness | leases, attempts, claims and outcomes agree; an event goes to its own webhook unless that is deleted; `DeliveryLedger` is implemented; every delivery is settled or deleted in the end |
| `outbox_pair` | 2 workers, 1 delivery, 2 registrations | the compare-and-swap hands a row to one worker; a settled row stays settled, whatever a worker does with an old claim |
| `outbox_claim` | 2 workers | *violated*: a row finalised by a worker that lost its claim |
| `outbox_posts` | 1 worker, 1 crash | *violated*: more POSTs than `maxAttempts` |
| `outbox_header` | 1 worker | *violated*: two events under one `X-Comax-Delivery` |
| `server` | secrets: an environment and its parent, 1 key, 2 values, 2 requests, 4 changes; sessions: 1 process, 1 request, 2 sessions, 1 crash, fairness | history, rows and audit log agree; rollbacks and listings are honest; ended sessions are deleted in the end |
| `secrets_rollback` | the secrets alone | *violated*: a rollback undoes a delete it did not see |
| `access` | server: 2 processes, 2 requests, 2 tokens, 2 sessions, 1 crash; browser: 2 tabs, 2 operators, 2 sessions, 2 requests | one live admin; revoked means refused; a complete session trail; active sessions are kept; pages fit their tab; a change runs as the operator of its tab |
| `sdk` | 1 key, 2 reads, 2 requests, 2 revisions, 2 reloads, fairness of the timer | nothing from before a reload is cached or answered after it; requests are shared; acknowledged means current; a read ends or its answer's body has begun |
| `sdk_hang` | the same with 1 revision and 1 reload | *violated*: every read ends |
| `dashboard` | five scenes, see below | pages show what they announced; dialogs and editors act on what is shown; the feed is a piece of the log; ready means loaded; the diff is a shortest one |
| `plaintext` | the same | *violated*: a plaintext is shown in the dialog that asked for it |

**Bounds.** `MaxRegs`, `MaxRows`, `MaxCommits`, `MaxTokens`, `MaxLogins` and
`MaxFaults` bound what is ever created, and only guards of creating actions (or
of faults) read them. Two of everything is what the hazards take: a webhook and
its successor under the same id, a retry (`MaxAttempts = 2`) after which comes
the last attempt, a lease that is stale and one that is not
(`StaleAfter = 1`), the row a batch is at and the one after it, two requests and
two processes racing, a session and the one that gets its id. (`outbox_pair` is
kept to one delivery by its size: two workers and a reused id are left to the
proof of `SettledCorrect`, which has no bound.) `MaxCommits = 4`
lets a put, a delete and two racing rollbacks happen to one key. Symmetry is
used in `access` (processes, requests, tabs, operators) and in
`secrets_rollback` (values, requests), for names no definition tells apart; not in
`server`, which checks liveness. The largest runs are `dashboard` (2.2 million
states, about three minutes), `access` (1.2 million) and `server` (0.8 million).
Only the two dashboard runs switch the check for deadlock off: an operator may
be done, and a diff ends. All others check it.

In `sdk`, two of everything lets an old answer meet a newer request, a reload
fall between the two, and a second reload follow; one key is enough, for keys
interact only through whole-environment requests, which the key's own ones
race; the proofs have no bound. In the browser's half of `access`, two tabs,
sessions and requests let a login or a refusal in one tab overtake what the
other waits for.
`dashboard` gives the lists two rows (webhooks one row with two changes,
sessions three, one of them current) and two changes under way; the secrets
page one key, with two histories (inherited, or own with two writes more) and
one write under way beside those of others; the audit page a log of five rows
over pages of two, so that three pages and a refetch of all occur; the palette
one project, two environments and two prefetches; the diff all pairs of values
of up to three lines over three lines, one of them blank. In the secrets page
one write at a time is a true restriction: two writes of one page at once are
left to `ListPages`, whose `onSuccess` is the same.

**Fairness.** `outbox_single`: the clock goes on and a worker's loop takes a step
whenever it can (a goroutine that always ticks; `restart: unless-stopped`
restarts its process). Requests, crashes and faults are never forced, and the
receiver may refuse for ever. `server`, of its sessions: the clock, the start of a
process and its hourly sweep. Nobody ever needs to log out. `sdk`: the request
timer alone (`http.ts:79-82`, with the default `timeoutMs`; 0 switches it off), and
what follows from it when it fires. Once the headers are in it is cleared
(`http.ts:103`), and nothing in the code ends the body: a runtime may have a
timeout of its own for it, which is outside of the source and not assumed. So
`HeadersAreBounded` is what passes, and `EveryReadSettles` is finding 5. Servers,
networks, reloads and callers are never forced. The dashboard runs state no
liveness: an operator may wait for ever for a server that does not answer, since
`apiFetch` has no timeout.

## What disagrees

1. `delivery_repo.go:120` says only the worker holding the claim can finalise a
   row. The UPDATE asks for `status = 'in_progress'`, not for the claimer:
   worker 1 claims, its lease goes stale, worker 2 reclaims and claims, and
   worker 1's outcome is recorded while worker 2 is POSTing.
2. `worker.go:20` says `maxAttempts` counts total POSTs. Attempts are counted
   when they are marked, so a crash between POST and mark makes one more.
3. `payload.go:21` calls `X-Comax-Delivery` the receiver's idempotency key. It
   is a rowid: once a webhook is deleted its deliveries' ids come back, and a
   receiver that both webhooks point at drops the later event.
4. `handlers_secrets.go:248` says a rollback refuses a soft-deleted key. The
   check comes before the transaction; a delete between the two is undone.
5. `http.ts:32-34` says a hung connection can never block a shared load, and
   `secrets.ts:10` that every fetch is bounded by `timeoutMs`. The timer is cleared
   when the headers are in (`http.ts:103`), before `resp.text()`: a body that hangs
   keeps its flight registered, and every read of the key until the next reload
   joins it.
6. `Tokens.tsx:171` and `Webhooks.tsx:212` say that closing the dialog resets both
   phases. `onSuccess` does not ask whether the dialog was closed since: a create
   under way then shows its plaintext when the dialog is opened again.

Met while modelling, and left as notes because no doc, comment or test of the
repository promises otherwise in so many words:

* *Outbox.* A batch holds rows as they were when they were claimed, and the
  webhooks as they were when each was first resolved. If a webhook is deleted
  and another registered under its id between `ClaimDue`'s SELECT and the POST,
  the old event goes to the new webhook; if, between the SELECT and the UPDATE, a
  new delivery gets the id of an old one too, the new one is claimed in the old
  one's place and reads delivered on the acknowledgement of the old event.
  `Astray` names the first, and `SentOnlyToSubscriber` and `DeliveredMeansAcked`
  say what holds nevertheless. Two workers that need longer than `staleAfter`
  for a batch may take each other's claims back for ever: `EveryRowSettles` is
  a promise for one worker.
* *SDK.* `reload(key)` leaves the whole-environment request registered
  (`secrets.ts:148`): a `getAll` after it may return values from before it.
  `preload` does not drop keys deleted on the server. A body that breaks
  surfaces as the raw error (`http.ts:106`).
* *Access.* `revoked_at` (`session_repo.go:115, 193`) and the audit row's time
  (`audit_repo.go:19`) are two readings of the clock. A logout revoked in one second
  and audited in the next may be pruned within that next second and its id given
  to another session, whose logout then has an audit row of the same time,
  action, token and session: the combination by which `dashboard-dogfood.md:64-65`
  tells rows apart is not unique.
* *Session.* A logout has no CSRF check, because its path is public, and revokes
  whatever session the cookie holds by then; its late answer clears the cookie
  of a newer login. The 401 that `auth.ts:86` speaks of never comes. A late 401 of
  an old session clears the CSRF token of a new one (`main.tsx:41`): that is the
  disjunct of `PageFitsSession` on a page that is being turned away. After a
  failed logout the page stays up without its token. The query cache survives
  a logout.
* *Pages.* A removal's end closes the confirmation of another row opened
  meanwhile. `main.tsx:17` speaks of optimistic updates that
  no page makes. A put carries no version, so two operators' edits overwrite
  each other. A row's new version drops a draft without a word. A delete
  confirmed for an inherited version 1 deletes an own version 1 that took its
  place (`EnvSecrets.tsx:244`); `RowsActOnWhatIsShown` compares the version numbers
  of an open deletion and lets it pass.
* *Announced and not shown.* An invalidation leaves the query to a fetch that is
  already under way in two cases, and if the server answered that fetch before
  the change, the old list settles after the toast. One is a first load, which
  the invalidation joins. The other is a fetch that nobody observes: create an
  environment, leave the page while the request runs, open the palette
  elsewhere, whose GET of `envs(p)` is answered before the create commits; the
  create's invalidation only marks the query, the GET lands and clears the mark,
  and a return within `staleTime` shows the list without the environment. The
  same happens to a save with `secrets(p, e)`, by way of the page that compares.
  `ListShowsWhatWasTold` and `PageShowsWhatWasSaid` except exactly these changes
  (`missed`), and no others: one whose invalidation was not missed is shown, although
  such fetches come and go around it.
* *Palette.* "The success message clears itself" (`CommandPalette.tsx:151`): the
  cleanup of the effect may clear the timer, and the message stays until the
  palette closes.
* *Audit.* The cursor is an id and the order is by time: `FeedIsTheLog` holds
  because `Record`'s clock does not go back; after one that does, rows are
  skipped.

## Proofs

TLAPS proves the theorems for every value of the constants that satisfies the
module's named assumption (finite bounds, non-empty chains that end in their own
environment, a back-off for every attempt, distinct names for projects and
environments and for "no data"). Four theorems on the outbox (`AttemptsCorrect`,
`ClaimsCorrect`, `DeliveredCorrect`, `LedgerImplemented`) also assume one
worker, and need to. A worker may work on after its claim was taken back, as in
`outbox_claim`; and a second one may claim a row under a reused id whose
predecessor the first has POSTed and not yet marked. The others hold for any
number of workers.

* **Outbox.** `TypeCorrect` and `LeaseCorrect` are inductive together: a step
  changes a row in one of a few ways (`RowStep`: kept, enqueued, reclaimed,
  claimed, recorded, removed), and each of them sets status and lease alike.
  `SettledCorrect` follows from the same case split. `StolenCorrect`: a row has a
  worker exactly while it is in progress (`HeldIffInProgress`), so a row that
  passes from one worker to another has been reclaimed between.
  `AttemptsCorrect` and
  `ClaimsCorrect` need `SingleInv`: what a snapshot says of attempts is at least
  what its row has while the row is to be delivered, a batch names each id once,
  and no snapshot is of a row not yet inserted. The last rules out that a new
  row under a reused id is taken for the old one.
* **Ledger.** `SentCorrect` (any number of workers) follows from `SentInv`:
  a row's event is owed to the registration its webhook id now stands for
  (else it would have gone with it), what a batch entry names is owed to the
  webhook of that id for as long as it lives, and the webhook cached for it is
  that one or it is dead. `DeliveredInv` adds to it and to `SingleInv`
  what a worker knows about the entries whose row has changed hands: an entry
  whose row is gone was owed to a deleted webhook, a row under its id is
  younger, and if that one is in progress the webhook cached is another's; and
  a success about to be recorded was answered. `LedgerImplemented` maps rows to
  fates (`FateOf`): a commit owes, a delete forgets, an acknowledgement confirms
  or goes astray, a mark delivers or gives up, and every other step leaves what
  became of each event as it was.
* **Secrets.** `StoreInv` conjoins the properties with what a rollback in flight
  knows: the version it will name is not above the row's, the two differ, and
  the value it carries is the target's. History is append-only, so neither
  can go stale; that is why the rollback needs no lock, except to notice a
  delete (finding 4). `ReplayCorrect` (the log, replayed, gives the rows) is the
  same invariant with one lemma on the log: appending a row of a key moves the
  number of its writes and deletions by what that row is, and no other key's.
* **Access.** `AccessInv`: there is at most one admin and it is live (the guard
  of `handleRevokeToken` counts live admins, and one is never more than one); a
  process past `Migrate` finds an admin or an empty table; a request let in as
  admin proves there is one; and the tokens revoked when a request came are
  still revoked (`BarredInv`). `SoleAdminCorrect` and `RefusedCorrect` follow.
  `TrailInv` is about the log: serials are fresh, so one
  names one session; a stored session has its login row, and a row of its end
  if and only if it is revoked; and there is one such row a session.
  `TrailCorrect` follows, which speaks of sets of rows where the invariant speaks
  of one row. `ActiveCorrect` needs no more than the type: what an active session
  is, `Prunable` is not.
* **SDK.** `Invariance` carries, beside the type, what ties a request to the
  reloads: one of the current epoch has read no row from before its key's
  last reload, every such request is registered, a registered one is live and
  aims at its slot's target, and so do those that wait for it. `ReloadForgets`,
  `ReadsAreSinceReload` and `OneRequest` follow; `AcknowledgedIsCurrent` adds that an outdated entry, or an
  answer under way in the current epoch that would become one, has an
  unacknowledged change to show for it.
* **Session.** `Inv` ties every CSRF token, in a tab or on its way to one, to the
  operator who signed in with it. A server's check that token and cookie match
  then names that operator (`WritesOwn`); `PageFits` follows from what each
  landing leaves behind. The steps are lemmas by effect: what a request does
  to its tab, and what a tab does to its requests.
* **Lists.** `ListInv`: a change carried out has a row at least as new as it
  (`ChangesKnown`); a removal of the page on the screen keeps its dialog busy
  (`Removals`); and the query is as good as what was announced, or is about to be
  (`Fresh`, which is `FreshQuery` of the rows that hold every such change): what it
  shows unless it is marked, the answer on its way, and, while it is observed and
  marked, a fetch under way or a failure. A change whose invalidation was
  missed announces nothing; that is the exception the property names.
  `ToldIsShown` is `Fresh` read when no request is under way.
* **Secrets page.** `SecretPageInv` says the same of two queries at once, over
  snapshots of a store that others change too: a write carried out is still
  known to the server (`WritesKnown`), so a snapshot taken after it holds it or
  a successor (`Good`, by query, for a write may be missed by one query and not by
  the other). `SaidIsShown` is that part; `RowsAreRight` comes from `Redraw`, which
  keeps an open row only over the version it was opened on. The lemmas on a query
  (`FreshMoves`, `FreshInvalidate`, `FreshMount`, `FreshUnmount`) serve both pages.
* **Feed.** `FeedInv`: the clock of the log does not go back, so the order by id is
  the order by time; the pages read so far, and those of a refetch on its way,
  are a piece of the selected log without a gap, for each page is the newest
  of what lies below the cursor. `FeedCorrect` is that for the cached pages.
* **Palette.** `PaletteInv`: at most one prefetch counts, the others were cancelled
  by the effect's cleanup; what the counting one no longer waits for is in the
  cache, for every project of the cached list; and a ready palette is open and
  waits for nothing, which is `ReadyIsLoaded`.
* **Diff.** `DiffCorrect` holds for values of every length, so it is an induction
  over the table. The library's induction theorems do not apply (they take the
  claim as an operator); `SetInduction` takes it as a set of numbers, from the
  least element of its complement. One induction shows that the recursion
  defines a table (`TableExists`), diagonal by diagonal; one, that its entries
  are numbers; one, that no common subsequence of two prefixes is longer than
  their entry (`NoneIsLonger`: without its last pair, or with one side a line
  shorter, it is one of smaller prefixes). `DiffInv` is about the walk: behind it
  the lines of both sides are told backwards, each once; what it called equal
  and the entry it stands on add up to the last entry (`Counted`).
* **Composition.** `PartsAreThemselves`: a behaviour of `MCDashboard` is one of each
  part's own specification, so that what is proved of each part, palette's
  fetches included, holds in the composition (`DashboardCorrect`,
  `DashboardTypeCorrect`).

Every invariant and action property a passing run checks is a theorem (four of
them for one worker, see above). Only model-checked is liveness, which is beyond
the prover: `EveryRowSettles`, `EndedArePruned`, `HeadersAreBounded`.

## Not modelled, and why

* Cryptography and hashes (a ciphertext is its value, a cookie its serial);
  `last_used_at`, `last_status` and `last_error` (written, never read by a
  guard); names, URLs and JSON; most of the text a client sees. Failing
  statements inside a transaction roll it back: that is the action not taken.
* Projects and environments: insert-only, with a unique name each.
* The resolver's expansion of `${{ env.KEY }}`, the template renderer, dotenv
  files and the checks of names: pure functions over text, which the models
  abstract to versions. The reads a resolution makes are in `SecretStore`.
* The command line: each command is a short sequential run; its requests are
  those of `SecretStore` and `AccessControl`. Two of its windows are listed as
  hazards (`cmd_pull.go:102`, `cmd_push.go:57`).
* In the dashboard: the comparison of environments (one answer of the server,
  shown), the dialog of recent deliveries (likewise), toasts, the theme, the
  recent entries and the typed query of the palette, the drawing of a diff, and
  all form fields; the website, which is text.
* React and TanStack Query themselves: `QueryCache` is an assumption on them.

## Plan

Done: the server's tables and workers, the SDK's cache, the dashboard's session
and pages; proofs of every safety property of them. What would come next: the
resolver over small graphs of environments; a composition of `SecretStore`,
`WebhookOutbox` and `SdkCache` in which a change committed here is current there
in the end.
