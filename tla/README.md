# Verification of the e-mail transfer station

TLA+ models of the repository's Cloudflare Worker (`src/worker`), of the parts of its
frontend that keep state across calls (`src/frontend`), and of its IMAP proxy
(`src/smtp_proxy_server`): how inbound mail is stored, who may read and send, how an
administrator changes that while requests are under way, and what the clients show of it.
TLC checks each model on a small instance; TLAPS proves every safety property that a passing
run checks, for every value of the constants.

The Worker has no locks and no transactions that span statements. Every handler is an
invocation that awaits one D1 (SQLite) statement or one D1 batch, one KV operation or one
call after the other; between any two of them any other handler may run, and the runtime may
end the invocation at any of them. The clients are event loops that await calls. All modules
share this view: **one statement, one batch, or the code between two awaits, is one atomic
step**, tables and KV are global state, and each invocation has a program counter (`pc`) and
the values it has read. What can go wrong is then what goes wrong in the program: a decision
is taken on a row that has changed since, an id has been given to something else, an answer
comes late, a handler is gone before its next statement.

## The system

| Component | State | Operations | Interacts with |
| --- | --- | --- | --- |
| Inbound mail (`email/`) | `raw_mails`, `inbound_mail_receipts` | receive, deduplicate, store with fallbacks, summarize, forward / notify / reply / extract | domains (recipient), Telegram, webhooks, S3, AI |
| Mail rows, read state (`mails_api`, `mail_read_state.ts`) | `raw_mails`, `mail_read_states` | mark, delete, clear, count, list, parse | inbound mail, cleanup |
| Scheduled work | - | purge receipts, challenges, sessions, rate limits; age-based cleanup | all tables |
| Address lifecycle, credentials (`common.ts`, `address_*.ts`) | `address`, KV keys by name | create, delete, log in, change / reset password, rotate, show | bindings, share links, mail rows, Telegram, webhooks |
| Share links (`share_tokens.ts`) | `address_share_tokens` | create (replacing), update, revoke, revoke all, use | address |
| Send quota and balance (`mails_api/send_*`) | `settings` counters, `address_sender` | reserve, debit, deliver, refund, release, edit | providers, settings |
| User identity (`user_api`, `user_identity.ts`) | `users`, `user_verification_challenges`, `user_passkeys` | send and consume codes, register, log in (password, OAuth2, passkey), issue JWTs | roles, send quota |
| User administration (`admin_api/admin_user_api.ts`) | `users`, `user_roles` | create, delete, reset password, give or clear a role | identity, bindings |
| Bound addresses (`user_api/bind_address.ts`) | `users_address` | bind, unbind, transfer, list | address, users |
| Managed domains (`admin_api/domains.ts`) | `managed_domains` | create, update, disable, verify, set up Cloudflare, import | Cloudflare API, inbound mail, address creation |
| Administrator sessions (`admin_browser_session.ts`, `admin-session.js`, `api/index.js`) | `admin_browser_sessions`, the cookie, tokens in tabs | log in, renew, log out, expire, send a denied request again | every administrator request |
| Authenticators (`authenticators.ts`, `AdminAuthenticators.vue`) | `user_authenticators`, `authenticator_share_tokens`, `user_authenticator_access`; the panel's rows and timer | create, delete, assign, share, save, show codes | users |
| Telegram bot, webhooks (`telegram_api/`, `webhook_settings.ts`) | KV: credentials of a chat, chat of an address, webhook of an address | create, bind, unbind, clean, push; save settings | address lifecycle, inbound mail |
| Administrator's console (`AdminNext.vue`, `admin-*.js`) | view, filter, page, list, lock, dialog | navigate, filter, load, act | the API, administrator sessions |
| Mail page (`AccessMailWorkbench.vue`) | rows, page, filter, selection, busy flags | load, synchronize, mark, delete, download | mail rows |
| IMAP proxy (`imap_mailbox.py`) | UID index, cache, flags, count | select, status, fetch, store, search | mail rows through the API |
| Rate limits, blacklists (`auth_rate_limit.ts`, `ip_blacklist.ts`) | `auth_rate_limits`, KV, settings | count and refuse, save the lists | logins; creation of addresses, accounts and mails |
| Database setup | schema | create, migrate, backfill | all tables |
| Audit and access events | `audit_events`, `access_events` | append, list | all handlers |
| S3, AI extraction, automatic replies | S3, `auto_reply_mails` | one integration each | inbound mail |
| Other views, SMTP proxy, Pages function, WASM parser, QA scripts | their own | clients and tools of the API | the Worker's HTTP API |

What is hard, and what correctness means, component by component:

- **Inbound mail.** Mail is delivered again after a lost reply, two copies may be under way
  at once, the insert falls back to older schemas, and integrations come after the only
  durable step. Correct: a message is stored once, an accepted one is kept, integrations
  never see a message that was not stored and see it once.
- **Mail rows.** Row ids are reused by SQLite, and requests hold ids over statements.
  Correct: what is written for one mail is not taken for another's, except through the id
  of a deleted one.
- **Credentials and share links.** A login verifies first and upgrades or answers later;
  versions are read, raised and read again. Correct: nothing revoked is accepted again, the
  password in force is the one set last, whoever is in knows it.
- **What is kept by name.** KV entries and rows are keyed by the name of an address, which may
  be created again. Correct: mail is pushed to a chat that held the credential, webhooks do not
  pass on, one of several transfers wins.
- **Send quota.** Two counters and a balance are reserved one after the other and given back
  in reverse, across a change of date, with statements that may have been executed although
  they fail. Correct: limits and grants hold, and nothing stays reserved after a clean failure.
- **User identity.** Codes are reserved, sent, released and consumed by different requests;
  a JWT carries a generation that is read after the password. Correct: a sent code
  works until it is consumed or expires, a reset ends every session, nobody else is signed out.
- **Passkeys.** The row of a passkey names its account by id, the counter is stored by a later
  statement than the one that compared it, and assertions arrive late or again. Correct: a
  passkey opens the account of whoever registered it, and while its row is there a counted
  assertion opens it once.
- **Users, roles, bindings.** Guards are checked by earlier statements; ids of users are
  reused. Correct: an admin row remains, roles and bindings belong to whom they were given to.
- **Limits.** Authentication attempts count in fixed windows by one statement per key; the daily
  requests of an IP address count in KV, read and written by two calls. Correct: no key passes
  more often than its windows allow, nobody is refused for what is longer ago than a window, and
  the daily limit holds while nothing crosses.
- **Managed domains.** Updates are conditional on `config_version`, but the Cloudflare setup
  comes back from API calls and writes by id. Correct: a disabled domain stays disabled until
  somebody who saw that enables it; a domain creates addresses only while it has proven that
  it receives.
- **Database migration.** A sequence of statements that commit one by one, which may end after
  any of them and which two administrators may start at once. Correct: the recorded version
  promises no more than is there, a retry completes what was left, no row is lost.
- **Administrator sessions.** Renewal races logout, expiry and a changed configuration; two tabs
  share a cookie and a denied request is sent again. Correct: what is ended stays ended, a
  sign-out holds in its tab, every request ends.
- **Authenticators.** Two sources of access share one row; the panel's timer is set on some
  paths and cleared on others. Correct: grants alone decide, the codes on the screen catch up.
- **Clients.** Loads overlap and are answered in any order; locks and flags keep actions
  apart. Correct: nothing of another filter or session is shown, a lock means that something
  runs, an index and a list agree with the backend once nothing is under way.

## The modules

| Module | What it models |
| --- | --- |
| `Mailbox` | `email()` with `saveInboundDelivery`, marks, deletion, clearing, cleanup, purge of receipts |
| `SendQuota` | `sendMail` with `reserveSendMailLimit`, `reserveSendBalance` and their releases; the administrator's edits; the date |
| `AddressAuthority` | one address name: passwords, `credential_version`, share links, deletion and re-creation |
| `AddressLifecycle` | one address name: Telegram credentials and push, webhook, deletion, transfer, re-creation |
| `UserIdentity` | one e-mail address: challenges, registration, logins, `authGeneration` |
| `Passkeys` | credentials, their counters and accounts: registration, login, deletion |
| `UserAdmin` | users, `user_roles`, `users_address`: deletion, roles, bindings, registration's default role |
| `DomainSetup` | one row of `managed_domains`: the versioned requests, verification, Cloudflare setup, import |
| `AuthLimits` | the windows of authentication attempts, by IP address and by account |
| `AccessControl` | rate limiter, whitelist, blacklists and daily limit of the endpoints that create something |
| `MigrationStatements` | the patches and what a migration executes from each version |
| `SchemaMigration` | `initializeDatabase`, `migrateDatabase` with its patches and the rebuild of the authenticator tables |
| `RevocableSessions` | abstract: sessions that are opened once, granted from while live, and stay ended |
| `AdminSession` | the browser session of administrators: worker rows, cookie, tabs, requests; implements `RevocableSessions` |
| `Authenticators` | who may use one authenticator: assignment, links, saved shares |
| `AuthenticatorPanel` | the administrator's list of codes: timer, loads, tasks, visibility |
| `AdminConsole` | view, filter, pages and loads of the console |
| `AdminActions` | the console's actions as sequences of steps over one lock and one dialog |
| `MailWorkbench` | the mail page of users and share links |
| `ImapMailbox` | one mailbox of one IMAP connection |
| `MC...` | the instances for TLC, with their symmetry |
| `MailboxProofs`, `UserAdminProofs`, `AdminSessionProofs` | the theorems about the module of that name, and their proofs |
| `LimitsProofs` | those about `SendQuota`, `AuthLimits` and `AccessControl` |
| `AccessProofs` | those about `AddressAuthority` and `UserIdentity`, and the bindings of `MCAccess` |
| `AccountsProofs` | those about `Passkeys` and `Authenticators`, and the roles of `MCUserAdmin` |
| `ServiceProofs` | those about `DomainSetup` and `SchemaMigration` |
| `PartsProofs` | those about `AddressLifecycle`, `AdminConsole`, `AdminActions`, `ImapMailbox` and `MailWorkbench` |

Each module keeps the names of the tables and handlers. `pc` of a request names the next
statement; a handler's early returns are the steps to `"done"` (or `"failed"`,
`"rejected"`). Operators named `..._<Something>` and marked "Mutant:" are plausible wrong
versions of the definition below them; none is used by the specification, they show that
each property can fail. Every module has a `TypeOK` that documents its state; those of
`Mailbox`, `SendQuota`, `AddressAuthority`, `AddressLifecycle`, `UserIdentity`, `UserAdmin`,
`DomainSetup`, `SchemaMigration` and `AdminSession` are theorems, those of `Passkeys`,
`Authenticators`, `AuthLimits`, `AccessControl` and `AdminConsole` conjuncts of an inductive
invariant.

Seven MC modules combine parts that share no state: `MCMailbox` (the deliveries of `Mailbox`,
and its deliveries with requests), `MCLimits` (`SendQuota`, `AuthLimits`, `AccessControl`),
`MCService` (`SchemaMigration`, `DomainSetup`), `MCAccess` (`AddressAuthority`,
`UserIdentity`, and bindings of `UserAdmin`), `MCUserAdmin` (roles of `UserAdmin`,
`Authenticators`, `Passkeys`), `MCAdminSession` (`AdminSession`, `AuthenticatorPanel`) and
`MCParts` (`AdminConsole`, `AdminActions`, `ImapMailbox`, `AddressLifecycle`,
`MailWorkbench`). Their `part` is chosen initially and stays: the state space is the sum of the
parts', not the product. The proofs are arranged in the same way, since a property of a run is
named in the MC module; but the theorems are about the specification of each part, not about
the instance. Parts that do interact are in one module: tabs, cookie and worker in
`AdminSession`; address row, KV and requests in `AddressLifecycle`; page and backend in
`MailWorkbench` and `ImapMailbox`.

### Mailbox

`email()` resolves and refuses (`Refuse`, `Resolve`), tries the INSERTs in the order of its
fallbacks (`Save...` with `pc` = `gzip`, `plain`, `legacy`), stores the summary
(`Summarize`) and runs the integrations (`RunEffect`). One save is one D1 batch of receipt
and mail; `SaveLosesReply` is the batch that commits although the handler sees an error.
A raw mail is the delivery that stored it, so that properties can say *whose* row, summary
or mark it is. `IsNextId` is SQLite's choice of an id without AUTOINCREMENT: ids of deleted
last rows are used again. Requests select (`SelectForMark`, `BeginDelete`, ...) and
write later. History variables record what was stored, removed, performed, purged and asked.

### SendQuota

Requests build their keys from the date they read, take the counters in order, debit the
balance, and give back on every failure path the code has. `TakeCount` and `TakeBalance` may
succeed without the request learning it. `Off`, `Unlimited` and a number are the values of
the setting. `granted` sums what an address was ever given.

### AddressAuthority

The row of one name, its links and any number of requests. `Valid` is
`validateAddressJwtPayload`, `ShareValid` is `validateShareJwtPayload`. A password is a
model value; `legacy` says that the stored record is in a format the next login upgrades.
Ids come from AUTOINCREMENT and are never reused. `clobbers` marks the one statement that
replaces a password without a new version: the generated password of a creation, which is
stored by the name.

### AddressLifecycle

`id` and `version` are the address row; `lists` and `key` are the two KV entries of
`telegram_api/common.ts`, `webhook` is the one of `webhook_settings.ts`. Each request is one of the
bot's or mini app's commands, a save of the webhook, a push of a mail, a deletion or a
transfer, and goes through KV and database operations one at a time; every one of them may fail
(`Fails`). `given` remembers which chats presented or were given which credential, `erased`
and `moved` what deletions and transfers did to which row.

### UserIdentity

One row of `users`, one challenge. A generation is a number drawn once (a UUID). `issueUserJwt`
is two steps when the account has no generation (`Issue`, `Store`). `late` and `raced` mark
the two overlaps the code does not exclude (see below).

### Passkeys

`keys` is `user_passkeys`, `device` the authenticators: whose challenge a credential was made
for, whether it counts, and how often it has signed. The challenge of a registration is not
consumed, so `AskInsert` takes a new response or one that has been sent before; a second row
gets a new number (`row`). `Present` takes any assertion made so far, so late, repeated
and reordered ones are among them; `Verified` is what the WebAuthn library does with the
counters. `StoreCounter`, `ReadUser` and `Issue` are the statements after it. `late` and `stale`
are history: the account changed hands during the registration or the login; a login wrote over
a counter that was not the one it had compared, or to another row.

### UserAdmin

Users by id, with the count of users who have had that id (`life`). Every written role or
binding remembers for whom it was meant (`to`) and whether that user was gone by then
(`late`). `Operations` selects the handlers an instance runs.

### DomainSetup

`Read` is `requiredConfigVersion`; `WriteIfCurrent` is every `... WHERE id = ? AND
config_version = ?`. `ClaimSetup` is the one write of the Cloudflare setup that is guarded in
this way; `RecordRule`, `FinishSetup` and `FailSetup` name only the id, and `Configure` is its
calls of the API in between. `ground` and `stale` are history: what the way the domain receives
its mail has shown, and whether an overtaken setup has written. `ground` becomes `"mail"` when a
verification mail arrives and `"none"` when an update configures another way or the domain is
disabled, whatever the code then does with the token and the status; a Cloudflare setup that
changes the zone, the DNS records or the rule makes it `"kept"`; `"env"` is an import.

### AuthLimits and AccessControl

`rows` is `auth_rate_limits`, time is a number of ticks, and `Upserted` is what the one statement of
`consumeAuthRateLimit` makes of a row. A login counts by its IP address and then, if that did not
refuse, by its account; `counted` remembers when. In `AccessControl`, `CheckLists` is
`checkAccessControl` up to the daily limit on the settings it read, with each list as the set
of clients it matches; `ReadCount` and `WriteCount` are the two calls of `checkDailyLimit`.
`excused` marks a request before whose write the count had changed, or which KV failed. `Kill` ends
an invocation when it has just written; it may lower the count it found changed, like any
other write, and is marked in the same way. An invocation that ends earlier is a request that
takes no further step.

### SchemaMigration and MigrationStatements

`Script` of `MigrationStatements` is the list of all statements a migration may execute, in
order, and `Applies` says which of them do, given the version the migration has read: those of
patches up to it are left out. A request has its position `at` in the script, and `Follows` is
the next one that applies. Tables are four groups, and a column or an index bears the number of
the version that brought it, because a migration skips patches by that number. `LookForColumn`
is the PRAGMA of `execute` and `AddColumn` the ALTER after it; `MarkVersion` is the UPDATE by
which the patch of version 9 records that version, which `execute` does not recognize as a
version to skip; `Rebuild` is the one batch. `Grant` is the Worker giving access meanwhile.
`alone` is history: no other request was under way at any time of this one.

### AdminSession and RevocableSessions

`rows` is `admin_browser_sessions`, `cookie` the session the browser sends, `tab` what
`useAdminSession` keeps in each tab, `renewal` the single `adminRefreshPromise` of a tab with
the requests that wait for it, `call` the requests of `apiFetch`. Each request to the worker is a
send, its statements (`LoginRevoke`, `LoginInsert`, `RenewSelect`, `RenewUpdate`,
`LogoutDelete`, `Verify`) and an answer, all separate steps; `Lost` and `Fault` fail a call
before or after it was executed, and an error while the session is read is a denial (`Unread`).
`Reconfigure` changes the passwords or the key, which ends every session by its version;
`SessionExpires` and `TokenExpires` are the clock.
`RevocableSessions` is what such a store promises, and `Store` in `AdminSession` maps a row to a
live session, a row that is gone to an ended one and a call that ran to a grant; `StoreSpec` says
that every step of the detailed module is one of its steps or none.

### Authenticators and AuthenticatorPanel

In `Authenticators` a row of `user_authenticator_access` has the two sources of the table
(`assigned`, a saved link) and remembers for which person it was made; `granted` is what
people have been given and not had withdrawn. In `AuthenticatorPanel`, `request` is the
`refreshRequest` that everybody who asks during it shares, `timer` the one timeout, `busy`
the task that holds the panel, `expired` the shown codes whose `valid_until` has passed.

### AdminConsole, AdminActions, MailWorkbench

A load of `AdminConsole` carries what it asked for and whether it is still of the current
generation. `AdminActions` abstracts each of the 29 actions to its sequence of steps (take the
lock, ask, seize, lend, call, refresh), because what they could do to each other is only
in the lock, the dialog and the order of awaits. `MailWorkbench` has the flags as the set
`busy`, loads that carry the page and filter they were asked for, and operations that make
one call per mail.

### ImapMailbox

The backend is a set of ids that grows and shrinks between any two calls; a command sends one
call after another, and is answered with what the backend had at the moment of `Serve`.
`shaken` and `spoilt` mark a deletion since the last build, and builds that overlapped or failed.
The mails `Broken` are those that cannot be parsed: `Fetched` neither marks nor caches them.

## What is checked

All runs are exhaustive on their instance. Deadlock is not an error anywhere: each request
runs once, so every behaviour ends in a state where all have been answered.

| Run | Instance | Shows |
| --- | --- | --- |
| `mailbox` | deliveries: 2 deliveries, 1-2 messages, 2 integrations, deletions by the administrator; rows: 2 deliveries, 2 requests, 2 row ids | `StoredOnce`, `AcceptedIsKept`, `EffectsOnce`, `MarkOrigin` |
| `limits` | sends: 2 sends, 2 days that are also 2 months, limits 1 and 2, off and unlimited, balance 1, 2 administrator actions; logins: 4 logins, 1 IP address, 2 accounts, limit 2, windows of 2 ticks, rows used or new; limits of use: 4 requests, 1 client, with an IP address or without, limits 1 and 2, with lists or not, 2 days, 1 change of settings | `LimitHeld`, `NoSlotLost`, `NoOverdraft`; `WindowBound`, `RefusedForRecent`; `DailyHeld` |
| `user_roles` | roles: 3 requests, 2 ids with 2 lives; authenticators: 3 requests, 2 ids, 3 people, 2 links; passkeys: 3 requests, 2 ids, 2 e-mails, 1 credential, 2 assertions | `AdminRowKept`, `RoleOrigin`; `GrantsDecide`; `OpensOwnAccount`, `AssertionOnce` |
| `service` | schema: 3 requests, versions none, 7, 12, 16 and an unknown one; domain: 3 requests, 2 receive modes, 1 zone, 5 versions | `VersionMeansComplete`, `AloneSucceeds`; `ActiveIsProven`, `DisableHolds` |
| `access` | address: 3 requests, 2 passwords, 2 lives, 3 links; identity: 3 requests, 2 passwords, 2 ids, 3 generations, 2 codes; bindings: 2 requests, 2 ids, 3 e-mails, 2 addresses | `PasswordIsLatest`, `LoginFresh`, `OlderReplaced`, `StaysRevoked`; `SentCodeWorks`, `LoginIsCurrent`, `SignedInStays`; `BindingOrigin` |
| `admin_session` | tabs: 2 tabs, 1 call, 2 sessions, 1 sign-out, 1 fault or 1 change of configuration; calls: 1 tab, 2 calls, 2 sessions, 1 sign-out, 1 fault; panel: 2 authenticators, 2 tasks, 1 fault, hidden once | `LogoutHolds`, `Settled`, `StoreSpec`; `CatchesUp` |
| `parts` | console: 2 loads, 2 filters, 2 sessions, 4 changes; actions: 3 jobs, 4 starts; IMAP: 2 commands, 3 mails, pages of 1, cache of 2, 1 mail that cannot be parsed, 1 change; lifecycle: 3 requests, 2 chats, 3 ids, 2 versions; mail page: 2 loads, 2 operations, 3 mails in pages of 2, 1 arrival, 3 steps of the user | `ListOfSession`, `ListMatchesFilter`; `LockMeansRunning`; `IndexCurrent`, `FetchComplete`; `PushToHolder`, `WebhookOfAddress`, `OneTransferWins`; `ShownIsCurrent` |
| `user_last_admin` | 2 deletions | a violation, see Findings |
| `share_one_active` | 2 creations of a link | a violation, see Findings |
| `change_signs_out` | 2 password changes | a violation, see Findings |
| `session_lasts` | 2 tabs, 1 session | a violation, see Findings |
| `access_rows_kept` | 2 migrations of a database of version 16 | a violation, see Findings |

### Bounds

The hazards are overlaps of two invocations, sometimes observed by a third, so two or three
requests meet every pair of handlers and every order of their statements. Two ids or two lives
are enough for an id to be reused by somebody else, and three ids of an address name for a late
transfer to meet a row of yet another life; two messages for a row to be taken over by another
mail; two days for a request to come from an earlier date; four requests of one client for a
daily count that one of them wrote late to admit two others (1.6 million states); two tabs for
one to lose what another set; two sessions for an answer of the first to arrive in the second. A
page of 2 of 3 mails, and a page of 1 with a cache of 2, make lists and caches overflow.
`MaxId`, `MaxLives`, `MaxShares`, `MaxDay`, `MaxAdminOps`, `MaxGens`, `MaxCodes`, `MaxTokens`,
`MaxVersion`, `MaxSessions`, `MaxLogouts`, `MaxFaults`, `MaxStarts`, `MaxChanges`,
`MaxArrivals`, `MaxUser`, `MaxKeys`, `MaxCount`, `MaxTime`, `MaxSaves`, `MaxSteps`, `MaxHides`,
`MaxPeople` and `MaxLinks` only end what the program does without end. In `DomainSetup` the
version bound of 5 lets four writes happen: those of a setup, and one or two of another request,
or an import, in between. One credential is enough in `Passkeys`, whose properties each speak of
one. In `SchemaMigration` the versions are those whose patches differ in kind: 7 has every kind
of patch ahead of it, 12 has public tokens, 16 the legacy tables. In `AdminSession` tabs meet in
the cookie and the rows, and the calls of one tab in its renewal, so the run has a part for
each. In the part of the tabs a request fails or the configuration changes, not both; that of
the calls has one configuration, a session that expires being refused like one of another. There
both calls are denied, share a renewal or come when it has settled, and it is refused,
superseded by a login or a sign-out, or fails. No third party shares it: a tab restores its
session once, before it sends any request, and a login makes no renewal.

### Fairness

Two modules state liveness.

- `AdminSession`, `Settled`: weak fairness of the steps of calls and renewals. A `fetch`
  settles, with an answer or an error, and the continuation of an await runs.
- `AuthenticatorPanel`, `CatchesUp`: weak fairness of a request, of a task, of the timer that is
  armed and of the clock that expires each code. The browser fires the timers of a
  visible page.

Nothing is assumed of senders (who need not retry), of users, or of the order of requests. The
other components promise nothing a client does not ask for again, so their specifications
have no fairness.

### What the properties admit

Some overlaps do happen in the program, and the properties name them instead of
forbidding them; everything else is excluded.

- `MarkOrigin`, and the theorem on `SummaryOrigin`: a mark or a summary written late may land on
  the mail that got the id of a deleted one.
- `StoredOnce`, `EffectsOnce`: as long as the receipt is kept (30 days).
- `AdminRowKept`: a request that read the role before a promotion removes the admin row
  unseen, without the guard.
- `RoleOrigin`, `BindingOrigin`: a row written after its user's deletion by a request that
  had checked before; and the admin row that a deletion spares. The limit of addresses may be
  exceeded by requests that counted before another one inserted; no property speaks of it.
- `LoginFresh`: a creation of the address that stores its generated password late.
- `LoginIsCurrent`: a login that verified the old password and takes the generation after
  the change. `SignedInStays`: two first logins that race to store the first generation.
- `OpensOwnAccount`: an account that is deleted, and its id given to another, during a registration
  or a login: the insert of the passkey names only the id, and the login reads the e-mail by it.
  `AssertionOnce`: two logins that compared the same counter both get through, and the one
  that stores last may lower it. It speaks of one row: within the five minutes of its challenge
  (`passkey.ts:104`) the response of a registration is accepted again, so a passkey that its
  user has deleted may be stored once more with the counter it began with, and what it has
  signed is then accepted from the start.
- `WindowBound`: fixed windows let a key pass up to one time less than twice the limit in a
  stretch that covers the end of one. An attempt that its account refuses has counted for its
  IP address.
- `DailyHeld`: requests that cross between reading and writing the count are all admitted and
  count as one, although the settings speak of "Maximum requests per IP per day"
  (`ip_blacklist.ts:16`); failures of KV admit.
- `ActiveIsProven`: a Cloudflare setup that was overtaken writes back the status it had read: it
  reads the active domain, an update changes the way it receives and thereby puts it back to a
  draft, and the setup writes `setup_status = 'active'` by the id alone
  (`admin_api/domains.ts:828-840`). The next update may allow addresses in it, although one in a
  domain that is not active is refused (`admin_api/domains.ts:250-251`). One that is not
  overtaken configures another zone, the DNS records or the catch-all rule of a domain that
  stays active, or that is activated by the token of before: no mail is asked for by the new
  way. A mail that arrives before the setup is as good as one that arrives after it.
- `VersionMeansComplete`: of two overlapping migrations that both rebuild the authenticator tables,
  the second may end before it creates their index anew, with the current version recorded.
  A column that was added meanwhile fails a migration that is overlapped; `AloneSucceeds` speaks of
  one that is not. A migration that comes late records version 9 over the current one (the
  UPDATE in `db/2026-05-06-credential-rotation.sql`; `db/README.md:30-32` says that such writes are
  ignored), so that the next one starts over from there.
- `GrantsDecide`: `user_authenticator_access.user_id` refers to no table and `deleteUser` does not
  touch it, so the next user with the id has the deleted one's authenticators; such rows are
  left out. Overlapping creations of links leave two active ones (`authenticators.ts:154`
  intends one), and saving a second link replaces the first as the source.
- `CatchesUp`: a task's load may join an older request, so the list may lag until the next
  expiry. An empty list has no timer: an authenticator created while the first load is under
  way is not shown until something loads again.
- `ListOfSession`, `ListMatchesFilter`: they speak of the mail list. `refreshUsers`
  (`AdminNext.vue:401`) has no generation, so its late answer fills the list of users after a
  sign-out or in another session. A navigation that a refresh or a sign-out supersedes leaves
  `isNavigating` set, and the filter is not followed until the next navigation ends, although
  "filter clicks reload at once" (`AdminNext.vue:435`).
- `LockMeansRunning`: the activation of a domain takes the lock whoever holds it, and a Cloudflare
  setup lends it during a question and restores the value it had. Starting a verification reads
  the current domain again after the question, and `createAndActivateDomain` reports a
  success also when the user refused to replace the catch-all.
- `IndexCurrent`: the count is assigned before the index is built, so a failing build leaves
  the old index under the new count; a deletion and an arrival cancel out. `FetchComplete`:
  the cache drops messages of a FETCH larger than itself, and a mail whose parsing raises is
  logged and left out of every answer, although the index lists it. SQLite may give a UID again, and
  the cache then serves the earlier content.
- `PushToHolder`, `WebhookOfAddress`, `OneTransferWins`: an unbinding deletes the key whichever
  chat it names; a late deletion removes the mails, balance, webhook and chat of a
  re-created address; a transfer that fails between deletion and creation loses the
  address; mails stored by name without an address row are seen by the next owner.
- `ShownIsCurrent`: loads of the mail page have no generation, so overlapping ones (a filter or a
  synchronization that changes the page makes two) may leave older rows. A failing deletion of
  several mails leaves the deleted rows on the screen, the total stays after a deletion on a later
  page, and the automatic refresh may select another mail while a deletion waits for its
  confirmation.

### Findings

- **The last administrator can be deleted** (`user_last_admin`, `LastAdminKept`). A test and
  the frontend say that the last administrator cannot be demoted or deleted. The batch of
  `deleteUser` counts again only in the statement on `user_roles`; when that one spares the row,
  the following statements of the same batch delete the user anyway, and the handler answers
  409. Two administrators deleted at the same time are both gone; the role row that is left
  belongs to nobody.
- **Two active share links** (`share_one_active`, `OneActiveShare`). "Keep one active
  administrator share per address": the UPDATE that revokes and the INSERT are two
  statements, so two creations at once leave two active links.
- **A password change that signs nobody out** (`change_signs_out`, `ChangeSignsOut`). "Any
  other device holding one is signed out": of two changes that overlap, the one whose UPDATE
  came first reads the version after the other's and hands out a token of that version. That
  device stays signed in although the password it set has been replaced.
- **A tab deletes the cookie another one got** (`session_lasts`, `SessionLasts`). "Normal
  continued use keeps the session active" (`docs/admin-sessions.md:20`): a tab that opens
  asks for a renewal; when another tab logs in before the denial arrives, the denial's answer
  (`open_api/auth.ts:25`) deletes the new cookie, and the new session is gone with the token.
- **A migration drops assignments** (`access_rows_kept`, `AccessRowsKept`). The source migration
  "stores direct assignment and saved link sources independently" (`db/README.md:14-16`). The
  check of the legacy shape and the batch that rebuilds the tables are apart: the batch of a second,
  overlapping migration reads tables that are new already, and its JOIN on `share_id`
  (`database.ts:107`) drops every assignment, whose `share_id` is NULL by then.

## What is proved

Every invariant and action property of a passing run is a theorem; only the two liveness
properties are not. The theorems hold for every value of the constants that satisfies the
assumption of the module: any number of deliveries, requests, addresses, keys, passwords, ids,
links, chats, passkeys, authenticators, users, zones, verifications, versions, logins, clients,
dates, limits, tabs, sessions, loads, mails, pages, commands and operations. What the
assumptions say:

- `MailboxAssumption`, `SendQuotaAssumption`, `AddressAuthorityAssumption`,
  `AddressLifecycleAssumption`, `UserIdentityAssumption`, `PasskeysAssumption`,
  `UserAdminAssumption`, `AuthenticatorsAssumption`, `DomainSetupAssumption`,
  `AdminSessionAssumption`, `AdminConsoleAssumption`, `AdminActionsAssumption`,
  `MailWorkbenchAssumption`, `ImapMailboxAssumption`: bounds are numbers, months follow each
  other as days do, the values of a setting are of its type, the markers for "nothing" are not
  values, and a page has room for a mail.
- `AuthLimitsAssumption`: moreover rows are kept for at least a window
  (`consumeAuthRateLimit` deletes those of a day ago, and no window is longer).
- `AccessControlAssumption`: moreover the settings are as `saveIpBlacklistSettings` validates
  them.
- `SchemaMigrationAssumption`: a database is empty, of a version from 2 to 20, or of one that
  is unknown; no version 1 has ever been recorded.

That requests and logins are finitely many is used where they are counted, in
`LimitsProofs`. Where the count or order of mails matters (`ImapMailbox`, `MailWorkbench`), the
proofs rest on the library's facts about cardinalities.

**`MailboxProofs`.** None of the safety properties is inductive, because each speaks of rows
or of history, while what a delivery will write depends on where it stands. The inductive
invariant `Ledger` ties the two together:

- `Placed`: a stored delivery has left the INSERTs behind and knows the id of its row, which is
  there unless a deletion took it; `Owned`: every row belongs to such a delivery, under
  its id. Both survive the reuse of ids because a new row only takes an unused id.
- `Advanced`, `EffectsStored`: nothing but a stored delivery gets to the summary and the
  integrations.
- `Receipted`, `Backed`: a stored message has its receipt until the purge, and a receipt, or
  an accepted delivery, has a stored copy.

| Theorem | States | Follows from |
| --- | --- | --- |
| `TypeCorrect` | `TypeOK` | itself inductive |
| `MessageStoredOnce` | `StoredOnce` | `Ledger` |
| `AcceptedMailIsKept` | `AcceptedIsKept` | `Placed`, `Backed` |
| `IntegrationsRunOnce` | `EffectsOnce` | `EffectsStored`, `StoredOnce` |
| `MarksHaveOrigin` | `MarkOrigin` | `Ledger` and `MarkingOrigin`: a request about to write a mark holds the id of a mail it was asked about |
| `SummariesHaveOrigin` | `SummaryOrigin` | `Ledger` and `SummaryCopy`: a summary is that of a delivery stored under the id of the row |

**`LimitsProofs`, `SendQuota`.** `LimitHeld` counts requests, while the code compares a counter
with a limit; what is needed is that the counter counts those requests. The inductive invariant
`Books` is an audit: `Slots`, a counter that is not of an earlier date is at least the number of
requests that rely on it, and equal to it as long as nothing has failed; `Capped`, no counter is
above the largest configured limit; `NoOverdraft` itself, which keeps the balance and the mails
paid from it within the grants; and `Phases`, what the program counter says about what a request
holds. `Slots` must leave out the counters of earlier dates, which a cleanup deletes under the
requests that hold them, and must include those of later dates, which midnight makes current: a
request of an earlier date can never hold one of them, because its day is not after today. Most
statements of `sendMail` take nothing (`Quiet`); the four that do, `TakeCount`, `ReleaseCount`,
`TakeBalance`, `RefundBalance`, change the number of holders and the row by one together.

| Theorem | States | Follows from |
| --- | --- | --- |
| `TypeCorrect` | `TypeOK` | `Books` |
| `LimitsHold` | `LimitHeld` | `Slots`, `Capped` |
| `SlotsReturn` | `NoSlotLost` | `Slots` |
| `GrantsHold` | `NoOverdraft` | `Books` |

**`LimitsProofs`, `AuthLimits`.** `WindowBound` speaks of every stretch of time as long as a
window, while the table keeps one row per key. The inductive invariant `Windows` says in
`RowFits` what a row knows about the attempts: its count is at least that of those let through
since the window opened, and at least one less without the moment it opened, when the row may
have replaced one of an expired window; and less than the limit of those let through fall into
the length of a window before. A stretch that covers the opening of a window has a part on each
side, each with less than the limit.

| Theorem | States | Follows from |
| --- | --- | --- |
| `WindowsAreBounded` | `WindowBound` | `Windows` |
| `RefusalsAreEarned` | `RefusedForRecent` | `Windows` |

**`LimitsProofs`, `AccessControl`.** The inductive invariant `Daily` says that, until a request of
a client and day is excused, the stored count is at least the number of those admitted by it; a
request about to write has read less than its limit, and writes more than it was admitted
after. The claim that the limit held without naming the killed requests was false: with four
requests, one that is killed after a late write lowers the count and lets two others in.

| Theorem | States | Follows from |
| --- | --- | --- |
| `DailyLimitHolds` | `DailyHeld` | `Daily` |

**`AccessProofs`, `AddressAuthority`.** What makes revocation final is that nobody is ahead of the
tables. The inductive invariant `Authority` consists of `TypeOK`, `Phases` (what the program
counter says about the rest of a request, in particular that a request with a token has
ended), `RequestsKnown` (no request names an id that was not given yet or a version above the
current one), `SharesKnown` (the same for links) and `PasswordIsLatest`. There is one lemma
per handler, which proves the same conclusion `Steps`: the request goes on as a well-formed
one (`Moves`), the row keeps its id with a version that does not fall, goes, or comes with a new
id (`AddressMoves`), links keep their address or lose it and stay revoked (`SharesMove`).
Everything else is derived from `Steps`.

| Theorem | States | Follows from |
| --- | --- | --- |
| `TypeCorrect` | `TypeOK` | `Authority` |
| `UpgradeKeepsPassword` | `PasswordIsLatest` | `Authority` |
| `RevocationIsFinal` | `StaysRevoked` | `Authority`, `AddressMoves`, `SharesMove` |
| `RotationsApart` | `RotatedOnce`, which no run checks: no two rotations of an address hand out tokens of one version | `Authority`: the version of a new token is above every version a request knows |
| `LoginsAreFresh` | `LoginFresh` | `Authority` and `LoginsFresh`: a login that has verified, or answered, for the current version knows the current password |
| `OlderLinksReplaced` | `OlderReplaced` | `Authority` and `LinksReplaced`: the links a creation found are known ones, and revoked once it has passed its UPDATE |

**`AccessProofs`, `UserIdentity`.** The inductive invariant `Admission` has two halves. `Codes`:
the codes that requests hold were drawn and differ from each other, and one that is about to be
sent, or has been, is usable or spent, because a request reserves the challenge before it sends,
and what it releases is its own. `Tokens`: a request that holds an account's id or a token names a
generation that was drawn, and none after the last; and the two properties themselves.

| Theorem | States | Follows from |
| --- | --- | --- |
| `AccountTypeCorrect` | `TypeOK` | `Admission` |
| `SentCodesWork` | `SentCodeWorks` | `Codes` |
| `LoginsAreCurrent` | `LoginIsCurrent` | `Tokens` |
| `SessionsLast` | `SignedInStays` | `Tokens` |

`BindingsBelong` states `BindingOrigin` of the bindings of `MCAccess`: while `part` is
`"binding"` its steps are those of `UserAdmin`, so the theorem `BindingsHaveOrigin` of
`UserAdminProofs` carries over, for any addresses and e-mails. The instance has two ids and two
lives; the theorem it rests on, any number.

**`PartsProofs`, `AddressLifecycle`.** KV entries are kept by name and rows by id; nothing ties
the two but the requests that write both, one after the other. The inductive invariant `Order`
says what each of these carries. `Earned`: what a request has read, brings or is about to write
for a chat are credentials that the chat holds, however stale. `Tended`: while the webhook is
that of the row and was saved in time, no deletion of the row has got beyond its `Purge`, so
that the row goes only after the webhook. `Succession`: of the ids up to the last one all but
the current have been erased. One lemma per group of handlers proves that a step `Moves` its
request to a well-formed one that `Follows` it; `WriteFrame` says which variables each write
changes.

| Theorem | States | Follows from |
| --- | --- | --- |
| `TypeCorrect` | `TypeOK` | `Order` |
| `PushReachesHolders` | `PushToHolder` | `Earned` |
| `WebhookGoesFirst` | `WebhookOfAddress` | `Tended` |
| `OneTransferSucceeds` | `OneTransferWins` | `Succession` |

**`AccountsProofs`, `Passkeys`.** `OpensOwnAccount` speaks of tokens only, while what a login
will answer depends on the row it has read and on the account that has the id by then. The
inductive invariant `Owned` follows the owner along: `RowOwned`, a row names an id that its
owner has; `Loyal`, a login under way has the e-mail of its owner; `Phase`, what the program
counter says. The decisive steps are the registration of a user, which takes an id that no row
names, and `ReadUser`, where the account may have changed.

| Theorem | States | Follows from |
| --- | --- | --- |
| `PasskeyOpensOwnAccount` | `OpensOwnAccount` | `Owned` |
| `AssertionsCountOnce` | `AssertionOnce` | `Counts`: until a login writes over a counter it had not compared, the counter of a row is at least that of every assertion that got through; two logins with one count have both compared a lower one, so that the second to store is such a login. Rows are numbered, so that nothing is claimed across a deletion |

**`AccountsProofs`, `Authenticators`.** A row of `user_authenticator_access` belongs to an id, a
grant to a person. The inductive invariant `Granted` says in `RowGrants` that the row of an id
which somebody has holds every grant of this person and, if only this person has written it,
nothing else; in `RowMade` that a row was written for somebody and a link that existed; in
`Meant` that whoever has the id a request names is the person it was meant for, or came later.

| Theorem | States | Follows from |
| --- | --- | --- |
| `AccessIsGranted` | `GrantsDecide` | `Granted` |
| `AdminsStay` | `AdminRowKept` of the roles of `MCUserAdmin` | `AdminRowLasts` of `UserAdminProofs`: while `part` is `"roles"` the steps are those of `UserAdmin` |
| `RolesBelong` | `RoleOrigin`, likewise | `RolesHaveOrigin` |

**`UserAdminProofs`.** What a write does is judged by the row it finds and by what its request
has read before, so the inductive invariant `Records` needs little besides the three properties:
`TypeOK`, and `Phase`, which says that only a deletion erases a user and that only a request
that has ended can have removed a role unseen. A request that has ended stays as it is
(`OthersStay`), so it can be named as the origin of a row ever after; each statement that writes
has a lemma. That a demotion leaves an administrator rests on its own count: of two admin rows
one is another (`AnotherAdmin`). The count read earlier is used nowhere in the proof, as it is
stale when it matters. For a binding that was inserted in time, the deletion of the user and
that of the address both come later and remove it.

| Theorem | States | Follows from |
| --- | --- | --- |
| `TypeCorrect` | `TypeOK`, with the uniqueness of e-mails | `Records` |
| `AdminRowLasts` | `AdminRowKept` of `UserAdmin`, which `MCUserAdmin` checks of an instance | `Records` |
| `RolesHaveOrigin` | `RoleOrigin` of `UserAdmin`, likewise | `Records` |
| `BindingsHaveOrigin` | `BindingOrigin` of `UserAdmin`, which `MCAccess` checks of an instance | `Records` |

**`ServiceProofs`, `DomainSetup`.** A request writes a status it derived from a row it read some
steps ago. What makes this sound is that every write raises `config_version`; the inductive
invariant `Config` spells it out for each request that is under way. `Seen`: the row it read has
a lower version than the row now, or is the row now, but for the time left. `Claimed`: until
somebody else writes, the status is the one that the Cloudflare setup has read; when it does not
hold, the setup is overtaken, and its last write marks the row as `stale`. `OpenIfEnabled`: a
token is stored only for an enabled domain, so that a check that activates a domain has seen it
enabled. `Steps` is proved for each handler, `WriteSteps` for all that write under the version
they read.

| Theorem | States | Follows from |
| --- | --- | --- |
| `TypeCorrect` | `TypeOK` | `Config` |
| `ActiveDomainsAreProven` | `ActiveIsProven` | `Config` |
| `VerificationNeedsEnabled` | `OpenIfEnabled`, which no run checks | `Config` |
| `DisablingHolds` | `DisableHolds` | `Steps`: only an update that has seen the domain disabled, and an import, enable it |

**`ServiceProofs`, `SchemaMigration`.** `VersionMeansComplete` speaks of what is there when a
version is recorded, which is the last of up to 38 statements, while others record versions, add
what is there already, rebuild tables and end. The inductive invariant `MigrationFits` says:

- `Behind`: a migration finds what the version it began with promised, and the effect of every
  statement that applied to it and lies behind it. This survives the steps of others because
  no statement takes anything back (`Grows`, `EffectsStay`), with one exception.
- `IndexFits`: the rebuild takes the index of the authenticator tables away. If it is missing
  although the version, or a migration past its last index, says that all is there, then somebody
  `Owes` it: a migration that overlapped another one and has rebuilt them, or has ended.
- `AloneFits`: under a migration that is alone the version is the one it began with, or the 9 it
  has written itself; a column it found missing is still missing; the tables that have
  an owner have the legacy shape. So none of its statements can fail.
- `DataFits`: what the recorded version promises.

The lemmas about the script (`Kinds`, `ScriptColumns`, ...) are the only ones that look at its
positions; `BehindMoves` and `Stops` say what it means to go on to the next statement
that applies, and each kind of statement has one lemma.

| Theorem | States | Follows from |
| --- | --- | --- |
| `MigrationHolds` | `MigrationFits` | itself inductive |
| `SchemaTypeCorrect` | `TypeOK` | `MigrationFits` |
| `VersionsAreComplete` | `VersionMeansComplete` | `DataFits`, `IndexFits` |
| `LoneMigrationsSucceed` | `AloneSucceeds` | `AloneFits` |

**`AdminSessionProofs`.** The inductive invariant `Sound` joins the two sides of the session:
what the worker has (rows, the cookie, which sessions were opened and which are gone) and what a
tab may hold in each phase of a sign-out, a renewal and a call. A sign-out is only final because
an answer that was under way is dropped by its generation. That nobody waits in vain is inductive
by itself: a renewal only goes on until it settles, and settling takes up every waiter of its tab.

| Theorem | States | Follows from |
| --- | --- | --- |
| `TypeCorrect` | `TypeOK` | `Sound` |
| `SignOutHolds` | `LogoutHolds` | `Sound` |
| `NobodyWaitsInVain` | `WaitersAreServed`, the half of `Settled` that needs no fairness, which no run checks by itself: no request waits without a renewal | itself inductive, with `TypeOK` |
| `HandlerRunsOnce` | `RunsOnce`, which no run checks: the handler of a call runs at most once, although a denied request is sent again | `Sound` |
| `ImplementsStore` | `StoreSpec`, the refinement of `RevocableSessions` | `Sound`, and for each action the step of the store it is, or a stutter |

**`PartsProofs`, `AdminConsole`.** The inductive invariant `ConsoleFits` says of the loads what they
were sent for: at most one load in flight will replace the list (`Fresh`), it is of the current
session, and unless a change was missed it asks for the filter that is shown; when there is none,
the list is that of the filter.

**`PartsProofs`, `AdminActions`.** The inductive invariant `LockFits` is about sequences of steps:
after a question or a loan of the lock an action still has something to do (`Remains`), so that it
takes the lock back; a job that lends the lock without having found it taken has disturbed another.

**`PartsProofs`, `ImapMailbox`.** The backend lists by offset from the newest, so that mails
which arrive during a build shift the pages. The inductive invariant `MailboxFits` compares the
index with the mailbox by their size: as long as nothing was deleted the mails only grow in
number, so that, if the counts agree in the end, they agreed all along, and a build has the
newest so far (`BuildFits`). For `FetchComplete`, `CalmFits` says what a command that nothing
disturbs has read: what it asks for is not in the cache, and it has of that the newest so far
(`Fetching`).

**`PartsProofs`, `MailWorkbench`.** The inductive invariant `WorkbenchFits` says that outside
the named overlaps a load is alone and asks for the page and filter that are shown
(`LoadAlone`), or one operation marks mails, whose marks turn the rows on the screen into those
of the backend (`MarkFits`), or the rows are the backend's.

| Theorem | States | Follows from |
| --- | --- | --- |
| `ListBelongsToSession` | `ListOfSession` | `ConsoleFits` |
| `ListAnswersFilter` | `ListMatchesFilter` | `ConsoleFits` |
| `LockIsHeldByOne` | `LockMeansRunning` | `LockFits` |
| `IndexListsMailbox` | `IndexCurrent` | `MailboxFits` |
| `FetchesAreComplete` | `FetchComplete` | `MailboxFits`, `CalmFits` |
| `RowsShownAreCurrent` | `ShownIsCurrent` | `WorkbenchFits` |

**Only model-checked:** the liveness properties `Settled` and `CatchesUp`, since the prover reasons
neither about fairness nor about `ENABLED`. What the prover does not see either is that the
script of `MigrationStatements` is the one of the repository, or that the steps of an action in
`AdminActions` are those of its source; these are translations to be read. No module declares a
recursive operator.

## What is not modelled

Listing, searching and parsing of mails only read. Junk scores, recipient resolution, message
formats, what integrations send and what providers answer are data the properties do not tell
apart; a provider that accepts a mail and reports an error, so that the units are given back
although the mail has left, cannot be told from one that refuses. Audit and access events are
appended and never read back by a handler. The backfill of mail summaries after a migration
writes what it computes from a row it selected. S3, webhooks and AI extraction are single calls
whose failure is caught, and appear as integrations. KV is modelled as atomic registers; its
propagation delay is not. The remaining views of the frontend show what one call returned; the
SMTP proxy makes one call per message; the Pages function and the WASM parser keep no state.
Cryptography is taken as perfect: tokens, hashes and UUIDs are never guessed or repeated.

## Plan

In the order of what matters to the system:

1. *Done:* `Mailbox`, `SendQuota`, `AddressAuthority`, `UserAdmin`, `DomainSetup`,
   `UserIdentity`, with their instances.
2. *Done:* `AdminSession` with the refinement of `RevocableSessions`; `Authenticators` and
   their panel; passkeys; the limits; the console, its actions and the mail page; the IMAP
   mailbox; what is kept by name about an address; the migration of the database.
3. *Done:* proofs of every safety property the passing runs check, and of the refinement
   `StoreSpec`.
4. Further abstract specifications: an inbox that stores each message at most once
   (`Mailbox`), a counting semaphore (`SendQuota`), a register with compare-and-set
   (`DomainSetup`).
5. The backfill of mail summaries, and the remaining views that
   keep lists across calls.
