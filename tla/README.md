# Verification of ionnet-mailer

TLA+ models of ionnet-mailer (a Node mail app beside Postfix, Dovecot, rspamd, Postgres and
Redis), model-checked with TLC, and theorems about them checked with TLAPS. Every definition
follows the source; `PROJECT.json` maps each one to its lines.

How to run: `tlc -config MailServer.cfg MailServerMC`, `tlapm PostfixProofs.tla`. Section 3 names the
module of each run.

## 1. Inventory

One app process (`apps/server`) serves the JSON API to a React client (`apps/web`), reads
Postfix's log and talks to the mail servers. It is single-threaded: code runs from `await` to
`await`, and everything awaited (a query, a file, a timer) is a place where other requests,
timers, the recovery CLI (another process), the containers and restarts interleave. No handler
but first-run setup uses a transaction. The models are therefore built around awaits.

| Component | State | Operations | Hard part |
|---|---|---|---|
| Postfix control channel (`activity/postfix-ctl.ts`, `docker/postfix/postfix-ctl.sh`) | files in a shared volume, the cached snapshot | `run`, `queueAction`, `postfixOverview`, the shell loop | two processes, restarts, timeouts, withdrawal |
| Directory (`admin/service.ts`, `admin/routes.ts`) | domains, mailboxes, aliases | create, update, delete, catch-all | check-then-act over several queries |
| Log reader (`activity/log-tail.ts`) | file handle, position, saved position | poll, save, stop, restart | rotation, torn lines, crashes |
| Bans (`auth/bans.ts`, `activity/*-events.ts`) | `ip_bans`, sign-in events, two caches | evaluate, ban, lift, allowlist | overlapping evaluations, stale caches |
| Web sessions (`auth/session.ts`, `auth/routes.ts`, `account/routes.ts`) | sessions, passwords, cookies, cached disabled domains | sign in/out, switch, refresh, change password, revoke | overlapping responses, stale reads |
| Lockouts (`auth/ratelimit.ts`) | counters with expiry in Redis | count, lock, clear | two commands per count |
| IMAP pool (`mail/pool.ts`) and message cache (`mail/message.ts`, `lru.ts`, `routes.ts`) | a connection and a queue per mailbox, bodies by UID | run, connect, evict, sweep; load, flag, move, delete | closing while connecting or busy, stale selections and bodies |
| Live events (`mail/events.ts`), mail page (`useMailEvents.ts`, `lib/queries.ts`, `routes/Mail.tsx`, `ThreadView.tsx`) | next UID, folder counts, stream; the tab's cached lists | scan, poll, send, resync; optimistic change, undo, refetch | what arrives between two looks, answers out of order |
| Conversations (`mail/threads.ts`, `routes/Mail.tsx`) | none; pages of a list | group, page, expand, merge | bounded search, mail that moves between pages |
| Sending and drafts (`send/routes.ts`), composer (`Composer.tsx`, `pendingSend.ts`) | draft UID, save chain, undo timers | save, close, move, flush, send, undo | lost answers, saves that outlive their composer |
| Accounts and tabs (`account/switching.ts`, `lib/api.ts`) | the tab's account, broadcasts | switch, sign out, reload | tabs that lag behind the cookie |
| Mail log rows (`activity/mail-log.ts`) | contexts, `mail_log` | one handler per kind of line | restarts, lines handled twice |
| Administration pages (`routes/admin/*`, `features/admin/*`, `lib/queries.ts`) | cached lists | one mutation per change, with what it invalidates | lists that nobody named |
| DKIM files (`admin/dkim.ts`), first-run setup (`setup/*`, `Setup.tsx`) | key files, selector map, token, settings | sync, create, finish, resume | several steps of one change, two writers of one file |
| TLS sync, recovery CLI (`cli.ts`), boot, retention | — | install; passwd, logout, ban, unban; purge | another process, no cache |
| Contacts, DNS checks, overview, status, rendering, configuration | — | reports, single statements, rendering | none for a model |

How they meet: the log reader hands lines to the mail log, which records hits on bans; Dovecot
posts sign-ins to the same event code as the web sign-in, whose failures lead to bans and
lockouts; Dovecot and Postfix ask the database themselves (`ip_is_banned()`); the directory's
switches decide who may sign in (sessions) and what Postfix delivers; the admin pages use the
control channel; the client's tabs share one pair of cookies. The hazards of each part, at
their lines, are in `PROJECT.json`.

What makes each correct, in a line: a command runs at most once and is confirmed only if it ran;
an installation keeps an administrator and its aliases deliver; every log line is handled, and a
restart skips none; a guesser is banned, once, for the right time; a session ends when its
password is changed and is known to the browser that opened it; a message is sent once, has one
draft until then, and its text is never lost; whoever opens a message is given that message, and a
tab at rest shows the mailbox; the rows of the mail log say what the log said; the DKIM files follow
the domains, and setup is over only when somebody can administer.

## 2. Modules

| Module | Models | Code it follows |
|---|---|---|
| `PostfixCtl` | both sides of the control channel, file by file | `postfix-ctl.ts`, `postfix-ctl.sh` |
| `CommandService` | what the channel promises: a serial server of commands | — |
| `Directory` | the admin handlers, query by query | `service.ts`, `routes.ts` |
| `LogTail` | the log reader, Postfix's writes, rotation, stop and crash | `log-tail.ts`, `postfix-ctl.sh`, `index.ts` |
| `Bans` | sign-in attempts up to the ban, both caches, bans by hand | `bans.ts`, `auth-events.ts`, `dovecot-events.ts` |
| `Sessions` | requests of one browser, with their cookies | `session.ts`, `auth/routes.ts`, `account/routes.ts`, `cli.ts` |
| `Composer` | writing, drafts, Undo and sending in one tab, with the server's two handlers | `Composer.tsx`, `composerStore.ts`, `pendingSend.ts`, `send/routes.ts` |
| `MailServer` | mail requests of one mailbox: pooled connection, cache of bodies, other mail apps | `pool.ts`, `message.ts`, `lru.ts`, `mail/routes.ts` |
| `MailClient` | the mail page of one tab and the event stream that feeds it | `queries.ts`, `Mail.tsx`, `ThreadView.tsx`, `useMailEvents.ts`, `mail/events.ts` |
| `Threads` | grouping, paging, opening and merging conversations | `threads.ts`, `Mail.tsx` |
| `MailLog` | the rows of `mail_log`, line by line, with restarts and lines that fail or are lost | `mail-log.ts` |
| `AdminConsole` | what every administration page lists and what every change invalidates | `queries.ts`, `routes/admin/*`, `features/admin/*`, the routes that answer |
| `Install` | first-run setup, DKIM files and the requests and starts that write them | `setup/*`, `Setup.tsx`, `dkim.ts`, `admin/routes.ts`, `index.ts` |
| `DirectoryMC`, `BansMC`, `SessionsMC`, `ComposerMC`, `MailServerMC`, `MailClientMC`, `MailLogMC`, `InstallMC`, `AdminConsoleMC` | constants, symmetry and views for TLC | — |
| `PostfixProofs`, `DatabaseProofs`, `InstallProofs`, `SessionsProofs`, `BansProofs`, `BrowserProofs`, `MailServerProofs`, `ComposerProofs` | theorems | — |

Conventions. A step is what runs between two awaits: a block without an await is one action, and
a query is an action at which the database answers. A request in progress is a record whose
field `at` names the await it is in; it keeps what it has read, so a stale read is one that no
longer holds when it is used. History variables (marked "history") record what a property has to
refer to: which call ended before another began, which requests overlapped, which list was
loaded across a change. They guard nothing; only counters do, up to the bounds (`Max...`) of calls,
events and failures.

Many properties have the form "X only by race" or "except ...". The exceptions are what the code
really lets happen; each is a history variable or a named set, and was found by TLC when it was
missing. They are listed under the runs.

**PostfixCtl.** `pc[c]` is where a call of `run()` stands: idle, written (`<id>.tmp`), waiting
(renamed to `<id>.req`), expired, then its outcome. `sh` is the shell loop between two of its
file operations; `req`, `res`, `tmp` are the files. Both sides may stop between any two steps:
after `ShellStop`, `ShellStart` runs the container's cleanup first; `AppRestart` loses the app's
callers and its cache, never files: an `<id>.tmp` it had not renamed yet stays until the container
starts again (`FilesGo`). What a command prints is "ok" or "error". The refinement `ImplementsService` maps the
files to `CommandService`: a request is pending until the shell has read it, or is dropped by a
withdrawal, a cleanup or a container that stopped.

**Directory.** A request of the admin API is a record with the row it loaded, and one action per
query that follows. `bereft` and `crossed` are the requests during which another one took an
administrator away, or wrote anything. A domain deleted and created again under its name is the
same domain here.

**LogTail.** A line is two units, so that reads and writes end inside one. `Start`, the steps of
a tick, `stop()` and a crash are actions of the app; `WriteHalf`, `WriteRest`, `Rename`,
`Recreate` and `Truncate` of Postfix, logrotate and whoever empties the log. The position is advanced past a chunk in the step that
hands over its first line, because the code has no await between. `loadState()` takes a query that fails for
no saved position (`LoadFails`). `gaps` are lines the log lost by itself (truncated, or rotated away twice), `again`
those that an unclean end, a failed `loadState()` or a raced rotation may repeat. Which inode the first log has is
fixed, since no definition tells one from another. An inode number used again is not modelled: `log-tail.ts:74` would take the new
file for the old one.

**Bans.** An attempt asks for the ban, is written to `auth_events`, and evaluates its address;
`order[m]` is an administrator between lifting and inserting. One network, `Net`, stands for the
/24 or /64 of its addresses. The statement that changes bans and the invalidation after it are
one step: until the statement's answer arrives, the app reads what it could have read before it.
Names with and without a mailbox are told apart, durations are steps of `ESCALATION`. Each sign-in leaves the
window it is counted in by its own time (`Left`), a success perhaps before the failures it
excused; nobody is evaluated then, so that an address time alone made guilty is `passed` until it fails again.

**Sessions.** `cookie` is what the browser holds, `req[r].sent` what a request was sent with,
`req[r].out` the cookies of its response; `Respond` applies them in any order, `ResponseLost`
never. Reads that follow one another are one step, except for the query of the disabled domains,
whose answer is installed later. `since` is the last password change before a session's sign-in
read the mailbox; `swept` is the last change that has ended the sessions. `Remembered` is what a later
request still finds in the list: `readIds()` reads the first 16 ids, and a session written behind them stays in the
cookie, alive and unread. `parted` are the sessions the browser lost that way, to overlapping or lost responses, or to a
bar. The 409 for a tab that
shows another account, hashing, and deleting mailboxes are left out.

**Composer.** `mounts[i]` is one mounted `<Composer>`: its text and attachments, what it last saved
(`last`), the queue of its saves (`chain`, with `close`, `flush` and `send` where their callers
wait on it) and the request its head waits for. A composer that was closed, replaced or moved
keeps its record and goes on with its chain. `outbox` is what `queueSend()` was given, `reqs` what
the server was asked, `drafts` and `sent` what came of it. A lost answer lets the client go on
while the server does, too. The tab runs to completion: no event comes between two links of a
chain (`Quiet`). `cause[m]` is the history of a message, in the words the properties use:

| Word | What happened to the message |
|---|---|
| `left` | its composer was closed, replaced or moved with saves, a send or a second press of Send under way |
| `remount` | a composer was mounted with text no draft holds: moved, reopened by Undo or after a failed send |
| `late` | it was changed while closing or sending, or saved while the body to send was built |
| `failed`, `torn` | a save failed; a step at the drafts was done by half, or its answer was lost |
| `unsure` | the answer to a send was lost |
| `expired`, `abandoned` | the offer to edit a failed send went away; the page was left with something of it |

Left out: a draft reopened from the Drafts folder (it begins with a UID and is otherwise alike),
the questions before sending, several attachments, other tabs.

**MailServer.** `req[r]` is a request at one of its awaits, `obj[o]` a `PooledConnection` with its
queue, `cli[c]` the IMAP connection under it, `pool` what the map holds. One IMAP command with its
lock is one step on `store`; a connection remembers what it had selected and what it has seen of it,
because the pool does not IDLE. A
connection that closes is forgotten by its object at once (`Forgotten`). `cache` is the LRU of bodies, keyed by folder and UID without
UIDVALIDITY. Evictions, the sweep, lost connections, deliveries and other mail apps fall between any
two steps. `named` is the message each UID was given to, `remade` the folders that were deleted and
made again; there UIDs count from 1 once more, and the cache may answer the old body.

**MailClient.** `cache[k]` is a query of the tab: its data, whether a fetch is asked or answered, and
whether it is out of date. `change[i]` is a mutation between the patch of the cached lists and the
refetch after its answer. `sse` is the server's end of the event stream, `wire` what it sent and
the tab has not read. The query library is external: a first fetch is not started again by an
invalidation (`outran`), and a component that is gone gets no callbacks from its mutation. Lists may
be one first fetch behind for that reason, INBOX may be behind a scan that failed (`torn`), and flags
outside INBOX are not watched at all, since the poll compares counts.

**Threads.** `mail` is written once, in the order of arrival, which is the order of the dates; `uid` moves. A
reply cites its parent alone or the chain, keeps or changes the subject, and may arrive before its parent.
`GroupThreads`, `Page`, `MergePages` and `ThreadUids` are the four functions as operators over it, checked against
`Component`, the closure of "cites the other or the same, or has the same subject in time".
`MAX_EXPAND_ROUNDS` is 8 in the code and 3 here. Every round finds a message of the row or is the last, so
a row of as many messages as rounds is shown in full; a longer one may be shown in part,
which the comment above `threadUids` (`threads.ts:290`) does not say. A conversation split over two
pages becomes one row only when its parts have the same first reference (`Mail.tsx:23`).

**MailLog.** `log` is what Postfix wrote of messages that come, are tried, deferred, deleted or
expire (`After` reads off it what a recipient is left with); the app handles line `pos + 1` by the handler of its kind. A restart forgets `contexts`
and reads on from any line: at the saved one or further back, or further on, since `stop()` may save a position behind
lines in hand (`cutOff` in `LogTail`); messages of lines left out are `skipped`, like those of lines that fail. What is known of a message is a set of pieces (client, source, headers,
sender, size), and `has` the pieces of a row. The "queued" line of a retry begins a context that holds
half of them, so that `contextFromDb` (`mail-log.ts:147`), made for that case, is not asked (`half`); a rejected line that is read twice makes two rows, since it has no queue id.

**AdminConsole.** `Pages`, `Reads`, `Changes` and `Invalidates` are tables taken from the
components and hooks: what each page lists, of which data each list is made, which changes it
offers, and what they alter and invalidate. `at[q]` is the change up to which a cached list shows
the data. `Overlooked` names the lists a change alters and does not invalidate: the failing
addresses with their "Ban" buttons stay for up to a minute after a ban.

`call[r]` are the changes that wait for an answer, several at a time: a button that is disabled by
`isPending` (`Gated`) holds back only its own next press, and only while its page is open (`open`); the switches of
aliases and the buttons of different cards wait for nothing. The answers of the setup steps and of the DNS records are
written into the cache as they come, so the older of two may be written last. The allowlist is kept entry by entry,
because a save sends all of it: a second entry added before the list is fetched again
sends a list without the first (`hasty`), and so does one added, or performed, beside another save. So does one
added after the page was left and opened again
while a fetch begun before the first save was still running (`outran`): an invalidation does not
restart the fetch of a list nobody looks at, and its old answer counts as fresh. `outran[q]` is over when the list
is read again. The filter that shows ended bans is left out; a tab of a domain is a page of its own here.

**Install.** A request's step is one query or one file operation; `keyed` and `map` are the files.
`writeFile` opens the file empty and writes later, so two writers of `selectors.map` overlap.
`late` are requests whose list of domains is older than one that was written since; `behind` and
`astray` say whether the map or a key file was last written by such a request. A wizard steps
through domain, administrator, DNS and finish, reloads, and loses answers; after a reload it takes
its step from the server and its domain from the hostname. `setup_token_hash` is never cleared: only
the gate closes the routes once setup completed, and a start after the administrator was created
marks setup completed by itself.

## 3. Runs

| Run | Module | Question |
|---|---|---|
| `postfix_channel` | `PostfixCtl` | commands run once, in order; fresh pages; the refinement; files go |
| `directory` | `DirectoryMC` | last administrator, clashes and skipped aliases: the only ways there |
| `log_tail` | `LogTail` | no line lost or repeated, under rotation and crashes |
| `bans` | `BansMC` | who is banned, for how long; stale caches |
| `sessions` | `SessionsMC` | who may act, what a new password ends, what the browser knows |
| `composer` | `ComposerMC` | how often a message is sent, its drafts and attachments, where its text is |
| `mail_server` | `MailServerMC` | which body, flags and messages are answered; connections left open |
| `mail_client` | `MailClientMC` | what the tab shows in the end, what is announced and marked as read |
| `threads` | `Threads` | which messages are one conversation, one row, one opened view |
| `mail_log` | `MailLogMC` | what the rows say against what the lines said |
| `admin_console` | `AdminConsoleMC` | whether a change shows on every page; saves of the allowlist |
| `install` | `InstallMC` | DKIM files follow the domains; setup ends with an administrator |

All of them hold. What the runs show the code to let happen, and the properties therefore name as
exceptions:

- `LastAdminOnlyByRace`: two overlapping removals leave no administrator, in spite of "Cannot remove
  the last administrator."
- `SkippedOnlyThrough`: an alias switched on again delivers to a mailbox made send-only meanwhile.
- `FilesGo`: an app that restarts between `writeFile` and `rename` leaves an `<id>.tmp` behind.
- `SavedBehind`: `stop()` inside a chunk saves a position past lines not handled (`cutOff`). The rows of those
  messages may stay wrong (`StatusIsTheLast`, `DeferredIsQueued`).
- `NoRepeat`: a saved position that cannot be read at a start has the whole file handled again.
- `GuessersAreBanned`: a success that leaves its window before the failures it excused makes an address guilty, and it
  stays unbanned until it fails again.
- `DoubledOnlyByRace`: `autoBan()` is returned without `await`, so two evaluations may ban twice, the
  second for longer.
- `NothingLost`: a composer that was moved or reopened takes its text for saved (`remount`).
- `OnlyImportedReturns`, `ChangeEndsSessions`: a sign-in under way keeps an old hash or a session
  across a change of the password.
- `SessionsAreHeld`: overlapping responses, or the limit on the cookie, leave a session alive
  that the browser cannot list or sign out.
- `OpenShowsRow`: replies that cite only their parent, in a chain longer than the rounds.
- `OwnEntriesStay`: the hasty second save, and two saves at once.
- `OwnChangesShow`: the lists nobody invalidates, and those an older answer was written to last.
- `FilesFollowDomains`: the selector map of overlapping requests, until the next change or start.

Bounds, and why they are enough:

- `PostfixCtl`: 2 calls, 1 restart of the container, 1 of the app. Every property relates two
  calls; one restart of each side reaches every step of either with the other anywhere.
- `Directory`: 2 requests at a time; 2 mailboxes and 1 alias at 1 local part of 2 domains. A PATCH
  changes one switch. Two mailboxes are two administrators to remove, or one beside a
  send-only target; more requests would only overlap in more places.
- `LogTail`: 2 lines of 2 units, 1 rotation, 1 truncation, 2 stops or crashes: two ends are the
  least in which a position saved wrongly by the first is used after the second.
- `Bans`: 2 addresses of one network, 2 attempts at a time, 3 in all, 2 rows, and 1 event (a
  change by hand, an expiry, a failing query). Thresholds are 2 and 3.
- `Sessions`: 2 mailboxes, 2 requests at a time, 3 sessions, 2 passwords each, and 4 requests and
  events together. The limit of cookie ids (16) is 2, so that a third session passes it; that of
  accounts (5) is a parameter, which two mailboxes do not reach.
- `Composer`: 2 messages (one can replace the other on screen), 5 acts of the user or timers
  besides opening, 1 failing step or lost answer. Five acts reach a second save of an attachment
  after the answer of the first, and Undo, an edit and a save after a send.
- `MailServer`: 2 folders, 2 messages, UIDs 1 and 2, 2 requests, 2 connection objects with 2
  connections, 3 events and a cache of one body. A stale body takes a read, a folder deleted and made
  again, and a second read; a lost connection takes one eviction while another request waits.
- `MailClient`: 2 folders, 2 messages of one conversation, 2 requests of the tab at a time, and 3
  steps of the user, others or failures, each with all the fetches and events it causes.
- `Threads`: up to 4 messages, pages of 3, 3 rounds, and 2 of these: a move, a message elsewhere, a reply before its
  parent, a reply with another subject. Four messages are two pages; a row of three may need all three
  rounds (first, by subject, by In-Reply-To). With 2 rounds a row of three is shown in part.
- `MailLog`: 1 message to 2 recipients, 7 lines (arrival, a deferral and a second try), 1 restart (at
  any line), 1 line that fails or is lost. Handlers touch only the rows and the context of their line's queue id.
- `AdminConsole`: 2 changes, which may overlap, 3 visits (a page that is left and opened again), 2 entries, over three
  pages, with four of the changes (`Actions`) and two lists followed (`Followed`): the allowlist, and the setup steps,
  which a change on another page alters and two answers write. The proof covers all of the tables and any number of
  changes.
- `Install`: 2 domains, 2 requests, 1 wizard, 2 starts, 1 fault.

Deadlock is checked in `log_tail`: the reader polls for ever and is started again whenever it
ended. The other runs set `CHECK_DEADLOCK FALSE`: their calls, requests or acts are bounded, and
the system rests when they are used up. Symmetry is used in `DirectoryMC`, `BansMC`, `SessionsMC`,
`MailServerMC`, `MailClientMC`, `MailLogMC`, `InstallMC` and `AdminConsoleMC`, which check safety only, over sets
whose members no definition tells apart. `ComposerMC` fixes the message opened first instead, and
takes two states for one when they differ only in what nothing reads again (answered requests,
composers that are gone) or in which of the causes with the same excuse befell a message;
`InstallMC` leaves out what a wizard shows once setup has completed, since every route turns it away.

Fairness is used for `FilesGo` and `EveryLineHandled` only. The timers of the app run and the
shell loop never ends (`while :` with `sleep`); the app is started again by Docker
(`restart: unless-stopped`), a line begun by Postfix is completed and a rotated log is created
anew. That a call is made, that something crashes or that a file is rotated is never assumed.
`AtRestShowsMailbox` and `OwnChangesShow` say what holds whenever nothing is on its way, and need none.

## 4. Proofs

The theorems hold for any sets of calls, requests, mailboxes, addresses and messages and for any bounds.
They assume only what the modules name and TLC evaluates: bounds are natural numbers, and thresholds
and limits positive ones, and so is the number of UIDs; a mailbox has finitely many folders and messages;
`None`, `Nil`, `Null` and the other markers are no members of the sets they stand beside;
the two folders the code names exist and differ; imported mailboxes are mailboxes; the pages and changes
followed are in the tables. Each proof module states an inductive invariant, proves that the initial
states have it and that every action keeps it, one lemma or step per action, and draws the
properties from it.

`PostfixProofs` proves the types and every safety property of both modules in which Postfix's container and the
app meet. Of `PostfixCtl`, from one inductive invariant of three parts:

- `PlaceInv`: a call's request is in one place at a time, and nowhere once it was answered; so it
  cannot be read twice. Needed because "at most once" alone does not say that a request still on
  disk has not been run.
- `AnswerInv`: an answer, in the shell, in its file or in the app, vouches for a run of this
  call and for every action confirmed before this call was made.
- `OrderInv`: what the shell holds was asked for before anything asked for after its caller
  learnt the outcome.

`CacheIsDropped` (a cached snapshot misses a confirmed action only if it was still being taken then) is proved
beside them and checked by no run. `ChannelImplementsService` proves the refinement: the initial
states map to initial states, and each step of the channel to a step of `CommandService` or a
stutter.

Of `LogTail` (whose names are apart from those of `PostfixCtl` so that one module can extend both): `SavedBehind` and `NoRepeat` pull in opposite directions (a position too early repeats lines, one too late skips
them), so `TailInv` bounds the position from both sides:

- `FilesInv`: the log is the newest file and ends with the last line written; every other file ends before it begins. So a
  line number tells which of two files is older.
- `OpenFront`, `HandFront`, `ShutFront`: how far the lines handled reach at most, while a file is read, while a chunk is in
  hand, and while no file is open: no further than where the next one will be read from, lines that may be repeated
  (`again`) apart; a saved position that cannot be read adds all lines of the file to those.
- `CoverInv`, `HandCover`: whatever lies before the position was handled, is a gap, or is in hand; this is what `save` then
  puts on record. It is stated for positions measured in the file's present contents, since a truncation leaves
  numbers behind that mean nothing any more; `WithinInv` says that the others are inside the file.
- `OldInv`: a file that is about to be closed, or that was opened under another file's number because of a rotation between
  stat and open, is not the log; hence what is read of it is never put on record as a position in the log.
- `PhaseInv`, `CleanInv`, `KnownInv`, `HandInv`: which handle is open at which step, and what a clean stop left on record.

Of `Directory`, `DatabaseProofs` proves the action properties from the types, the shape of each request (which
steps an operation takes) and two invariants about what a request has read: `Standing`, for
requests during which no administrator went away (the administrator counted is still there), and
`Knows`, for requests no other crossed (each check made still holds). A step that takes the last
administrator, or makes a clash, contradicts its own request's part. `CatchAllIsReplaced` (setting
a catch-all leaves no older one of the domain) is proved and checked by no run.

Of `MailLog` it proves every property, from an inductive invariant `LogInv` that TLC had checked on the instance of
`mail_log` before:

- `LinesInv`, about Postfix: a message begins with one line of smtpd or pickup; a delivery follows a line of qmgr, so that
  nothing new is told after the first delivery (`AllToldInv`); no delivery follows the end of a message, but for those known
  to be `late` (`ClosedInv`); the lines leave nobody waiting for a message that is gone (`WaitInv`).
- `ReplayInv`, for `StatusIsTheLast`: that the rows agree with the lines is not inductive, since it fails while lines are read
  again. What holds at every moment is that from any line up to the reader's (a restart may begin at any of them), the lines
  up to the last one ever read lead from the row's present status to what these lines leave
  (`Leads`). A restart further on leaves out lines only of messages that are `skipped` from then on. A delivery sets the status whatever it was; an end sets it only from "deferred", and "deferred" is what a
  replay can put back only by a delivery that comes before the end. This is why the `WHERE status = 'deferred'`
  matters (without it `StatusIsTheLast` is violated).
- `KnowInv`, for `RowsKnowTheirMessage`: of a message that nothing was lost of, the context holds all that was told so
  far, every row all that is told at all, and when there is neither, the message has ended. Hence the lookup of the
  context or an earlier row (`mail-log.ts:205`) always finds it, and a refusal that is read twice, which does not ask the
  rows, runs into its own row.

`DeferredIsQueued` follows from `ReplayInv` and `WaitInv`.

`SessionsProofs` proves every property of its run. For `ChangeEndsSessions`, `BarredActsOnlyByRace` and `OnlyImportedReturns` the invariant
follows a request by what it has read of its mailbox: a session begun before the last change that ended
sessions is not stored any more, or its sign-in was `overtaken` (`EndedOK`); what a request found in the database is
still true, or its marks say what it missed (`RequestsOK`); the list of disabled domains is right or
has drifted (`CacheOK`); an imported hash is only ever the first (`ImportedOK`).
For `SessionsAreHeld` a second one, `ListsInv`, follows the lists of sessions from the cookie through a request and back
(`ReqsOK`, `CookieOK`, `FreshOK`): nobody is in a list twice, so that `readIds()` never has a duplicate to remove; and of two stored
sessions of one mailbox the later has been parted with, which is why listing the accounts and signing in again, which keep
one session per mailbox, take nothing else. `HeldOK` is the property, of all stored sessions. The attempt to prove it showed that it was
false of the browser's whole list: a session past the limit stays in the cookie, but no request reads it, and the next
response that writes the list drops it.

`BansProofs` proves `CacheWrongOnlyByRace`, `GuessersAreBanned`, `DoubledOnlyByRace` and `SparedNotBanned`.
`ListsInv` and `AllowInv`: a cached or loaded list names only networks that were banned at some time, and an
allowlist lacks only what it is known to lack. `CallsInv`: whoever is about to insert found no active ban
that covers its target among the rows up to `from`, and nobody on the allowlist it saw. `GuiltInv`: an address
past a threshold has been banned, was let pass at its last failure or made guilty by time since, or has an evaluation
under way that will get to it. A window that ends earlier for one sign-in than another can only make that exception,
never undo an evaluation owed (`LeftIs`, `AgeDoes`).

`InstallProofs` proves `CompletedHasAdmin` and `FilesFollowDomains`. `FoundedInv`: whatever can complete setup
comes after the first administrator. `KeysInv`: a domain without its key in the file has a request about to
write it. `MapInv`: a request that holds a list of domains and is not late holds the right one, or
another will write after it. `OwnInv` and `WaitsInv` tie requests to their rows and wizards.

`BrowserProofs` proves every property of the two modules about caches in the browser. Of `AdminConsole`,
`OwnChangesShow` and `OwnEntriesStay`. The tables enter by one lemma, `Covered`: every
list a change alters is invalidated or named in `Overlooked`; so the theorems are about all the pages, not the
three of the run. `FreshInv` says that a list shows a change of this browser or will when it is looked at,
`SavedInv` that the cached allowlist has every save that was answered, unless it is invalidated or outrun, `HeldInv`
that a list after the last save has our entries, and `SendsInv` that a save sends them unless it was hasty. A change is
accounted for once it is no longer `Awaited`, however many others are. Looking for the invariant showed that a
fetch begun before a save may end after it (`outran`), and that a new domain's own page is not invalidated
(no page could show it before).

Of `MailClient`, whose names are apart from those of `AdminConsole` so that one module can extend both:

- `StreamInv`, for `AnnouncedOnce`. UIDs of a folder are given out once and in order (`StoreInv`). What was announced is
  behind the stream's next UID, and what is due and was not is at or after it, with a scan queued (`ToldInv`). Neither
  half is inductive alone: a scan that overlaps a delivery announces what came meanwhile, and the scan that the delivery
  queued must then find nothing.
- `TabInv`, for `UnreadSticks`: all messages of the open conversation that the cache holds have been seen, so the effect that
  marks as read what is fresh hits none of them, whichever answer comes in; and no change puts rows into the cache that
  were not there (`NoNews`).
- `RestInv`, for `AtRestShowsMailbox`. `KeyInv` says of every cached list, at every moment, that it is going to be fetched again
  (a request under way, no stream, an event on its way, an INBOX scan that has something to find), or was outrun, or shows an
  error, or that its rows, or the rows of the answer that is coming in, are right (`Good`). For INBOX, of which the stream says
  everything, only what the server would answer now is right. Of a folder that is polled, the mailbox may have moved on: right are
  rows that have all of what the last snapshot saw and is still there, and otherwise only what the snapshot saw or what came
  after it. The snapshot itself is three numbers, so the invariant says that there is a content `P` that gave them (`Seen`). At rest
  the poll finds the numbers unchanged: no UID was given out since and as many messages are there, so what is there is all
  that the snapshot saw, and the rows are the folder (`RestShows`). This is why the count and the next UID together are enough for
  messages, and why flags outside INBOX are excepted: equal counts of unread messages say nothing of which they are.
  TLC had checked `RestInv` on the instance of `mail_client` before it was proved.

`MailServerProofs` proves every property of its run. Who holds which connection: `QueueInv` (a request is queued
once, on its object, and works when it is first), `ClientInv` (a connection belongs to one object from its
sign-in until it closes) and `FreshInv` (it was begun after the last eviction before each request on that
object). What a UID stands for: `StoreInv` (a folder that was not made again gives each UID once), `CacheInv`
and `ReadInv` (what was cached, read or is half answered is the message its UID was given to; what a
conversation was asked for is gone, in the answer, or still in the list to read). That a conversation's
list of UIDs holds all of a finite set in order is proved with well-founded induction over the UIDs.
The attempt to prove `ClientInv` found an error of the model, which let a closed connection stay with
its object; the code forgets it (`pool.ts:61`).

`ComposerProofs` proves every property of its run. `ActiveInv`: a message is in one composer or in
one call of `queueSend()`, and a composer off the screen only saves, unless it was left at work. `SendInv`: what
Postfix may still get belongs to a call that waits for it, and what it has got is in no composer and in no other call, or an
answer was lost; so no second copy can be on its way. `KeepInv`: whoever has the message has its newest version, and knows
what is saved; a draft is deleted only for one that is as new, or for the message sent, which `UidInv` (a UID
stands for drafts of one message) makes sure is the same message. The 26 actions, but for editing and leaving the page,
come down to three lemmas: `TurnKeeps` for a step of the tab, `RequestKeeps` for a request, `ServerKeeps` for a step of the server. The proof showed
that a second press of Send needs no cause of its own in `RepeatsHaveCause`: the composer closes after the first, and so is left at work.
On that invariant rests a second one, `DraftInv`, for `OneDraftUntilSent` and `AttachmentsHeld`. A message that nothing befell
has at most one draft, and whoever has the message knows its UID: the composer, or the answer that waits for it; a call of
queueSend(); a request. A composer off the screen has at most one save to go, and what builds a body has the UID it began
with. When a save is carried out, the composer that waits for it is all there is of the message (`SavesAlone`), so the draft
that is deleted is the one before, and the attachments it held are read from the new one; when a message is handed over, only its
own request still has a draft to delete. The excuses are those of the properties: `left`, `late`, `torn` and, for
attachments and sent messages, `unsure`.

Only model-checked:

- liveness (`FilesGo`, `EveryLineHandled`), which no installed prover reaches with fairness;
- the properties of `Threads`. What the recursive
  functions and folds of `Threads` compute for every input is an induction over data, for which the
  library's theorems cannot be used.

## 5. Not modelled

- Lockouts (`ratelimit.ts`): counters with an expiry in Redis, each changed by single commands. The
  one hazard (the count and its expiry are two commands) is listed without a property.
- TLS sync: two renames and a reload in a loop that repeats what a stop left undone.
- Several tabs of one browser: broadcasts and the account header.
- Parsing of messages, addresses and log lines, snippets, searching, the quota.
- Contacts, well-known endpoints, DNS lookups, status checks and the figures of reports.
- Settings, the editor and rendering; the configuration of Postfix, Dovecot, rspamd and Caddy, except
  for what the models need of them; retention, which deletes rows past a date; migrations.

## 6. Plan

The model covers what the code has of interleavings, and the safety properties of all but
`Threads` are proved. What is left is out of the provers' reach (§4).
