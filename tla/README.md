# apicrud: specifications and proofs

TLA+ models of the parts of apicrud where several processes work on shared
state, checked with TLC and, for the central safety properties, proved with
TLAPS.  Paths below are relative to `src/apicrud/` unless they start with `src/`.

## The system

apicrud is a library for REST services.  A deployed service is a set of uwsgi
worker *processes* with one thread each (`src/example/uwsgi.ini`), celery
workers and any number of replicas.  A process handles one request at a time, so
nothing interleaves inside a process; everything interleaves between processes,
at each command sent to the two stores they share:

* **redis** holds sessions, the mutex, rate-limit counters, quotas, replay
  guards, upload state and the service registry.  A command is atomic, two
  commands are not.  Keys expire by themselves.
* **MariaDB/SQLite** holds the records; a handler may commit several times.

Each process also keeps caches of its own (grants, settings, API keys) that no
other process can invalidate.

| component | state it keeps | operations | hard behaviour | what makes it correct |
|---|---|---|---|---|
| redis mutex (`session_manager.py` 151-201) | one key with owner and expiration | acquire, release | expiry under the holder, lost replies, crashes, GET/DELETE in release | one holder at a time, until a hold outlasts the key; never stuck |
| schema update (`database.py` 71-253) | revision of each schema, seed records | initialize_db, schema_update, alembic_migrate, seed_new_db | several processes start at once, one crashes half-way, database not up yet | a process that comes up finds the schemas current; the seed goes in once and after the tables |
| session store (`session_manager.py` 19-148) and logins (`session_auth.py`, `auth/local_user.py`) | a redis key per session: token, roles, expiry | create, get, update, delete; login, basic(), update_auth, logout | read-modify-write between processes, keys shared by tokens with the same suffix, a second life at each update | expiry is final, and so is a logout that redis executed; a session only ever carries its own login |
| rate limit and lockout (`ratelimit.py`) | two expiring counters per user and service | call, reset | GET then INCR, interval boundaries, redis failure | bounded excess; refusal only for cause |
| usage quotas (`metrics.py`) | an expiring credit per user and metric | store, check | GET then SET/DECR, the notice before DECR, expiry in between, changed grants | the overdraft of a period is bounded; the notice comes once; access returns with the period |
| grants cache (`grants.py`, `controllers/grant.py`) | per-process TTL cache | get, uncache | uncached before the update, other processes | a changed grant takes effect, in bounded time |
| settings cache (`account_settings.py`) | per-process TTL cache | load, uncache | as above | as above |
| access control (`access.py`) | none (pure) | rbac_permissions, with_permission, with_filter | precedence of roles and ownership | find and get agree |
| generic CRUD (`basic_crud.py`), trashcan (`trashcan.py`) | database rows | create, get, update, delete, find; restore, purge | count check before insert, several commits, related lists written from two sides, partial failure, paging over several tables, some without an order | grant limits; deletions whole or not at all; pages list every record once that the query gives a place |
| confirmation (`messaging/confirmation.py`, `controllers/contact.py`) | contact status, tokens in the session store | request, confirm, contact create/update | old tokens, changed addresses, repeated requests, a delete that is swallowed | a contact its owner has not set active was confirmed, at its address or shortly after a change of it |
| login (`session_auth.py`, `auth/`) | roles of a session, TOTP secrets, backup codes | account_login, login_accepted, TOTP, password change | replay, lost updates, the chain of partial sessions | a full session rests on the password and on a code given in time, or on the id of another live session |
| API keys (`auth/apikey.py`) | in-memory key table, sessions | access | concurrent first use, stale table | a valid key works, a disabled one stops in bounded time |
| registration (`session_auth.py`, controllers) | account, person, contact rows | register, confirm, set password | three commits, retries | a retry completes what failed |
| media upload (`media/`) | upload state in redis, pictures, quota | get_upload_url, upload_complete, worker | check at one end, charge at the other; duplicates | each upload stored once; an album outgrows its size only by the uploads under way when a request last found room |
| sending (`messaging/send.py`) | two quotas | contact | one consumed, the other refuses; overlapping reads of a quota; the contact changes meanwhile | what passes a limit is bounded by the workers that overlap, as is what a disabled contact still gets |
| service registry (`service_registry.py`) | expiring entries | register, update, find | timer against expiration | a live service stays listed |

What is left out, and why, is under "Not modelled".

## Modules

**Lock** is what "with Mutex(...)" promises: at most one process inside.

**Mutex** is the redis mutex.  `key` is the redis key with its owner and
remaining life, `pc` where each process is, `tries` and `held` the retry count
and the length of the hold.  `Start`, `Acquire`, `Refused` and
`ConnectionError` are the turns of acquire's loop (a ConnectionError before or
after redis executed the SET), `Finish`, `ReleaseGet`, `ReleaseDelete` and
`ReleaseError` are `__exit__` and release.  `Tick` is a second: sleepers wake
and the key ages.  Nothing renews the key, and a hold may last longer than it;
`overrun` is history: it says that one has.  From then on the key may expire under
its holder, the DELETE of release may hit the next owner's key, and
`MutualExclusion` promises nothing.  `Implements` is refinement of Lock, in which the
first such hold counts as the end of the lock (`inside`).

**SchemaUpdate** EXTENDS Mutex with the body of the with statement: for each
schema, read the version, connect with retries, run alembic's transaction, seed
after the last.  Processes in `Waiter` run the same steps without the mutex, as
with `db_migrate_enable` off.  `Restart` is a crash at any step; an open
transaction is rolled back.  alembic is external: its transaction reads the
revision again and either finds nothing to do, commits, or fails because the
tables exist.

**SessionManager** has one operator per redis command of the session store; a
key is the pair of an id and a token's last three characters.  **Session**
composes it with the code that uses it: `LogIn` (login_accepted), `Admit` and
`DropExpired` (basic()), `ReadAuth`, `ReadSession`, `WriteSession` (update_auth
and the two commands of update), `LogOut`.  A delete is executed (`Deleted`) or swallows
a ConnectionError and leaves the session (`Unreached`); the request is answered in
either case.  The variables `issued`, `out`, `raced`, `lost` and `granted` only record
what happened, for the properties.
update_auth is part of the library's interface: services that define
memberships call it after a membership is created.

**RateLimit** is call and reset for one user and one service: `Call` picks the
counter, `Get` reads it, `Exec` is the transaction.  `clock` runs through two
intervals.  `late` records that a request or reset crossed a boundary and can
still have an effect.

**Quota** is Metrics.store for a metric of style grant: `Get`, then `Refill`
(SET), `Refuse`, or `Notice` (the notification, when the threshold is crossed)
and `Use` (DECR).  A command may be executed and its reply lost (`answered`), or
anything may raise before it (`Fail`), after the notice too.  `SetLimit` is an
administrator's change of the grant.  History: `quota` is the grant when the key
was created and `uses` what was allowed from then until it expires, however often
it was set again; `steady` and `alone` say that the grant did not change and no
stores overlapped meanwhile; `told` counts notices, `dropped` those whose DECR was not
executed; `clean` and `crossed` are the conditions of the notice and of access.

**Grants** is the limit on a user's records of one kind.  `row` and `live` are the row
in the grants table and whether it is active and not expired, `cache` is each
process's copy with its remaining life, `records` what the limit is for. `Get` is
Grants.get, `LookUp` any use of it; `Check` and `InsertRecord` are BasicCRUD.create of
a record, apart because other processes commit in between.  `Post` and `Put` (by
hybrid id) are create requests for the grant itself up to the commit, `CommitGrant`
and `Duplicate` its two ends; `Update`, `Delete` (with the trashcan's restore) and
`Lapse` change an existing row.  `Evict` is an eviction, `Restart` a new process with
an empty cache.  The reads of one request are one step: they are of one snapshot, and
the process serves nothing else meanwhile.  `peak`, `since` and `edit` are history.

**Rbac** is `access.py` without state: `Policies` is the example's rbac.yaml,
`Permissions` what rbac_permissions gives for one record (`Readable` as
BasicCRUD.get calls it), `Filtered` the condition with_filter adds to a query and
`MayFind` the check find makes before it.

**Crud** EXTENDS Rbac with the requests that write records.  `rows` is what is
committed; `req` is each request with the statements it has pending.  `Create` commits
the record, `ReadRelated` and `Link` are _update_related in create and update,
`Permit` the permission and the rest of update (whatever status the body has),
`DeleteOne` and `DeleteCommit` the loop of delete and its end (also for the trashcan's
purge), `Restore` the trashcan's update, `Fails` an exception in between.  An id is
drawn at random when its record is made, so that no request names it before (`Send`).
The members of a list are written from the other side too: `JoinLists` and `Join` are
the update of a person with its lists, which has no limit, `PurgeRelated` its removal,
which takes its memberships along; `people` are the related records there are and
`joins` what such a request is about to write.  A `LimitRelated` of 0 refuses every
list in create and none in update.  `asked`, `raced` and `joined` are history.

**Records** is what those requests promise to whoever reads the database: `Add`,
`Mark` (a status), `Relate` and, from the other side, `Join` and `Leave` (the related
lists) and, of a deletion, `Ask` and then `Carry` (everything it
names goes) or `Drop` (nothing does), each in one step and by someone who may; only
the related lists name nobody, because update writes them before it asks for the
permission.  `RecordsAsPromised` is refinement of Records by Crud: `deletion` maps a
request in its loop to the deletion it was sent for, whatever it has pending.

**Listing** EXTENDS Crud with a client that reads page by page: `FindPage` is
BasicCRUD.find, `TrashPage` the loop of Trashcan.find over the resources (`TrashOf` is
one turn of it), each starting at the cursor of the page before. ORDER BY and OFFSET
are ranks: `Slice` are the rows with so many before them in an order (`Orders`) that
is chosen anew for each page: the query fixes it as far as `SortKey` goes, which is
the name, the id in a find of a model without one, and nothing in its trash (Contact,
Message and Profile); the database settles the rest.  The cursor of the trash names a
resource, and the next page takes the resources whose names are not smaller; the
controllers register in the order of their names, so these are the ones from
`Position` on.  `OtherRequest` is any step of Crud.

**Confirmation** has the contacts and tokens of one user or more.  `Register`,
`AddContact`, `EditContact` and `AskAgain` are the requests that end in
Confirmation.request (`Issue`); `AddAccount` is the rest of a registration.
`Present` is the comparison of the token, `Confirm` the commit, `Clear` (which may not
reach redis, and the request goes on) and `SetPassword` the rest of change_password,
for the user the request names.  `SetStatus` is the trashcan's update, which writes any
status.  `mailed` is every token sent: it may be used at any time.  `edited`,
`confirmed`, `declared` (who set the contact active by hand) and `resets` are history.

**Login** is one account and its browsers.  `RolesFor` is the chain of
conditions in login_accepted; `LogInWith` a login with a password, `PresentOtp` and
`PresentCode` the two ways into totp_func.login, then `Snip` (the commit of the
backup codes), `Replay` (SET NX) and `Accept`.  `Generate`, `RegisterTotp` and
`Registered` are AuthTOTP, `Revoke` the end of TOTP.  Time goes in steps of 30
seconds.  `KeyUsers` send an API key with the one-time password instead of a
pending session.  `Bypass` is totp_bypass: with the bypass cookie a login may send what
accept has set or the id of any session of the user (`Sent`).  The `password`, `otp`,
`mfa` and `lent` of a session and `used` are history.

**ApiKey** is one key: `Verify` and `FromTable` are the two ways through the
in-memory table, `Proceed` the MFA conditions, `GetSession` and `CreateSession` the
session.  `last` and `refused` are history.

**Upload** goes from the request for a URL (`AskUrl`, which looks at the album, and
`RefuseUrl` or `GiveUrl`) over the report of completion (`Complete`) to the worker
(`Take` to `Drop`).  A completion may be reported more than once, a task may fail
anywhere and run in two workers at a time for one file.  `others`, history, is how many
uploads were open when the album last had room.

**Sending** is a celery task for each message: `Begin` reads the contact, then come
the two stores, each `Read` and `SetReserve`, `Spent` or `TakeUnit`; `SendMail` and
`Commit` are the rest.  `stuck` are the reserves that a DECR after their expiration has
left without one; `delivered` and `late` are history.

**Registry** has the entry of each host and the timer of each of its processes.
`Announce` is register, before the database is initialized (`Opened`), `Renew` the
timer's function; `OneSecond` lets time pass but no timer be later than `Late`.

**MCServices** runs these last six and Grants.  They share no state, so one of them is
chosen in the initial state and the others stand still: the state spaces add up.
Every line of their actions is reached.  Their variables and operators have
names of their own for that reason.

**MCListing** gives the records, sessions and initial tables for Listing; two users
and an administrator send requests.

**MCSession** gives Session its constants and symmetry.  The other
configurations run their module directly.  Definitions marked `mutant` are
variants of the definition after them, as a plausible bug would have it; each
property is checked to fail with one of them.

## Runs

| run | shows | bounds |
|---|---|---|
| schema_update | a migrator comes up on current schemas only and seeds them only then, even when its mutex expired under it; who waits comes up | two migrators and a waiter, two schemas, life of the mutex 2 s, holds of up to 2 s, one crash or redis error, one database error |
| mutex | mutual exclusion and refinement of Lock until a hold outlasts the key; acquire ends; the lock recovers | three processes, life of the mutex 2 s, holds of up to 3 s, two crashes or redis errors |
| session | a logout that redis executed is final unless an update of the same session was between its get and its set; admitted requests belong to a login that has not ended; write-backs stay within the login; a login evicts nobody | two users, two tokens that share a key, two requests, sessions of 1 and 3 s, REDIS_TTL 2 s, 4 s in all |
| rate_limit | bound on the counters, on the calls per interval, cause of every refusal, counters vanish | three requests, intervals of 3 s, limit 2 |
| quota | bound on what a period allows in all, one notification before the credit is used up and one more for each that no DECR followed, access returns | three processes, grants 0 and 3, period 2, one DECR that fails after its notice in the life of a key |
| listing | find shows nothing that get refuses; pages show every record to which the query gives a place, while nothing leaves the list; a related list is the one that was asked for, from either side, also after failures; a delete of several ids takes effect on all or none; refinement of Records: the rows move by atomic steps, permitted but for related lists, and no id is used again | two requests besides the client's, six records of three resources (one with names), two ways to settle an open order, pages of one, one of three related records |
| services | a contact that is active was confirmed in time or set so by its owner; the requests that delete a token set at most one password for each request at a time; a full session has both factors or a lent id; a one-time password is not replayed; old rights of an API key end in time, and a good key is refused at most once per process and session; an album and a contact's messages stay near their limits; a host is listed while it runs; an old limit is served for at most REDIS_TTL, records exceed the largest limit so far by less than the number of processes, and a create or update of a grant by id takes effect in its own process | two processes each; two contacts and one edit of 2 messages; three steps of 30 s, two backup codes; three hours; three files in an album of one; three new tasks, or seven that wait for one contact; three processes on two hosts; limits 0, 1 (default) and 2, cached for 2 |
| seed_twice (violation) | a waiting process seeds a database that has been seeded | one migrator, one waiter, no faults |
| lockout (violation) | the lockout ends with the interval | one client, intervals of 4 s, limit 2 |
| quota_forever (violation) | a quota whose key expires under a store is refused for good | one process, grant 3, period 2 |
| stale_edit (violation) | a grant set by its hybrid id is not served by the process that set it | one process, one edit |
| backup_codes (violation) | one backup code that is used makes the others unusable | as services, login alone |

The bounds are the smallest in which the interesting cases occur: three processes so
that two can be overtaken by a third; a session shorter and one longer than REDIS_TTL;
an interval with a first, a middle and a last second; a crash and a database error in
one start.  MaxTime ends the session run: later seconds repeat earlier ones.  In
services a token lives one day of two, a one-time password is valid for three steps
and its replay key for two, an API key's session outlives an entry of the table, a
registry entry lives two intervals.  Holds of the mutex reach past its life, so that
all that follows from that occurs.  Seven messages wait (`Backlog`) because so many
can be delivered in one period to a limit of one a day.  Symmetry is only among the
two processes `p1` and `p2` (and the related records in listing), which nothing tells
apart.  LOGIN_MFA_REQUIRED is off in services; on, it only adds the role that may do
nothing but register.  `MaxHold`, `MaxFaults`, `MaxDbFaults`, `Overshoot`, `MaxTime`,
`MaxDrops`, `MaxRequests`, `MaxDuring`, `Ties`, `Backlog` and the `Max...` of the
services are bounds of the model; Ttl, MaxWait, Interval, Limit, Period are settings
of the program.

Fairness.  `Tick` is fair: time passes and redis expires keys.  In Mutex and
SchemaUpdate a process inside acquire, schema_update or release is fair: time.sleep
returns and redis and the database answer.  Nobody is assumed to start, to call
or to log in.  That holds of Mutex are finite is a condition on the environment:
`Tick` waits for a holder at `MaxHold`, which may lie beyond the life of the key.

### What the runs say about the code

* The mutex excludes only until a hold lasts as long as the key lives.  In
  `initialize_db` that life is DB_SCHEMA_MAXTIME, and connecting alone may take so
  long, for each schema anew.  Then another process enters, and the DELETE of the first
  one takes away the lock of the second.  Even then a migrator comes up on current
  schemas only (proved), because alembic's own transaction fails for the second one.
* A waiting process evaluates `version is None` with the version read at its
  start (`database.py` 173), so it seeds a database already seeded, which ends
  in duplicate keys at startup (seed_twice).
* The waiting loop ends only when WaitStep (5 s) divides DB_SCHEMA_MAXTIME.
* A logout in the middle of an update of the same session does not hold.  Nor does
  one whose delete does not reach redis: `SessionManager.delete` logs the
  ConnectionError (145-148), and the logout is answered with OK.
* change_password goes on after such a delete too: it sets the password, and the token
  stays good until its end.  The password set is that of the user the request names,
  which nothing compares with the owner of the token's contact.
* A quota allows at most one use above its value while stores do not overlap.
  Overlapping stores each SET it anew, so that one period may allow the grant again for
  each process, and the sending of messages likewise; OverdrawBounded and
  SendingBounded say how much.  The notice goes out before the DECR: when that
  fails, the next use sends it again.
* totp_bypass (`session_auth.py` 205-209) looks the cookie up among all sessions of the
  user, not only those made for it; TwoFactors exempts the sessions granted that way.
* A contact is active without a confirmation when its owner creates it so or gives
  it that status in the trashcan (`trashcan.py` 94-100); ConfirmedTimely is about the
  others.
* The members of a list are written from both sides: PUT of a person with its lists
  knows no limit of the list, and a purge takes memberships along.  A limit of 0 or
  none is no limit in update (`basic_crud.py` 563).
* The trash of a model without a name is read page by page without any order, and
  records of one name come in any order: a page may repeat what another has shown, and
  miss a record although nothing has changed.  PagesComplete is about the records that
  the query gives a place.
* Rate limit: the DELETE of the other counter is never needed, since that counter
  has expired by the time its slot comes up again; it only does harm when a
  request crosses a boundary.  A burst in the first second of an interval is
  forgotten in the last.
* Lockout is until the end of the interval, not for an interval (lockout).
* PUT of a grant by hybrid id uncaches first and caches the old grants again
  inside create, so the edit takes REDIS_TTL to be seen even by its own process
  (stale_edit).  Deleting a grant and restoring it from the trashcan do not uncache.
  A disabled or expired row still blocks a new one for the same grant.
* A quota key that expires between GET and DECR denies the user for good
  (quota_forever).
* Using one backup code destroys the others (backup_codes): they are written back
  decrypted (`auth/totp_func.py` 60).
* confirm compares the token with the stored one and not with the contact, so a
  token of the old address activates the new one (ConfirmedTimely bounds it by the
  life of a token); a single-use token works once for each request that read it
  before the first one deleted it (TokenUsesBounded).
* A second SMS token within the life of the first is sent and never accepted: the
  nonce of text messages is constant, so its key is in use.
* The replay key of a one-time password lives 60 s and its window is 90 s: in the
  last steps of the window it may be used once more (ReplayBlocked allows that).
* A refused update keeps the related list it sent, which is committed first.
* Two updates of one related list at a time are merged and may pass its limit.
* The cursor of the trash counts positions over all resources but is set back only
  when a page has an item (`trashcan.py` 300): when records leave the trash while it is
  paged through, records of other resources may be left out as well.
  PagesComplete says what holds: complete while nothing leaves.
* Messages with to_uid (the notice of a quota) are never sent: `messaging/send.py`
  77 takes the id of the contact, which then has no info.
* account_login with method 'local' goes through the letters of that word
  (`session_auth.py` 93-94) and finds no method; without a method it works, which is
  the login modelled.
* A process whose initialize_db fails goes on renewing its entry in the registry.

## Proofs

Eight modules hold the theorems: `MutexProofs`, `SchemaUpdateProofs`,
`SessionProofs`, `RateLimitProofs`, `QuotaProofs`, `GrantsProofs`, `CrudProofs` (for
Rbac, Crud, Records and Listing) and `ServicesProofs` (for the six modules of MCServices).
They hold for any constants that satisfy the named assumptions: any number of
processes, users, records, any limits and lives.  Every invariant the passing
runs check is a theorem, and so is every action property and the refinements of Lock and
of Records.

Most properties are not inductive.  What is added to each, and why:

* *Mutex.*  That a holder's key is still there depends on time.  The invariant says
  that, until a hold has outlasted its key, for each process inside the key is its own
  and the key's remaining life plus the time held covers Ttl; so the key cannot expire
  under its holder before `overrun` is set by the same tick, and the DELETE in release
  hits its own key.  Refinement of Lock follows: entering requires an absent key, hence
  nobody inside; after the overrun the abstract lock stands still.
* *SchemaUpdate.*  Every step is a step of Mutex or leaves it alone, so
  exclusion and the refinement carry over.  UpMeansCurrent does not depend on the
  mutex: the invariant says that the schemas behind a migrator's position are at
  head, and revisions never go back.  The types need that the waiting time of a
  process is a multiple of the step it is counted down by.
* *Session.*  `StoreInv` says that what the store holds under a login is that login's;
  `RequestInv` the same of what a request holds and will write back, which is where a
  stale copy would come in; `OutInv` that once the delete of a logout was executed no
  request is left that could write it, unless an update was already past its get. Keys
  shared by two tokens matter in each: a login must not land on another's.
* *RateLimit.*  CountersBounded counts the requests that have read a counter as
  if they had incremented it; a request joins them only below the limit, where
  the bound leaves room for every process.  For IntervalBounded and RefusedForCause
  `Timely` relates the life of each counter to the second of the interval: the
  current one cannot expire before the last second, the one before is gone by then.
* *Quota.*  A use is allowed by what its process read earlier.  `Reckoned` counts what
  those that have read can still do: each that found no key sets the grant anew, and
  each that read credit takes a unit of whatever is there by then.  Without overlaps
  `uses` and the key add up to no more than the grant (`AloneInv`).  NoticedOnce needs
  that a store alone reads the key as it is, and that `told` less `dropped` says
  whether the credit has passed the threshold.
* *Grants.*  StaleWithinTtl relates the age of the last change to the remaining life
  of a stale entry, so each tick keeps the sum.  RecordsBounded needs that no cache
  holds a limit that was never in force; then it does not matter how stale the
  caches are.
* *Rbac.*  FindOnlyReadable needs no induction: it holds of every state, for the
  policies of rbac.yaml and any roles.  Each way the filter lets a record through is
  traced to a policy whose role also matches when get asks for that record; for the
  prefix `list-*`, which the filter gives to any session, it takes MayFind as well.
* *Crud.*  `AskedInv`: who writes a related list alone, from either side, has read it as
  it is.  `ShareInv`: each related record that did not come in from its own side
  (`joined`) can be put down to one process, with no more than
  the limit for each, and who is about to write has read its own share, so that it
  replaces them; RelatedBounded then counts shares (an injection into processes and
  places).  `LockInv` and `DeleteInv`: a row that is written stays there until its
  request ends, so what a deletion was permitted to do is still permitted at its
  commit.  DeletesAllOrNothing, which the run checks as part of Records, is proved as
  an action, also for ids that name nothing: only the commit changes
  the database, with every id handled.  This needs that an id cannot be named before
  it is drawn (they are random); otherwise a record made in the middle would escape.
* *Records.*  Each action of Crud is one of Records or a stutter, by a lemma for each.
  Most of it is in the commit of a deletion: what is pending is exactly what is there
  of the list that was asked for.  One half is `DeleteInv` and `LockInv`, the other
  `PendingInv`, that nothing else is pending.  Permission is asked while the statements
  are made; that it still holds at the commit is that records do not change hands and
  locked rows stay.
* *Listing.*  `CursorInv` is about the records before the cursor: all that were in the
  list at first have been shown, and records that join move the others back, never
  across the cursor.  It also says that an offset above 0 is one at which its resource
  has records left; without it the loop of the trash would carry the offset over to
  the next resource, which is what happens when records leave.  One page is proved to
  show just what lies between its cursor and the next (`Shows`), for the trash by
  going through the resources (`Fills`): the count of rows that are read tells whether
  there are more than fit, because ranks leave no gap (`RanksAll`).  The recursion over
  the resources is proved to have a solution (`TrashPageIs`) with the least-number
  principle stated for sets (`AllFrom`), since a set can be instantiated where a
  predicate cannot.
* *Confirmation.*  A contact that is active and not `declared` was confirmed.  A
  token's address was the contact's when it was sent or has been edited since
  (`Known`); with a token that still is in redis no request that deleted it has set a
  password (`UseInv`), and those that have read it are counted.
* *Login.*  The password is behind every session that waits for a code and every
  code in progress (`FactorInv`); a used word is no backup code that still opens,
  and who presents one began before its use (`CodeInv`), which makes the minute of the
  replay key enough.
* *ApiKey.*  An entry says what was so when it was made (`EntryRight`), the session
  what an entry said; the ages add up.  Refusals are counted with those about to
  create a session.
* *Upload.*  Pictures and open uploads together are bounded by the size and the
  uploads that were open, asking or given, when the album last had room; the worker
  that inserts a row adds the file alone; those about to use a rank are counted with
  those that did.
* *Sending.*  The messages a worker may still send are counted as sent
  (`LateInv`), and a unit of a quota is with the reserve, with a worker or delivered
  (`ReserveInv`), where each worker that has found the reserve unset brings another one.
* *Registry.*  After a save that went well the age of the entry and the time to the
  timer add up to at most the interval, and Interval + Late < EntryTtl keeps the entry
  alive until the timer fires; an entry is no younger than the silence of its host.

Each invariant was checked with TLC on the run's constants first.

What the theorems assume of the constants is in the modules' ASSUMEs: processes are
finitely many; the values that stand for "nothing" (`Nothing`, `Never`, `Unset`,
`NoRow`) are no data; no contact is active before it was confirmed (Confirmation); a
replay key lives at least two steps, longer than a request (Login; it is 60 s); the
role of a list's member names the list and the word "public" is not the absence of
one (Rbac, Crud); associations are made by requests only (Crud); each record is of
one resource, and no two have the same id (Listing); Interval + Late < EntryTtl
(Registry).  Of the length of a hold, of grants, of the order of names and of who
writes a related list nothing is assumed.

Only model-checked: everything under fairness (AcquireReturns, LockRecovers,
WaitEnds, CountersVanish, AccessReturns), which the provers do not reach.  The
violated properties of the other runs are refuted by TLC and have no theorem.

## Not modelled

* *Account settings cache* (`account_settings.py`): one more TTL cache like the
  grants', with the uncache after the commit.  uwsgi runs one thread in a process,
  so no two requests share it.  (Settings.update makes AccountSettings without a
  session, which raises after the commit when the entry is not cached.)
* *Configuration*: read once; its values are CONSTANTS.  *Migrations* and table
  declarations are data; constraints that matter are in the modules that meet them.
* *OAuth2 and LDAP*, SMTP, message formatting, image and video processing, vendors'
  storage, geocoding: calls to others or pure functions of their input.
* *Metrics*: counters, gauges and reports; nothing in the program depends on them.
* *Rbac and find*: the filter that is empty because no policy matches, policies for
  roles of list members in a query (they match nobody), filters, orders and columns.
* *Confirmation*: contacts that are removed; persons created by other users; a
  request that takes longer than the life of a token.  *ApiKey*: wrong secrets; the
  creation of a key; a redis error in the get of its session, which ends in a refused
  create.  *Upload*: the store of the daily reserve, which decides nothing after the
  URL is given; the caller of the worker's task is external.  *Mutex*: holds without end.
* *Grants*: the defaults as a key of the same TTL cache.  *RateLimit*: limit 0.

## Plan

1. The grants' defaults as a key of the bounded cache, with the bound on StaleWithinTtl.
2. An abstract specification of the session store (one session per login, gone after
   its logout) that Session implements.
