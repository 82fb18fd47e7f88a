# OPNCMS: specifications, model checks and proofs

OPNCMS is a content management system on CppCMS: a process with several worker
threads that serves pages, keeps accounts and pages as JSON in a storage (SQL,
MongoDB or files), and loads its features as plugins.  This directory holds TLA+
modules of its own logic, the TLC configurations that check them on small
instances, and theorems about them with TLAPS proofs.  `PROJECT.json` maps every
definition to the lines it models and lists runs, mutants, findings, hazards and
theorems.

To repeat a check: `tlc -config AuthOneCall.cfg MCAuthData.tla`; a proof:
`tlapm AuthData_proof.tla`.

## 1. The system

    main.cpp ── loop: cppcms::service, 5 worker threads, run(), sleep, again
      └── apps::site, built by a worker that finds none free (src/src/site.cpp)
            ├── Data  db_ ── driver: DataSql | DataFile | DataMongodb, one cache()
            ├── Auth  ab_ ── AuthData (accounts) over Data; session() of the request
            ├── View  vb_ ── language, menu, pages
            └── Media mb_
          ioc (opncms/ioc.h): one registry per PROCESS; keeps what is registered first
          Plug (plugin.h): plugins of the process, attached by each site as children
    tools (src/src/tools.cpp): JSON paths, files, splitting; send_email over ESMTP

| Component | State | Operations | Correct when |
|---|---|---|---|
| SQL driver, `module/data_sql.cpp` | tables of JSON rows; CppCMS frames `s`, `s_rows`, `s:k`, `s:k.f`; the flag `storage_changed_` | exists, create, get (string and json; of a key, a dotted key, a storage), set (one value, a batch), erase, clear | a cached row is the row; a set stores its value and keeps the rest; no frame outlives its table |
| File driver, `module/data_file.cpp` with `tools::data` | one JSON file per storage and its backup `file~` | the same calls, each a load and a save of the whole file | what was saved survives one crash; a set keeps the other keys |
| MongoDB driver, `module/data_mongodb.cpp` | one document per collection | the same calls, each up to three commands to the server | a storage stays one document; a set with a key takes nothing out of it |
| Accounts, `AuthData` in `module/auth.cpp` | rows of `users` (password, status, attempts) and of `hashes` | create, verify, check, authorize, password (two), reset, block, active, attempts | the lockout bounds the guesses; a block is undone only by the calls meant for it; create makes new accounts only; every hash names an account |
| Sessions, `Auth` | id, type, remind of each session | auth, do_auth, check, deauth | whoever is authenticated proved it, in this session |
| Site, `src/site.cpp` | the registry, the page cache, the plugins it owns | construction, display, destruction | a site that is up finds live modules and has the enabled plugins; a cached page shows the user and language of its key; a request changes its own session |
| Data manager, `module/data.cpp` | the drivers registered, the one chosen | construction, choice of a driver | no request meets a Data without a driver |
| Plugin loader, `opncms/module/plugin.h` | configuration, map of plugins (static) | load, load_plugins, load_lib, add, prepare_pos, attach_plugins | every site has every enabled plugin; no plugin is used after its end |
| Process, `main.cpp` | the signal caught, the pass of the loop | start, stop, next pass, end, `signal_handler` at any moment | a signal that reaches the service ends the process |
| Mail, `src/esmtp.cpp`, `tools::send_email` | session, message, context and credentials, all static | open, send, close | a mail goes out as it was meant, with no credentials of another; nothing is left or used after its end |
| View, RPC | `locale_name_` of each View | init, post, set_locale | |
| Conversions, `src/tools.cpp`, `src/base64.cpp` | none | base64, hexadecimal, split, replace | what was encoded is decoded; the parts of a text are that text |

How they interact.  Calls only, no messages: a page request runs
`site::display` → `View::post` → `Auth::auth` → session, page cache, then
`View::init`; a login runs `Auth::check` → `AuthData::check` → up to seven driver
calls → the session.  What is shared is implicit: each worker builds its own
modules, but `ioc::get<T>()` hands every worker the ones of the first site, so
all threads use one driver object, one `storage_changed_`, one language and (worse)
the session of whatever request the first site is serving.  The map of plugins,
the configuration of the loader and the mail session are static.  No lock exists
in the program.

Behaviours that are hard: two threads inside one account operation, one
constructor, one mail or one save; the flag `storage_changed_`, which is one for
all keys; a driver call that fails and looks like a missing row; a crash between
the rename and the end of a save; an exception that leaves a constructor after it
has registered itself; the second pass of the loop in a process whose static
variables remember the first; a signal that comes while there is no service; cached pages under a key that is put together before
they are rendered.

## 2. Modules

| Module | What it is | Constants worth knowing |
|---|---|---|
| `DataSql` | the SQL driver with its cache, one caller at a time | `MaxBatch`: keys in one batch; `Answers`: whether queries may fail |
| `DataFile` | the file driver, one step per system call, several threads, crash | `Inodes`, `Outcomes`, `CanCrash` |
| `DataMongodb` | the MongoDB driver, one step per command, several clients, failing commands | `MaxMore`: documents behind the first that are counted |
| `AuthData` | the accounts, one step per driver call, several threads, crash | `MAX_LOGIN_ATTEMPTS`, `Answers`, `CanCrash` |
| `Accounts` | the abstract specification of the accounts: atomic changes | `Lagging`: what a check counts may follow older values |
| `AccountsOnSql` | AuthData's calls as calls of DataSql: accounts under a cache | `Threads` (one), `Answers` |
| `Service` | sites, registry, sessions, page cache, several workers | `MaxPages`: bound on the cache |
| `Startup` | construction and end of sites, registry, driver, plugins, main() | `MaxSites`, `Enabled`, `MaxRounds`: passes of the loop |
| `Mail` | sending a mail, one step per call of the mail library, several threads | `Addresses` of sessions and contexts |
| `Conversions` | base64, hexadecimal, splitting, replacing as functions of one text | `Bytes`, `MaxLength` |
| `MC*` | symmetry, a view or a value of a constant for TLC | |
| `*_proof` | theorems and proofs about the module of that name; `Tools_proof` about `Mail` and `Conversions`, both of `src/tools.cpp` | |

`AuthData` instantiates `Accounts` with `Lagging` false, `AccountsOnSql` with
`Lagging` true (`PromiseKept` in both).  `AuthData` sits on a store
with atomic, current driver calls; `DataSql` is the SQL driver alone;
`AccountsOnSql` instantiates both, so that each step of an account call is the
driver call it makes.  `Service` takes the answer of the accounts as a choice and
starts with sites that are up, which is what `Startup` is about.

### DataSql

| Model | Code |
|---|---|
| `created`, `row` | the tables and `data` column of the database |
| `frame[s][k][Root]`, `frame[s][k][f]` | frames `s:k`, `s:k.f` |
| `storageFrame`, `rowsFrame` | frames `s`, `s_rows` |
| `storage_changed_` | the member of that name |
| `batch` | the loop of `set(storage, value)`; one round is one step, as queries may fail, frames expire and the process restart between rounds |
| `ret` | what the last call was asked and returned |

Each call of a thread is one step: the module is about the order of calls, not
about calls that overlap.  `up` is the answer of the database during the call.
Conversions are modelled by what they do: `string_to_json("")` is undefined,
`json_to_string(undefined)` is `""`, `null` is a value that `get` reports as empty.
Rows have one level of scalar fields; keys and fields have different names; callers
never pass an undefined value.  The code is the sqlite3 behaviour: of a text with
two statements only the first is prepared; with MySQL and PostgreSQL cppdb's `row()`
also throws on more than one row.  The expiry of a frame between two fetches inside
one `set` is not modelled.

### DataFile

A name refers to an inode and an open stream to the inode that it opened.  The
steps of a call: open for reading, read (where `file_size` asks for the name
again), decide, rename to `file~`, open for writing (which truncates), write.  A
crash leaves in an inode that is being written any part of the text.  `create()`
opens for writing only and is the one call that sees an open fail (`CreateFails`).
Left out:
dotted keys (the JSON functions are in `DataSql`), absolute paths (for a file that
does not exist `save()` throws there), `exists(storage)`.

### DataMongodb

| Model | Code |
|---|---|
| `coll[s].exists`, `.any`, `.first`, `.more` | the collection, whether it has a document, the first one, and how many there are behind it |
| `call[c]` | a call of client `c`: operation, the command it sends next, what it was asked, what it has read |
| `call[c].doc`, `.same` | the JSON text that findOne was turned into, and whether its `_id` is that of a document still there |
| `Merged`, `Put` | `value::find` and the branches for arrays, objects and longer paths (lines 121-152) |
| `inserted` | history: storages given a whole value, which `set(storage, value)` inserts |

A command of the server is one step, and any of them may throw (`Fail`).  The
driver reads with findOne only, so of the documents behind the first one their
number is all that matters.  `_id` is not a value but a fact about a read document.
That a member of an array or object may be an object itself matters to one call only,
`get(value, storage, key)`, which then sets nothing (`nested`).
Left out: threads that share one connection, which is not made for it.

### AuthData

A call is a record of its local variables and the step that it is at.  One
driver call is one step, so any two calls interleave as the threads allow.
`name(email, password, name)` is a check and a write of a field that is left out;
`token_email` reads `hashes`, so its hashes work as a token; neither adds a step.
A row may lack fields: `active(email, flag)` stores a status without asking whether
there is an account, and `password(email, newpassword)` a password, a status and a
count over whatever is there.  `guesses` is a history variable: the wrong passwords that an active account
answered since its count last restarted.

### AccountsOnSql

A step of `AuthData` that reads is taken with what the driver call returns in the
place of the row (`Seeing`): `get_user` and `authorize` read the row of the account
through its root frame, `active(email)` and `attempts(email)` read the frames
`e.status` and `e.attempts`.  A step that writes calls `DataSql`'s set, of the row
or of one field.  `users` is what the calls meant to store and no driver call reads
it.  Rows of `hashes` stay abstract: what calls on them do to the flag is kept,
because the flag is one for all storages.  Frames expire and the process restarts
between calls.  To `Accounts` an account is the row as the database has it
(`AccountAt`), and the call in progress is AuthData's.

### Service

One step is one method of Auth or View, or one step of `display()`.  `Its` is the
session that the registered Auth sees: the one of the first site's request.
`session()` throws without a request (`Throws`), which only happens with two
workers.  `login` and `logout` stand for what the user plugin calls.

### Startup

| Model | Code |
|---|---|
| `site[s]` | a constructor's place in `site::site`, its place in the list of plugins, the plugins that are children of the site |
| `registry["drivers"]`, `registry["modules"]` | `ioc::iocmap_`, the storage drivers and the modules under it |
| `named`, `opened` | the Data whose `driver_` is set; the drivers that were `init()`ed |
| `plugin[p]` | the static map of plugins: absent, alive, or the address of a deleted one |
| `library[p]` | what the shared object of a plugin turns out to hold |
| `process`, `round` | main(): creating the service, mounting, in run(), destroying it, asleep or at its end, ended; the pass of its loop |
| `caught_signal`, `asked` | the variable of main.cpp; a shutdown has reached the service, so that its run() will return |
| `threw`, `overlapped`, `crashed` | history: how constructors threw (`"attached"`: with plugins attached), whether two were at work at once, what ended the process |

One step is one call in the body of the constructor; constructors of two workers
mix.  `Throw` is an exception of any call that can throw: reading the settings, a
driver, the configuration, the order of the plugins, `attach_params()`, `prepare()`
and `map()` of a plugin.  `~site()` does not run then, so what was registered stays,
but the base is unwound (`Demolish`): its children are deleted, while the map of
plugins keeps their addresses.  The calls that `attach_plugin()` makes inside its own
`try` are logged and end the attachment of that plugin only.  `Crash` is undefined
behaviour that stops the process; where deleted objects are used the model also has
the outcome that nothing happens.

A SIGHUP comes at any moment and runs `signal_handler()` (`Signal`): it sets
`caught_signal`, and calls shutdown() on what `service` points to then (`Service`):
nothing yet, the service, or the one of the pass before, which is gone.  A shutdown
before run() may be lost.  SIGINT and SIGTERM are caught by the service while it runs
(`StopService`), and leave no trace in `caught_signal`; at other times they end the
process as for any program, which is left out.  `Fail` is an exception out of run(),
after which main() destroys the service and returns 1.

### Mail

One step is one call of libESMTP or one assignment to a static variable.  A session
or context is an address that may be used again after its destruction; a message is
known by the caller that added it.  The library is external, and its calls may fail:
no session, no context (NULL), no message (NULL), no recipient, and a conversation
that ends without a delivery (`Talk`).  Calls with NULL in the
place of a message do nothing, except `smtp_message_transfer_status` (`Status`),
whose result is read through.

`Logins` is what `authinteract()` gives the library when it asks for user and
password: nothing without `user_`, otherwise pointers into an array that is gone and
that had the password written over the user, so a delivered mail records the caller's
own credentials or `"undefined"`.  `SetText` copies the text into 512 bytes without a
look at its length: a longer one overwrites what lies behind, which ends the process
or leaves some other text in the mail (`"overwritten"`).

### Conversions

`Base64Encode`, `Base64Decode`, `Str2hex`, `Hex2str`, `Split`, `SplitFirst`,
`SplitSecond`, `SplitLast`, `PathPrev`, `KeyPrev`, `Replace`, `ReplaceAny` are
functions of a sequence of bytes, written over the searches of `std::string`
(`npos` is the position after the last byte).  `Hex2str` refuses an odd length and
stops at a pair that begins with a zero byte, as the code does.  The state is the text, which grows by
a byte per step.

## 3. Runs

| Run | Question | Instance | States |
|---|---|---|---|
| `SqlRows` | Is the cache sound under any sequence of calls? | 1 table, 2 keys, 1 field, 1 value, failing queries, batches of 1 | 181 802 |
| `AuthOneCall` | Do the account calls keep their promises when they do not overlap? | 1 thread, 2 accounts, 2 passwords, 2 attempts | 178 427 |
| `AuthThreads` | What survives overlap, failures and crashes? | 2 threads, 1 account, 2 passwords, 2 attempts | 433 468 |
| `AccountsOnSql` | What remains of it when rows and fields come out of a cache? | 1 thread, 1 account, 2 passwords, 3 attempts, expiry, restart | 103 661 |
| `FileAlone` | Does a save survive a crash, does a set keep the rest? | 1 thread, 2 keys, 2 values, 3 inodes, crashes | 396 022 |
| `FileThreads` | What holds of names and inodes with two threads? | 2 threads, 1 key, 4 inodes, failing opens and writes | 2 116 362 |
| `MongoDocuments` | Does a storage stay one document that only grows by set? | 2 clients, 1 collection, 2 keys, 1 field, 1 scalar, failing commands | 741 165 |
| `ServiceOneWorker` | Are sessions and cached pages right? | 1 worker, 2 sessions (one local), 2 accounts, 2 languages, 2 pages | 239 833 |
| `ServiceSessions` (violation) | Does a request change its own session only? | 2 workers, 2 sessions | |
| `Startup` | What does a site find when it is up, what breaks a start, and does every start and stop end? | 2 sites, 2 plugins of every kind in reverse order, 2 passes of the loop, exceptions and signals | 492 880 |
| `MailThreads` | Does each mail go out as it was meant, and is nothing left? | 2 threads, 2 addresses, every failure of the library | 6 785 891 |
| `Conversions` | Is what was encoded decoded, and are the parts the text? | every text of up to 6 bytes of an alphabet of 6 | 55 987 |

Why the instances are enough to be interesting.
*SQL*: two keys let a read of one lower the flag for the other; a field and a root
key let a write of one make the frame of the other stale; one value suffices since
a row with the field, without it, null and missing already differ (the proofs cover
all sizes).  *Accounts*: two attempts give a first failure that counts and a second
that blocks; two passwords give a right and a wrong one; a second account shows that
calls stay on theirs.  *Accounts on SQL*: three attempts leave a count in the middle
that a stale frame can hide; a second account would add only frames of its own, and
the flag that it shares is moved by the calls on `hashes` as well.  *Files*: a file
and its backup need two inodes and each thread that opens a new file one more, so
`Free` is never empty; two keys show a key kept and a key stored.  *MongoDB*: a second
client overlaps and drops the collection under a call; two keys show what a set keeps;
one scalar suffices for "is there", and the proofs cover all values.  *Service*: a
second session and account give the wrong user to show, a second language the wrong
language, and two pages an eviction.  *Startup*: two sites overlap or follow each
other, two plugins in an order other than the map's make the list end early, and a
second pass meets what the first left.  *Mail*: two callers overlap; two addresses make
the reuse of a destroyed one a choice.  *Conversions*: six bytes are two groups of
base64 with every remainder, and room for delimiters at both ends and in runs; the
alphabet has zero, the delimiter, the byte it is replaced by, a letter, and two bytes
with high bits (on which `char` is negative).
Symmetry is over model values only, and `Startup`, which checks liveness, has none;
`SqlRows` and `AccountsOnSql` use a view that hides `ret`, which no action reads and
their properties mention only primed or not at all.

Deadlock is checked except in three runs, where the system really stops: `Startup`
(main() has returned, or a use of a deleted object has ended the process),
`MailThreads` (the same use) and `Conversions` (the longest text).  No cfg states a
constraint.

### What the properties say

* `RootFrameCoherent`, `SetStoresAndKeeps` (SQL): `set` merges into what it read
  through the cache, so a stale root frame would rewrite fields; it never is stale,
  and a set that returns true stored the value and kept everything else.  Both need
  `MaxBatch = 1`: a batch of two can write a row and fail before the frames follow.
* `StaleFrameStartsHidden`: field frames do go stale, but only in a step that raises
  the flag.  The flag is then lowered for all keys at once, by a read of any of them.
* `FramesImplyTable`: `create()` and `exists()` trust a frame, and none outlives
  `clear()`.
* `GuessesBounded`: at most `MAX_LOGIN_ATTEMPTS` wrong passwords between two restarts
  of the count, however count and block came about.
* `HashesNameAccounts`, `ChangeNeverActivates`: with two threads, failing calls and
  crashes, a hash that was handed out names a row, and a change of a password leaves
  the status as it finds it.
* `PromiseKept`: AuthData implements `Accounts`.  That create() makes no account where
  there is one (of one thread, on a driver that answers) is part of it, and so is the
  row that active(email, flag) makes of an unknown email.  That a blocked account stays blocked
  until someone unblocks it (`BlockedStaysBlocked`) follows from it and is checked where
  a cache could break it, in `AccountsOnSql`.
* `RowsAreAccounts`, `GuessesBounded`, `LoginsAreCurrent`, `BlockedStaysBlocked`
  (`AccountsOnSql`): with the
  cache between, the rows are still what the calls made of them, the lockout still
  holds, and a login is still decided by the row as it is; `BlockedStaysBlocked` says
  of the stored row what it says of the account in `AuthData`.  What does *not* survive is
  the other direction: an old `e.status` keeps an active account out, an old
  `e.attempts` locks it out early (section on findings).
* `PromiseKept` (`AccountsOnSql`): that is all that does not survive.  On the stored
  rows every call is a call of `Accounts` with `Lagging` true: a wrong password may
  count more than one, or block early, and never counts less; nothing else changes.
* `Recoverable`: after one interrupted save the last good contents are in the file
  or in `file~`.  The second save after a crash destroys them; no code reads `file~`.
* `AloneNeverThrows`: only another thread can make load() or save() throw.
* `OneDocument`: as long as calls do not overlap, a collection gets a second document,
  which no read sees, only from `set(storage, value)`.  `SetsOnlyGrow`: set with a key
  takes nothing out: arrays gain members, objects fields, scalars stay (a set of a
  scalar that is there returns true and does not store the new one).
* `PagesFit`, `AuthedWasChecked`: the page cache and the sessions, for one worker.
* `BuiltHasEnabled`: without overlap and exceptions each site has all the enabled
  plugins that load, although the list is left at the first that an earlier site
  loaded.  `FailuresExplained`: the ways in which the process can break, and that there
  are no others: a plugin with remote calls only, a registry that still has a site
  whose constructor threw, plugins deleted with a site (of an earlier pass, of a
  constructor that threw after attaching them, or twice when two sites are
  destroyed), a signal that finds the service gone.  `RegistryLive`: unless a constructor threw, what `ioc::get`
  returns exists.  `ConstructionEnds`, `ShutdownEnds`: section 4.
* `UseExplained`, `DeliversOwn`, `NothingLeft`: mails sent one after the other use
  nothing destroyed except the context of an earlier one, by a call that made none,
  and end the process otherwise only at a text that is too long or at the status of a
  message that was not made; each goes out with its own text (or an overwritten one) to
  its own recipient, with no credentials but its own or those of the dead buffer;
  nothing is left between them.
* `DecodingInverts`, `PartsRejoin` (`Conversions`): what is encoded is decoded again;
  the parts of a text, joined, are the text with each run of delimiters as one, and the
  functions that throw do so on exactly the texts with nothing but delimiters left.

Several of these are stated for calls that do not overlap.  That is a fact about the
code, which has no lock, and not a choice: without the condition TLC finds each of
them violated.

### What the violation shows

`ServiceSessions`: two workers, whose sites are both built, handle a request each;
when the second one authorizes its visitor, `do_auth()` writes the id and the user
type to the session of the first one's request, since every worker's
`ioc::get<Auth>()` is the Auth of the first site.  No login takes part; a login or a
logout would go the same way.

### Findings without a run of their own

`PROJECT.json` quotes the sources.  Storage and accounts:

* A dotted key read after a write of its row may come from its old frame: another
  key's read has lowered the flag meanwhile.
* In a batch the stringstream keeps the previous statement, so the second key is
  stored with `INSERT ... INSERT ...`, and the call fails with the first key stored.
* `get(value, storage)` returns the first row only and caches it under the key of the
  whole storage; `set` of a new dotted field of an existing row chooses INSERT and
  fails on the primary key; a row stored as `null` can be changed again only by a
  batch or `clear()`.
* Two checks that overlap count one attempt, so the lockout is not a bound with two
  threads; `reset()` and `verify()` undo a concurrent block.
* A driver that fails looks like a missing account, and `create()` then puts a new
  password, status 0 and count 0 over the existing one.
* `active(email, flag)` makes a row of an email that has no account, a status without a
  password, and `create()` refuses that account from then on.
* On the SQL driver an old frame `e.status` or `e.attempts` keeps an account out or
  locks it out early.  The key of an account replaces `.` by `#` and keeps `#`: a.b@c
  and a#b@c are one row.
* File driver: `exists(storage, key)` answers true in its error returns (`return "";`
  in a bool function), so `AuthData::create` never creates there; `create(storage)`
  truncates a storage that exists; `save()` returns true when nothing was written.
* MongoDB driver: `create()` of a collection that exists drops it (and
  `AuthData::create` calls it before every new account); the first set of a collection
  stores an empty document and returns true; `exists(storage, key)` is inverted;
  `get(value, storage, key)` of what begins with an object returns true and sets
  nothing; the default database name goes to the wrong variable.

Site, plugins, mail and tools:

* `set_locale` changes the language of all visitors; `do_auth` finds a known id and,
  in spite of its comment, does not authenticate; an authenticated session is never
  compared with its account again.
* Plugins are deleted with the site that owns them while the map keeps their
  addresses: with the sites of a pass, and with a constructor that throws after it
  attached some (an exception of `attach_params()`, `prepare()` or `map()` of another
  plugin); a plugin with remote calls only is a NULL pointer that is followed; a
  file name `plugins.conf` works only because it is ignored.
* After a SIGTERM the service starts again, after a SIGHUP the process ends, contrary
  to the comment.  A SIGHUP before `service` is set or before run() does not end
  it; one during sleep(1), or while the next service is constructed, calls a service
  that is gone.
* The condition of the To: header is inverted; `authctx_` is not reset, so that a mail
  without a user sends with a destroyed context; `authinteract` returns pointers into a
  local array in which the password was written over the user; the text is copied
  into 512 bytes whatever its length; the status of a message that was not made is
  read through NULL.
* `split_second()` and `replace_any()` throw on texts of delimiters; `replace()` of an
  empty text never ends.

## 4. Fairness and liveness

`Startup` states fairness; the other modules state none and claim no liveness,
because nothing in them waits for another party: there are no locks, queues, retries
or timeouts of the program's own, every call is a bounded sequence of steps, and a
request that stops is ended by CppCMS.  That each call ends would hold there by the
shape of the model.

In `Startup` a constructor walks a list and a map that other constructors change, and
the loop of main() hangs on a variable that a signal handler sets, so there is
something to say.  `FairSpec` assumes weak fairness of three things and no more:

* `Construct(s)`, the next step of a constructor in its own worker thread: the
  operating system runs the thread, and a step waits for nothing (no lock, no
  condition) once it is enabled;
* `Destroy(s)`: after `run()` has returned, the threads have ended and ~service
  destroys each site in turn, in the one thread of main();
* `Main`: main() goes on by itself, and run() returns once a shutdown has reached the
  service.

Neither `Begin` (a request must come) nor `Signal` or `StopService` (a signal must
come) nor an exception is fair.  Then `ConstructionEnds` (every construction ends in a
site, an exception or the end of the process) and `ShutdownEnds` (a SIGHUP whose
shutdown reached the service ends the process) hold.  A SIGHUP that came too early
makes no such promise: its shutdown is lost, and the service runs until something else
stops it.  `SignalsAreRemembered` (section 5) says what is left of it: the pass that it
met is the last one.

## 5. Proofs

All for every value of the constants that satisfies the named assumptions.

| Module | Theorem | Says | For |
|---|---|---|---|
| `DataSql_proof` | `TypeCorrect`, `FramesImplyTables`, `StaleFramesStartHidden` | `TypeOK`, `FramesImplyTable`, `StaleFrameStartsHidden` | any sets, failures, batches, restarts |
| | `RootFramesCoherent`, `SetsStoreAndKeep` | `RootFrameCoherent`, `SetStoresAndKeeps` | the same, `MaxBatch <= 1` |
| `DataFile_proof` | `FilesTypeCorrect` | `TypeOK`: no two names share an inode | any threads, failures, crashes |
| | `FilesRecoverable`, `FileSetsStoreAndKeep`, `LoneCallsNeverThrow` | `Recoverable`, `SetStoresAndKeeps`, `AloneNeverThrows` | one thread, opens and writes that succeed, crashes |
| `DataMongodb_proof` | `MongoTypeCorrect` | `TypeOK` | any clients, overlap, failures |
| | `MongoOneDocument`, `MongoSetsOnlyGrow` | `OneDocument`, `SetsOnlyGrow` (which speak of calls that do not overlap) | any clients, keys, values, failures |
| `AuthData_proof` | `AuthTypeCorrect`, `HashesAreOfAccounts`, `ChangesNeverActivate` | `TypeOK`, `HashesNameAccounts`, `ChangeNeverActivates` | any number of threads, failures, crashes |
| | `LockoutHolds`, `BlockedAccountsStay` | `GuessesBounded`, `BlockedStaysBlocked` (of its own, apart from the runs) | one thread, no failures or crashes |
| | `PromiseHolds` | `PromiseKept`: AuthData implements Accounts | the same |
| `AccountsOnSql_proof` | `InvHolds` | `Inv`: rows, frames and calls in progress fit each other | any threads, accounts, failures, expiry, restarts |
| | `RowsStayAccounts`, `LoginsStayCurrent` | `RowsAreAccounts`, `LoginsAreCurrent` | the same |
| | `GuessesStayBounded`, `BlockedRowsStay` | `GuessesBounded`, `BlockedStaysBlocked` | one thread on a driver that answers; expiry, restarts |
| | `PromiseHolds` | `PromiseKept`: AccountsOnSql implements Accounts, with `Lagging` | the same |
| `Service_proof` | `ServiceTypeCorrect` | `TypeOK` | any workers and sessions |
| | `OneWorkerAuthedWasChecked`, `OneWorkerPagesFit` | `AuthedWasChecked`, `PagesFit` | one worker, any sessions and pages |
| `Startup_proof` | `StartupTypeCorrect`, `SitesHaveEnabled`, `StartFailuresExplained`, `RegistryIsLive` | `TypeOK`, `BuiltHasEnabled`, `FailuresExplained`, `RegistryLive` | any sites, threads, plugins, lists, passes |
| | `SignalsAreRemembered` | after a SIGHUP in a pass that has begun (before its end) no other pass follows | the same |
| `Tools_proof` | `MailTypeCorrect`, `UsesExplained`, `MailsDeliverOwn`, `MailsLeaveNothing` | `TypeOK`, `UseExplained`, `DeliversOwn`, `NothingLeft` | any callers and addresses |
| | `TextsAreReadBack`, `PartsAreRejoined` | `DecodingInverts`, `PartsRejoin` | any text of bytes, of any length |

Assumptions are those the modules name (distinct sentinels, a positive number of
attempts, outcomes that are booleans, a list of plugins without repetition) and, where
the table says so, hypotheses of the theorem.  What is excluded by a hypothesis is
false without it.

The arguments.

* **DataSql.**  `TypeOK` and `FramesImplyTable` are inductive together (`Inv`): a
  frame is written only by a call that has just found the row, and `clear` drops all.
  Coherence (`CoInv`) adds what a batch in progress has read; one step changes the
  root frames of at most one key, and it does so to what it wrote (`CoherentWritten`)
  or selected (`CoherentRead`).  `SetStoresAndKeeps` follows from coherence: what the
  set merged into was the row.  Field frames (`QuietFrames`): a step that does not
  raise the flag changes no row and caches only what the row says, so no frame
  becomes stale in it.
* **DataFile.**  `IInv` is `DiskOK` (names, backups), `CallsOK` (each call is at a
  step that its local variables fit) and `HistoryOK`; a new file gets an inode that
  nobody refers to, and a rename moves an inode that had a name.  For one thread
  `Phase` adds what each step has found (the name is free before an open, the new
  inode is empty before a write) and `Kept` where the last complete contents are: in
  the file until the rename, in `file~` from there to the write, and in one of both
  after a crash.  `Recoverable` alone is not inductive, because it does not tell which.
  What calls return needs two facts more: a call in progress has not answered
  (`Waiting`), and the value that a set carries is the last complete contents with its
  key stored (`Merging`), which begins with `Kept` at the load and ends at the write.
* **DataMongodb.**  `Typed` is that collections are of their type and one without a
  document has the empty one as its first (`CollOK`), that each call has the variables
  of its step (`CallOK`), and that a document which a call has read is still there
  (`Linked`).  For calls one after the other, `Alone` says that at most one call
  is at work and that what it is about to save is ready: it is the document that it
  read, still the first of its collection, or the first of all, and it contains all
  that the stored one has.  The last is what `SetsOnlyGrow` needs at the save, long
  after the merge; `MergedGrows` proves it of each branch.
* **AuthData.**  `IInv` is `TypeOK`, `HashesNameAccounts` and, for every thread, which
  calls can be at which step (`Fits`) and what they know for good (`Knows`: the account
  exists, the row to be written back is a row).  `Knows` is stable under the steps of
  the others because rows are never removed; so the invariant needs no
  non-interference beyond that.  A row may lack a password, or both password and
  count (active(email, flag) made it), and what a call hands to set_user() may lack
  more (`PartialType`); the merge of both is a row again (`MergeGivesAccount`), because no call
  stores a password without a count.
* **One thread.**  `AloneInv` adds what a lone call may rely on and overlapping calls
  break: what it read is still so (`Current`), and the room left in the count
  (`Room`): at an active account the guesses are at most the count, plus the one that
  is being counted; at a row without a password there are none.  That the last guess is not counted but blocks
  (`count >= MAX_LOGIN_ATTEMPTS`) is why `Room` bounds an active account by
  `< MAX_LOGIN_ATTEMPTS` and a blocked one by `<=`.  Refinement uses `Current` alone:
  a step that stores a row is the change that Accounts allows the call, every other
  one begins or ends a call or is a stutter.
* **AccountsOnSql.**  `Inv` has a part for each of the composed modules and one between
  them.  Of the frames it says less than coherence: a root frame is the row, a field
  frame is *some* value of that field and only of a row that exists (`FrameFits`).
  That is stable under every driver call that reads (`Quiet`, `FramesFresh`: such a
  call only fills or drops frames), so all the reading steps of the calls are one
  lemma each about the call (`Advance`), and the storing ones go through `WriteDoes`:
  `set_user` stores the merge of its fields into the row or leaves the row alone.  With
  `RowsAreAccounts` in the invariant, the merge that `AuthData` makes of its account is
  the one the driver makes of its row.  A login needs no more, since `authorize()`
  reads the root frame.
* **AccountsOnSql, one thread.**  `Room` and `Current` are as in AuthData but of the
  stored row, and two facts about old frames join them.  `FrameAbove`: a frame of the
  count is never below the row's count, because a count that restarts is written
  either with its field or in a row whose old frame is larger; so reading an old frame
  blocks early but never late.  `StatusFits`: while a check is under way, the frame of
  the status does not deny that an active account is active, so a wrong password is
  always counted.  An account that is not active or has no password counts nothing
  (`Uncounted`).  Without the second the guess would be lost, and the bound with it.
  `BlockedRowsStay` goes by the steps that store: each stores the row's own status, or
  one that its operation is meant to.
* **AccountsOnSql, the promise.**  A step that stores is one change that Accounts
  allows the call; a restart, an expiry and all that only reads begin or end a call or
  are a stutter.  The change needs to know what the call has learnt of its
  account (`Knows`: who counts has found it active, so it is not new; who clears the
  count has read the row itself, so it is active), and that a frame of the status may
  say active of a blocked account but never of a new one (`NewUnseen`).  Without the
  second an account that nobody verified could be blocked by wrong passwords.  That
  the count only grows is `FrameAbove` once more.
* **Service.**  `IInv` says which local variables a request has at each step and that
  the registry holds a built site.  With one worker that site is its own, so `Its` is
  the session being served; `Proved` ties an authenticated session and a check under
  way to `checked`, and `Knows` ties the page being rendered to its key.
* **Startup.**  The invariant is a conjunction of facts by topic.  `Alone`: constructors
  are at work only in run(), and before it no site exists.  `Registered`: unless
  a constructor threw, the registry holds live sites and holds both entries once a site
  is past its registration.  `Named` and `Opened`: a site past its naming has
  chosen its driver and, without overlap, the registered driver is open when a site
  comes to read the settings.  `Deleted`: a deleted plugin means a second pass, a
  constructor that threw with plugins attached, or sites being destroyed of which there
  were two (`Few` counts them by worker threads); each of the three lets a later use be
  named (`PluginGone`).  `Loading` is the heart of `BuiltHasEnabled`: without overlap
  and exceptions the map has all the plugins that can be loaded, or none, or exactly
  those before the place in the list where the one constructor is; so a list that is
  left at a loaded plugin was loaded to its end before.  `SignalsAreRemembered` needs an
  invariant of its own (`LastPass`): nothing resets `caught_signal`, and run() that
  returns with it set leaves the loop.
* **Mail.**  `Phase(c)` tells for each step of the one call at work which session and
  context exist, that the static variables point to them, and which message the session
  carries (`Carries`: the caller's own, with the text and the recipients of that step,
  or none where the library made none); `OneByOne` that nobody else is at work.
  `user_` is the caller's or nobody's, so whatever `authinteract()` hands out is the
  caller's or undefined (`OwnMail`).  What makes the old context the one exception is a
  call that creates none (`bare`).

* **Conversions.**  The state is any sequence of bytes, so the invariant is its type
  and `DecodingInverts` is about the operators.  None of base64 and hexadecimal is
  recursive, which makes arithmetic of it: byte `r` of group `k` comes back from
  characters `r` and `r + 1` of that group (`FirstByte`, `SecondByte`, `ThirdByte`),
  which `GroupOf` shows to lie before the padding; so whatever index stands for the
  padding is never looked at.  `IndexInverts` says that the alphabet has each
  character once and no `=`.  The first zero of a text exists by the least-element
  principle (`HasLeast`).
* **Splitting and replacing** are loops over the text, and so recursive functions from
  a position to a later one (`Chain`: the value at a position is what is found there,
  followed by the value at the next).  The library's induction cannot be used, since its theorems take
  an operator.  In its place stand two facts proved once: there is such a function
  (`ChainIs`: it is put together from those that are right from some position on, and
  a greatest position without one leads to a contradiction) and only one (`ChainIsOne`,
  by a greatest position at which two differ).  A recursive definition is a CHOOSE of
  such a function, so a function given in closed form that takes the same steps is the
  one defined: `replace()` is the text with each delimiter exchanged (`ReplaceIs`),
  `split()` and `replace_any()` are matched piece by piece with the reference
  `Collapsed`, which is a function of the same kind (`SplitJoins`, `ReplaceAnyIs`).

Only model-checked: the liveness of `Startup`, as liveness and ENABLED are out of the
prover's reach, and of course the violation.

## 6. Hazards

`PROJECT.json` lists them with their lines and the properties that watch them.  Those
without a property are of two kinds.

What nothing in the code prevents, so that a property would be false: overlapping loads
and saves of a file (between the rename and the end of the write another thread finds
an empty storage, changes it and saves it), checks, blocks and resets of one account by
two threads, two creations of it, two clients of one collection, two mails at once, a
second save after a crash, a write that fails.  The runs have those steps where the
properties are conditioned (`overlapped`, `begun`), so that the condition is seen to be
needed; for the accounts, a second thread or a failing driver breaks `GuessesBounded`
and `PromiseKept`, which is why `AuthOneCall` has neither and `AuthThreads` checks what
is left.

What the code does by design and a property would only repeat: a session whose id
is known keeps the type UNAUTHED, a batch stops in its middle, a SIGHUP before run()
ends nothing.

## 7. Plan

Done: sections 2 to 5.  What a continuation would take up, in this order.

1. `DataSql` with calls that overlap at the flag and the frames, and under it
   `AccountsOnSql` with two threads.
2. The accounts on the file driver, whose calls are not atomic: a composition of
   `AuthData` and `DataFile` like the one with SQL.
3. `Service` that starts from `Startup`: requests while sites are being built, and the
   second pass of the loop.

## 8. Not modelled

* Media: paths and names of uploads; it keeps no state.
* Menu and templates of View, the methods of RPC that return constants.
* bcrypt: vendored cryptography; a hash is taken as equal only to the hash of the same
  password.
* Of the data manager the conversions between parameters and strings; of tools
  trimming, maps from and to JSON, random numbers, host names and the running of
  commands.
* The end of a shared library when Plug opens the next one with the same object of
  booster; threads that share one connection to MongoDB.
* CppCMS itself: sessions, cache and dispatch are modelled as the code uses them.
* Plugins (other repositories), static files, translations, packaging, tests.
