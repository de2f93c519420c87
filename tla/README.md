# Verification of the MCP governance gateway

TLA+ models of the gateway in `src/mcp_governance_gateway`, the TLC runs that
check them on small instances, and TLAPS proofs of the main results for every
value of the constants. Paths below are relative to `src/mcp_governance_gateway`
unless they name another directory.

## The system

The gateway is one process with one thread per connection. A request to `/mcp` is
authenticated (static token file or OIDC), matched against a policy table,
validated, and handed to a tool handler; a tool that writes goes through a
confirmation step first; then a backend is called over HTTP and an audit line is
written. Everything the gateway remembers between calls is in memory, apart from
the files an operator edits and the encrypted credential store it writes itself.

| Component | State | Operations | Interacts with |
|---|---|---|---|
| Confirmation store (`confirm.py`) | pending ids with their request and expiry; ids per principal, oldest first; one lock | `issue`, `verify` | called by the gate on every write, from any thread |
| Request handling (`mcp.py`, `policy.py`, `audit.py`, `tools/base.py`, `tools/registry.py`) | none between calls, except the audit stream | `handle_rpc`, `confirmation_gate`, `_audit` | authentication, store, limiter, tool handlers |
| Followed files (`hotfile.py`) | last value, signature, stale flag, lock | `current`, `refresh`, `publish`, `atomic_write_json` | token file, OIDC grants, memory routing, docs registry, credential store |
| Staged bodies (`docs_assets.py`) | stages with owner, time limit, body, busy flag; upload tokens; lock | `mint_upload_url`, `accept_upload`, `peek`, `claim` | upload route, `docs.create`, `docs.update` |
| Document, issue, CI, memory tools (`tools/`) | none | `call` of each family | gate, stage, backends, limiter |
| Quotas (`limits.py`) | write and read times per user, counter per project and day | `check_and_record`, `check_read` | memory tools; reads of every family |
| Credential store (`redmine_keystore.py`) and enrolment (`internal_api.py`) | encrypted records in a file, followed by a `ReloadingFile` | `get`, `status`, `set`, `clear`; `set_key`, `clear_key` | issue, docs review; the tracker |
| Token store (`auth.py`, `admin_cli.py`) | token file | authenticate; `mint`, `rotate`, `revoke`, `role` in a process of their own | the server reloads what the command line writes |
| OIDC (`oidc.py`) | key cache, grants file, last-good keys | key refresh, authenticate | the identity provider |
| Artifact streaming (`artifact_route.py`) | a semaphore of stream slots | stream | CI backend, client socket |
| Docs corpus (`docs_backend.py`) | registry, snapshots, a refresh lock per project | search, get, list, lint, refresh | Git |
| Review (`docs_review.py`, `review_backend.py`) | none in the gateway, branches and proposals at the host | propose, comment, abandon | host API |
| Issue, CI, memory backends | vocabulary caches | adapters | trackers, Jenkins, agentmemory |
| HTTP server (`server.py`) | wiring | routing | everything |

What is hard here: threads between `verify` and `issue` and the backend; a clock
read before a lock, and a wall clock that may be set back; caps that evict; two
indexes of one store; files that change under a reader, or do not parse; a body
that is scanned, confirmed and used in three separate critical sections; a backend
that commits and then times out; a process that dies between the write and its
audit line; Git work under one lock while the registry is edited under another;
a proposal of four requests that fails after the second; commands that load and save
one file at the same time; keys fetched outside the lock; a Jenkins whose queue and
builds change between two requests. `PROJECT.json` lists these under `hazards`, each at its line.

What makes each part correct: a confirmation is used once, for the request it was
issued for, by the principal it was issued to, and cannot be displaced except as
documented; a write is made once per confirmation and audited; what a followed
file serves is never older than the file at the time of the access, unless the
file does not parse, and then it is flagged; a staged body is the one that was
scanned, is used by one call at a time and proposed successfully once; documents come
from one commit of the right repository and do not go back; a proposal loses nobody's
change; what was revoked is refused; quotas hold and slots come back; what is said of
builds is so.

## Modules

| Module | Models |
|---|---|
| `ConfirmationContract` | what `ConfirmationBackend` promises, without caps, clocks or indexes: the abstract specification |
| `ConfirmationStore` | `ConfirmationStore` of `confirm.py` |
| `ConfirmationStoreProofs` | the theorems about it, and those about `WriteGate` that rest on them |
| `WriteGate` | `_handle_tool_call`, `confirmation_gate`, the call behind the gate and `_audit`, over `ConfirmationStore` |
| `HotFile` | `ReloadingFile`, with either an outside writer or the process's own |
| `HotFileProofs` | its theorems |
| `AssetStage` | `AssetStage` of `docs_assets.py` and the calls of `docs.create` and `docs.update` around it |
| `AssetStageProofs` | its theorems |
| `CredentialStore` | `CredentialStore` of `redmine_keystore.py` and the enrolment endpoints of `internal_api.py` |
| `TrackerCalls` | which credential a call of the issue tools goes out under, and its requests (`issue_backend.py`, `gitlab_backend.py`), over `CredentialStore` |
| `TrackerCallsProofs` | the theorems about both |
| `DocsCorpus` | the snapshots of `docs_backend.py` and the refresh behind every read of documents |
| `DocsCorpusProofs` | its theorems |
| `DocsProposals` | the requests of a proposal, a request for review and a withdrawal (`tools/docs.py`, `docs_review.py`, `review_backend.py`) against a host that people use too |
| `DocsProposalsProofs` | its theorems |
| `TokenStore` | `admin_cli.py` and the authenticator of `auth.py` that follows its file |
| `KeyCache` | `JwksCache` of `oidc.py` |
| `Authentication` | the two behind one header: `CompositeAuthenticator` |
| `AuthenticationProofs` | the theorems about all three |
| `Quotas` | `InMemoryMemoryWriteLimiter` of `limits.py` |
| `CiBuilds` | rerun, stop and log of `ci_backend.py`, and `artifact_route.py` |
| `Capacity` | the two behind the tools that use them (`tools/ci.py`, `tools/memory.py`) |
| `CapacityProofs` | its theorems |
| `MC...` | constants and symmetry of the TLC instances |

Definitions called "faulty variant" are never part of a specification: each is a
plausible bug that makes one of the properties fail, which shows that the property
depends on the code.

### Confirmation store

`pending` and `owned` are the two dictionaries; `entry` keeps the tuple of every id
ever issued, in order, and `pending` says which of them are stored. An id stands
for the random nonce: that nonces do not repeat is assumed, and so is that the
digests over identity and arguments are injective. `owned` is a set instead of an
ordered dictionary, since ids count up and "oldest" is the least. `issue` is two
actions, `ReadClock` and `Issue`, because it reads the clock before it takes the
lock; `verify` reads it inside and is one. `SetClock` moves the wall clock either
way. `granted`, `latest`, `boot` and `crowded` are history.

The store is shown to implement `ConfirmationContract` by the mapping `live` to
`pending` and `bound` to the requests of `entry`: an issue is a `Prepare` that may
forget ids, a successful verify a `Grant`, an expiry or a restart a `Forget`, every
other answer a stutter. The abstract `KeepsThePromise` is what the mapping turns
into `SingleUse`.

### Write gate

A thread goes through `verify`, possibly `stamp` and `issue`, or `write`, and
`audit`; the steps in between belong to other threads. `Begin` is authentication
and `Policy.decide` on the roles the token has at that moment, and everything that
may refuse before the gate. Behind it the handler still looks things up, and the
claim of the stage, the queue item, the caller's credential or the issue may refuse:
`Refuse`, which spends the confirmation and writes nothing. `Write` is the one request
that writes; a backend error may mean that the write was made all the same. `attempts`
has the writes an id paid for, and `trail` the lines of every call it was spent on.
`Escape` is an exception that `_handle_tool_call` does not catch, or one from the audit
stream: no line is written, or the flush failed and the line comes out with a later one.
`GateRestart` loses the threads and the pending ids and keeps what
happened outside. All families share this path, so a tool is a name in the request.

### Followed files

A version of the file stands both for its contents and for its signature, since
every writer replaces the file (a new inode). That two versions have different
signatures is assumed, as it is in the code. `Stat` and `Compare` are the unlocked
look, `Recheck`, `ParseGood` or `ParseBad`, and `Stamp` what happens under the
lock, `PublishValue` and `PublishStamp` the two halves of `publish`. `retry` is
`retry_failed`; `writers` says who writes the file. `Spec` takes one writer per
file, `SharedSpec` both at once.

### Staged bodies

Every operation is one critical section that starts with the sweep (`Swept`), and
so one action; `claim` is two, `Claim` and `Leave`, with the host call `Propose`
between them and outside the lock. An upload token is named by its stage (each has
one) and a body by its length, with 0 for none and `NotText` for bytes that are
not UTF-8. A principal is an actor with a seat, which stands for project and token
id. Lengths are added up by counting `Bytes`, the pairs of a stage and a position in its
body. The gate between `peek` and `claim` is left open: it may let any call through.
The few microseconds between the sweep's reading of the clock and the one that
sets a new time limit are not modelled.

### Credentials and the calls made under them

`disk` is the file, `value` the records served, and `seen` says whether the recorded
signature is the file's. A record keeps its key id, its backend field (or none, in
the layout of a version that knew Redmine only) and the data it was sealed with; an
actor's entry is `Flat` or `Nested`. A secret is named by the enrolment that
submitted it, so that one can ask whose it is.

`set` and `clear` are split where a reader, who takes no lock, can look: `Enter` takes
the lock and reloads, `Change` replaces the file, `Publish` publishes it. In between
`SetKey` and `Encrypt` or `Reject` the tracker is asked, which takes as long as it takes.
A reload is one step here: `HotFile` is what shows that a reader's reload serves
nothing older than the file it looked at. For the same reason edits by hand come only
while no write is under way; the other case is `HotFileShared`. `EditOut`, `EditMove`
and `EditCorrupt` are the edits: a record taken out, one presented as another actor's
or backend's, and a file that no longer parses (which nobody mends by hand in the model;
the next write does). `Restart` boots with any master keys and either tracker, and with
an empty store over a file that does not parse. `Revoke` is the second step of the documented offboarding, taken
when the first, the removal of the record, has been confirmed.

In `TrackerCalls` a call begins with `Look` and `Choose`, the two halves of `get`, and
keeps the key it chose; `KeyFor` has the ladders of reads, of the caller's own issues
and of writes. `Names` is what asks for no credential: `categories`, and the names of a
project, a status or a category that other calls look up on their way, all on the
gateway's own. `Gate` looks the issue up, `Mutate` writes, and `Annotate` is the note
that on GitLab says who changed a status. `held` and `gone` remember what enrolment
and removal were acknowledged; a restart takes nothing off them. `dropped` has the
enrolments that a boot over a broken file lost sight of. Left out: `status`, the limiter of the enrolment
endpoints, entries that are not JSON objects, and the caches of project names.

### Documents

In `DocsCorpus` a commit is a number and a repository with its branch is one value, the
fingerprint. A thread's `work` is one call of `_snapshot_for` with the local variables it
carries: `Call` is `_resolve_spec`, `Look` the test without the refresh lock, `Enter` the
one under it, `Fetch`, `Read` and `Load` the Git work of `_refresh` and `_load_docs`,
`GitFails` its `except`, `Resolve` and `Publish` the question whether the specification
is still current and the assignment that follows it under the other lock. `locked` has
the projects whose refresh lock is held. `EditRegistry`, `Push` and `Tick` fall in
between. `documents` names the commit the documents were read from, so that a mixture of
two could be told; `fetched` and `kept` are history. Search, ranking, front matter and
provenance are functions of the text of one commit and left out.

In `DocsProposals` one document is followed and its text is the set of changes it
contains, so that a lost change shows. A call is its requests, one step each: `GetRef`,
`PostBranch`, `PutContents`, `PostPull`; `OpenProposal`, `PostReviewer`; `CheckAuthor`,
`Say`, `Close`. `RequestFails` may end it before each of them, and the host may have
done what the caller is never told of. `PutContents` compares blob ids and `Merge` does
what Git does with a branch and its base; both are the host's, modelled as far as the
code relies on them. `corpus` is what snapshots show, refreshed at any time. Left out:
comment, list and get, which keep nothing, and the content rules.

### Authentication

A command of `mcpgw-admin` is `Load` and `Save`, in a process of its own, and nothing
keeps another one out in between. A right is a token with or without the write role;
`withdrawn` has the rights that a finished command took away, `answered` those of the
request just answered. The file is the set of its entries: their order would only
say which of an owner's tokens `rotate` and `role` take for the first, and an owner has
one, since `mint` refuses the second. `HandEdit` breaks and mends either token file. `Reload` is one
step: that an access sees the file as it stands is what `HotFile` shows.

`KeyCache` splits a login where others can come in between: `Ask` reads the clock before
the lock, `Decide` claims the attempt under it, `Fetch` and `Store` are the request to
the provider and what is made of it, `Pick` or `Refuse` the look-up at the end. A fetch
takes any time, so that several may be under way, and none compares what it stores with
what is there. `Rotate` is the provider. `asked` is when the provider gave the keys in
use, `claimed` what the login that fetched them had seen on the clock. Signature,
claims and grants can only refuse a login and are left out, and so is a bearer with an
empty key id, which the code treats like one without. `Authentication` has the order of
the two: a bearer that the files do not know, on a server with a provider.

### Capacity

`Quotas` follows the limiter with the clock read before the lock: `Ask`, then `Decide`,
which drops old times from the front, counts, and records. `Within` and `Used` are the
two windows. The limiter's clock is the wall clock; the model's is one that nobody sets.
`CiBuilds` has one step per request to Jenkins (`LookQueue` and `Trigger`;
`Verify` and `Cancel`; `ReadConsole` and `Status`), and between any two of them others
queue builds and executors take them. A status that answers 404 leaves a log that names
no build. A download is a thread with a `stream` that goes
from `Acquire` to `Release` on one of the ways `artifact_route.py` has; a chunk stands
for what one `read` returns. The upstream delimits the body by a length, by chunks or by
closing the connection (`Framings`), and may send less than there is; `ended` says what
the client makes of what it got, which follows from the framing and not from the
handler's own test. `Audit` is one line; when the sink raises, the line is lost, or stays
in the buffer and comes out later, and the request takes the way of an error. `NotFound`
is also an exception that is no `CiBackendError` (such as the `ValueError` of
`ci_backend.py:214`), which leaves no line. `Capacity` puts the read of the quota before each CI tool and leaves it out for
a download.

## Runs

| Run | Asks | Bounds and why they are enough |
|---|---|---|
| `ConfirmCaps` | `Caps`, `NewestSurvive`, `StrangersLearnNothing`, `SingleUse`, `OthersDisplacedOnlyWhenFull` | two principals, two threads, two argument lists; 2 ids per principal, 3 in all, 4 issued: both evictions happen, also in one `issue`, with expiries out of order |
| `WriteGate` | `OneWritePerConfirmation`, `AuditAccountsForWrites`, refinement of the contract (`KeepsContract`) | one principal, two argument lists, two threads, two ids: both threads may hold the same id, or a stranger's request |
| `HotFile` | `SeenMeansServed`, `Freshness`, `NeverBackwards`, `AccessEnds` | two threads and four versions: two edits while a thread is between its two looks |
| `HotFileShared` | `SeenMeansServed`, violated | one thread, three versions |
| `AssetStage` | `Quotas`, `UrlsAwaitBodies`, `ClaimsAreExclusive`, `ProposedAsScanned`, `OneSuccess` | one actor with two tokens, two stages at a time, three in all, sizes 1 and 2 against 3 bytes in all so that the byte quota bites, time limits 1 and 2 on a clock that runs to 3: a stage runs out while it is claimed |
| `Credentials` | `OthersUndisturbed`, `OnlyOwnSecrets`, `RemovedStaysRemoved`, `EnrolledNotShared`, `SharedWritesAreSignedOnRedmine` | two actors, two trackers, two enrolment threads and one caller: two writers and a reader in any order; a legacy record and one submission, so that both layouts meet; one master key, one edit by hand, one restart, in any combination |
| `DocsCorpus` | `AnswersItsRepository`, `FreshUnlessGitFailed`, `SnapshotsMoveForward`, `OthersNotHeldUp` | two threads, three calls, two projects of which one may hang, two repositories, one more commit in each, one edit: a project may move, go, or be added while a refresh is under way; an interval and a Git time of 1 on a clock that runs to 2 make snapshots that are fresh, that are out of date, and that are rebuilt late |
| `DocsProposals` | `AnswersAreTrue`, `OnlyAuthorsWithdraw`, `NoChangeLost` | two threads, two callers, two repositories, three changes: a document is made, revised by one and by another; one move and two conversations, so that the move falls into any; four of these in all (`MaxWork`): the two changes, the move and the conversation in which one number names two proposals are within it |
| `Authentication` | `RevokedIsRefused`, `KeysMoveForward`, `KeysAgeOut` | two operators, one owner, three pieces of work that are commands or logins (`MaxWork`): two commands that overlap and a third that undoes them, or two logins that overlap and a later one; two keys; a clock to 6 with a lifetime of 1 and a cool-down of 2, so that the cool-down is the longer one, keys age out, and a fetch may outlast it into the next; a clock that starts at 1, since the cool-down counts from 0: the first fetch comes at 3, and one that begins at 6 overlaps it |
| `Capacity` | `QuotaPerMinute`, `QuotaPerDay`, `AlreadyQueuedIsCertain`, `OnlyOwnCancelled`, `LogNamesNoOlderBuild`, `SlotsComeBack`, `DownloadsAreAccounted` | two threads, two users, three calls, downloads or builds of others (`MaxCalls`); one read or two writes in a minute of 2, one write in a day of 2, a clock to 3, one slot, two jobs of which one may be started, artifacts of at most two chunks against a cap of one |
| `Offboarding` | `NoCredentialWithoutToken`, violated | one enrolment thread, one submission |
| `StatusNote` | `SharedWritesAreSigned`, violated | one caller |

Type invariants are not checked by the runs: that of every module is proved, with the
module's other invariants (below).

`CHECK_DEADLOCK FALSE` stands where the bounds, or the end of all work, may stop the
system. `MaxSets`, `MaxEdits`, `MaxRestarts`, `MaxIds`, `MaxClock`, `MaxTime`,
`MaxVersion`, `MaxProposals`, `MaxCommits`, `MaxCalls`, `MaxChanges`, `MaxMoves`,
`MaxTalks`, `MaxTokens`, `MaxCommands`, `MaxWork` and `MaxItems` bound what would grow
without end. The values of the caps and time limits are the smallest at which the cases
differ; in the code they are 10,000, 64 and 300 s for confirmations, 16, 32 MiB, 2 MiB,
60 s and 3600 s for stages, 600 s, 30 s and a time-out of 5 s for keys. At those values
the byte quota of a stage can never refuse anything, as 16 bodies of 2 MiB are 32 MiB
exactly; the model takes other values.

Several properties say what the code gives and not what its reader may expect. Their
exceptions are hazards of the code that they do not catch; what they say is that nothing
else goes wrong:

* `AuditAccountsForWrites` excepts what an exception or the end of the process took with
  it ("A committed write is not a transactional one" in `SECURITY.md`). A spent
  confirmation that wrote nothing has its line, too.
* `EnrolledNotShared` has four exceptions. Names are looked up on the gateway's own
  credential for everybody; `issues.categories` is one of these on Redmine
  (`issue_backend.py:256-265`, whose docstring says why), although `SECURITY.md:213-215`
  counts "any read by an enrolled caller" among those on the caller's own key. GitLab
  reads are the gateway's. Writes fall back while the store is down, unless enforced. And
  a boot over a file that does not parse starts empty: until they enrol again, callers
  who had enrolled are served like those who never did.
* `KeysMoveForward`: only the cool-down stands between two fetches, as a store compares
  nothing (`oidc.py:203-221`). The time-out of 5 s bounds each wait for data and not the
  fetch, so one may outlast the cool-down of 30 s, overlap the next and store the older
  keys last. The property says that keys go back in no other case.
* `KeysAgeOut`: the lifetime may be configured to 1 s (`config.py:176`) while the
  cool-down is fixed at 30 s (`oidc.py:159`), so the bound is the longer of the two
  (`Lifetime`), and the time the fetch took on top. Excepted are logins after a fetch that
  failed, which keeps the last good keys, and logins that come while another one fetches,
  which after an idle spell are checked against keys of any age.
* `QuotaPerMinute` is short of a minute by `Stall`, the time between a thread's look at
  the clock and its turn at the lock, and `QuotaPerDay` leaves out a stretch in which a
  write of another day is decided: a thread that read the clock before midnight and
  takes the lock after another one of the new day starts the count again, twice
  (`limits.py:53`). Both are about a clock that nobody sets; it is the wall clock
  (`limits.py:37`), and one set forward by a minute empties the window.
* `DownloadsAreAccounted`: a sink that raises leaves no line, or two if the first one only
  failed to flush; an exception that the route does not catch leaves none. A body that
  only the end of the upstream's connection delimits and that is cut short is passed on
  with a terminator, so the client keeps it as whole and the line says "ok", although the
  comment at `artifact_route.py:178-182` has it that a body the upstream cuts short is
  missing its terminator. That is so of an upstream that sends chunks.
* `LogNamesNoOlderBuild` is silent about a log that names no build.
* `OnlyAuthorsWithdraw` is about other people's proposals: a proposal of the same author
  that has the confirmed number in the repository the registry names by then is
  withdrawn in place of the one meant.
* `RevokedIsRefused` excepts two commands that overlap, which nothing prevents
  (`admin_cli.py:116`), and token files that do not parse, which `SECURITY.md` describes.

The violated runs show:

* **`publish` takes an outside edit for its own.** With an operator who edits the
  credential store by hand, as `docs/operations.md:128-129` suggests, an edit between
  the replacement of the file and the stamp is never loaded, and the next write
  removes it (`hotfile.py:162`). Under one writer per file it cannot happen, and the
  invariant is proved.
* **Offboarding leaves a window.** `docs/operations.md:124-140` removes the credential
  and then revokes the token, "so no window leaves a live credential without a live
  audit trail". An enrolment authenticated before the revocation and still waiting for
  the tracker stores its credential afterwards (`internal_api.py:117-127` asks, then
  stores, and does not look at the token again).
* **A status change on GitLab may be unsigned.** The issue tools call a write under
  the shared account degraded but honest, because a footer names the real actor. On
  GitLab the footer of a status change is a second request: if it fails, the change
  stands under the gateway's name alone. On Redmine it is part of the same request, and
  `SharedWritesAreSignedOnRedmine` holds.

One more disagreement needs no run. The contract in `confirm.py:32-33` says that one
principal cannot displace another's ids however many it issues; when the store is full
as a whole, it can (`confirm.py:159`), which `SECURITY.md` describes and the docstring,
which other implementations are written against, does not. `ConfirmationContract` leaves
that promise out, and `OthersDisplacedOnlyWhenFull` is what the code keeps of it.

## Fairness

`HotFile` and `DocsCorpus` check liveness.

In `HotFile` a thread inside an access is scheduled, and so is the one that publishes:
weak fairness on each thread's step and on `publish`. Nothing forces anybody to begin an
access or to write the file. Weak fairness does not promise a contended lock to a
particular thread, and none is needed: `AccessEnds` is about an access after the last
edit, when only finitely many reloads are left and every thread behind the lock finds
the file unchanged. With `retry_failed` and a last version that does not parse every
access reloads, the lock can be contended forever, and the property excludes that case.

In `DocsCorpus` threads run (`Step`) and Git comes back, with success or without
(`GitWork`): `git_timeout_sec` ends every command. For the projects in `Stuck` the second
is not assumed, and `OthersNotHeldUp` says that calls for all other projects end all the
same: what a hanging remote holds is its own project's lock. A thread that waits for a
lock gets it eventually only because the calls are finitely many; that a lock is handed
round fairly is not assumed.

## Proofs

Every invariant and every action property that a passing run checks is a theorem of the
specification; only the two liveness properties are not.

| Theorem | Says |
|---|---|
| `TypeAndBookkeeping` | `TypeOK` and `Bookkeeping` are invariant; they are inductive together, as an `owned` of the wrong ids would break typing's caps |
| `CapsHold` | both caps; the induction needs `Bookkeeping`, to turn a count of `owned` into one of `pending`, and that a victim is one of the counted |
| `SingleUseHolds`, `ContractKept` | single use, then the refinement: each action is an action of the contract or a stutter |
| `DisplacementNeedsFullStore`, `NewestSurviveHolds` | what can cost a principal an id; the second rests on `RecencyHolds`, that an own victim is older than the newest ids |
| `StrangersLearnNothingHolds` | the order of `verify`'s checks |
| `GateTypes`, `GateKeepsContract` (`WriteGate`) | to the store a step of the gate is one of its own operations or nothing (`GateDrivesStore`), so what was proved of the store carries over: types, bookkeeping and the refinement |
| `OneWritePerConfirmationHolds`, `AuditAccountsForWritesHolds` | from `GateInv`, which gives every id a life: nobody has been granted it (`Untouched`), one thread holds the grant (`InHand`), that thread has made the call, or was refused, and has not come to its line (`Spent`), or nobody has to do with it any more (`Closed`). The properties speak of one moment; which thread will act on an id next is what they leave out and the induction needs. That an id goes from the first stage to the second only once is `SingleUse` |
| `InvHolds` (`HotFileProofs`) | the inductive invariant `IInv`: who holds the lock, that an access's signature is not newer than the value once parsed, that the publisher's version is still on disk, and `Recorded`, that a recorded signature is backed by the value or by the flag and a version that did not parse |
| `TypeCorrect`, `SeenMeansServedHolds`, `FreshnessHolds`, `NeverBackwardsHolds` | follow from it |
| `StageInvHolds` (`AssetStageProofs`) | the inductive invariant `AInv`: types; `UrlsAwaitBodies`; a stage is busy exactly while one call has it (`ClaimInv`); the body a call remembers is the one the stage still has (`BodyInv`); a stage proposed with success is gone or held by the call about to drop it (`SpentInv`) |
| `StageTypeCorrect`, `UrlsAwaitBodiesHolds`, `ClaimsAreExclusiveHolds`, `ProposedAsScannedHolds`, `OneSuccessHolds` | follow from it; without `SpentInv` a stage put back after its success could be claimed again, without `BodyInv` an upload could come between scan and proposal |
| `QuotasHold` | both quotas of an actor. Stages: only `Mint` adds one. Bytes: only `Upload` adds any (`BodiesStay`), and what it adds, `{id} \X (1 .. data)`, was measured against the bytes of the other stages; the cardinality of a union is all the arithmetic |
| `CredentialTypes` (`TrackerCallsProofs`) | types of the store and of the calls, from the invariant `TInv`, whose central part (`Sound`) is said of every copy of the records there is -- on disk, served, and on its way from one to the other (`Copies`): each record is sealed to the actor and tracker whose credential it holds, none that was removed lies where it would open, none that is still to be written is there, and whoever is enrolled, and no boot has lost sight of, has one |
| `OnlyOwnSecretsHolds`, `RemovedStaysRemovedHolds`, `EnrolledNotSharedHolds`, `SharedWritesAreSignedHolds` | of a call, by what it knew when it chose its key (`CallOK`) |
| `OthersUndisturbedHolds` | an action property; rests on what the two record layouts mean (`FoundWithRecord`, `FoundWithoutRecord`) and on `Change` working on a copy that was reloaded under the lock |
| `CorpusInvHolds` (`DocsCorpusProofs`) | the inductive invariant `CorpusInv`: refreshes of one project exclude each other (`LockInv`); a snapshot shows one commit, and was stamped within a Git time of the fetch unless Git has failed since (`SnapshotInv`); what a call has in hand is sound and not behind what its project is served from (`WorkInv`) |
| `TypeCorrect`, `AnswersItsRepositoryHolds`, `FreshUnlessGitFailedHolds`, `SnapshotsMoveForwardHolds` | follow from it; the last from `NotAhead`, which holds from the fetch on because only the holder of the lock can publish for that project |
| `ProposalTypes`, `AnswersAreTrueHolds`, `OnlyAuthorsWithdrawHolds` (`DocsProposalsProofs`) | from `DInv`: what is on record agrees with itself (`LedgerOK`), what a call knows by the request it is at (`CallOK`) -- up to its answer no proposal carries its change, from `PutContents` on its branch holds exactly one change more than its base, and past `CheckAuthor` it is its author's -- and no two calls work on one branch (`CallsApart`) |
| `NoChangeLostHolds` | an action property of `Merge`, which only needs that a branch has grown (`LedgerOK`): what a merge would take away is nothing |
| `AuthenticationTypes`, `RevokedIsRefusedHolds` (`AuthenticationProofs`) | from `TokenInv`: until two commands overlap, an owner has one token and a token one owner, no entry has a right that was taken away, and a token about to be written is new (`StoreInOrder`, `Fresh`) |
| `KeysMoveForwardHolds`, `KeysAgeOutHolds` | from `KeyInv`: no login is from the future (`OnTime`); the logins that fetch, and the one whose keys are in use, looked at the clock more than a cool-down apart (`Claims`), so that if older keys are stored last, one of the two took longer than that; what a fetch brings was given while it was under way (`Underway`); the keys in use were stored after the last attempt was claimed unless it failed or is still under way (`InUse`), which bounds their age at every decision (`Aged`) |
| `TypeCorrect` (`CapacityProofs`) | types, from an invariant of its own per component (`QuotaInv`, `BuildInv`) |
| `QuotaPerMinuteHolds` | from `MinuteInv`: grants are in the order of the lock, at most `Stall` after the time they are made for (`GrantsInOrder`), and each grant young enough to matter has an entry of its own among the times still counted (`Remembered`, an injection), although times are dropped from the front of a list that is out of order |
| `QuotaPerDayHolds` | from `DayInv`: the count covers the last stretch of writes, unless a write of another day is among them |
| `SlotsAlwaysComeBack`, `DownloadsAlwaysAccounted` | `BuildInv` says what a download has counted, delivered and audited at each of its steps, on the way of an error too, and what of that the client can take for the whole; the slots by the cardinality of the set of downloads, which each step enters, leaves or keeps |
| `AlreadyQueuedAlwaysCertain`, `OnlyOwnEverCancelled`, `LogNeverNamesOlderBuild` | `BuildInv` again: ids are never given out twice, so an id seen once names the same item or none; builds only begin |

They hold for every number of principals, threads, actors, operators, ids, versions,
projects, commits and jobs and all values of caps, quotas and time limits and of the
bounds that keep TLC finite, from the assumptions named in the modules: the caps are
positive, requests are well-formed, the first registry names no repository twice, and the
marker values are not values of another kind. Of the lifetime and the cool-down of keys,
and of the time a fetch takes, nothing is assumed.

Only model-checked: `AccessEnds` and `OthersNotHeldUp`, which are liveness under fairness
and out of the prover's reach. The two properties a run finds violated,
`NoCredentialWithoutToken` and `SharedWritesAreSigned`, and `SeenMeansServed` under
`SharedSpec`, are no theorems, of course.

## Not modelled

* Text and layout of replies, argument schemas, the digests in `verify`'s reason,
  cryptography, HTTP and Git themselves, search and ranking, front matter, the secret
  scan, configuration: functions of one call's arguments, which keep no state.
* `memory_backend.py`: one request per call with its fields mapped; its routing table and
  labels are followed files, which is `HotFile`.
* A credential file that was broken and is mended by hand; the next enrolment mends it in
  the model. A wall clock that is set while quotas are counted.
* `status` of the credential store, the limiters of the enrolment endpoints, entries of a
  credential file that are not JSON objects, the caches of project names and
  vocabularies.
* Of the CI backend, listings, and stopping a build by its number, which the request
  names; of the review adapter, comment, list and get; of the limiter, the limit on the
  length of a text and limits configured off.
* Routing, header checks and start-up order in `server.py`, and the claims and grants of a
  login: they refuse or do not, and remember nothing. The grants file is a `HotFile`.

## Plan

What is left:

1. the limiters of the enrolment endpoints (two windows and a lock, the same shape as
   `Quotas`) and `status`, which looks an actor up several times in a value that a reader
   may replace meanwhile;
2. a composition of `DocsProposals` with `AssetStage` over the gate, to say of one document
   change what is now said in three parts: one confirmation, one body, one proposal;
3. that `CredentialStore`'s reload in one step is what `HotFile` gives: an abstract followed
   file, with `HotFile` shown to implement it.
