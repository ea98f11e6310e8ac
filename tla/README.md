# TLA+ models of claude-code-with-bedrock

A verification development kept beside the code: TLA+ modules translated from the
source, TLC configurations that check them on small instances, and theorems that
TLAPS proves for every value of the constants.

Paths below are relative to the repository (`src/` here). "Go provider" is
`source/go/cmd/credential-process`, "CLI" is `source/claude_code_with_bedrock/cli`,
"lambdas" are under `deployment/infrastructure/lambda-functions`.

## 1. The system

Claude Code asks the AWS SDK for credentials; the SDK runs a *credential process*
for the profile. That process finds or obtains an OIDC id_token, asks the quota
service whether the user may go on, exchanges the token for AWS credentials and
prints them. Nothing stays resident: every request is a new OS process, and
processes of one profile meet only in files, in one TCP port, at the identity
provider and at the quota service. The server side is a handful of lambdas over
DynamoDB tables, and the CLI deploys and removes the CloudFormation stacks.

| Part | State it keeps | Operations | Interacts with | What is hard |
|---|---|---|---|---|
| Go provider, OIDC flow (`main.go`, `desktop_helper.go`, `internal/portlock`, `oidc`, `quota`, `storage`) | cached credentials, id_token, refresh_token, time of the last quota check; the callback port | default run, `--refresh-if-needed`, desktop helper (interactive and silent), `--get-monitoring-token`, `--get-mcp-auth-header`, `--show-claims`, `--clear-cache` | IdP, quota_check, STS/Cognito, other invocations | interleaved processes, rotating refresh_tokens, one port used as lock, probe and server, kills, timeouts |
| Go provider, IdC flow (`idc.go`) | SSO token cache, refresh lock (own port) | ensure, refresh, device authorization | IdC OIDC API | lock with a deadline, SDK refreshing on its own, polling |
| Go provider, quota page (`quota_notification.go`) | one served/not served flag | serve, wait | browser | must end |
| Go storage (`session.go`, `keyring_split.go`) | the shared credentials ini, four keyring entries | save, remove, read | other profiles' invocations | lost updates, torn reads |
| otel-helper (`cmd/otel-helper`) | pid file, header cache (two files), attribution cache | ensure the collector runs, proxy, status | collector, provider | check-then-start, two-file writes |
| Python provider (`credential_provider/__main__.py`) | as the Go provider | as the Go provider | as the Go provider | keeps the port through the login, saves after releasing it |
| Lambda quota_check | usage and policy tables (read) | resolve, decide | quota_monitor writes the usage | swallowed errors, limits of zero |
| Lambda quota_monitor | usage rows, alert rows | aggregate, check limits, alert | CloudWatch, SNS | retried or overlapping runs, paging |
| Lambda bootstrap_device_code | device-code table and its index | device code, verify, callback, token poll | IdP, desktop app | concurrent polls, stale reads, expiry |
| Lambda bootstrap_server, authorizer | none | render, authorise | – | – |
| Lambda sidecar_monitor | none | compare usage with telemetry | quota_monitor | two windows of 15 minutes |
| CLI deploy / destroy | CloudFormation stacks, addresses in the profile | waves of threads, sweep of orphans, delete in order | CloudFormation | partial failure, waiters that give up, what is left behind |
| CLI package, package_cb, builds, distribute | package directories, source.zip, artifacts, latest-build.json, landing page | build, poll, download, upload, sweep | CodeBuild, S3, Parameter Store | partial failure, builds that go on between commands |
| CLI init | saved progress, profile files | some thirty questions that depend on one another, save | CloudFormation (existing deployment) | interrupted and resumed, updates that rebuild a profile field by field |
| config, migration, context | profile files, active profile | save, migrate, use | every command | a legal sequence that ends in a dangling active profile |
| CLI quota, status, doctor, test, cleanup, cowork | – | single operations | – | – |

What makes each part correct:

* Provider: credentials only after a quota check of the very token they come
  from; a block is final; no silent entry point opens a browser; the port is
  released on every path; concurrent refreshes do not destroy the session; every
  invocation ends.
* Storage: an update of one profile keeps the others; a reader sees one session.
* Lambdas: a decision follows the policy that applies, an error follows the
  configured mode; an alert is sent once; a device code is honoured once.
* Deploy and destroy: a stack is worked on when those it reads are settled; what
  was deployed is removed or reported; what the profile selects is spared.
* Wizard: the profile that is saved deploys what was answered, whatever was saved,
  interrupted or edited before; nothing is forgotten that still has to be removed.
* Packaging: success means that everything asked for is there; the landing page
  goes on serving while it is replaced.

## 2. Modules

The order is by what the system stands on: first the programs that run on every
AWS call, then the services they ask, then what administrators run.

| Module | Models | Composes with | Abstract specification | State |
|---|---|---|---|---|
| `CredProcess` (+ `CredProcessInv`, `CredProcessClaims`) | Go provider, OIDC flow | – | `CredentialGate`, mapped by `CredProcessGate` | checked, proved |
| `PyCredProvider` | Python provider, with its quota page | – | `CredentialGate` again, with its own mapping | checked, proved |
| `BootstrapDeviceCode` | device-code lambda over its table | – | – | checked, proved |
| `QuotaCheck` | quota_check lambda | the writes of `quota.py` and of the monitor as actions | the resolution and decision on still tables (`Effective`, `Reason`) | checked, proved |
| `QuotaMonitor` | quota_monitor lambda | the usage item `QuotaCheck` reads | – | checked, proved |
| `Deployment` | `ccwb deploy` (full, single, parallel) and `ccwb destroy` over CloudFormation | the two commands, and new answers, over one set of stacks | – | checked, proved |
| `Wizard` | `ccwb init`, saved progress, profile files, migration, `ccwb context use` | what `Deployment` takes as `Profiles` (`DeployView`) | what the administrator meant (`Meant`) | checked, proved |
| `Packaging` | `ccwb package`, `package_cb`, `builds`, `distribute`, AWS CodeBuild | four commands over one dist directory, bucket and landing page | – | checked, proved |

`MC…` modules hold the sets and symmetries of the runs, `…_proofs` the theorems.
What each of the remaining parts would add is in section 12.

## 3. The credential process

### State

`CredProcess` gives every invocation a program counter `pc[p]` that names the
*shared access it makes next*; one action is one such access together with the
control flow up to the next one. Everything shared is in the first two groups of
variables:

| Variable | In the code |
|---|---|
| `creds` | what `getCachedCredentials` (main.go:250) would say: usable credentials for the profile |
| `token` | what `GetMonitoringToken` would say: an id_token with more than ten minutes left |
| `refresh` | the refresh_token in `<profile>-refresh.json` |
| `stamp` | `ReadQuotaState` is younger than `quota_check_interval` |
| `port` | who listens on the redirect port: as lock (`portlock.TryAcquire`), as probe (`WaitForRelease`), as callback server |
| `grants` | the refresh_tokens the identity provider would accept |
| `over` | what the quota service would answer |
| `cmd`, `fn` | the command line, and the function that called the shared helpers (`run`, `performQuotaRecheck` = "recheck", `runDesktopHelper`, …): the helpers return to different places |
| `src`, `verdict` | where the id_token in hand came from, and what the quota check said of *that* token |
| `held`, `fresh` | the refresh_token `tryRefreshToken` presents, and the one it received and has not saved |
| `outcome` | how the invocation ended: credentials printed, success without, failure |

A refresh_token is a name. A name no file and no invocation refers to may be
issued again (`Spare`), so a few names stand for any number of rotations.

### Actions

| Code | Actions |
|---|---|
| `main`, its flags | `Start`, `NeedRefresh` |
| `run`, fast path and re-check | `ReadCache`, `CacheHit`, then `ReadToken` with `fn = "recheck"` |
| port lock and waiters | `TryAcquire`, `ReleaseLock`, `RaceGuard`; `Probe`, `ProbeDone`, `WaitTimeout`, `Woken` |
| cached token, silent refresh | `ReadToken`; `LoadRefresh`, `Exchanged`, `ExchangedInVain`, `TransientFailure`, `Rejected`, `Discard`, `KeepToken`, `KeepRefresh`; `RefreshUnavailable` says where a nil result leads for each caller |
| browser login | `Listen`, `Callback`, `Redeem`; `LoginFailed` |
| quota, exchange, saves | `CheckQuota`, `Answered`, `Exchange`, `SaveCredentials`, `SaveMonitoringToken`, `SaveRefreshToken` |
| desktop helper | `ReadCache` and `FallBack` with `fn = "desktop"`, `DesktopReread` |
| `clearCache` | `ClearCredentials`, `ClearRefreshToken` |
| outside | `CredentialsExpire`, `TokenAges`, `IntervalPasses`, `UsageChanges`, `Revoke`, `Crash` |

The constant `Faults` says what may go wrong outside the program: kills,
revocations, refresh responses that rotate the token but carry no id_token or
never arrive, quota outages, failing writes.

### Abstract specification

`CredentialGate` has three variables: is something cached, where does each
invocation stand (out, in, allowed, refused, holding), how did it end. Credentials
are handed out only if they came from the cache or were minted after the quota
service allowed; only such a minting fills the cache; a refused invocation can
only empty the cache and fail. `CredProcessGate` gives the mapping: `cache` is
`creds`, and an invocation's standing is a function of `pc`, `fn` and `verdict`.
The gate allows credentials already in hand to be served without asking, because
the code does (fresh stamp, the desktop helper's fast path, a re-check that finds
no token).

### Properties

* `TypeOK`.
* `PortHeld`: the port is held exactly by the invocation sitting between its
  successful listen and its close, on every early return and after a kill.
* `StoredTokenLive`: concurrent refreshes, logins and clears never leave a spent
  refresh_token on disk, unless the invocation that spent it is about to replace
  it. It speaks of interleavings alone (`Faults = {}`): a kill after the rotation, a
  useless response or a failing write of the new token (main.go:892, where the
  error is dropped) does leave the spent one there. `TokensInFlight`, the
  strengthening the proof needs, is in `CredProcessInv`.
* `BlockIsFinal`: after a block an invocation records, clears and fails.
* `QuotaBeforeCredentials`: what enters the cache passed the check of its own token.
* `SilentStaysSilent`: no fallback leads a silent entry point to the browser.
* `ImplementsGate`: the refinement.
* `EveryInvocationEnds`: liveness.

What does *not* hold is in `CredProcessClaims` and in section 10.

## 4. The Python provider

`PyCredProvider` is the same program once more, written differently: it keeps the
redirect port from its lock through the silent refresh and the login, closes it
*before* the quota check after a login and before the credentials are saved, has no refresh_token, and shows
blocked or warned users a page on the next port. Labels, one action per shared
access and `Return` through the `finally` are as in `CredProcess`.

| Variable | In the code |
|---|---|
| `bound`, `listening` | the lock sockets bound to the redirect port, and the callback server's: with `SO_REUSEADDR` (`Reuse`) two may be bound while neither listens, and then one `listen` fails |
| `page` | who serves `_show_quota_browser_notification` |
| `path` | the part of the program an invocation is in (`recheck`, `silent`, `login`, …), which decides where the shared helpers return |
| `creds`, `token`, `stamp`, `over`, `verdict`, `outcome` | as above |

| Code | Actions |
|---|---|
| `main`, `run`, re-check | `Start`, `NeedRefresh`, `ReadCache`, `CacheHit`, `ReadToken` |
| quota check and page | `CheckQuota`, `SaveQuotaCheckTimestamp`, `ShowPage`, `PageServed`, `ClearStsCredentials` |
| port | `Bind`, `Probe`, `ProbeDone`, `WaitTimeout`, `Woken`, `CacheAgain`, `Release` |
| silent refresh, login | `SilentToken`, `Listen`, `Callback`, `LoginFails`, `Redeem` |
| credentials | `Exchange`, `ClearCredentials`, `ClearToken`, `SaveCredentials`, `SaveMonitoringToken` |

* `PortsHeld`: on every return, exception and kill, the redirect port and the
  page's port are with the invocations between taking and giving them back, and
  nobody else.
* `ImplementsGate`: it implements the same `CredentialGate` as the Go provider.
* `OnlyThePageLasts`: nothing but the quota page keeps an invocation waiting for
  ever. The exception is real: `_show_quota_browser_notification` loops
  `while not page_served` (`__main__.py:2287-2288`) and its deadline is per
  request, so an invocation whose page no browser fetches never ends; on the silent path it holds
  the redirect port meanwhile.

## 5. The device-code lambda

`BootstrapDeviceCode` has the DynamoDB table as three things a request can see:
`item` (the item, on which conditional updates act), `replica` (what an eventually
consistent `get_item` may still return) and `index` (what `user-code-index`
shows). `lapsed` holds the codes whose ttl has passed; `DeleteExpired` may happen
at any time after that, or never. Each sign-in has its own callback
(`HandleVerify`, `ExchangeCode`, `FindDevice`, `Approve`) and each poll is an
invocation (`StartPoll`, `ReadItem`, `Consume`); between any two of these
everything else may run. `Approve` and `Consume` are `update_item`s: the first has
no condition, so it also revives a consumed code and, after a TTL deletion,
creates an item without user code or ttl (`whole` is false). `Consume` can succeed,
fail its condition, fail, or take effect and lose its reply; the last three are
answered `expired_token`.

* `IssuesCovered`: a code yields no more answers with tokens than it was approved
  times. This is what the condition on the update is for.
* `OwnSignIn`: a poll never holds the tokens of a sign-in that was started from
  another user code than the one handed out with its device code.

User codes are short and may repeat; the model lets two device codes share one,
and then a sign-in may approve either. That is a sign-in "with the user code of
its own device code", so `OwnSignIn` says nothing of it.

## 6. The quota_check lambda

`QuotaCheck` is one request after another. A request reads the user policy, the
group policies, the default policy, the unblock record, the clock and the usage
item one after another, with `ChangePolicy`, `ChangeUnblock`, `UsageGrows` and
`NextDay` between any two reads. The item read is that of the month on the clock,
which may be over by then (`closed`); the daily counters count if they are of the
day on the clock, `clock` midnights ago. `Effective` is the resolution on tables that stand still,
`Reached` and `Reason` the decision. The history variables say which policies were
in force at some moment of the request (`inForce`), whether the unblock lasted from
beginning to end (`lifted`), and whether a read failed (`failed`). Any read may
fail, and so may the handler as a whole, which its outermost except answers
according to ERROR_HANDLING_MODE (`CheckFails`; both under `Errors`); to keep the instance small a request meets at most one
failing read, or changing policies, not both (`MayFail`).

* `PolicyWasInForce`: if at most one item changes meanwhile, a request whose reads
  succeed ends up with a policy that was in force at some moment since it began.
  With two changes this fails (the user policy is removed after a default was
  changed, say), hence the bound.
* `UnblockHonoured`: an unblock that lasts as long as the request is honoured.
* `DailyBlocksAreOfToday`: nobody is blocked for the usage of a day before the one
  on which the request looked at the clock.

Limits of 0 mean "no limit" as in the code; the policies of `MCQuotaCheck` are one
of each shape the CLI writes (budget with placeholder token limit, token policy
with alerting daily limit, disabled, alerting environment policy).

A failed read is answered as if nothing were there (index.py:458, 490, 538): the
user has no policy, no usage, and is allowed, also with ERROR_HANDLING_MODE
"fail_closed", which index.py:17-18 says is the default when errors occur; only
errors outside the three helpers meet that mode. That is why the two properties
speak of requests whose reads succeeded.

## 7. The quota_monitor lambda

`QuotaMonitor` is the other side of that item. A run (`run[r]`) is a record of
where an invocation stands and what it has read; one action is one call to the
table, the metrics API or SNS. `Invoke` starts a run with the usage of the window
(`fetch_usage_from_promql`), which `Fetch` obtains. `GetItem` and `UpdateItem` are
the two calls of `update_quota_metrics` for a user: the first decides whether the
daily counters are added to or set, the second does it. `ScanItem` reads the items
back through `_build_usage_entry`, `LoadAllPolicies` and `GetSentAlerts` read the
limits and the alert records, `Due` is what `check_limits_and_generate_alerts` and
the handler leave to be sent, `RecordSentAlert` and `Publish` do so one alert at a
time, all records before the first publication. `Timeout` cuts a run off anywhere
and `Retry` starts it again, as Lambda does with asynchronous invocations;
`NextDay` moves the clock, which the code reads anew in `update_quota_metrics`,
`get_sent_alerts` and `record_sent_alert` but not elsewhere.

A record is kept with its structured key, the month and the date in it; how
`get_sent_alerts` reads keys back, which differs between the first and the later
pages, is `FirstPageKey` and `SecondPageKey`. The history variables say which
alerts were published, which more than once, which were recorded by a run that did
not get to publish them (`lost`), and whether the code had a chance to know (`clean`:
runs did not overlap and the table answered).

* `AlertedOnce`: while `clean`, no alert is published twice, whatever is cut off,
  retried, and whenever midnight passes.
* `ReachedIsReported`: a run at its end has left no level that it saw unreported,
  other than those some run recorded and could not publish.
* `DailyAlertsOfToday`: while `clean`, a daily alert is about usage measured on its
  day. It takes `clean`: of two runs that overlap over midnight, one may have
  decided to ADD when the other sets the counters for the new day, and what it then
  adds to them was measured the day before (`GetItem` and `UpdateItem` are two calls).

Three faults are in the module and not in that run. Failing table calls (`tableFails`)
are the code's own exception branches; together with overlapping runs they make too
many states for the run, while the theorems of section 11 cover them. With `straddle` (a run goes on
over the end of a month) `AlertedOnce` fails, because the alert records are looked
up and written under the month of the clock, not of the run. With `twoPages` the
run `claim_daily_each_day` applies.

## 8. Deploy and destroy

`Deployment` works on thirteen stacks of one profile, CodeBuild in two regions.
A command is given (`DeployAll`, `DeployOne`, `Destroy`) with the list of what it
has to do (`todo`): waves of stacks, one stack each for a sequential command and
`_plan_waves` for `--parallel`. `step[s]` is the thread that handles stack `s`,
`cloud[s]` the status CloudFormation gives it. A wave without stacks (nothing of it is
selected) is over at once.

| Code | Definitions |
|---|---|
| `_select_full_deploy_stacks`, the guards of `ccwb deploy <stack>` | `Selected`, `Accepted` (they differ) |
| `DEPLOY_WAVES`, `_plan_waves`, `_deploy_in_waves` | `DEPLOY_WAVES`, `PlanWaves`, `WaveEnds` |
| `_check_orphaned_stacks` | `Orphans`, the "sweep" waves |
| `_deploy_stack`, branch by branch | `StartDeploy` with `Prepared`, `RefuseDeploy` |
| `deploy_stack`, `_wait_for_stack` | `Recreate`, `DeployEnds`, `WaitTimeout` |
| the profile file that the threads share | `OpenProfile`, `WriteProfile` (`mem` is the shared object, `held` what one thread writes) |
| its errors: `get_stack_outputs` answers `{}` on any exception, the thread's save is caught | `OutputsUnread`, `SaveFails` |
| `_show_stack_outputs`: role, collector and quota address, each shown and saved | `OpenOutputs`, `WriteOutputs`, `PassOver` |
| `destroy.py` | `Covered`, `Abandoned`, `StartDelete`, `DeleteEnds`, `Recorded` |
| the wizard, saving new answers | `Reconfigure`, `RegionAfter` |
| outside | `Settles` (CloudFormation goes on after the waiter gave up or the command was killed), `Blocked` (what it refuses to delete), `Interrupt` |

* `SettledFirst`: a full deploy works on a stack only when those whose outputs it
  reads are complete, whatever failed or timed out in an earlier wave.
* `DestroyTells`: a destroy that exits 0 has left none of the stacks it did not
  skip. Stacks of abandoned CodeBuild regions are outside: a failure there is only
  recorded when listed resources remain (destroy.py:211-218), so a waiter that gives
  up exits 0.
* `EndpointSaved`: a deploy that exits 0 has left the collector's present address
  in a profile file that can be read, though threads of one wave write that file
  without a lock (deploy.py:1590, 1894; config.py:434-465), and though the address is
  lost without a word when the outputs cannot be read (aws.py:102-104) or the save
  after the stack fails (deploy.py:1592-1593). `missed` notes such a loss: "early"
  in the thread, "late" at the end. The save at the end, after all threads,
  repairs an early loss and what threads wrote over each other; a late loss is
  harmless only to a sequential deploy that had no early one. Without a collector
  the file can be read unless a save of a thread failed in the middle.
* `WantedSpared`: a deploy deletes nothing the profile selects, but a failed
  creation it is about to repeat.

A gateway that is wanted but `websearch_preflight` refuses (`"unfit"`) is left out of
what a deploy selects, and a region without Windows containers, which an older
profile may name, makes the CodeBuild stack a success without a stack.

Met while modelling, and described rather than stated as properties: the sweep
and destroy ignore what the other would take care of (destroy skips s3bucket with a
sidecar although quota uses it, and networking with a landing page but no
collector: both stay, exit 0); the comment on the order of the sweep
(deploy.py:733) is not the order of the list; its deletions' results are ignored; `ccwb deploy
websearch` exits 0 when the gateway fails; "no" to Windows builds keeps the region
of the old stack, so neither a deploy nor the sweep looks at it as abandoned; a
waiter that gives up just before CloudFormation finishes reports a failure.

## 9. Wizard and packaging

### Wizard

An action of `Wizard` is a section of questions or one access to a file. The
administrator has an intent (`wizard.intent`, of `Intents`) or accepts every
default (`wizard.accepts`); what a section writes into the configuration is one
operator per section (`MethodAnswers`, `MonitoringAnswers`, `LimitAnswers`,
`CodeBuildAnswers`, …, all joined in `Question`), `Defaults` is what it proposes.
`WriteProgress`, `Resume` and `ResumeAt` are `progress.py` and the jump over
finished sections; `Update`, `StartFresh` and `Restored` the paths of an existing
profile; `OpenProfileFile`, `WriteProfileFile`, `OpenGlobal`, `Activate` the save,
between any two of which it may be interrupted (`Leave`). `Migrate` and
`UseProfile` are the other writers, `EditProfile` an editor; `Expire` makes saved
progress too old to be offered.

* `SavedAsMeant`: what a wizard that was not resumed is about to save deploys
  exactly what was answered.
* `NothingMissing`: also a resumed wizard has every answer a profile needs when it
  comes to the review.
* `AcceptKeeps`: an update whose defaults are all accepted changes nothing, except
  for what the comment on the property names: a disabled distribution is proposed
  as presigned, a daily limit of one's own as the computed one, a far build region
  as the nearest.
* `RegionRemembered`: an update never forgets a region that may still hold a
  CodeBuild stack ("Start fresh" does).
* `ActiveExists`: the active profile has a file, unless it is the default of a
  migrated configuration that could not be migrated itself.

Described only: progress left by one profile's wizard is offered to another's;
sections are looked up as "oidc_complete" and "okta_complete" in different places
(init.py:424, 1014); Ctrl-C at a yes/no question counts as "no" (1101); the
bootstrap delivery survives a change to a sign-in that does not offer it;
`delete_profile` has no caller; `model_alias` is not restored by an update.

### Packaging

`Packaging` keeps the packages (`dist`: what each binary was built from and when, its
helpers, which parts are written), what each profile has in AWS (`cloud`:
source.zip, builds, artifacts), `latest`, `page` and the one command that
runs. Builds queue, run and end while commands come and go. What the code compares by
file and build times is compared by `clock`, which counts the builds that have ended.

| Code | Actions |
|---|---|
| `package` | `PackageStart`, `GoBuildBreaks`, `UploadSource`, `PackageEnds`, `Regenerate` |
| the parts of a package, shared by `package`, `package_cb` and regeneration | `CreateConfig`, `CreateInstaller`, `CreateWindowsInstaller`, `CreateClaudeSettings` |
| `package_cb`, `builds` | `PackageCbStart`, `StartBuild`, `WriteLatest`; `BuildsCheck`, `FetchArtifact` |
| `distribute` | `DistributeStart`, `FetchWindows`; landing page `Detect`, `UploadPack`, `SweepStale`, `PublishEnds`; otherwise `Archive` |
| outside | `BuildBegins`, `BuildEnds`, `EditSource`, `Interrupt` |

* `PackageTellsLocally`: a package that succeeds holds all its parts, the Windows
  installer if it has a Windows binary, and, built here, every binary and helper. With CodeBuild the code infers a pending Windows
  build from the profile (package.py:747-770), not from a build that was started,
  and succeeds without one; the property leaves this out.
* `BuildsOwnSource`: source.zip has one key, yet no build is made from something
  older than the command that asked for it.
* `PublishedWhole`: a distribute to the landing page that succeeds leaves exactly
  its package there (unless the deletion of a stale platform failed, which is ignored).
* `PageKeepsServing`: while it is replaced, by a command that may fail or be killed
  anywhere, the page never stops serving a platform the new package has, and no
  other one before something of it is served.

Described only: latest-build.json is one for all profiles, and `builds --download`
unpacks into the newest package of any profile (builds.py:363-386) and exits 0 with
failed downloads; after a failed newest build the artifact of an older one is taken
(distribute.py:590-625); regenerating picks the newest directory, finished
or not, and does not copy extra files.

Left out: how an archive is handed on (one file or one per platform, the presigned
address, the parameter store, whose failures are warnings); no property is about it.
The Windows host, which builds Windows itself and turns to CodeBuild when it has no
Nuitka (package.py:1390-1411), is among the choices of `remote` in `PackageStart`.

## 10. Runs

All are TLC runs with two workers; `MC…` modules hold the sets and symmetries.

| Run | Question | Instance | Result |
|---|---|---|---|
| `cred_process` | do the stored token and the quota gate survive every interleaving? | 2 invocations of default, desktop, monitoring and clear; 2 token names; quota configured, fail open; no faults | holds, 1,658,876 states |
| `cred_process_faults` | silent entry points, the gate and the port under kills, revocations, useless responses, outages, failing writes | 2 invocations of default, refresh-if-needed, desktop (silent), MCP, show; 1 token name; fail closed | holds, 647,058 states |
| `cred_process_ends` | does every invocation end? | 2 invocations of default and desktop, weak fairness | holds, 221,654 states |
| `py_provider` | ports, gate and termination of the Python provider | 2 invocations of every command line; kills, outages, refused tokens, failing writes; SO_REUSEADDR; weak fairness | holds, 101,790 states |
| `device_code` | tokens out against tokens in, and whose they are | 2 codes, 2 user codes, 2 sign-ins, 2 polls | holds, 230,777 states |
| `quota_check` | policy resolution, unblock, days, under concurrent changes, midnights and failing reads | 2 groups, 3 policies, 1 environment policy, 1 change, 2 usages | holds, 2,296,188 states |
| `quota_monitor` | alerts once, none forgotten, none stale | 1 user, 2 runs, a monthly token and a daily cost limit, 2 days; overlap, cut-offs and retries, failing queries and publications | holds, 1,003,497 states |
| `deployment` | order of dependencies, exit codes, the saved address | 2 commands over two profiles (collector with quota and gateway; sidecar with landing page, builds and bootstrap), 1 trouble anywhere | holds, 417,384 states |
| `wizard` | what is saved against what was meant | 3 wizards, 2 profiles, 4 intents or all defaults, 1 interruption, migration, edits | holds, 1,795,885 states |
| `packaging` | what success, a build and the page stand for | 3 commands, 2 profiles of each of two setups, 2 revisions, 2 packages, 2 builds, 1 trouble | holds, 2,411,781 states |
| `claim_discard` | "Only discard the refresh_token when the IdP definitively rejected it" | default and MCP | violated |
| `claim_daily_each_day` | "Daily alerts can be sent each day" | 1 run, 2 days, records in two pages | violated |

The two counterexamples:

* `claim_discard`: two invocations present the same refresh_token; the provider
  rotates it for one and answers `invalid_grant` to the other, which deletes the
  file that by now holds the winner's new token.
* `claim_daily_each_day`: on the second page of the alert records a `daily_cost`
  key is read back without its date; the handler takes it for every later day's.

Other disagreements that the models show, without a run of their own:

* A second invocation "will wait for the first to complete authentication and then
  read credentials from cache" (QUICK_START.md:899): the Go provider releases the
  lock before the login and closes the callback server before the code is
  redeemed, so the port is free twice while a login is under way, and a waiter that
  probes then finds no credentials and exits 1. In the Python provider the port is free
  between the login and the save, with the same effect.
* "Clear cached credentials so subsequent invocations also block" (main.go:973): an
  invocation that was allowed just before its user went over the limit saves its
  credentials after a blocked one cleared them, and its own check counts as fresh.
* "another poll already consumed this grant" (device-code index.py:321): an answer
  carries the tokens of the earlier read; if a second sign-in re-approves the code
  between another poll's consumption and this poll's update, one sign-in's tokens
  go out twice. `IssuesCovered` is what remains true.
* "Save OTel collector endpoint to profile immediately after deploy" (deploy.py:1582)
  and "so ccwb package doesn't need to read CF outputs" (2219): when both reads of the
  collector's outputs fail, each is answered with "no outputs", the deploy exits 0
  and the profile has no address. `EndpointSaved` says which losses are harmless, and
  fails without its conditions on `missed`.
* Errors of quota_check fail open (section 6); the Python page loop (section 4);
  a package without its Windows build (section 9).

### Bounds and why they are enough

* Invocations: every hazard of the credential process is a pair of invocations
  around one file or the port, so the runs have two. A third matters for probes
  that keep others waiting and for refreshes that overlap three ways: the safety
  properties listed in section 11 are proved for any number.
* Token names: with two invocations at most two tokens are in flight and one on
  disk. Two names are enough for a rotation against a rotation; names are
  reissued, so runs of any length are explored. Where tokens are not what is
  asked, one name is enough to have "none", "live" and "spent".
* Device codes: two of each, so that codes can collide, sign-ins can meet and
  polls overlap. The counters `approvals` and `issues` are bounded by the number of
  sign-ins.
* Policies: `MaxChanges` bounds the changes of policy items during one request;
  between requests they are free. The usages straddle every limit.
* The monitor: one user, because users share nothing but the order in which a run
  takes them; two runs, because two can already overlap, and a run's retry follows
  the run itself. `MaxTotal` lets usage be added twice, on one day or on two, so
  that the daily limit is passed in two levels; the second day shows what the
  first leaves behind.
* Deployment: two commands show what the second meets of the first, with new
  answers in between; the two profiles differ in every stack, so orphans, an
  abandoned region and both orders occur. One trouble is enough for every property,
  as each speaks of one stack and those it depends on.
* Wizard: three wizards are an initial one, an update, and one that finds the
  progress or the profile of another name; the four intents differ in every answer
  that decides a later question.
* Packaging: two packages and builds let an old and a new one meet, three commands are
  a build, its download and its distribution.
* `CHECK_DEADLOCK FALSE` stands in the configurations of `deployment`, `wizard` and
  `packaging`: an administrator's commands are bounded and run out. Everywhere
  else deadlock is checked.
* Symmetry is used for invocations and tokens, groups, codes and runs, and never in
  a run with a liveness property.

### Fairness

`FairSpec` is weak fairness of `Step(p)` for each invocation: an OS process that
has started is scheduled, and each of its waits is bounded by the code: 60 s for
the port (`lock.go:31`, `__main__.py:154-179`), 300 s for the browser (`callback.go:68`,
`__main__.py:1333`), a timeout on every HTTP and AWS call. Nothing is assumed of the
browser, the identity provider, the quota service or of other invocations; in
`PyCredProvider` the browser's two actions (`Callback`, `PageServed`) are outside
`Step`, so that the page may never be fetched.

## 11. Proofs

Checked by TLAPS for every value of the constants. The assumptions are the named
`ASSUME`s of the modules: the null values are none of the things they stand for,
the switches are Booleans, commands and faults are among the listed ones, bounds
are naturals; profiles and intents are among the possible answers, older configurations
have the fields the migration reads, a package is asked for at least one platform,
and the marks for an absent or broken file and for an unset answer are no file and
no answer. What a theorem assumes beyond these is in its statement.

| Theorem | Says | Argument |
|---|---|---|
| `TypeCorrect` | `[]TypeOK` of `CredProcess` | by action, after lemmas on `Goto`, `Call`, `Exit`, `Obtain`, `Serve`, `FallBack`, `RefreshUnavailable`, which every action ends in |
| `PortExclusive` | `[]PortHeld` | inductive with `TypeOK`; all actions but seven leave both the port and its three labels alone (`Away`) |
| `FlowInvariant` | `[]ControlFlow` | which entry point can be in which function at which label, and what the verdict is there. The property theorems below are not inductive without it: the same `Answered` or `RefreshUnavailable` step leads to different places for different callers |
| `GateRefined` | `CredProcess!Spec => ImplementsGate` | from `ControlFlow`, every step of `p` changes `Session(p)` alone, to one of the gate's steps or a stutter (`StepPermitted`) |
| `QuotaAlwaysFirst` | `QuotaBeforeCredentials` | only `SaveCredentials` fills the cache; `ControlFlow` says the verdict was "allow" there |
| `BlocksAreFinal` | `BlockIsFinal` | `ControlFlow`: a blocked invocation is at "answered" or clears |
| `SilentNeverLogsIn` | `[]SilentStaysSilent` | `ControlFlow`: the login labels belong to `run`, `monitor` and `show` |
| `StoredTokenStaysLive` | `[]StoredTokenLive` when no kill, revocation, useless response or failing write happens | `TokensInFlight`: a token received and unsaved is live, not on disk, and nobody else has it; so nobody can spend it before it is saved, and what is on disk is live |
| `PyTypes`, `PortsAlwaysHeld`, `PyGateRefined` | types, `[]PortsHeld` and the refinement of `PyCredProvider` | one invariant `TypedFlow` (path, label and verdict agree); the ports by invocation (`PortsOf`), with the rest of the ports untouched; the refinement step by step as above |
| `DeviceCodeTypes` | types and the shapes of approved items | by action |
| `IssuesAlwaysCovered` | `[]IssuesCovered` | an approved item is worth one more answer than were given (`Covered`) |
| `OwnSignInOnly` | `[]OwnSignIn` | an item's session, in the table, in the replica and in a poll's hands, belongs to its user code (`Traced`) |
| `QuotaTypes`, `UnblocksAreHonoured`, `BlocksAreOfToday` | types, `[]UnblockHonoured`, `DailyBlocksAreOfToday` | an unblock that lasts is what the request reads or will read (`Lifted`); the decision looks at counters through `Current` |
| `PolicyAlwaysWasInForce` | `[]PolicyWasInForce` when at most one item changes | there is one table that was in force during the request and that agrees with everything read so far (`OneTable`): the table before the change, if something was read that changed, or the one after it |
| `MonitorTypes` | types of `QuotaMonitor` | by action |
| `DailyAlertsAreOfTheirDay` | `[]DailyAlertsOfToday` when the levels of a limit are in order | `Counted`: the daily counters of an item, and what a run read of them, are within what was measured on their day; needs that the one run's choice between ADD and SET still fits the item |
| `AlertsAreSentOnce` | `[]AlertedOnce` when no run straddles the month and records fit in a page | `Once`: what was published or is about to be is on record, and a run that records knows what was published; `InItsMonth`: the month of the clock is that of the run |
| `NoAlertIsForgotten` | `[]ReachedIsReported` under the same condition, also when runs overlap and the table fails | `Accounted`: each record is of an alert that was published, will be, or was lost; keys and periods determine each other (`KnownReported`) |
| `DeployTypeCorrect` | types of `Deployment` | a part of `DeployInv`, which all theorems of this module come from: the waves to come belong to the command (`Planned`), a thread at work is in the wave in hand and fits its stack's status (`Threads`), and what a wave that is over has left |
| `DeploySettledFirst` | `[]SettledFirst` | no wave to come names a dependency of one before it (`InOrder`, from the plan), and of a command that goes on each selected stack is complete or still to come (`DeployedSoFar`) |
| `DestroyTellsOfAll` | `[]DestroyTells` | each covered stack is gone, still to come, or a failure was recorded (`DestroyedSoFar`), and a recorded failure is reported (`Reported`) |
| `DeployEndpointSaved` | `[]EndpointSaved`, for any number of troubles | the address is in the shared profile and in the file (`AddressSafe`): in a sequential deploy as soon as the collector's thread is done, unless an early loss is noted (`EarlySoFar`), and in any deploy once the collector's outputs were shown, unless a late one is (`LateSoFar`); without a collector, at most one thread writes the file and leaves it whole (`FileSoFar`). `OutputsAtEnd` and `CollectorShown` say where in the list of waves the showing stands |
| `DeployWantedSpared` | `WantedSpared` | a wave of the sweep has no selected stack (`Planned`) |
| `WizardTypeCorrect` | types of `Wizard` | each section leaves its keys with values of their kind; a part of `WizardInv` |
| `WizardMissesNothing` | `[]NothingMissing` | what is answered at each question (`Sections`) and in saved progress (`Progress`); without the second the jump of a resumed wizard is not covered |
| `WizardSavesAsMeant` | `[]SavedAsMeant` | what each section asked so far has made of the intent (`AnsweredAsMeant`), and that the later ones leave it alone |
| `WizardActiveExists` | `[]ActiveExists` | the file is written before the name is made active (`Saving`) |
| `WizardAcceptKeeps`, `WizardRegionRemembered` | `AcceptKeeps`, `RegionRemembered` | an update starts from the stored profile, which nobody else changes meanwhile; its data keep the profile's regions and, when defaults are accepted, all other fields of the sections passed (`Updating`) |
| `PackTypeCorrect` | types of `Packaging` | with `Placed` and `Sourced` in `Shape`, on which the others rest |
| `PackBuildsOwn` | `[]BuildsOwnSource` | source.zip is at least what each build of the profile was asked for, and never replaced by something older (`Sourced`) |
| `PackageTells` | `[]PackageTellsLocally` | the parts written at each step of `package` (`Written`) |
| `PackPublishesWhole` | `[]PublishedWhole` | what is uploaded so far is on the page, what is not is still to do or failed, and the sweep spares it (`Publishing`) |
| `PackKeepsServing` | `PageKeepsServing` | `Publishing`: the sweep begins after an upload that succeeded |

The assumption `NoTokenFaults` of the token theorems is needed: with a response
that rotates the token but has no id_token, `tryRefreshToken` returns before it
saves the new token (main.go:875). So is `OnePage`: with `straddle` or `twoPages`
TLC violates the properties, for the reasons in section 7.

Only model-checked: the liveness properties `EveryInvocationEnds` and
`OnlyThePageLasts` under `FairSpec` (outside the prover's reach, as is `ENABLED`) and the two violated claims. Every
invariant and every other action property that a passing run checks is the
statement of a theorem.

## 12. Not modelled

* Of the Go provider: `--check-expiration` and other read-only diagnostics, the
  token handed over in an environment variable, the desktop helper's extra look at
  credentials with 30 s left, torn reads of files that are written in place (a torn
  id_token reads as none, which `TokenAges` already allows). What expiry times are
  is left out; `creds`, `token` and `stamp` are what the code's own tests of them
  say, and may turn false at any moment.
* The IdC flow (`idc.go`): the refresh, and when it happens, is the AWS SDK's; what
  the repository adds is a lock with a deadline after which it goes on without it.
* The Go quota page serves one request and ends after a deadline; the Python page,
  which has none, is in `PyCredProvider`.
* The shared credentials ini, the `.tmp` files and the split keyring
  (`session.go`, `refresh.go`, `keyring_split.go`): no lock and no detection, so an
  interleaving loses an update or mixes two sessions. The hazards are listed in
  PROJECT.json; there is no promise in the code for a property to state.
* otel-helper, Go and Python: one check of a pid file, and caches of which a stale
  or torn copy costs a header.
* Of the lambdas: pricing and projections, parsing of claims and ARNs, rendering of
  answers, the parts of bootstrap_device_code that change no state;
  bootstrap_server and its authorizer are stateless, and sidecar_monitor compares
  two tables and publishes counts.
* Of the CLI: validation of single answers, discovery in AWS, lists of models, the
  text of scripts and settings, images, templates and certificates, and the
  commands that are one operation (quota, status, doctor, test, cleanup, cowork);
  what `quota.py` and `context.py` write is in `QuotaCheck` and `Wizard`.
* Templates, install scripts, plugins and dashboards are declarations and text; the
  schedules and indexes they declare are in the modules of the lambdas.

PROJECT.json maps definitions to lines of the source. Small helpers and the
actions of the environment (clocks, users, AWS) have no entry there; they are
explained where they are defined.
