# Formal models of self-hosted-browser-vpn

TLA+ modules, TLC configurations and TLAPS proofs for the browser extension that
routes Chrome through a self-hosted HTTPS proxy, for this proxy, and for the
programs that install it and keep its certificate fresh. Every definition is translated from the
source; `PROJECT.json` maps each one to its lines. Paths below are relative to
`src/`.

## 1. The system

| Part | State it keeps | Operations | Hard behaviour |
| --- | --- | --- | --- |
| Service worker, `extension/background.js` | `chrome.storage.local` (key, enabled, exclusions, last proxy error); Chrome's proxy and WebRTC settings and the badge, which outlive the worker; module variables (epochs, two flags, the promise chain, `authAttempts`), which do not | popup commands `IMPORT_KEY`, `CONNECT`, `DISCONNECT`, `FORGET`, `SAVE_EXCLUSIONS`, `TEST_IP`, `GET_STATE`; `onAuthRequired`, `onProxyError`, two `onChange` listeners; `reconcileAtStartup` at every load | every `await` is an interleaving point; Chrome ends the worker at any of them; rival extensions take settings, in incognito separately; any Chrome call may reject |
| Routing and key library, `extension/core.mjs` | none | parsing and normalizing, PAC text, `isEffectiveProxySetting` | pure |
| Popup, `extension/popup.js` | the rendered view, the disabled buttons, the address shown | sends one message at a time, reads the state again after an error | its message can be lost with the worker or rejected half-way; it can be closed over a command that goes on |
| Proxy, `server/proxy.go` | cached own addresses with a retry time; connections | authorization, destination guard, `CONNECT` tunnels, forwarding, upgrades | concurrent requests share the cache; lookups happen outside its lock; two copy goroutines per tunnel |
| TLS reloader, `server/tls_reload.go` | pair in use and its fingerprint, under a mutex | `getCertificate`, `reload` | two files are read one after the other while someone replaces them one after the other |
| Server start, `server/main.go`, `deploy/run_server.py` | credentials and own addresses read once | wait for files, load, listen | what is read once goes stale |
| ACME server, `server/acme.go` | none | serves challenge files | none |
| Certificate manager, `deploy/manager.py` with `installer/healthcheck.py` | lineage, versions, `tls/current`, credentials, config | `run_cycle`, `rotate` | failure in every step, rollback, being stopped or killed |
| Ubuntu installer, `installer/install.sh`, `deploy-hook.sh`, `renew.sh` | installed files, units, an update snapshot | install, update with rollback, rotate, uninstall, hook, reconcile | partial failure, two writers of the same files |
| Small tools, `installer/export-key.py`, `public_ip.py` | none | print a key, find an address | pure |

How they interact: the popup sends messages to the worker; the worker programs
Chrome, and Chrome calls back (`onChange`, `onAuthRequired`, `onProxyError`),
also for the worker's own writes. The popup waits for each answer and shows it. Chrome connects to the proxy by TLS, each
handshake calling `getCertificate`. The manager (containers) or the deploy hook
(Ubuntu) replaces the files that handshake reads; the manager's health check is
itself a client of the proxy.

What makes each part correct:

- worker: whatever is interrupted, what Chrome is left with is what is stored;
  credentials never leave for a configuration that is no longer the stored one;
  a displayed IP was observed through the connection; a takeover is survived;
- reloader: clients only get complete pairs, taken in the order in which the certificate file
  held them (an older one is served when somebody puts it back), and eventually the pair the files stay at;
- manager: the published pair is complete, a failed check rolls back (except for the disagreement of
  section 5), nothing goes back behind a verified pair, a renewed lineage is eventually served;
- popup: what it shows while its buttons can be pressed is what is stored, and the
  buttons come back;
- routing: the PAC script and the worker's own matcher decide alike;
- proxy: its own addresses are never a destination once known, and nothing is dialled
  before one is known; a tunnel delivers in order, loses no answer of an origin that ended it,
  and leaves neither a goroutine nor a connection behind;
- installer: an update completes, restores what was there, or leaves a whole snapshot of
  it; the certificate of the lineage is served in the end, whoever moved its files.

## 2. Modules

| Module | Models |
| --- | --- |
| `Browser` | Chrome as the worker sees it: storage, two settings in two contexts, rivals, change notices, badge |
| `Background` | `background.js`: threads `boot` and `op`, the queue of `exclusive()`, proxy challenges, IP checks, the worker's end and reload |
| `BackgroundProperties` | its type invariant and properties |
| `MCBackground` | values for TLC |
| `MCRequests` | scenarios for what runs beside the worker's tasks |
| `BackgroundProofs`, `BackgroundRequestProofs` | proofs about `Background`: types, the stored key, the worker at rest; challenges, IP checks, the badge |
| `ServedPair` | abstract specification: what the TLS stack may expect of the reloader |
| `CertReloader` | `tls_reload.go` read by read, over two files of which nothing is said |
| `UbuntuReloader` | the reloader over the two files of the Ubuntu installation, whose writers may put anything there or remove it |
| `CertReloaderProofs` | `UbuntuReloader` implements `ServedPair` |
| `CertManager` | the container deployment: manager cycle, Certbot, health check, rollback, rotation, composed with an `INSTANCE` of `CertReloader` whose files are resolved through the `current` link |
| `CertManagerProofs` | proofs about `CertManager` |
| `MCCertReloader`, `MCCertManager` | values for TLC |
| `Popup`, `MCPopup`, `PopupProofs` | `popup.js` composed with `Background`; values and scenarios for TLC; proofs about the composition |
| `Routing`, `RoutingProofs` | the exclusion rules of `core.mjs`, and the proof that its two matchers agree |
| `SelfGuard` | `server/proxy.go`: own addresses, destinations, dialling |
| `Tunnel` | `server/proxy.go`: tunnels, upgrades and forwarded answers |
| `MCProxyServer`, `ProxyServerProofs` | both parts of the proxy in one run, and the proofs about them and their composition |
| `Installer`, `InstallerProofs` | the update of `install.sh` and its rollback, with `deploy-hook.sh`, `renew.sh` and `healthcheck.py` |

### Background

`pc[p]` is where thread `p` is and `loc[p]` its locals. A step performs one Chrome
call that changes something, or a run of consecutive reads, and the code after
it up to the next such call; its label names the place: `co.*` is `connect`,
`sa.*` `saveExclusions`, `rc.*` `reconcileAtStartup`, `ch.*` the proxy change
listener, and so on. `queue` holds the tasks chained on `operation`, `waiting`
those chained on `boot`. `Fail(p)` lets the Chrome call of a step reject and
continues at the catch block of the code. `Kill` ends the worker between any two
steps, `Wake` loads it again, which starts `boot`. Epoch counters count as in the
code, but a kill resets them.

Abstractions, and why they lose nothing the properties see:

- A key is an element of `Keys`, of which only `ServerOf` matters to the PAC; a list of
  exclusions is an element of `Lists`; a PAC is the pair of both. Invalid stored
  data cannot be written by this code and is left out, and with it the first
  catch of `reconcileAtStartup` and the one of `status`.
- `status` and groups of adjacent reads are evaluated in one step. What is
  read is always used a step later, so a change between reading and acting is
  present; a change between two adjacent reads is not.
- Change notices of one setting that are still on their way are one notice: the handler reads
  the current settings anyway.
- Settings obey a rival per context; a rival's incognito setting and its regular
  one are independent.
- Timestamps of errors are dropped: two errors of the same kind are equal, which
  makes the comparison at line 427 weaker than in the code.
- In tests, `fetch` either answers or fails; the body and the 10 s timer are a choice.
- `GET_STATE` changes nothing and is a matter of `Popup`. A challenge belongs to a fresh
  request until it is closed; `authAttempts` entries added after the close are a
  listed hazard without a property.

### CertReloader

A goroutine is at one of the two reads or at the parsing (`ReadCert`, `ReadKey`,
`Parse`); `Lock` is `getCertificate` obtaining the mutex and `Leave` the unlock
with the answer. Certificates are numbers; a matching pair
is `PairOf(c)`; the fingerprint is the pair of contents. `Exit` ends the process at any moment.

Who writes the files matters more than the reloader: the hook's two `mv` (deploy-hook.sh:31-32), possibly
interrupted, the lineage possibly renewed between its two reads, and the rollback of an update, which removes both files
and copies an older pair back under the running server (install.sh:374-377, 415-421), then moves the
lineage's over it (402-403). `UbuntuReloader` therefore assumes nothing of them: `WriteCert` and `WriteKey` put
any certificate or key, old or new, or `Unreadable` (missing, half written) into either file at any
moment. What can then be said of the server is said relative to what the certificate file has held, in the history
variables `contents` (all of it), `readAt` (the place each goroutine has read) and `position` (the place of
the pair taken last).

### CertManager

`manager.pc` follows `run_cycle`: start, certbot, publish, check, connect, compare,
failed, rollback, and the two intervals `retry` and `verified`. A version directory is never
modified after it is linked, so `current` is represented by the pair it holds.
Certbot is external: it may issue a certificate, replace the two files of the
lineage in either order, and end in success (only with a matching lineage) or in
failure at any moment. `config` numbers the contents of `credentials` and `config.json`,
which the proxy reads once (`loaded`); `rotate_credentials` also stands for a change of the
settings, since `ensure_config` then has the same effect. The health check's handshake is a
handshake of `CertReloader`. Publishing is one step: Certbot has ended, nobody
else writes, and a kill inside it leaves `current` either as before or as after. An `OSError` can come
before the link is replaced or after it, from the `fsync_directory` of line 307 (`Switched`), in
publishing and in rolling back; it is outside the `try` of line 407, so neither a check nor a rollback
follows. History variables: `verified`, the pairs a check has passed with, and `abandoned`, the pairs a kill or an
`OSError` left in place without a verdict (`CutOff`).

### Popup and Routing

`Popup` extends `Background`: commands and IP checks come from the popup alone, so `Deliver`
takes a message by `Message` or `TestStart`, every other action of `Background` is `Elsewhere`, and
`Follow` says what a step of the worker means for the message: the task is started
(`turn`), throws, ends, or dies with the worker (`Killed` closes the port, which the popup hears as an error).
`stage` is where `run()` waits, `Heard` is the code after its `await`s. The buttons are
disabled in the stages of `Pressed`. A popup sees `status()` (`StatusView`) of the moment its task
ended. Every rejected call of Chrome is an answer with an error, and so is a malformed
key, which the worker refuses before it changes anything. One popup is open at a time.

`Routing` represents a host by a sequence of characters, split into kinds of letters,
and keeps `normalizeExclusions`, `isExcludedHost` (`endsWith`) and `FindProxyForURL` (`slice`) as they
are written. `MCPopup` takes `TestExcluded`, the lists for which an IP check would be a direct
request, from `FindProxyForURL`.

### SelfGuard and Tunnel

A slot of `request` is one handler goroutine between `destinations` and the dialled connection.
The lookup of the own host leaves the lock: `Ask`, `Answer` and `Learn` are three steps, so answers
are learned in any order while `HostMoves`. `paused` is the ten-second pause after a failed
lookup. `owed`, a history field, is what the guard knew when the request arrived and what
its own lookup returned.

`Tunnel` has one handler, two copiers and two connections. A byte is its position
in its stream; `buffered` holds the client's bytes that the HTTP parser has read ahead. The
copy loop reads into `chunk` and writes it; ending a direction half-closes, the first direction to end
closes both. An upgrade copies in the same way, a forwarded answer has one direction and
ends with `ForwardReturns` or `ForwardAborts` (`panic(http.ErrAbortHandler)`). Peers send, end and
reset when they like.

### Installer

A path of the software holds the number of the run that wrote it, a path of `tls/` the number of a
certificate, `Broken` when missing or half written. `installer.pc` follows the update from
the snapshot to the last check, and the EXIT trap from `restore` to `check`; `installer.at` is the
position in `UPDATE_PATHS` or in the order of replacement. The hook of Certbot, the reconcile
mode of the renewal service and `refresh_rollback_tls` are the same four commands (`Copy`, `Move`) on the same
two `.new` files, run by the installer and by the renewal service, in any interleaving; Certbot's lock keeps
its own runs apart (`CertbotRenews`, `Certonly`). Certbot, systemd and the reload in the proxy are external or
abstracted (`CertReloader` has the details). `States` is the recording of `UPDATE_ACTIVE`, kept in `installer.active`:
the proxy may be stopped when the update begins, and one that ends again and again is active at moments only. The rollback
restarts the proxy if it was active and otherwise stops it (`RestoreUnits`; systemd does not restart a
`stopped` one), and its last check asks for a healthy proxy only in the first case. Whether units are
enabled is left out, and the renewal timer is taken to have been active. Any command can fail (`UpdateFails`, `DeployFails`, the second
disjuncts of the rollback), and `Kill` and `Hangup` can happen at any moment.

## 3. What TLC checks

| Run | Question | Bounds |
| --- | --- | --- |
| `background_config` | do all commands, a rival, a restart and a rejected call together leave Chrome as stored? | 2 commands of 5 kinds, 1 takeover, 1 kill, 1 rejection, 2 keys of different servers, 2 lists |
| `background_requests` | are credentials ever handed out for a stale configuration or under foreign settings; is a displayed IP of this connection, and does the retry clear only its own error? | two initial states: 1 request challenged repeatedly, 1 command, 1 takeover, 1 kill; 1 check, 2 proxy errors, 1 command |
| `background_ip_check` | did a displayed IP come through the proxy? | 1 check, 1 command of 5 kinds, 3 changes of control of the regular proxy setting, 2 lists, one of which excludes `api.ipify.org` |
| `background_liveness` | with the popup: is what it shows what is stored, do its buttons come back, does everything come to rest, and is the proxy restored after WebRTC takeovers? | four scenarios: 2 changes of control and 1 kill with no popup open; 1 command, 1 check and 2 rejections; 1 command, 1 check and 1 kill; 1 command and 1 check under a popup that is closed and opened again |
| `cert_reloader` | does the reloader implement `ServedPair` and catch up? | 3 certificates, 2 handshakes, 4 replacements of the certificate, any number of replacements of the key and of restarts |
| `cert_manager` | publication, check, rollback, rotation | 3 certificates, 1 rotation, 1 fault |
| `proxy` | can a request reach the proxy itself; does a tunnel deliver and end? | 2 concurrent requests in reused slots, 2 own addresses and a private one, any changes of the record; 2 bytes in each direction |
| `installer` | does an update, its rollback and the renewal service beside it leave a whole installation with the newest certificate? | a running or a stopped proxy, 2 runs, 2 certificates, 1 fault; a further run only after an unfinished one |
| `background_badge_race`, `background_incognito_heal`, `background_rollback_flag`, `cert_manager_rollback` | four disagreements, section 5 | the smallest budgets that show them |

The bounds allow what the properties are about: one command interrupted by
another, by a restart, by a rival and by a rejection at once; two certificates
with the same key, so that a torn pair may match; a third certificate, so that a
pair is published over one that was itself never verified; two requests of which one learns what
the other has already been refused or allowed by; two bytes, of which the parser may have taken one, the copier another;
an update that is killed and repeated over the mixture it left. The proxy's two
parts share no variable, so `part` chooses one of them for a behaviour. The scenarios
of `MCPopup` separate kinds of events whose product exceeds a run; each holds the events
of a hazard, and the runs before it mix the worker's own. Three changes of control let a rival take the setting, give
it back and take it again while one check waits. Four replacements of the certificate let the file go forward, back, away and
forward again. Commands beyond the
second start from states the first two reach. Configurations switch deadlock
checking off because the events are budgeted and a system without events rests; `proxy` has no
budget and is checked for deadlock.

Fairness. `Background`: weak fairness of the worker's steps, of the delivery of
change notices, and of Chrome loading the worker when a notice is pending: promises and
events are not dropped while a worker lives. Nothing is assumed of users, rivals,
kills or rejections. `UbuntuReloader`: the started reload goes on, clients keep connecting,
systemd or Docker starts the server again. `CertManager`: the manager's cycle, the
start of the proxy container (`restart: unless-stopped`) and the server's goroutines; Certbot
is not assumed ever to succeed, as `LineageIsServed` is about cycles it fails in.
`Popup`: in addition the delivery of messages and answers, for which Chrome loads the worker; the user
is free. `SelfGuard`: handlers go on, lookups come back within their timeout, the clock moves, requests
keep coming, and the resolver does not fail every lookup (the one strong fairness, without which nothing could be
learned). `Tunnel`: goroutines are scheduled and an operation on a closed connection returns; peers
need never send, read or end. `Installer`: the timer repeats the renewal service, its
commands end, a proxy that ended is restarted, browsers connect; nothing of the installer and
nothing of Certbot's success.

Properties (all stated with their reasons in the modules):

- `OffMeansCleared`, `RestingProxyIsConfigured`, `RestingProxyNeedsWebRTC`,
  `IncognitoConflictHandled`, `BadgeShowsStatus` relate Chrome to the storage once all
  events are handled; `AppliedServerIsStored` does at every step, even after rejections.
- `CredentialsAreCurrent`, `CredentialsUnderOwnSettings`, `ShownIpIsOfThisConnection`, `ShownIpWasProxied`,
  `RetryClearsItsOwnError` are action properties about data read several awaits earlier. `ShownIpIsOfThisConnection`
  is about the storage, `ShownIpWasProxied` about Chrome's setting: the PAC in effect when `api.ipify.org` answers and when the
  address is shown does not send that host directly. Excepted is a change of the setting that Chrome has not reported
  yet, which is all the worker can know.
- `Settles`, `Heals`, `CatchesUp`, `LineageIsServed` are the liveness properties.
- `PairsAreCompleteAndInOrder` is the refinement of `ServedPair`: complete pairs only, of certificates the file has held, and
  no handshake goes back behind what an earlier one took, however slowly either read and whatever the writers do.
- `NeverBehindVerified`, `VerifiedUnlessCutOff`, `VerifiedMeansServed` relate the manager's
  verdicts to what is published and served, over several cycles.
- `ViewIsStored` and `IpOfShownServer` relate the popup to the storage; excepted are a command left
  behind by an earlier popup (`orphaned`) and an answer the code chooses to ignore (`unheard`, popup.js:52 and :74).
  `PopupUnlocks` says that the buttons come back.
- `NeverDialsKnownSelf`, `FailsClosed`, `LearnsNewAddress` are about the guard under concurrent
  lookups; `InOrder`, `AnswerDelivered`, `TruncationVisible`, `NothingLeftBehind`, `TunnelEnds` about the end of a
  connection, in whatever order its directions end.
- `MixtureHasSnapshot` is what makes a failed rollback recoverable, `RestoredMeansPrevious` what the message says
  of the files and, if the proxy was active when the update began, of the process; `LineageIsDeployed` that no
  interleaving of the writers of `tls/` leaves an old certificate for good.
- `Heals` is stated for behaviours without rejected calls: a rejected restore is shown as an error
  and left to the user.

## 4. What TLAPS proves

For all values of the constants, under the named assumption of each module
(`BrowserAssumption`, `BackgroundAssumption`, `PopupAssumption`, `ReloaderAssumption`, `ManagerAssumption`, `GuardAssumption`,
`TunnelAssumption`, `InstallerAssumption`, `RoutingAssumption`), which TLC evaluates in the runs:

- `BackgroundProofs!TypeCorrect`: `Spec => []TypeOK`. The invariant adds
  `DataIsBound`: at the labels where a thread uses the data it has read, this data
  has a key. Each step of a thread satisfies `StepEffect`, one lemma per task;
  the environment's actions have a lemma each.
- `BackgroundProofs!AppliedServerCorrect`: `Spec => []AppliedServerIsStored`. A PAC is built from data read several
  steps earlier, and the key is replaced several steps after the clears. `KeyIsBound`, for each thread: while it may
  still build a PAC, the key it has read is the stored one; while it is about to replace or remove the key (`Swapping`),
  nothing is enabled or installed. The two threads do not disturb each other because of `BootFirst`: until boot is over only
  tasks run that change nothing but the stored error.
- `BackgroundProofs`, the worker at rest: `OffMeansCleared`, `RestingProxyIsConfigured`, `RestingProxyNeedsWebRTC` and
  `IncognitoConflictHandled`. Each says that something is not so in the states at rest, and none is inductive. `RestInv` says
  of every state that, if it is so, somebody is still pending who deals with it (`Pending`): a thread at a label from
  which its task ends in a clear, a rewrite or a check, a task in the chain or behind boot, a notice on its way, or boot
  itself while the worker sleeps. `RestEffect`, proved task by task, is the part of a thread: its steps create none of the
  situations and leave those labels only when the situation is over. As the properties except
  rejected calls, so does the invariant.
- `BackgroundRequestProofs!GrantsAreCurrent`: `Spec => CredentialsAreCurrent`. The invariant:
  a challenge in flight belongs to a worker that has booted, its epoch is at most
  the current one and smaller while a task runs, and while the epochs are equal the
  data it has read is still what is stored. This is why `exclusive()` increments the
  epoch before the task and not after it.
- `BackgroundRequestProofs!GrantsAreUnderOwnSettings`: `Spec => CredentialsUnderOwnSettings`, with the
  analogous invariant for `browserSettingEpoch` and the notices still on their way.
- `BackgroundRequestProofs!ShownIpCorrect` and `RetryClearsCorrect`: `ShownIpIsOfThisConnection` and `RetryClearsItsOwnError`.
  A check runs beside the tasks like a challenge, but its retry queues a task itself, whose epoch it then adopts. `TestInv`: the
  chain holds at most one such task for each check, and the check waits for it; while a task runs, no check but
  its own can have the current epoch; and a check with the current epoch that has passed its second comparison
  has observed what is stored.
- `BackgroundRequestProofs!ShownIpProxied`: `Spec => ShownIpWasProxied`. `ProxiedInv`: while a check's setting epoch is the
  current one and no notice of the proxy setting is on its way, the PAC in effect is the one whose exclusions the check
  has compared. Whoever changes the setting, a thread or a rival, announces it (`ThreadsAnnounce`), and the delivery of the
  notice makes the epoch a new one.
- `BackgroundRequestProofs!BadgeCorrect`: `Spec /\ ErrorsAwaitBoot => []BadgeShowsStatus`. `ErrorsAwaitBoot` says that no
  proxy error is reported while boot runs. Without it the property is false (section 5, item 1): boot is the only caller of
  `updateBadge` outside `exclusive()`, and its status gets old when a task of an error runs beside it. With it there is
  one thread at a time (`OneThread`), and `BadgePending` says that the badge is right or somebody is pending who will write it:
  a thread at a label from which its task ends in `updateBadge`, a task queued, a notice on its way, or boot. The labels in `Silent`
  are those from which a task may end without it; the proof shows that such an end leaves the badge right or an update still to come: a
  refused connect or save clears a PAC whose change event follows, or one that is in effect nowhere, and the retry of
  an IP check gives up only because another error is queued behind it. Kills and
  takeovers are included; rejected calls are excepted, as by the property.
- `PopupProofs`: `PopupTypeCorrect`, `ViewCorrect` (`ViewIsStored`) and `ShownAddressCorrect` (`IpOfShownServer`), for the popup
  composed with the worker. Key and switch are changed only by tasks of commands (`WorkerEffect`, from the lemmas on the
  worker's tasks); `OneCommand`: the chain holds at most one command, and it is the one the popup waits for (`turn` says where it is), so
  an answer that was right when it was given stays right until the popup asks again. An address shown was answered by
  a check that `ShownIpCorrect` is about, and what could replace the key afterwards is a command, at whose answer the popup hides it.
- `CertReloaderProofs!TypeCorrect` and `ReloaderKeepsItsPromise`: `Spec => []TypeOK` and
  `Spec => PairsAreCompleteAndInOrder`, for any number of handshakes and any writers. The
  invariant places what a goroutine has read, as a place in `contents`, between that of the pair in use and the
  end; without the mutex it fails.
- `CertManagerProofs`: all four safety properties of the manager. `ServedInv` is about the proxy alone and
  holds whatever happens to the files behind the link: what a goroutine has read can be parsed, and what
  is served matches. `Lineage` says that Certbot only goes forward and that what was published was
  once in the lineage, so a publication never goes back. `Published` is about `Fallback`, the version a
  cycle leaves in place if its check never passes (`previous`, once there is one): it is no older than any
  verified pair, and is itself verified, or abandoned by a kill or an `OSError`. During a check the published pair is
  that of the lineage, and a matching pair is determined by its certificate: hence `VerifiedMeansServed`.
- `ProxyServerProofs`, the guard: `GuardNeverDialsKnownSelf`, `GuardFailsClosed` and the types, for any number of requests and
  any record. What is owed to a request is in `selfResolved`, which only grows; once the request has merged it, its
  `self` contains it, and the targets left to dial are free of `self`.
- `ProxyServerProofs`, the tunnel: `InOrder`, `AnswerDelivered`, `TruncationVisible`, `NothingLeftBehind` and the types, for any number of
  bytes. `Flow`: what was received, what is in the copier's hands, what is buffered and what is still to come are
  together the stream in order. `Stage` ties the handler to copiers and connections; `EndsFirst`: a direction
  that has ended cleanly before the connections are closed has delivered everything. Every behaviour of the
  composition is one of both parts (`PartsAreIndependent`), hence `ProxyServerType` and `ProxyServerSafe` for the
  specification that the run checks.
- `InstallerProofs`: `MixtureHasSnapshot`, `RestoredMeansPrevious` and the types, for any number of runs, certificates and faults.
  A whole snapshot is on the disk as soon as the update leaves its first phase (`Protected`). It may be removed
  only at three places, and the rest of the invariant says why that is right there: `Written`, the replaced paths
  hold the number of the run, so that a completed update is whole; `Saved` and `Restored`, the paths copied so far are equal to the
  snapshot's, so that after a rollback that counts as complete the installation is whole if its snapshot is, and otherwise
  that snapshot was not the needed one. `InstallerRestores` adds what the message of the last check says of the process and its
  certificate while the renewal service works on the same files, of a process that was active at the snapshot. `Running`: whoever restarted
  the process meanwhile, it is of the restored binary. `Ordered`: nothing on the disk is newer than what waits in `cert.new`, so no move of either owner
  goes back. `Refreshed`: once the rollback's own hook has copied, what waits, and after its move what is installed, is no older
  than the lineage at the failure (`floor`).
- `RoutingProofs`: `PacAgreesWithMatcher` and `ExclusionsCoverSubdomains`, for every host and list: `endsWith` finds
  the suffixes, and `slice(-n)` takes the whole host only when it is shorter than the domain with its dot.

Thus every safety property of the passing runs is a theorem, `BadgeShowsStatus` under the hypothesis above. Only model-checked: the
liveness properties (`Settles`, `Heals`, `PopupUnlocks`, `CatchesUp`, `LineageIsServed`, `LearnsNewAddress`, `TunnelEnds`,
`LineageIsDeployed`), as fairness and `ENABLED` are beyond the prover, and `ListsAreStable`. That normalizing a list of exclusions again changes nothing is about a fold over the
list, thus an induction over data, and is evaluated by TLC for short texts. No module uses a
recursive operator.

## 5. Disagreements found

1. `BadgeShowsStatus`: `boot` runs outside `exclusive()`; a proxy error reported
   meanwhile is stored and shown, then `boot` writes `ON` from an older status.
2. `Heals`: when the worker is reloaded during an incognito takeover, the event that
   ends it overwrites the note that the proxy is to be restored.
3. `RollsBack`: an `OSError` in the manager's health check skips the rollback.
4. `IncognitoConflictCleared`: the roll-back of `saveExclusions` installs the PAC again but leaves
   `ownProxyClearedForConflict` set by an earlier incognito takeover, so that the next one finds its conflict already handled
   and the PAC stays for regular windows only. `IncognitoConflictHandled` is what remains true.

Also seen and not counted:

- After a takeover of the regular proxy setting that `boot` meets, nothing restores the proxy either.
- Line 187 of `background.js` handles an enabled connection without a key, which
  `AppliedServerIsStored` shows unreachable.
- An IP check that starts inside a running `saveExclusions` takes the task's epoch for its own. If its `status()` reads the
  storage before line 347 stores a list that excludes `api.ipify.org`, and the `onChange` of line 350's own write stays
  undelivered through the rest of the task, the request and the second `status()`, it shows the address of a direct
  request. `ShownIpWasProxied` excepts it by the pending notice; how long Chrome may hold an event back while it
  answers calls is documented nowhere, so it is not counted.
- A pair left unverified by a kill or by an `OSError`, also one that is raised after the link was switched
  (manager.py:307), stays published, since the next cycle has no version to go
  back to. `VerifiedUnlessCutOff` excepts it (`abandoned`).
- "Previous installation restored" (install.sh:437) is also printed when the proxy was not active at the
  snapshot: the rollback then stops it (388-392) and checks nothing (429). A crash-looping proxy may have been inactive at just that
  moment. `RestoredMeansPrevious` says nothing of the process in this case.
- A hangup during an update (`Hangup`; the terminal is closed) runs the EXIT trap with the status of the
  command before it, zero: the trap then takes the run for a success, restores nothing and removes the
  snapshot. docs/installation.md:80 promises a restoration when the check fails and says nothing of an
  interruption, so `MixtureHasSnapshot` excepts it (`hungUp`) and no run counts it.
- When a replacement of the key is stored but answered with an error (popup.js:74), the address observed
  through the old server stays in the popup; `IpOfShownServer` excepts it.

## 6. Not modelled, and what is left

Done in this order: the worker, the reloader, the manager; then the proxy, the installer, the popup
and the routing rules. What would come next:

1. Theorems: the measures along which the liveness properties descend (the backlog of the worker, the steps left of a
   rollback), as action properties; they are the part of those properties that needs no fairness.
2. The first installation, `--rotate` and `--uninstall` of `install.sh`: they have nothing to restore; a failure
   leaves what was done so far, and running them again is the remedy.
3. Backpressure in `Tunnel`: a write to a peer that does not read blocks the copier (no fairness is
   assumed of it), but the amount the network buffers is not represented.

Left out for good: the check of the proxy credentials, `splitTarget` and the rewriting of headers
(functions of one request), the text formats of keys, files and messages, dotted-number hosts, rendering,
file modes and ownership, firewall rules, `acme.go` (whose absence is a fault of `CertManager`), `export-key.py` and
`public_ip.py`: they keep no state that another part could see half-updated.
