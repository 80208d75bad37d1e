# sr8 guard: TLA+ models, checks and proofs

sr8 puts a guard process in front of an frp tunnel. The guard lets a visitor
through to the tunnel only with a signed link (`/t/<name>/`, once), a rotating
room ticket (`/r/<room>/`, limited per round) or a signed handshake line on a
TCP port. This directory holds TLA+ models of the guard, TLC runs that check
them on small instances, and TLAPS proofs for all instances. Every definition
is translated from `src/`; `PROJECT.json` gives the lines of each.

Run `tlc -config <cfg> <module>` and `tlapm <module>` in this directory.

## The system

| Part | Source | State it keeps | Operations |
|---|---|---|---|
| Sealed links | `guard-go/main.go` | file `USED_DB`, its `.tmp`, mutex `muUsed` | `handleSealed`, `verifyTCPLine`, `tryBurnSealed` |
| Rooms | `guard-go/main.go` | file `ROOM_DB`, mutex `muRoom` | `handleRoom`, `tryIncRoom`, TCP room form |
| Rate limit | `guard-go/main.go` | map `rate`, mutex `muRate` | `rateOK` |
| Mode | `guard-go/main.go`, `dashboard.go` | `cfg.SealMode`, `muCfg`, `ADMIN_ENV_FILE` | `isOpen`, `setSealMode`, `persistSealMode`, `loadConfig` |
| HTTP routing | `guard-go/main.go` | none | `httpHandler` |
| TCP splice | `guard-go/main.go` | two sockets, one buffered reader, deadlines | `handleTCPConn`, `serveTCP` |
| Reverse proxy | `guard-go/main.go` | a pool of idle connections per request | `proxyHTTP`, `stripRoundTripper`, `sanitizeLocation` |
| Dashboard | `guard-go/dashboard.go` | atomic counters, ring of 200 log entries | `withStats`, `handleAdmin`, frps status calls |
| Python guard | `sealed/guard.py` | the same files behind a lock file, dict `_rate` | `try_burn_sealed`, `try_inc_room`, `rate_ok`, `_handle`, `_proxy` |
| Minting | `sealed/seal.py`, `scripts/mkroom.py`, mint and room APIs | none | an HMAC over name and expiry or room and round |
| Updater | `scripts/check-frp-update.py` | compose file, `.frp-version` | `allowed`, `verify_configs`, apply |
| Deployment | shell scripts, Docker, Caddy, frp configuration | none | straight-line installation |

How they interact. Every HTTP request is a goroutine: rate limit first, then
health, admin API, mode, and only in sealed mode the ticket of a room or the
seal of a link; whoever passes is handed to the reverse proxy. Every TCP
connection is a goroutine too and goes through the mode and `verifyTCPLine`,
but neither through the rate limit nor through the room quota. HTTP and TCP
share `muUsed` and `USED_DB`. The admin API changes the mode under all of them.
The two stores are JSON files that are read, changed and replaced whole
(`.tmp`, then rename); the rest of the state is lost when the process dies.

What is hard: goroutines that race for a link; a kill between two file operations;
file errors that are dropped; a round that changes while a request waits; fixed rate
windows; a mode that changes, is saved and is read back in different orders; room
names that hold the separator of their keys; a lock file that is given up after 5 s
in the Python guard; two goroutines and a deadline on one TCP connection whose peers
end, break off or fall silent; headers that `net/http` puts back after the guard has
removed them; counters read while they change; two files that must change together.
`hazards` in `PROJECT.json` lists each at its line.

What makes each part correct:

- links: one visitor per link and channel, burns survive restarts, nobody waits
  for ever, and a link is not spent for nothing;
- rooms: the quota of a round and of a ticket on HTTP, exact counts, a bounded
  file, rooms that do not disturb each other, whatever their names;
- rate limit: a bound on every minute, no refusal without cause;
- mode: the saved mode is the one of the last save that went through, no other
  setting is lost, and the guard never comes up open by itself;
- routing: sealed mode never reaches the proxy without a seal or a ticket;
- splice: the backend gets exactly the bytes after the handshake line, in order,
  the client the whole answer, each of them the other's end, and nothing is left
  waiting;
- reverse proxy: the backend learns link and address from the guard alone, and
  the address only if it may, what is counted is what was shown, and no request
  or connection stays for ever;
- Python guard: the same as links and rooms, with handler threads and a lock
  file;
- dashboard: the log keeps the newest entries, nothing is shown that has not
  happened, the counters run ahead of the total in one answer by no more than what
  came in between, and the page catches up;
- updater: the pin never ahead of the compose file nor off its track, and a
  later run that repairs what a kill has left.

## Modules

| Module | Models |
|---|---|
| `OneShot` | abstract single-use store: a key is burnt once, then passes once |
| `BurnStore` | sealed links on HTTP and TCP down to each file step, with kills |
| `MCBurnStore` | its instances for TLC |
| `BurnStoreProofs` | its theorems, and that it implements `OneShot` |
| `RoomQuota` | tickets, rounds, quota and pruning, with kills |
| `MCRoomQuota` | its room names and symmetry for TLC |
| `RateLimit` | the rate limit's buckets, under a mutex in Go and with no lock in Python |
| `LimitProofs` | theorems of `RoomQuota` and `RateLimit`: what limits visitors |
| `ModeToggle` | admins that toggle the mode and save it, with kills |
| `ModeToggleProofs` | its theorems |
| `PyStore` | the Python guard's burn behind a lock file that may be given up |
| `PyStoreProofs` | its theorems |
| `Guard` | the whole Go guard: routing of every request past all checks, toggles, counters |
| `GuardProofs` | its theorems, and that it implements `OneShot` |
| `Pipe` | abstract relay of one direction: in order, whole, then the end |
| `TcpSplice` | one TCP connection: handshake, deadline, dial, two copying goroutines |
| `TcpSpliceProofs` | its theorems, and that both directions implement `Pipe` |
| `ReverseProxy` | headers, answers, counted codes and idle connections of `proxyHTTP` |
| `ReverseProxyProofs` | its theorems |
| `Dashboard` | counters, request log, the status API and the polling page |
| `FrpUpdate` | runs of the updater that may be killed, and new releases |
| `OperatorProofs` | theorems of `Dashboard` and `FrpUpdate`: what the operator works with |

`BurnStore` implements `OneShot`, and `Guard` is built on the steps of `OneShot`
and shown to implement it too: the link of the whole guard is the one of its
store. `TcpSplice` goes on where the TCP side of `Guard` ends, at the dial, and
`ReverseProxy` where its HTTP side does; `ReverseProxy` hands `withStats` the code
that `Dashboard` and `Guard` count.

`LimitProofs` and `OperatorProofs` extend two modules each, so names that every
component has (`Init`, `Next`, `Spec`, `TypeOK`, `vars`) carry a prefix in
`RateLimit` and `Dashboard`: `RateInit`, `DashNext` and so on.

### BurnStore

| Model | Code |
|---|---|
| `pc[t]`, `req[t]`, `seen[t]` | a goroutine, the burn key of its request, the map `m` of `tryBurnSealed` |
| `used`, `tmp` | what `readJSONSet` makes of `USED_DB` and of its `.tmp` file |
| `muUsed` | holder of the mutex |
| `Arrive` | a request or a handshake line is read |
| `Refuse`, `Verify` | expiry, then seal; HTTP takes the HTTP form only, TCP both |
| `Lock`, `ReadBurned`, `ReadFresh`, `WriteTmp`, `Rename` | `tryBurnSealed` and `writeJSONSet`, one file operation per step |
| `Proxy` | `proxyHTTP` or the dial: the backend answers or a 502 is sent |
| `CrashRestart` | the process dies anywhere and starts again; files stay |
| `passes`, `crashed` | history only |

Abstractions. A torn, unreadable or missing file reads as the empty list, which
is what `readJSONSet` returns for it. The first 16 digits of a seal are taken to
identify it. `Fault` says which file operations may fail silently: reading,
opening `.tmp`, a write that stops half way, the rename. The step `Rename` also
unlocks: between the two the goroutine does nothing another one can see.
The module is the sealed mode; `Guard` puts the mode switch in front of it. The
key is burnt before the backend is reached, as the code does, although
`README.md:163` of the repository speaks of burning after the first success;
`NoWastedBurn` therefore counts a 502 as a pass.

### RoomQuota

`Present` is `handleRoom` up to `tryIncRoom` (the round is read here, once);
`Admit` and `Full` are `tryIncRoom` with its two results; `TcpAdmit` is the room
form of `verifyTCPLine`, which takes HTTP tickets too and counts nobody.

`counts` is `ROOM_DB`, a map from keys to visits. A key is what
`Sprintf("%s:%d")` makes of a room and a round, as the sequence of its parts
between colons, so a room name may hold colons and numbers and its key does not
show where it ends. `CountVisit` is the loop over the whole map: each entry's name
is read up to the last colon (`NameOf`), its round behind it (`RoundOf`), and
`Keeps` says which entries stay. A name with colons is no handshake line of a
room, so such rooms have no TCP.

The section under `muRoom` is one step: only its holder touches the file, and a
kill inside it leaves the old file or the new. Its file operations do not fail
here; what dropped errors do is shown on `BurnStore`, where the code is the same.
`MaxLag` is the number of rounds that may begin while a request is between
reading the round and `muRoom`.

`TicketReach` is about HTTP. A leaked ticket is also good for any number of TCP
connections in its two rounds; `tcpHits` is bounded by `MaxHits` alone.

### RateLimit

`Open` starts a bucket, `CountIn` adds to it, `Denied` is the refusal, which
changes nothing; `Restart` empties the map. `passed` is history: the requests of
an address let through before each instant, so that those of any minute are a
difference of two (`LastMinute`). A limit of 0 or less still lets the
first request of each bucket through, as in the code: `Cap`. One tick stands
for a fraction of a minute, and the comparison `>` of the code is kept.

Addresses in `PyIP` come to `sealed/guard.py`, whose `rate_ok` has no lock:
`PyDecide` reads clock and bucket (in one step) and decides what to write,
`PyWrite` writes it, and other threads and ticks come in between. Lost updates
let more requests through than the limit, so `BurstBound` is about the Go guard;
`JustDenial` is about both.

### ModeToggle

| Model | Code |
|---|---|
| `mode` | `cfg.SealMode` under `muCfg` |
| `environ` | `SEAL_MODE` in the environment the container was created with |
| `env`, `tmp` | `ADMIN_ENV_FILE` and the `.tmp` all saves share |
| `want[a]`, `lines[a]`, `fd[a]` | a save: the mode it writes, whether it read the other settings, what its open file is |
| `Toggle` | `setSealMode` up to the save |
| `Read`, `Create`, `CreateFails`, `Write`, `WriteFails`, `Rename`, `RenameFails` | `persistSealMode` and `writeFileAtomic`, one file operation per step, errors dropped |
| `Restart` | a kill at any step, and the container starts again in the same environment; `loadConfig` |
| `Recreate` | the same when compose creates the container again and reads `env_file` |
| `asked`, `overlapped`, `due` | history only |

Nothing in the guard reads `ADMIN_ENV_FILE` back: `loadConfig` takes the mode
from the environment, so a restart goes back to the mode the container was
created with and forgets every toggle since. The file takes effect when compose
creates the container, if it is compose's `.env`, as `.env.sample` and the
deployment script have it and as the model takes it to be. A toggle whose save
fails is answered 200 and runs on. So the saved mode is not the running one, and
`SavedIsLast` says what it is: that of the last save that went through (`due`).

A settings file is two facts: whether the other settings are there, and its last
`SEAL_MODE`. A file keeps its content's tail when a shorter one is written over
it (`Over`), which is how two saves make a value such as `opened`; `Load` takes
it as sealed. A guard without `ADMIN_ENV_FILE` saves nothing and is left out. The
file is taken to be 64 KB at most: `readFileLimit` drops the rest of a longer
one, and the save after it would lose those settings.
`Fault` says which operations may fail: reading, `MkdirAll` or opening `.tmp`,
writing, renaming. With `"read"` in it a settings file that cannot be read is
replaced by one line, and `SettingsKept` is violated, as the code says.

### PyStore

| Model | Code |
|---|---|
| `lock`, `own[t]` | `USED_DB.lock`, and whether `_acquire_lock` of this thread made it |
| `used`, `tmp`, `fd[t]` | `USED_DB`, its `.tmp`, and which of them an open file is |
| `seen[t]` | the set `used` of `try_burn_sealed` |
| `Acquire`, `AcquireFails`, `GiveUp` | `_acquire_lock`: made, an error that ends the handler, 5 s are over |
| `ReadUsed`, `ReadFresh`, `OpenTmp`, `WriteTmp`, `Replace` | the try block, one file operation per step |
| `Except` | `except Exception: return True` |
| `Release` | the `finally` block and the result |
| `Proxy` | `_proxy` |
| `CrashRestart` | a kill: files stay, the lock file too |

Threads that gave up the lock share `.tmp` with its owner. Keys are taken to be
of one length, so that a longer list written over leaves a tail, and the list
reaches the file in one piece when it is closed. Seal and expiry are checked
before and are as in `BurnStore`.

### Guard

| Model | Code |
|---|---|
| `pc[t]`, `req[t]`, `via[t]`, `code[t]` | a goroutine, its request, the mode it was let through in, the status of its answer |
| `RateLimited`, `RateOK`, `Health`, `Admin`, `Toggle` | `httpHandler` up to `isOpen`, and `handleAdmin` |
| `ReadMode` | `isOpen`, read once per request |
| `CheckRoom`, `BurnLink`, `RefuseLink`, `NoRoute`, `HandshakeFails` | `handleRoom`, `handleSealed`, `verifyTCPLine` and the 404 |
| `ProxyHTTP`, `ProxyAborts`, `Dial` | `proxyHTTP`, the panic of a broken answer, the dial of `handleTCPConn` |
| `CountTotal`, `CountKind` | `withStats`, one atomic counter at a time |
| `Restart` | a kill; the mode is what `ModeToggle` makes of it, so either |

The parts are taken by what their modules show: a burn is the step `Burn` of
`OneShot`; `rateOK`, `tryIncRoom` and the mode after a restart may turn out
either way. Links are single-use. 502 stands for every answer but 200. A toggle
does not end tunnels that are already open: the model ends at the dial.

A request has two paths: `path` is how `httpHandler` routes it, with slashes
trimmed, and `raw` the prefix that `kindOf` counts it by. They differ for
`//t/<name>/`, which is a link and counts as an open visit, and for `/t/` or
`/adminx`, which lead nowhere. `visits` counts answers of 200 by `raw`, which is what
the dashboard's counters can be held against. They do not tell who came in: a
health check is an open visit too, in sealed mode as well.

`LinksSpec` does not show that open mode burns no link: `OneShot` may burn a key at
any time, and visits in open mode count for no key.

### TcpSplice

| Model | Code |
|---|---|
| `pc`, `up` | the goroutine of `handleTCPConn`, and the one it starts to copy from client to backend |
| `timer` | `SetDeadline` of the client's socket |
| `sock`, `br`, `got` | sent by the client and not read, read into the `bufio.Reader`, received by the backend |
| `bsock`, `out`, `rcvd` | sent by the backend and not read, written to the client, received by it |
| `client`, `back` | each peer: open, has ended its sending half, has broken off |
| `Start`, `ReadLine`, `LineFails`, `Verified`, `Refuse`, `Dialled` | `handleTCPConn` up to the two copies |
| `UpCopy`, `UpEnds`, `CloseWrite` | the second goroutine |
| `DownCopy`, `DownEnds` | the copy from the backend, and the deferred closes after it |

What peers send is numbered items, the handshake line being one; a read takes
one item, but `ReadString` may find any number of them behind the line. A guard
that closes a socket with unread bytes in it, or whose client sends on, resets
the connection (`closed`), and the client then loses what it has not read; this
is how TCP behaves and is marked external. Errors of `io.Copy` are dropped, so
that a client that breaks off is an orderly end to the backend; `Pipe` allows
that once a peer is `broken`. In open mode there is no line and no deadline.

`Pipe` is instantiated twice: `UpPipe` (what the client sends after the line,
what the backend gets, `CloseWrite`) and `DownPipe` (what the backend sends, what
the client gets, the end it is shown).

### ReverseProxy

| Model | Code |
|---|---|
| `hdr[t]` | the kinds of header the request has at each stage: `Director`, `HopByHop` (in `net/http`), `Strip` (`stripRoundTripper`) |
| `rec[t]`, `shown[t]` | `statusRecorder.code`, and the status the visitor got |
| `Inform`, `Answer`, `Fails`, `Aborts` | a 1xx answer, `ModifyResponse`, `ErrorHandler`, a panic of `ReverseProxy` |
| `idle`, `BodyEnds`, `IdleEnds` | connections left in the pools of the Transports, and `IdleConnTimeout` |
| `Count` | `withStats` takes the code |

`address` stands for every header of `stripReq` that tells who or where the visitor
is. `X-Sealed-Name` and `X-Sealed-Visitor` are the guard's; a visitor may send
headers of the same names (`own name`, `own visitor`), which `Header.Set` replaces
and nothing else removes. `HopByHop` also removes whatever header the visitor's
`Connection` names. `forwardIP` is `SEAL_FORWARD_IP`, a variable that keeps its
first value, so that the run takes both. Upload and stream last as long as the
visitor likes: only `waiting` has a timeout. Path trimming, the removal of keys from
the query, and what `ModifyResponse` does to the answer's headers
(`sanitizeLocation` among it) are left out, being functions of one request or
answer.

### Dashboard

`Served` is the return of the handler; `CountTotal`, `CountKind` and `PushLog` are
the rest of `withStats`, in its order. `Status` loads one field per step, the mode
first, as `handleAdmin` does, then port checks of 2 s each, then the total and the
counters; `Refresh`, `Show` and `Lost` are the script of the page. Two counters
stand for all of them; a log entry is its kind; `LogCap` is 200 in the code.
As the total is loaded before the counters, an answer's counters may add up to more
than its total; `CountersAhead` says by how much. The page's own questions are
requests too. They are left out, being of no counted kind; they add to the total,
which is why `CatchesUp` speaks of the mode and the counters and `page` keeps those.

### FrpUpdate

`Start` is `read_current`, `Fetch` and `Ends` the checks of `main`, `Verified` is
`verify_configs`; `TruncateCompose`, `WriteCompose`, `TruncatePin`, `WritePin` are
`open(..., "w")` and the write of each file. `Killed` is a kill, or an exception
while a file is written. A version has two parts of the three. Runs come one
after the other: two at once are not modelled.

## Runs

| Run | Shows | Bounds |
|---|---|---|
| `burn` | `AtMostOnce`, `NoLostBurn`, implements `OneShot` | 3 goroutines: two that race and one that comes between; an HTTP link, a TCP link, a forged one; 3 instants, so that links expire at different times; any number of kills |
| `burn_live` | no link is spent in vain, every request is answered | 2 goroutines, one link, every file operation may fail, any number of kills |
| `room` | quota, exact counts, ticket reach, bounded store, separate rooms | 2 goroutines, the rooms `1` and `1:2`, of which the second begins like the first and reads like an entry of it, quota 1, rounds 1 to 4: a ticket's two rounds, one pruned and one to come; `MaxLag` 1 |
| `toggle` | the saved mode is that of the last save, settings survive, never open by itself | 2 admins, opening, writing and renaming may fail, any number of toggles, kills and new containers |
| `py` | lock ownership, single use without overlap, no wasted burn, everybody answered | 2 threads, 2 links, all six file operations may raise, any number of kills |
| `guard` | no way past the checks, honest counters, implements `OneShot` | 2 goroutines, 1 link, 4 requests of any kind |
| `rate` | in Go any minute lets through less than twice the limit; no refusal without cause in either guard | 2 addresses, 2 threads, limit 2, a minute of 1 tick, 4 instants: two buckets in a row, and a write that comes a bucket late |
| `splice` | both directions implement `Pipe`, no session is ended silently, nothing waits for ever | 3 items each way: the line, one that comes along with it and one behind; a client's socket that takes 1 |
| `proxy` | discretion, counted codes, nothing stays for ever | 2 goroutines, 3 requests with any headers, `SEAL_FORWARD_IP` on and off |
| `keep_alive` | connections are not kept in a pool (violation) | 1 goroutine, 2 requests, a pool of 1 |
| `dash` | newest entries in order, nothing shown that has not happened, the page catches up | 2 handlers, 2 polls at once, a log of 1, 2 requests, 1 toggle |
| `update` | the pin stays behind the compose file and on its track, kills between the files heal | 2 majors of 3 minors, stable or not, 3 tracks, any number of runs and kills |

`MaxPasses` and `MaxHits` bound what visitors present, and `MaxTime` and `MaxRound`
the clock. In `burn`, `MaxPasses` is above what any link reaches, so it cuts nothing
off. In `burn_live`, where burns get lost, and in `py` a third visit of a link is
cut off: `passes` above 1 already needs an overlap or an error, and two visits reach
it. Two threads are enough for its hazards, each of which is one thread late or
failing behind another; the theorems cover any number. In `guard`, four requests are
a toggle, a visitor before it, one after it and one more that comes back; `MaxReq`
is a bound on the behaviour and not on the code. In `toggle`, the mode, the file and
the `.tmp` have finitely many contents, so nothing is bounded but the admins. In
`dash` a log of 1 and 2 requests make the ring drop an entry; the order of a longer
log is left to the theorem `LogCorrect`, which holds for any size, as 3 requests and
a log of 2 take TLC more than five minutes. A third poll would be like a second. In
`update`, three releases are one before a kill, one after it and one the track does
not allow. `proxy`, `splice` and `update` switch the deadlock check off: a
connection, the requests of a bounded behaviour and a pinned updater really come to
an end. `room` declares goroutines interchangeable; it has no liveness property, so
this is sound. Its rooms are not, having different names.

Fairness, in `FairSpec` (`DashFairSpec` of `Dashboard`). A goroutine that can take a
step takes it (the Go scheduler is fair, file operations return, and backend calls
have timeouts: weak fairness of `Running`). A goroutine that waits for `muUsed` gets
it if the mutex is free again and again: strong fairness of `Lock`, because
`sync.Mutex` goes into starvation mode after 1 ms and hands the lock to the longest
waiter. In `PyStore` weak fairness of `Running` is enough: the loop of
`_acquire_lock` ends after 5 s whatever the lock does, and `_proxy` has a timeout.
In `TcpSplice` both goroutines run, and dials and deadlines end; nothing is assumed
of the peers, so `NeverStuck` excepts a client that does not read. In `ReverseProxy`
what waits for the backend has `ResponseHeaderTimeout` and idle connections have
`IdleConnTimeout`. In `Dashboard` handlers run, the page's timer fires, the status
API answers, and not every answer of it is lost (strong fairness of `Show`). In
`FrpUpdate` runs are started again and again, and a step that is possible again and
again succeeds sometimes: the timer's schedule, a network and a disk that work now
and then (strong fairness of each step, weak of `Start`). Nothing is assumed of
visitors, of the clock or of kills. "Answered" means that the answer's headers are
out; a stream that follows may last for ever.

The violation is a disagreement between a document and the code, quoted in
`findings`: `guard-go/README.md:8` claims a pool of kept connections, and every
request makes a Transport of its own. Other disagreements are visible in the
models and have no run of their own; each is one changed constant or invariant
away:

- `README.md:10` says that a link dies after one click, but HTTP and TCP burn
  different keys (`Key` of `BurnStore`): one link passes once on each.
- The comment of `defaultStore` (`main.go:112`) wants a store that cannot be
  written to be noticed; it is tested at startup only. With `Fault = {"short"}`
  `NoLostBurn` is violated.
- `README.md:86` caps the visits of a round; on TCP they are not counted
  (`TcpAdmit`), so a leaked ticket, which `README.md:85` lets die after two rounds, is
  until then good for any number of TCP connections.
- `guard-go/README.md:46` says that a toggle persists. A save that fails is answered
  like one that does not (`CreateFails`, `WriteFails`, `RenameFails`); of two saves at
  once the file may keep the other one (`SavedIsLast` without `~overlapped`); and a
  restart of the container forgets the toggle (`Restart`).
- `scripts/vps-deploy-service.sh:4` changes the mode by editing `.env` and
  `docker compose restart guard`; a restart keeps the environment (`Restart`), only a
  new container has the new one (`Recreate`).
- `README.md:173` keeps the visitor's address from the backend by default. A
  visitor's own `X-Sealed-Visitor` is passed on then (`Discreet` says what is not).
- `README.md:172` has internal `Location` headers stripped; `sanitizeLocation` of the
  Go guard passes host names without a dot, which that of `guard.py` does not.
- The counters of `guard-go/dashboard.go` count by the raw path, the router trims
  slashes: `//t/<name>/` is a sealed visit that counts as open (`Request` of `Guard`).
- The docstring of `try_burn_sealed` (`guard.py:113`) calls it atomic; a wait of 5 s
  ends it (`BurnSafe` without its premise).
- `main.go:464` calls the proxy friendly to WebSocket; the `Director` removes
  `Connection`, so that an upgrade does not survive `HopByHop`.

## Proofs

`BurnStoreProofs`, for any set of goroutines and links, any expiry times and
kills at any step:

- `TypeCorrect`: types, with no assumption on faults.
- `BurnUseful`: `NoWastedBurn`, with no assumption on faults either. A list that is
  read as empty, half written or left over from an earlier burn may forget links,
  but every key in it belongs to somebody who passes: `BackedInv` says so of what
  goroutines have read and of `.tmp`, since whoever is past the read in
  `tryBurnSealed` passes unless killed.
- `SingleUseCorrect`, `BurnDurable`, `Refinement`: `AtMostOnce`, `NoLostBurn` and
  the implementation of `OneShot`, when links are single-use and file operations
  succeed (`NoSilentFault`). Without the second assumption TLC finds `NoLostBurn`
  violated.

The argument of these three is the invariant `IInv`. `AtMostOnce` says nothing of a goroutine
that has read the file and not yet replaced it, so it is not inductive. `IInv`
adds that exactly the holder of `muUsed` is inside `tryBurnSealed` (`MutexInv`);
that what the holder read is still what the file says, that its key is still
missing there, and that once written `.tmp` is the file plus that key
(`SectionInv`); and that a goroutine on its way to the backend has its key on
disk, alone, and nobody has passed with it before (`PassInv`). A kill empties
the section and leaves the files, which `SectionInv` and `PassInv` survive.

`LimitProofs`, of `RoomQuota`, for any goroutines, rooms, quota and number of
rounds:

- `TypeCorrect`, `StoreCorrect`: no assumption; entries of a room lie within
  `MaxLag + 1` rounds of each other.
- `RoomsApartCorrect`: for rooms whose names are sequences of any parts, numbers
  among them. What is before the last part of a key is its room and nothing else
  (`KeyParts`), so the loop of `tryIncRoom` changes the entries of its own room only
  (`CountVisitValue`).
- `RefusalCorrect`, for any `MaxLag`: whoever is told "room round full" is in a round
  that has let its quota through. Pruning forgets visits and invents none
  (`NoneInvented`), so late requests may get too much but take nothing from others.
- `QuotaCorrect`, `CountsCorrect`, `TicketCorrect` (HTTP visits): for `MaxLag <= 1`. Then a
  visit is counted in this round or the one before, and pruning by a request of
  either keeps both, so that the file agrees with what was let through
  (`CountsExact`), which is what makes the quota inductive. With `MaxLag = 2` the
  quota fails: a request two rounds late counts in a round whose entry a later
  request has pruned. It takes a request that stalls for more than
  `SEAL_ROTATE_SECS`.

`LimitProofs`, of `RateLimit`, for any addresses, threads and limit (also 0 and
below) and a minute of any number of ticks:

- `RateTypeCorrect`: types, and that no bucket exceeds `Cap`, which for the Python
  guard also needs it of what threads are about to write (`TodoInv`).
- `DenialCorrect` (`JustDenial`), in Go and in Python: a bucket counts no more than
  was let through since it opened, and one that a thread will write no more than
  that and the thread's own request (`BackedInv`). A thread that writes back an old
  bucket puts back an older start too, so lost updates only make counts too low.
- `BurstCorrect` (`BurstBound`), in Go: `ExactInv` says that a bucket counts exactly
  what was let through since it opened, that nothing passed after it ran out, that
  it opened with a request, and that in the minute before that one less than `Cap`
  passed. The last two are what keeps two adjacent buckets below twice the limit.
  The mutex is why it is exact, and it is not for `PyIP`.

`ModeToggleProofs`, for any admins, overlaps, faults and kills: `TypeCorrect` and
`NeverOpensCorrect`. The running mode alone is not inductive, as it is read back
from a file: `OpenInv` says that before an admin asks for it, `open` is neither
in the running mode, nor in a file, nor in a toggle under way, and that writing
one such content over another does not make it.
`SavedCorrect` and `SettingsCorrect` rest on `AloneInv`: while no two toggles have
overlapped, one at most is under way, its descriptor is on `.tmp`, which is empty
before the write and holds the new settings after it. `SavedCorrect`
(`SavedIsLast`) has no premise on faults: a save that fails leaves `ADMIN_ENV_FILE`
and `due` as they were. `SettingsCorrect` assumes that `ADMIN_ENV_FILE` can be read.

`PyStoreProofs`, for any threads, links, exceptions, timeouts and kills; the only
assumption is that there are finitely many links, as the length of a list counts:

- `TypeCorrect`, `LockCorrect` (`LockSafe`): a thread that is done owns no lock file, and one
  inside owns it unless it gave up waiting (`OwnInv`), so that sections overlap
  only after a timeout.
- `SingleUseCorrect` (`BurnSafe`): while there was no overlap and no error, one thread at most
  is in the section (`Alone`), what it read is still what the file says and `.tmp`
  is what it wrote (`SectionInv`), and whoever is let through has its key on disk,
  alone and first (`PassInv`). The premise never comes back once lost, so each
  step may assume it of the state before.
- `BurnUseful`: with overlap and errors too, every key on its way to `USED_DB`
  belongs to somebody who passes (`BackedInv`), in the file, in `.tmp` and in what
  a thread has read; and who is on the way to pass does not leave it
  (`BackedStable`).

`GuardProofs`, for any goroutines, links and requests:

- `TypeCorrect`: types.
- `CountersCorrect` (`CountersHonest`): between two counters of one request the sums
  are off by the requests in between, so `CountInv` counts those too: the kinds and
  who has counted only in the total make up no more than the total, and each kind
  of success and who has been answered with 200 and not yet counted no more than
  the visits. These are cardinalities of sets of goroutines; each step adds one
  goroutine to a set or removes one, and only finitely many are busy. Visits are
  told apart by the raw prefix, which is what `Kind` takes.
- `NoBypassCorrect`: an open mode has been seen by every request under way
  (`OpenInv`), and everybody else on the way to the backend has passed a check.
- `LinksCorrect`, that the guard implements `OneShot`: whoever is at a check has
  read the mode as sealed (`CheckInv`); who holds a burnt link holds it alone and
  as the first (`HoldInv`); a key that is not burnt let nobody through
  (`FreshInv`).

`TcpSpliceProofs`, for any number of items and any size of the client's socket:

- `NoSilentEndCorrect` from `CtrlInv`: where the goroutines are, what the deadline
  and the backend are then, and why the connection was closed.
- `UpCorrect` from `UpInv`: what the backend has, what the reader holds, what the
  socket holds, is in this order a run of consecutive numbers (`Run`) that makes up
  what was sent; so a step of the goroutine is `Deliver` of `Pipe`, and when the end
  is passed on nothing is left, unless a peer broke off.
- `DownCorrect` from `DownInv`: the same of the other direction. The end is shown
  only after the guard closed in an orderly way, and it does that only when
  everything was written.

`ReverseProxyProofs`, for any requests and either `SEAL_FORWARD_IP`: `DiscreetCorrect`
from `HeaderInv` (what kinds of header a request may have at each stage: the
guard's own from the `Director` on, the visitor's claims to them not any more, the
addresses gone only after `Strip`), `CountedCorrect` from
`AnswerInv` (how the recorded code, the one shown and the 1xx answers relate).

`OperatorProofs`, of `FrpUpdate`, for any versions: `PinCorrect`. That the pin is behind is not
inductive, as a run goes to what it fetched earlier: `IInv` adds that a run's new
version is allowed from the pin it read, and is in the compose file by the time the
pin is written.

`OperatorProofs`, of `Dashboard`, for any handlers, polls and size of the log:

- `LogCorrect` (`NewestFirst`): the log is the end of all that was ever logged, as
  long as it may be (`RingInv`), which `Kept` preserves (`KeptLast`) and from which
  `Logs` reads backwards.
- `AheadCorrect` (`CountersAhead`): as in `Guard`, the handlers between two steps of
  `withStats` make up for the difference between log, kinds and total (`AheadInv`).
  As total and counters only grow, what a question loaded earlier is not ahead of
  what they are now (`PollsCovered`), so its counters exceed its total by no more than
  what the total has grown since.

Every safety invariant and action property that a run checks is proved, and so are
the implementations of `OneShot` and `Pipe`. Only model-checked is liveness
(`Answered` of both stores, `NeverStuck`, `NothingLeaks`, `CatchesUp`, `Heals`),
which is out of the prover's reach; and `KeepAlive`, which is violated.
The assumptions of the proofs are those each module states of its constants, and
the four named above: `NoSilentFault` and single-use links for `BurnStore`,
`MaxLag <= 1` for the quota, a readable `ADMIN_ENV_FILE` for `SettingsCorrect`,
finitely many links for `PyStore`. The bounds of the runs (`MaxReq`, `MaxTime` and
the like) are constants of any value in the proofs.

## Plan

Done: the Go guard but for its start-up, the burn and the rate limit of the Python
guard, the updater; proofs of every safety property that is checked. Left, in this
order:

1. Proofs of what holds where an assumption fails: which settings survive toggles
   that overlap, and what of `BurnSafe` survives a wait that was given up.
2. `defaultStore`: a guard that is restarted while its volume cannot be written
   chooses another, empty store. `CrashRestart` of `BurnStore` would choose
   between two files.
3. `try_inc_room` of the Python guard: the counting of `RoomQuota` behind the lock
   of `PyStore`.
4. The order of checks in the Python request handler, compared with `Guard`.

## Not modelled

HMAC and HTTP parsing (what is minted is a set, as no one can mint without the
secret), path and query rewriting, the headers of answers (`sanitizeLocation`,
`Server`), the layout of the HTML page, the cut of a settings file at 64 KB, calls
to the frps dashboard, deployment scripts, the tests. `RoomQuota` takes the wall
clock to be monotonic; a clock set back by more than a round would bring pruned
rounds back. Two guards on one store are not modelled: the code has no lock between
processes in Go, and its README asks for another store then.
