# termnav in TLA+

termnav moves the user's focus through a stack of terminals: Neovim splits,
tmux panes, tmux inside tmux, SSH, and the tabs of the terminal that hosts it
all. There is no daemon. Every gesture starts short-lived processes, and what
they agree on lives in files, tmux options and sockets. This directory holds
TLA+ models of the parts where those processes meet, the TLC runs that check
them on small instances, and TLAPS proofs for instances of any size.

Paths below are relative to the repository; `store.rs` stands for
`src/relay/store.rs`, `server.rs` for `src/relay/server.rs`.

## The system

| component | state it keeps | operations | talks to |
|---|---|---|---|
| directive store (`relay/store.rs`) | one directory per tmux server: `NONCE.json`, `NONCE.result`, `.poison-*`, `.seq`, a lock file | arm, mark_committed, read, claim, record_result, discard, wait_for_consumption | relay servers and commit processes, through the file system |
| relay handlers (`relay/server.rs`) | none of their own beside the store | navigate, prepare-path, commit-path, abort-path | the store, tmux, the next relay outwards |
| relay server (`relay/server.rs`) | order gate (next ticket, ticket served, stopping), handler threads, socket path, last focus token | accept, read a request, wait for a turn, dispatch, stop on owner close or signal, drain | its SSH supervisor (owner pipe), clients (socket) |
| focus leases (`focus.rs`) | tmux pane option `@termnav_child_focus` = token and deadline; lock files | claim, renew, release, expire, watch, stop | watchers in inner tmux servers, relays, tmux hooks |
| pane style (`focus.rs`) | pane options for the override, the saved style and the unfocused mark | set and clear unfocused, style set-up and restore | focus leases share the saved style |
| router (`navigation/mod.rs`) | one gesture's walk outwards | choose a client, execute in the innermost scope that can, continue outwards | backend (`navigation/system.rs`) |
| ssh supervisor (`ssh.rs`) | relay thread, forwarded socket, ssh child, owner pipe | start relay, wait for ready, run ssh, pass signals on, cancel the forward, stop the relay | relay server, ssh and its mux master |
| VS Code controller (`share/termnav/vscode/.../extension.js`) | latest observation per source, owner with lease, publish chain | claim, release, terminal and window events | Neovim publishers (`vscode.rs`, `vscode-focus.lua`) |
| attention (`attention.rs`) | tmux option with pending and failed counts | publish, forward to the owner's terminal | relay, terminal |
| process runner (`process.rs`) | a child, its output, a deadline | run with timeout and byte cap | everything that calls tmux |
| link following (`click.rs`) | none that outlives a click | find the text under the click, decide where it goes, report | tmux, the next two |
| nvim open (`nvim/*`, `nvim-tmux-open.lua`) | registry files: an owner record per editor, the latest record and an owner marker, per pane and for all | publish, clean up; find an editor and ask it | Neovim, tmux, ssh |
| browser delivery (`browser.rs`) | none | find the client that clicked, follow it through nested tmux servers, write to its terminal | tmux, terminals, `$BROWSER` |

What is hard about it:

- **One reply without a name.** The relay asks the outermost terminal a
  harmless question and acts when the answer comes back through tmux. The
  answer carries no nonce. The store must guarantee that at most one gesture
  of a physical client can be meant, across timeouts, crashes and several
  relay servers.
- **Files as shared memory.** The lock file covers single file operations;
  receipts, poison files and tmux commands are outside of it.
- **Leases.** A focus claim is renewed by a watcher in another tmux server and
  expired by a helper process; all three may die or be late.
- **Threads of the relay server.** Up to 64 handlers queue at a ticket gate
  that a signal or the death of the SSH supervisor closes.
- **Snapshots.** The router, the opener of a link and the browser request
  decide on lists of clients, panes, rows and records that are old when they
  are used; clients detach and come back as other processes, screens scroll,
  editors end.
- **Other programs.** ssh, tmux, editors and browsers are called behind
  deadlines. A call that is late may have worked, and a few waits have no
  deadline after all.
- **Asynchronous validation.** The VS Code controller and the attention
  forwarder check an identity, wait, and use it.

What makes each component correct:

- store and handlers: a gesture moves the focus at most once and only on the
  reply to its own query; `armed` is answered only for a gesture that
  happened; a client is closed (poisoned) exactly for a lost reply; a request
  is always answered;
- relay path: the same, seen from the innermost caller, with one store per hop;
- relay server: one navigation handler at a time, in ticket order; nothing
  admitted after the gate stops; all handlers end; the last focus claim is
  released;
- focus leases: only the newest generation is released or expired; a claim
  nobody renews goes away; a restored pane has the style it had;
- router: at most one effect per gesture, none after an uncertain outcome, on
  what the typist shows and through the typist's own clients;
- process runner: a call ends by its deadline, unless a descendant away from
  its group holds the output, and leaves no child and none of its group;
- ssh supervisor: no socket, child or relay outlives the command, and no
  forward but one at the mux master when waiting for ssh has failed; a signal
  ends it; the sweep takes no path from a live relay;
- links: what opens is what was clicked, once, in an editor that is there, or
  in the browser of the user who clicked;
- VS Code controller: an older observation never overrides a newer one.

## Modules

| module | models | checked by | proved in |
|---|---|---|---|
| `Gesture` | what a relay promises for one request, whatever carries it out | refined by the next two | |
| `DirectiveStore` | the store, the navigation handler and the commit process, for tmux clients in a direct terminal | `MCDirectiveStore` | `DirectiveStoreProofs` |
| `RelayPath` | the four path operations over several relays, and the answer on its way inwards | `MCRelayPath` | `RelayPathProofs` |
| `Turnstile` | a queue served one at a time in ticket order until it is closed | refined by `RelayServer` | |
| `RelayServer` | the poll loop, handler threads, order gate, shutdown | `MCRelayServer` | `RelayServerProofs` |
| `FocusLease` | the claim on one pane: watchers, stop processes, expirers | `MCFocusLease` | `FocusLeaseProofs` |
| `PaneStyle` | the style of one pane under claims and focus changes | `MCPaneStyle` | `PaneStyleProofs` |
| `Router` | one gesture after another, routed outwards over a world that moves | `MCRouter` | `RouterProofs` |
| `BoundedCall` | how another program is run behind a deadline | with the next | with the next |
| `SshSupervisor` | `termnav ssh` with its relay thread, session, forward and sweep | `MCSsh` | `SshSupervisorProofs` |
| `ClickText` | the text under a click on a screen that changes | with `Link` | |
| `EditorRegistry` | the registry as editors write and openers read it | with `Link` | `LinkProofs` |
| `BrowserPath` | a URL on its way to the user who clicked | with `Link` | `LinkProofs` |
| `Link` | the composition of the three: a click is followed | `MCLink` | `LinkProofs` |

How they fit: `RelayPath` uses one directive store per hop, coarser than
`DirectiveStore`; a request's turn at a hop is what `RelayServer` provides,
and `DirectiveStore`'s `Begin` and `RelayPath`'s `Turn` rest on its gate. The
claim `FocusLease` writes is the one `PaneStyle` takes as a reason to dim and
`RelayServer` remembers for a relayed publisher. `Router`'s `Relay` is a
request of `Gesture`: at most one move, and an answer that may be lost.
`SshSupervisor` keeps of `RelayServer` only whether it is still busy; its
`HandlerEnds` rests on `AcceptedIsFinished`.

Definitions whose comment says "fault" are seeded faults: each is what a
plausible slip in the code would make of the definition that follows, and a
property must catch it. No specification uses them.

### DirectiveStore

Processes: a handler per request (`pc`), a commit process per terminal reply
(`reply`), and the relay servers as the owners of handlers (`alive`). Files:
`dir` and `seq` are `NONCE.json` (`prepared` is `ready: false`, `ready` is
`ready: true`, `claimed` is `claimed: true`), `receipt` is `NONCE.result`,
`poison` the `.poison-*` files, `lastSeq` is `.seq`. `effects` counts what the
user sees: how often a request has moved the focus.

| action | code |
|---|---|
| `Begin` | the request gets its turn at the order gate and resolves its client (`handle_navigate`) |
| `Arm`, `ArmRefused` | `Store::arm` with `matching_exists`, under the lock |
| `MarkCommitted`, `EmitCommit` | `validate_directive_client` and `mark_committed`; `emit_commit` |
| `DiscardDirective`, `DiscardReceipt` | `Store::discard` |
| `TakeReceipt`, `NoReceiptYet`, `ReadDirective`, `TimeOut`, `RemoveExpired`, `UnlinkReceipt`, `PoisonClient` | `wait_for_consumption`, one action per file operation |
| `Crash` | the relay server is killed; `pid_alive` of its directives turns false |
| `Spawn`, `LoseReply` | tmux starts `termnav relay commit` for a reply, or the reply is lost |
| `ClaimDirective`, `ClaimNothing` | `Store::claim` with `load_claimable`, under the lock |
| `ClaimInvalid`, `Execute` | the middle of `commit()`; a tmux command that timed out may have worked |
| `PublishReceipt`, `RetireDirective` | `record_result`, the receipt outside of the lock |
| `CommitCrash` | the commit process is killed |

Time is not a number: `TimeOut` may happen whenever a handler waits, and which
unready entries have outlived `PREPARE_STALE` is chosen freely. A stray reply
(`Strays`) is an answer to someone else's DECRPM query, which tmux hands to
`commit` all the same. Two relay servers share a client when their SSH
sessions run in panes of one tmux client (`Routes`).

Left out: failures of single file operations other than by a crash (a full
disk), a crash inside a critical section, corrupt JSON.

### RelayPath

Hops are numbered outwards. Each has a queue (the tickets of its gate), at most
one running handler (`run`: the request, the operation, where it stands, what
it asks its parent for and what it heard) and, unless it is `Plain`, a store
for its one client. `caller` is the process that sent the request with
`send_navigation`. `key` is the answer to a request's query as it comes
inwards, from the outermost tmux client to the hop that executes.

| action | code |
|---|---|
| `Call`, `CallerGivesUp` | `send_navigation` and its `RELAY_TIMEOUT` |
| `Turn` | `OrderGate::enter` |
| `NavigateHere`, `NavigateOut`, `Unresolved` | the branches of `handle_navigate`; `Unresolved` also of the other handlers |
| `Dispatch`, `Dispatched` | `dispatch_terminal` |
| `Arm` | `Store::arm` in `handle_navigate` and `handle_prepare` |
| `PassOn` | `handle_prepare` and `handle_commit` of a hop without tmux |
| `Send`, `GivesUpReply`, `Hear*` | `client::send` and what each handler does with the reply |
| `Commit`, `CommitFails`, `Emit`, `Discard` | the second half of `handle_navigate`, and `handle_commit` |
| `AbortPath` | `handle_abort` |
| `TakeReceipt`, `GivesUpReceipt` | `wait_for_consumption`, in one step each |
| `Claim`, `Run`, `LoseKey` | the commit process of a hop: forwards the key or executes |
| `Crash` | a relay dies with its queue; it does not come back |

The deadlines (8 s for a call, 6 s for a receipt, 30 s for an unready entry)
are not numbers: each may pass at any time. `disturbed` records whether any
call, process or deadline has failed.

### RelayServer

A connection goes from the backlog through `reading` to the gate (`enter`,
`draw`, `lock`, `sleep`, `waiting`), is admitted, dispatched and leaves, or is
a focus update that never meets the gate. `mutex` is the mutex of `serving`;
waiting on the condition variable is split into the decision to wait (`Look`,
which keeps the mutex) and the wait (`Sleep`), because that is where a wake-up
could be lost: `stopping` is set under the same mutex. The loop's places are
those of `poll_loop` and `serve_inner`: poll, accept, stop, join, release,
unlink. `Turnstile` is what the gate promises.

| action | code |
|---|---|
| `PollReturns`, `Accept`, `LoopFails`, `LoopStop`, `Join`, `Unlink` | `poll_loop`, `serve_inner` |
| `ReadRequest`, `CheckOwner`, `Dispatch`, `Reply` | `handle_connection` |
| `Enter`, `DrawTicket`, `Look`, `Sleep`, `Leave`, `Shut`, `WakeSpuriously` | `OrderGate` |
| `FocusBegin`, `FocusUpdate`, `ReleaseClaim` | `RelayFocus` under its mutex |
| `OwnerCloses`, `Signal`, `PaneChanges`, `Connect` | the surroundings |

The guard of the socket path and the sweep of stale sockets are in
`SshSupervisor`.

### FocusLease

A watcher goes `start`, `lock`, `armed` (lock taken, SIGTERM still deadly),
then round `look`, `clear`, `decide`, `claim`, `expirer`, `sleep`. Its token
stands for it; `claim` is the token in `@termnav_child_focus`, `overdue` says
that its deadline has passed, `same[e]` that expirer `e` would still find the
very value it read. `pidFile` is what a stop process reads to find its victim.
`signalled` is the flag `WATCH_STOPPING`; its value "late" is history and says
that the signal came between the watcher's test that drops older signals and
the test that ends its loop.

| action | code |
|---|---|
| `FocusIn`, `FocusOut`, `Detach` | the hooks of the inner tmux server |
| `WatchStart`, `WatchLock`, `InstallSignals`, `Look`, `DropSignal`, `Decide`, `Sleep` | `watch` |
| `Claim`, `ClaimFails`, `StartExpirer` | `claim`, `start_expirer` |
| `Release` | `release` with `clear_exact` |
| `StopLook`, `StopKill` | `stop_watch` |
| `ExpireLock`, `ExpireRead`, `ExpireReadFails`, `ExpireWait`, `ExpireRemove`, `ExpireQuit` | `expire` with `clear_exact` |
| `DeadlinePasses`, `Kill` | time; SIGKILL |

A tmux call may fail `MaxFailures` times; one that times out may have worked.
A watcher is started by focus-in only: client-attached starts it the same way.
A child whose parent is reached through a relay is `RelayServer`'s
`FocusUpdate`.

### PaneStyle

`pane` is a record of the four options a mutation touches: the style, the saved
style (the restore marker), the mark `@termnav_client_unfocused` and the claim.
A mutation (`Claim`, `Clear`, `Dim`, `Undim`) holds the pane's lock and is one
step made of one to three tmux calls (`Calls`), with the rollback the code has
for each. `Views` is what its reads return: an option whose read fails looks
unset. Hook processes (`Check`, `Look`, `Apply`, `Recheck`) decide before they
take the lock. `failed` and `missed` are history.

| action | code |
|---|---|
| `Claim` | `claim` with `inactive_style_setup` and its rollback |
| `Clear` | `clear_exact` with `restore_arguments` |
| `Dim`, `Undim` | `set_client_unfocused`, `clear_client_unfocused` |
| `Look`, `Apply` | `sync_client_style` |
| `Check`, `Recheck` | `watch` and `stop_watch` around it |
| `FocusIn`, `FocusOut`, `Select`, `Configure` | the hooks, and the user's option |

One pane: the move of the focus between panes of one window starts `sync` for
both, which `Select` stands for. Left out: a user who edits the override while
termnav dims the pane, and a marker that does not decode.

### Router

The world is the set of tmux clients (`at`, `gen`, `focus`, `typed`), what
their sessions show (`cur`, `act`) and a clock; `World` and `Tick` change it
between any two steps of the router. The router is one process per gesture
(`Press`, `PressOutside`, `Again` for the next key of a burst) that stands at
`pc` and holds a scope, at most one client, and the panes it has visited. A
listing that fails returns nobody. `count` is how often the gesture has taken
effect anywhere; `carriers` are the client processes the key press came
through, `sure` whether their claim to the gesture still stands: it lapses
when one of them moves or loses the focus, when a rival types too soon, and
when the burst itself has hidden the pane a client or the next process runs in
(`Seen`).

| action | code |
|---|---|
| `Start` | `commands/navigate.rs`: which of `route`'s entries, with or without a continuation |
| `RefreshScope`, `RefreshDisplay`, `RefreshClient` | `refresh_scope`, `refresh_client` for a continuation |
| `Admit`, `LookOutward`, `LookRelay`, `LookTerminal` | `validate_client`, before each boundary |
| `InspectScope`, `InspectClient` | `enter_scope` before the attempt |
| `SelectNeighbour`, `MovePane`, `SelectTab`, `MoveTab`, `SwapWindow`, `Revisit`, `CallFails` | `execute_once` and the tmux command queues of `system.rs` |
| `Resolve` | `resolve_client` |
| `FindParent` | `parent_scope`, from the environment of the client's process |
| `Relay` | `relay` of the backend |
| `Terminal`, `FirstPost`, `Initialize`, `SecondPost` | terminal tabs: WezTerm, the VS Code socket, `vscode_mcp` with its one retry |

`ChooseClient`, `Freshest` and `ReselectClient` are the functions of the same
names.

### BoundedCall and SshSupervisor

A call (`BoundedCall`) has a child, at most one descendant that holds the
output open (`heir`, in the child's group or away from it), a pipe of
`PipeCap` units and a deadline that may pass at any time. `TryWait`, `Drain`,
`Turn`, `Collect` and `Reap` are the steps of the polling loops; `Killed` is
`kill_owned_group`. The three kinds are `output_timeout`, `status_timeout` and
`output_timeout_draining_limited`.

| action of `SshSupervisor` | code |
|---|---|
| `Classify`, `TakeConfig`, `SetUp` | `run` up to the thread: which calls are plain; `ssh -G` is a `BoundedCall` |
| `WaitReady`, `GiveUp` | `wait_for_socket` and what follows its failure |
| `SpawnSession`, `Reaps`, `SeesRunning`, `LooksForSignal`, `GraceOver`, `KillDeadline`, `KillSession`, `WaitFails` | `wait_for_ssh` |
| `Join`, `CancelForward` | the end of `run`, `cancel_forward`; after `WaitFails` the command ends without it |
| `BeginRelay`, `Bind`, `Listen`, `Settle`, `Announce`, `Accept`, `StopPolling`, `PollFails`, `Drained`, `RemovePath` | `serve_inner` on its thread, the socket path guard |
| `SessionForwards`, `SessionExits`, `Signal`, `Crash` | the surroundings; a signal that arrives before the handlers are installed is a `Crash` |
| `Ages`, `SweepLook`, `SweepRemove` | `sweep` by another connection; a path is not a minute old before its `bind` returns |

### ClickText, EditorRegistry, BrowserPath, Link

`ClickText` computes what tmux captures, with and without `-J`, from logical
lines, and models `from_joined_capture` as a function of two captures. Rows
scroll away and are redrawn between tmux's report of the click and each of the
three captures, and a screen may also come back. The code compares the first
capture with the third: a screen that left and is seen again looks as if it had
never moved, and nothing in the code could tell. `past` records the captures
that were left behind, and `CameBack` names this one case, of which `RightText`
says nothing.

`EditorRegistry` has editors that publish five files one by one, clean up in
four steps or crash, and an opener that lists panes, reads records and asks
sockets. An editor that does not answer may run the request later (`queue`,
`OpenLate`). `lost` records that a request went unanswered, or that keys were
typed for an editor that had gone. An editor's success answer counts as the
file opened: the Lua handler answers as soon as it has taken the request on, and
schedules the opening itself (`nvim-tmux-open.lua:425-433`).

`BrowserPath` follows a request from the client that clicked to the terminal
behind it, through at most `MaxDepth` tmux servers, then tries `$BROWSER` and
then shows a message.

| action | code |
|---|---|
| `ReadClick` (`ReaderStep` of `ClickText`) | `resolve` with `from_capture`, `from_joined_capture` |
| `Follow`, `OpenLink`, `Report`, `Finish` | `follow`, `open_link`, `open_url`, `tell` |
| `NameHost` | `local_file_host` of a hyperlink, which may run hostname(1) |
| `AskHost`, `ListPanes`, `NextPane`, `Everywhere` | `open_link`, `current_window`, `registry` |
| `ReadLatest`, `ReadOwners`, `ReadPath`, `AskEditor`, `Exhausted` | `ordered_records`, `open_records`, `open_socket` |
| `TypeKeys`, `OverSsh`, `ByHelper` | `tmux_send`; `ssh_open`, `configured_open` |
| `Publish`, `Write`, `Leave`, `Cleanup`, `Crash`, `Block` | `nvim-tmux-open.lua`, and the editor's fate |
| `FindClient`, `ChooseClient`, `Deliver`, `ParentClient`, `WriteUrl` | `request_click`, `select_client`, `deliver`, `parent_client` |
| `Browse`, `TellClient`, `CheckSession`, `CompareSession`, `Speak` | `open_with_browser`, `tell` |

## Runs

| run | instance | question |
|---|---|---|
| `store_shared` | 2 requests, 1 stray reply, 2 servers, 1 client | which invariants hold however servers, replies and crashes interleave |
| `store_sole_feeder` | 2 requests, 1 server, 2 clients | with one server per client: is every reply its own, is `Gesture` kept, is every request answered |
| `store_two_feeders` | 2 requests, 2 servers, 1 client | finding 1 |
| `path` | 3 hops (tmux, plain, tmux), 2 requests entering at hops 1 and 2 | do answers find their gesture at every hop, is `Gesture` kept, does one get through, do gates come free |
| `server` | 2 navigations, 1 focus update, room for 2 threads | the gate, shutdown, liveness |
| `lease_safety` | 2 clients, 2 watchers, 1 stop, 2 expirers, kills, 1 failed call | who removes a claim, who leaves one behind |
| `lease_liveness` | 1 client, the same processes, kills | does a claim end with the focus and last with it |
| `style` | failing writes and reads | the override survives |
| `router` | 3 clients, 4 panes on 2 servers, a linked window, 2 gestures, 1 move of the world | one effect, fresh looks, the typist's own clients, an end |
| `link` | a 2 by 4 screen with 2 changes; 2 editors, 1 publication, 1 upset; 4 clients of 3 servers, 1 move | the right text, opened once, where the user is |
| `link_padded` | the same screen, lines with blanks, no changes | finding 2 |
| `ssh` | the command, then one call of any kind; `PipeCap = 2`, `MaxOut = 3` | nothing is left, a signal ends it, calls are honest and end |

Six more configurations are kept beside the runs. Each is as small as its
counterexample needs, and TLC finds the property it names violated (findings 3
to 8): `LeaseRefocus.cfg`, `LeaseKilled.cfg` and `LeaseLateStop.cfg` with
`MCFocusLease`, `StyleStale.cfg` and `StyleTwoClients.cfg` with `MCPaneStyle`,
`SshForward.cfg` with `MCSsh`.

What the passing runs show:

- `AtMostOneOutstanding`, `ExecutedAtMostOnce`, `ArmedMeansHandled`,
  `NoStrandedDirective`, `PoisonJustified`: the store as a lock-free exchange
  between processes that may die anywhere.
- `OwnReply`, `PromiseKept`: the answer without a name means one gesture.
- `BegunIsAnswered`: every request that begins is answered, unless its handler
  stands for ever in a tmux call or before a terminal that takes no output.
- `OwnAnswer`: the same over several hops, where an outer hop may ask the
  terminal long after the inner ones have given up.
- `LeftoversHarmless`: aborts that are lost or follow a lost prepare leave
  nothing a stray answer could execute.
- `KeepsPromise`: the path implements `Gesture`; in particular the caller may
  act on "declined".
- `OneGetsThrough`: undisturbed requests that prepare across each other
  neither deadlock nor refuse each other in a circle. It is stated without
  deadlines: that they can pass must not be what ends a deadlock.
- `GatesComeFree`: with deadlines every gate comes free, whatever is lost. A
  handler that stands for ever keeps its own gate and no other.
- `GateKept`, `TurnHasHolder`, `ClaimEndsWithServer`, `StopEnds`,
  `AcceptedIsFinished`: no turn, wake-up, thread or claim is lost. A thread that
  stands for ever in a call of its own excuses the end of the server and of the
  connections of its kind, and nothing else does.
- `RemovalJustified`, `CleanExit`, `UnfocusedLetsGo`: a claim goes when and only
  when it should.
- `KeepsPublishing`: the signal of a delayed stop does not end the watcher of a
  focused client. A signal that falls between the two tests of the loop does
  (finding 7), and the property says nothing of a watcher that has met one.
- `OriginalKept`, `DimAccounted`, `RestoredOnlyWhenFree`: two independent
  reasons share one saved style.
- `OneEffect`, `FreshEdge`, `TypistOnly`, `GestureEnds`: the router acts once,
  never on an old look, for the user who typed, and stops, unless one of its
  tmux calls or terminal writes never returns.
- `RightText`: what a click opens is the link under it or a piece of it, never
  another's text, and the whole link if the screen stood still and showed all
  of it. It takes that no row ends in blanks (`Unpadded`), an `ASSUME` of
  `MCLink`; `link_padded` shows what happens otherwise.
- `OpensOnce`, `FoundIfThere`, `ClickReaches`, `TellStaysHome`: see the
  comment of each. `OpensOnce` speaks of clicks whose requests were all
  answered, since a request that timed out may run later.
- `ClickEnds`: a click is dealt with, unless it stands for ever at one of the
  places that have no deadline (below).
- `CallHonest`, `CallEnds`: calls clean up after themselves, and end unless a
  descendant away from the group holds the output.
- `NothingLeft`: so does the ssh command, however it ends. Two ways are excepted:
  being killed, and, for the forward at the mux master, an error of waiting for
  ssh (finding 8).
- `PathKept`: the sweep takes no path from a live relay, provided that `bind`
  returns within a minute of making it.
- `SignalEndsSession`: a signal ends the session, also when ssh ignores it,
  unless the relay never gets to the end of its drain.

Bounds, and why they are enough:

- Store: every conflict is between two directives of one client or two
  processes at one directive. Two requests, two servers and a stray reply give
  each such pair.
- Path: a conflict is between two requests at a shared hop. Entering at hops 1
  and 2 they share the plain hop's gate and the outer store, and one of them
  also uses the inner store. Three hops are the fewest in which a prepared hop
  lies inside of a hop that only passes messages on.
- Server: a lost turn or wake-up needs one thread inside and one waiting; the
  cap is reached with two of three connections.
- Leases: two watchers are a generation and its successor, two expirers the
  holder of the lock and one that meets it. `MaxFailures = 1` puts the failing
  call anywhere; two failures only repeat it. The liveness run has one client
  and no failure, because its properties are about one client and end with the
  first failure.
- Style: two processes give every overtaking of one hook's process by another.
- Router: `MCInit` starts with two clients in one session, two sessions that
  show one linked window, or a client inside itself. A third client is the
  terminal of a nested one. One move of the world can come between any two
  steps; the second gesture of a burst is the first with a continuation.
- Links: `MCInit` explores the three parts one by one, the worlds of the
  others standing still: they share nothing but the order in which they come.
  A 2 by 4 screen holds lines of up to three rows with rows alike. Two editors
  are the recorded one and the one that is there; four clients of three
  servers are the clicker, a rival, and two layers outside, cycles included.
- ssh: the supervisor makes one bounded call, so the calls need no second one
  beside it; `MCInit` explores the command first and then any call. A pipe of
  two units fills before a cap of three is reached.

`CHECK_DEADLOCK FALSE` is set where an instance has finitely many requests or
processes and stops when they are used up.

## Fairness

Processes of termnav run, and get fairness wherever what they wait for has a
deadline or is their own. Three kinds of wait have neither:

- the end of a tmux call's output: `output_timeout` bounds the exit of the
  child and then reads to the end of its output (`process.rs:83`), which a
  descendant may hold open;
- a write to a terminal: the device is opened and written to as long as it
  takes (`browser.rs:620-622`, `navigation/system.rs:494-497`,
  `server.rs:1053-1061`), and output that is stopped blocks it;
- hostname(1), run by `Command::output` (`click.rs:627-628`).

At these places a process gets no fairness, and the liveness property names
them as its exception. The exception is about a process that stays there for
ever: one that always leaves in the end, however late, excuses nothing.

- `DirectiveStore`: weak fairness of each handler but at `commit` and `emit`
  (`Unbounded`). Terminal, tmux, commit processes and crashes get none.
- `RelayPath`: as long as any handler that does not stand at such a place
  (`Stands`), or a commit process, can go on, some one does. Deadlines get
  fairness only where a property says so.
- `RelayServer`: weak fairness of the loop and of each thread but where they
  may stand (`LoopStands`, `Stands`); strong fairness where a thread takes the
  mutex of the gate. Others may hold that mutex again and again (spurious
  wake-ups), and a futex-based mutex does not starve a thread for ever. Clients,
  signals and the supervisor owe nothing.
- `FocusLease`: processes run and deadlines pass; users and kills owe nothing.
  Here it is assumed that a tmux call returns: a watcher that stands in one for
  ever neither renews its claim nor lets it go, and its deadline ends the claim.
- `PaneStyle`: processes run. The passing run checks safety only.
- `Router`, `Link`: weak fairness of the process's own steps but at those places
  (`Unbounded`, and `name` of `Link`). Captures, status calls, requests to
  editors, the sockets of a relay and of VS Code, and `$BROWSER` have deadlines.
  Users, tmux and editors owe nothing.
- `SshSupervisor`: weak fairness of the main thread, of the relay thread until
  it drains, of the grace and kill deadlines, and of each call's own steps and
  its deadline. ssh, the mux master, the relay's handlers and the programs that
  are called owe nothing, not even an end.

Taken to return at once: files, locks that somebody else is about to release,
and connecting to a socket that listens and has room.

## Findings

1. **A late reply can execute a later gesture** (`store_two_feeders`,
   `OwnReply`). `wait_for_consumption` removes the expired directive
   (`store.rs:285`), deletes the receipt, and then writes the poison file
   (`store.rs:287`), all in separate steps. Another relay server whose pane is
   shown by the same client may arm in between; neither `mark_committed` nor
   `claim` looks at the poison file, so the late reply of the first gesture
   claims the second. The comment above says it "can then never execute a
   later gesture". One server alone cannot hit this: its gate keeps the next
   handler out until the poison file is written (`LateRepliesAreHarmless`).
2. **A click may open another line's target** (`link_padded`, `RightText`).
   `from_joined_capture` walks the joined lines and the physical rows together
   and takes a row for part of a line when the rest of the line starts with it
   (`click.rs:432`). Trailing blanks are trimmed in one capture and kept in the
   other, so after a row that wraps at a blank every row below is compared with
   the line after its own. The comment at `click.rs:359-360` says that opening
   the wrong file is worse than asking the user to click again.
3. **A focused client may publish nothing** (`LeaseRefocus.cfg`,
   `FocusedPublishes`). A new watcher tries the client's lock once and exits
   when it is taken (`focus.rs:272`); the holder may be the old watcher, which
   has already decided to end. `docs/reference.md:440-441` says a focused nested
   client publishes.
4. **A killed publisher's claim may stay** (`LeaseKilled.cfg`,
   `KilledFailsClosed`). A new expirer gives way (`focus.rs:217`) to one that
   has read "no claim" and is about to quit. `docs/reference.md:456-458` says a
   killed publisher still fails closed when the last renewal expires.
5. **A pane nobody focuses may stay bright** (`StyleStale.cfg`,
   `UnfocusedDims`). The focus is read (`focus.rs:241`) before the pane's lock
   is taken. `docs/reference.md:481-483` promises the opposite.
6. **A focused pane may stay dim** (`StyleTwoClients.cfg`, `FocusedRestores`).
   The second look of `stop_watch` asks only about its own client
   (`focus.rs:320`).
7. **A delayed stop may end a focused client's publisher** (`LeaseLateStop.cfg`,
   `DelayedStopHarmless`). The watcher drops a pending signal when its look
   says "focused" (`focus.rs:286-290`) and then tests the flag again
   (`focus.rs:291`): a signal between the two ends it, and nobody starts
   another. The comment at `focus.rs:287-288` says "A delayed focus-out may
   signal the old watcher after a focus-in. The live tmux state is
   authoritative, so keep the renewed owner."
8. **A forward may stay at the mux master** (`SshForward.cfg`,
   `ForwardAskedBack`). When waiting for ssh fails, `run` kills the child, joins
   the relay and returns (`ssh.rs:130-136`) before it gets to `cancel_forward`;
   the master keeps forwarding a remote socket to a path that is gone.

Met while modelling, and excluded where a property would meet it:

- **A bounded call may wait without a bound.** `output_timeout` promises a hard
  deadline (`process.rs:70`), but once the child has ended it reads to the end
  of the output (`process.rs:83`), and a descendant that has left the group
  holds that open. `CallEnds` names this one wait, and the liveness properties
  of the callers name their places (Fairness).
- **A click may wait without a bound.** tmux's mouse binding waits for it, and
  beside the wait above it may run hostname(1) (`click.rs:628`) and write to a
  terminal that takes no output (`browser.rs:621`), although "UI-triggered
  helpers must never inherit an unbounded wait from an external program"
  (`process.rs:90-91`).
- **A signal may be swallowed.** A relay that is ready too late has installed
  its handlers in the supervisor; a signal between that and the `exec` of
  `run_plain` (`ssh.rs:112`) sets a flag nobody reads, while the comment at
  `ssh.rs:159-160` wants a plain call to be indistinguishable from OpenSSH.
- **A file may be opened twice.** `open_socket` gives up after three seconds
  (`nvim/open.rs:595`), the request stays with the editor, and the next editor
  is asked.

Seen and not counted as findings: a handler may answer error beside a receipt
that says handled (`store.rs:272-275`), which `Gesture` allows; and a pane
option that cannot be read is taken for unset (`focus.rs:467`), after which the
saved style may be lost, so the guarantees of `PaneStyle` are stated up to the
first missed read.

## Proofs

All theorems are for any sets of requests, servers, hops, clients, sessions,
panes, editors, threads and processes, finite or not, that meet the named
assumptions of the modules; TLC evaluates those assumptions in every run. The
one set that has to be finite is that of the editors (`EditorAssumption`),
which are processes with files in one directory: `NewestFirst` sorts their
records, and only a finite set can be sorted.

`DirectiveStoreProofs`:

- `StoreInvariant`: `Spec => []StoreInv`. The safety properties are not
  inductive. `StoreInv` adds which directive states, receipts and claims go
  with each place a handler or commit process may stand at: a directive is
  `claimed` for exactly one claimant, a receipt belongs to a claimed or retired
  directive, a request has moved the focus only when its claimant is past
  `Execute`.
- From it: `StoreTypeOK`, `ArmIsExclusive`, `ExecutionIsUnique`,
  `ArmedIsHandled`, `AnswersLeaveNothing`, `PoisonIsJustified`.
- `LateRepliesAreHarmless` and `StoreKeepsPromise` assume `SoleFeeder` (a
  client is fed by one server) and no strays. `SoleInv` adds that an in-flight
  reply finds its own directive, a poisoned client, or a handler about to
  poison it. `StoreKeepsPromise` is step simulation against `Gesture`.

`RelayServerProofs`: `ServerInv` adds that tickets are drawn once and in order,
that every ticket from the one served to the last one drawn has its holder
while the gate is open, that the mutex is held exactly by a thread about to
sleep, and that the handlers the loop has not reaped are the unfinished ones.
From it `ServerTypeOK`, `TurnNeverLost`, `ThreadCap`, `ClaimDoesNotOutlive`, and
`GateImplementsTurnstile` by step simulation.

`FocusLeaseProofs`: `LeaseInv` adds that an expirer about to remove a value
that is still the same has seen it overdue, and that a watcher with a claim
either believes it has one or is about to make sure. From it `LeaseTypeOK`,
`PublisherCleansUp` and `NoEarlyRemoval`.

`RelayPathProofs`: none of the three properties is inductive, and what they
need is one invariant, `PathInv`, in layers:

- `PathTypeOK`: the types, and at which places a handler of each operation can
  stand (`WellFormed`).
- `FrontierInv`: a request spreads from one place at most. Beyond a message or
  a handler that may still send, ask or move there is nothing of it, and what
  follows one of its messages at the same hop is an abort.
- `ShapeInv`: until a hop executes the request, it is nothing but `navigate`
  messages and leaves nothing in any store; afterwards the hops below have
  passed it on and wait, and the hops beyond only know path operations.
- `CommitInv`: below a commit every hop has settled; the answer is at one hop
  at a time, only once the terminal was asked, and then nothing more is to come.
- `StoreInv`: a store holds one directive at most, none while its client is
  poisoned, and a ready one of a relay that serves has its handler waiting.
- `ReadyInv`: from the executing hop as far outwards as the commit has come, the
  directive is ready or the client is poisoned. With `StoreInv` this carries
  `OwnAnswer`: what an answer finds ready at its hop is its own.
- `UserInv`: what the caller is told, against what has moved.

From it `PathTypeCorrect`, `AnswerIsOwn`, `LeftoversAreHarmless`, and
`PathKeepsPromise`, the step simulation of `Gesture`, for paths of any length.

`RouterProofs`: `EffectInv` says that a gesture that is still being routed has
had no effect: the step that has one ends it. From it `EffectIsOne`.
`ChoiceIsOne` shows of `ChooseClient` that it chooses at most one client, and
one it was given; with `PassesIsLive` (a client that passes the second look is
there, the same process, and displays what was asked for) `SelectInv` follows
step by step: at most one client is selected, none between gestures. From it
`EdgeIsFresh`. `WorldInv` and `RouteTypes` are the types, with what they rest
on: a scope that is tried is never the blank one, a gesture from a shell has a
pane. From them `RouterTypeOK`.

`TypistActs` proves `TypistOnly`. `TypistInv` says, as long as the claim of the
key press is sure: its clients are there, the same processes, with the focus
(`Present`); every rival has typed no later, or only after the second of the
start (`Behind`); the panes they run in are shown by one of them (`Nested`);
the client that is selected or retained is one of them (`Theirs`); the scope
being tried is shown by one of them (`On`), and the scope that is retained
leads back to one that is (`Held`). `TypistChosen` is the heart of it: among
all the clients that display what one of them displays, `ChooseClient` chooses
one of them or nobody. `Held` is weaker than `On` because a gesture that
selects another pane or window makes its own scope stale: the session or the
window, not the pane, leads the next one back.

The attempt to prove it showed that `TypistOnly` used to claim too much, and
TLC found both cases once it was given a burst of three, or a client inside
its own session. A tab gesture hides the pane that the shell runs in; when the
next gesture fails, its continuation is lost and the third starts from the
hidden pane, which may be on another user's screen. And a burst may hide the
pane that the inner client runs in, so that going outwards leads to where
nobody of the key press is. Both are what the code does, and the claim now
lapses in both (`Seen`).

`LinkProofs`: the three parts of a click share only `phase`, so each proof
looks at one part of `LinkNext` (`LinkIsRegistry`, `LinkIsBrowser`,
`LinkIsText`).

- `OnceInv`: unless something was lost, no editor holds a request and the file
  is unopened until the opener is done. From it `FileOpensOnce`.
- `ReachInv`: while the clicking client is attached, the chain that is being
  followed starts with it. From it `UrlReachesClicker`.
- `HomeInv`: what the last look at the clients found still holds unless they
  have moved. From it `MessageStaysHome`.
- `EditorInv`: a live editor has its marker and a record in both scopes, also
  while it replaces them, and what others write and delete is never its own
  (`LiveEditorRegistered`). `FoundInv`: until the file is open, every steady
  editor is still due, because its pane or its record is among those left
  (`AllTried`: `NewestFirst` lists every owner), or it is being asked. From
  them `SteadyEditorFound`.
- `TextInv`: what was clicked was on a screen the text has shown, the present
  one if nothing changed (`ClickKnown`); the first capture is of the present
  screen or of one left behind (`PhysicalKnown`); the second is of a screen the
  text has shown, and the first of the same one or of one left behind before
  (`JoinedKnown`). From it `ClickedTextOpens`, which states `RightText` for
  every width, height and text under `Unpadded(Texts)`.

`ClickedTextOpens` rests on what the captures and the code compute, for every
text. `Wrapped`, `Rows` and `Screen` lay the lines out without gap or overlap
(`RowsLaidOut`, `ScreenRows`); `OnScreen` is the stretch of a line that is
shown (`JoinedLine`); the run around a cell of a part of a line is a piece of
the run in the line, and all of it if nothing is cut off (`RunCut`). `Match` is
a recursive function of places; it exists because every step goes on to a later
row or line (`MatchExists`), and one that starts in step stays in step: each row
fits the rest of its line because no row is padded, down to the row that was
clicked (`RowFits`, `NextPlace`, `MatchFinds`). The library's induction theorems
take an operator, which the installed provers cannot instantiate. These lemmas
argue with sets instead: `NatSetInduction` takes the least element a set of
numbers misses, which `WFMin` provides, and `Least`, `Greatest` and
`RangeInduction` follow.

The attempt to prove it changed the property. It used to promise the whole link
whenever it could be read somewhere on the screen, which a link cut off at the
edge refutes when a copy of it is shown in full elsewhere; `whole` now says that
all of the run that was clicked is on the screen. And it rested on a restriction
of the model, that a screen never comes back; the screen may now do that, and
`CameBack` says what it costs. The hypothesis `Unpadded` is needed:
`link_padded` (finding 2) violates the property without it.

`SshSupervisorProofs`: `CallInv` says of every call that what was read and what
is in the pipe is what was written, that the end of the output is final, and
what the caller's place says about child and group. `SshInv` says for each
place of the two threads who has the socket path, the owner pipe, the child and
the forward, and that a path that is old has been served before. From them
`SshTypeCorrect`, `CallsAreHonest`, `NothingIsLeft` and `PathIsKept`.

`NothingIsLeft` has the two exceptions of `NothingLeft`, and rests on this: a
forward of the session ends with the session, one at the master is given up by
`CancelForward`, and every way to `returned` but the error of `WaitFails` goes
through it.

`PaneStyleProofs`: every mutation leaves the pane in one of a few shapes
relative to the one before (`ClaimShape`, `ClearShape`, `DimShape`,
`UndimShape`), whatever calls fail; the properties follow from the shapes as
invariants and as a property of steps: `StyleTypeOK`, `OverrideSurvives`,
`NeverStuckDim`, `SavedHasReason`, `DimIsAccounted`, `ReasonsIndependent`.

Type correctness is proved of every module but the parts of `Link`, whose
invariants hold the types they need, and is not part of the runs.

Only model-checked:

- Liveness: `BegunIsAnswered`, `OneGetsThrough`, `GatesComeFree`, `StopEnds`,
  `AcceptedIsFinished`, `UnfocusedLetsGo`, `KeepsPublishing`, `GestureEnds`,
  `ClickEnds`, `SignalEndsSession` and `CallEnds`. The prover knows neither
  fairness nor ENABLED.

Every safety property a passing run checks is stated by a theorem. The conditions
some of them have are those of the runs that check them: `SoleFeeder` and no
strays for the store, `Unpadded` for the text of a click.

## Not modelled

- VS Code controller and publisher, attention notifications: planned, below.
- Editor adapters other than the registry (`navigation.lua`, terminal
  variables): one queued gesture at a time in each.
- Text: recognising links, hyperlink encoding, the WezTerm rules, the
  `open-url` request without a click, legacy registry records, HTTP framing,
  tmux format strings, process tables.
- Argument parsing, path lookup, the eza wrapper, installation: sequential and
  without state over time.

`PROJECT.json` lists each with its reason.

## Plan

Done: `Gesture`, `DirectiveStore`, `RelayPath`, `Turnstile`, `RelayServer`,
`FocusLease`, `PaneStyle`, `Router`, `BoundedCall`, `SshSupervisor`,
`ClickText`, `EditorRegistry`, `BrowserPath`, `Link`. Next:

1. `VscodeFocus`: claims validated asynchronously; an older observation never
   overrides a newer one.
2. `Attention`: an identity re-validated before each write.
3. Proofs: types of the parts of `Link`; an abstract specification of the
   registry (a set of editors that can be reached) with `EditorRegistry` as its
   refinement.
