# TLA+ specifications of the terminal's own code

FileGrid Terminal adds two things to the upstream terminal under
`src/microsoft`: *workspaces* (named sets of tabs that are saved, edited and
opened in windows of their own) and *mirroring* (a Node records what its command
windows show and shares it with remote clients). This directory models that
code, checks the models with TLC and proves the main results with TLAPS.

## The system and its parts

| part | code (under `src/src/`) | what it does | module |
| --- | --- | --- | --- |
| mirror recorder | `core/workspace/mirror/Mirror{NodeRecorder,NodeSession,EventStore,Checkpoint,RecoveryPlanner,ControlLease}.cpp` | numbers and keeps the events of each command window, plans recoveries, gives one client the right to type | `MirrorSession` |
| device tunnel | `Mirror{DeviceTunnelClient,DeviceTunnelSession,NodeAgent,RouteDispatcher,Reducer}.cpp` | carries frames between the recorder and the server's routes, on several threads | `MirrorTunnel` |
| registry of open windows | `core/workspace/WorkspaceCore.cpp`, `WorkspaceCoreStateManager.cpp`, `WorkspaceCoreRuntimeOps.cpp`, `glue/workspace/WorkspaceTerminal*.cpp` | a block of shared memory in which the processes of a session list the workspace of each window | `WindowState` |
| definitions on disk | `WorkspaceCoreManagerStorage.cpp`, `WorkspaceCorePersistence.cpp`, `WorkspaceCore.cpp` | one directory per workspace and per node, rewritten by every save | `WorkspaceStorage`, `DefinitionStore` |
| workspace editor | `WorkspaceCoreEditorState.cpp`, `WorkspaceCoreNavigation.cpp`, `glue/workspace/WorkspaceEditorGlue.cpp` | an in-memory list that is edited and then saved over the definitions | `WorkspaceStorage` |
| launch | `glue/workspace/WorkspaceFacadeStartupMethods.cpp`, `WorkspaceLaunchRuntimeGlue.cpp`, `WorkspaceTerminalPageExtension.cpp`, and `TerminalPage.cpp`, `WorkspaceCommandTabHost.cpp` of the host | startup actions, queues of node ids, hosted command terminals, input replayed once a pane is connected | `WorkspaceLaunch` |
| save and capture | `glue/workspace/WorkspaceSave*.cpp` | turns live tabs into a definition, tells whether they differ | - |
| chat | `core/chat`, `glue/chat` | sends a message to panes, matches terminal input and output with it | - |
| multi-window layouts | `WorkspaceCoreMultiWindow.cpp` | quantised split weights of a node's commands | - |
| wire formats | `Mirror{Relay,Terminal}Protocol.cpp` | byte layout of frames and messages | - |
| mirror registry, authorization, directory, enrollment, configuration | the other `Mirror*.cpp` | lookup tables, one HTTP exchange, bounded numbers | - |
| pages, pickers, dialogs, facade, contracts | `glue/workspace`, `glue/contracts` | XAML, conversions across the DLL boundary | - |

The recorder and the tunnel run in the terminal process, on the threads
described below. Workspace windows of one process share a thread; processes meet
in the registry's block and in the definitions on disk. A window that opens a
workspace loads its definition, builds startup actions from it and runs them.

## The modules

`MirrorSession` is the recorder of one Node. Its variables are the fields of
`WorkspaceMirrorNodeSession` and its windows (`headSequence`, `hasGap`, `events`,
`checkpoints`, `lease`, ...); `recorded`, `grants` and `remoteInputs` are history.
There is one action per public operation of `WorkspaceMirrorNodeRecorder`, which
holds its mutex from end to end. `RecordOutput` records one event per 64 KiB
chunk and is one action per chunk, with `chunking` standing for the mutex.
Output bytes and terminal states are not represented. Time is a parameter of the
lease operations: callers pass any clock value up to `now`, and the expiry is
computed modulo `TimeModulus` as the unsigned sum in the code is.

`MirrorTunnel` extends it with the threads around it: the connection worker
(`ReceiveOnce` in a loop), one output callback per command window
(`SendOutput`), and the host, which calls the other operations at any time. `pc`
says where each thread is between two critical sections or two sends. The server
may send any frame; any send may fail, and `_sendAll` then gives up its batch. A
publisher holds a span over the agent's `_routes`; once the worker modifies the
vector the span is stale and reading it yields any route. Ghost variables:
`wire` (Output frames sent), `sunk` (inputs given to the sink), `resumed`,
`disturbed`.

`WindowState` is the registry: `block` is the shared memory, `holder` its named
mutex, `calls` what each process still has to do with it, `disk` the ids of the
definitions that load. A call is two actions: `Acquire` takes the mutex and
prunes, `Finish` runs the callback, writes the block and continues with what the
caller does with the result. Definitions change in between, since no lock covers
the disk. `GiveUp` is the 500 ms wait that runs out; `Crash` kills a process
anywhere, also in the middle of a save, which leaves a prefix of the new records.
A definition's id is its directory name, so a rename changes the id. The editor's
list is an input of the actions that save it, because it can be older than the
disk.

`WorkspaceStorage` is the set of saved definitions. `meta` maps the name of a
directory to the tab order in its `workspace.yaml`, `tabs` to its nodes' files,
`demo` is the flag in `workspaces.yaml`. Windows of any process load, edit and
save; nothing locks the files, so a load is two actions (the directories, then
their nodes) and a save is one action per file operation: open (which empties the
file), close (which writes it), remove a stale node, remove an entry of a stale
directory, replace the root file. `pc`, `at`, `sub`, `todo` and `victim` are where
a window is in `SaveToPath`. A process may die at each of these points, a file
may be refused or unreadable, a write may be lost when it is closed. `page` is the
manager's edited list; a workspace window saves when tabs move or close and when
an input panel is switched. Names are modelled by their lowered form and by
whether the letters differ from it, since the code compares directories without
case; `UniqueNames` is what `MakeUniquePersistedName` does with " (n)". History:
`alone`, `settled`, `touched`.

`DefinitionStore` is the abstract specification of that: savers with a list of
names write them one at a time and remove other names only when the whole list is
written; a saver may stop at any point. `ImplementsStore` maps the directories with
a `workspace.yaml` to `names`, and what a save has written of its list to `added`.

`WorkspaceLaunch` is one window coming up: `page` holds the queues of node ids and
panels, the tracked input, the terminals and the focus; `left` the actions that
each of two `ProcessStartupActions` loops has yet to run (the window's own and that
of a command line sent to it); `replays` the suspended coroutines that send
startup input. The loop gives up the thread between two actions, so key strokes,
notices and the other loop run there. Connections come up and end on threads of
their own and post notices. `opened`, `got` and `calm` of a terminal, and `mixed`,
are history.

`Filtering` has the two library algorithms that the models share: `Filter`
(`std::erase_if`, `std::copy_if`) and `Find` (`std::find_if`), written as recursive
functions so that their facts can be proved. `MirrorBatches` names what the proofs
about the tunnel say of a batch of frames.

The theorems are in `FilteringProofs`, `MirrorSessionProofs` (the recorder),
`MirrorFrameProofs`, `MirrorTunnelProofs`, `MirrorStepProofs` and
`MirrorDeliveryProofs` (the tunnel, in this order), `WindowStateProofs` and
`WorkspaceStorageProofs`. The `MC...` modules add symmetry sets and the definitions
TLC starts from.

## What the runs check

Passing runs:

| run | question | properties |
| --- | --- | --- |
| `mirror_streams` | two windows, a store that holds two events, two checkpoints: are streams and recovery plans exact after drops? | numbers unique, the newest part is kept, no loss without `HasGap`, resume / replay / checkpoint plans carry exactly what the client misses and end at the announced head, size, title and exit agree with the stream, `HasGap` goes down only with a checkpoint, nothing is added after `Close` |
| `mirror_control` | two clients, two lease ids, an expiry that wraps: who may type? | inputs fall into one block per grant, no client's running lease is taken |
| `tunnel_delivery` | worker, output callback and host without a lock: what reaches a route? | frames show only recorded events, live frames keep their order, replay and live output leave no hole |
| `tunnel_input` | input through the tunnel, clock read before the wait | the sink gets the logged inputs in order; the tunnel implements `MirrorSession` (`PROPERTY Spec`) |
| `window_registry` | two processes, a full block, a kill or a timeout | one record per window id, a lookup that may make a window is its process's only pending call, only a window's own refresh keeps its record alive, a full block keeps the others |
| `window_liveness` | the same with fair threads | every call comes back, an open workspace window is listed again and again |
| `storage_save` | a manager and a workspace window load, edit and save at the same time, with a kill, a refused or a lost write | a workspace that nobody touched is on disk with all its tabs at every moment, what an undisturbed save wrote is what a load finds, the files implement `DefinitionStore` |
| `launch_workspace` | three nodes come up while connections come and go and the user acts | tabs are registered as their own node, input is sent in order and once per connection, command terminals are hosted once each, a terminal that stays connected gets its input |

Runs that end in a violation, where a document or a comment says something the
code does not do:

| run | the code | the statement |
| --- | --- | --- |
| `tunnel_span` | an output callback reads a span over a vector the worker has modified | `07-delivery-test.md:76`: no use-after-free when output, join and leave meet |
| `window_delete` | the window of a deleted workspace is looked up after its definition is gone, when its record has been pruned | the comment in `_CloseOpenWorkspaceWindow` |
| `storage_tab_order` | removing a workspace or tab saves the manager's unsaved list without finalising its names, so the tab order keeps the old id of a renamed tab | `WorkspaceCoreNavigation.cpp:49`: the order survives `Save()` |
| `launch_split` | the splits of a node's further commands take node ids from the queue of the tabs, and every later tab is registered as the wrong node | `WorkspaceFacadeStartupMethods.cpp:132`: command windows must never consume that queue |

### Other differences found while modelling

No run shows these; the models have the code's behaviour.

Mirroring:

- the planner falls back to a checkpoint without looking at `HasGap`, though
  events after it may be gone (`08-workspace-node-session.md:92`);
- after a checkpoint clears `HasGap` a client from before a Gap may resume across
  the Gap event (`03-protocol.md:89`);
- events are still recorded for a window that has exited
  (`08-workspace-node-session.md:173`);
- input does not renew the lease (`01-requirements.md:71`), and closing a route
  does not revoke its client's lease (`01-requirements.md:72`);
- output numbers have holes, since other events share the counter, which the
  client's test in `03-protocol.md:63` takes for a loss;
- live frames overtake the replay of the same route (`01-requirements.md:56`), and
  chunks dropped before the second `Snapshot` are not fanned out
  (`MirrorRouteDispatcher.h:30`);
- a lease is compared with the time before the blocking receive
  (`07-delivery-test.md:22`).

Windows and definitions:

- two processes that pass each other open two windows for one workspace
  (`workspace-management-simplification-design.md:56`), and an open that finds
  another process's record summons the same id in its own process
  (`workspace-management-simplification-execution-plan.md:29`);
- workspace windows write tab order and panels back to the definition, which the
  design rules out (`workspace-management-simplification-design.md:53`, `:215`);
- workspaces load in the order of their directories' names, whatever
  `workspaces.yaml` lists (the test at `WorkspaceCoreBehaviorTests.cpp:234` expects
  the list's order); a rename that changes only the case of letters is not kept;
- a save deletes what its list does not have: an older list deletes what another
  window added, and a `workspace.yaml` that could not be read for a moment is
  deleted by the next save; a demo flag edited by hand is overwritten by an older
  copy of it (the comment at `WorkspaceManagerContentGlue.cpp:433`).

Launch:

- a tab or command line opened while a workspace comes up takes a node's id and
  input, and the end of the second loop empties the queues of the first (`mixed`);
- a terminal that is restarted while a replay is suspended, or whose old notice is
  still posted, gets its input twice, interleaved or not at all (`calm`; the comment
  at `TerminalPage.cpp:1557`);
- picking the open workspace again, or sending the window a command line, makes
  running command terminals anew;
- the input of a split goes at once to the terminal with the focus: it is lost
  when that is not connected, and goes elsewhere when the focus moved.

### Bounds

- `mirror_streams`: four events over two windows with a limit of two each drop
  events of a window, age a checkpoint and let a gap be cleared; three chunks in
  one call pass the limit inside one operation.
- `mirror_control`: two grants suffice for one client after another, for a
  renewal under a new id and for a stale clock; `TimeModulus = 6` with durations
  1 and 5 makes the expiry wrap.
- `tunnel_delivery`: one window, one route, three events, two Output frames. A
  route is sent nothing more after two, so two live frames, or one live and one
  replayed, meet. `Titles` and clients are empty, as they only take numbers.
- `tunnel_input`: one client and grant, one tick of the clock, no resumes, no
  frames; two inputs fit into the three numbers.
- `window_registry`: two processes, three workspaces, four window ids and room for
  two records, so that three windows of one process overfill the block (four user
  commands of the five), or windows of the two processes share an id; one kill or
  timeout; two ticks with a timeout of one, so that a record can be refreshed, can
  grow old and can expire.
- `window_liveness`: one workspace, five user commands, room for every id.
- `storage_save`: two saved workspaces, one with two tabs out of alphabetical
  order and one without tabs, and two names to type, which collide with these, one
  in other letters. Either the manager alone takes three turns (edit, edit, save or
  remove), or the manager and the workspace window take one each, at once; both with
  one fault. Two saves at once and a load in the middle of a save happen in the
  second case, a crash followed by a load and a save in the first.
- `launch_workspace`: a node with a second command in a tab of its own, an SSH node
  with two inputs, and a node whose profile is gone, so the queue is longer than
  the tabs. Two restarts, or one tab, command line, change of focus or renewed pick
  of the workspace (`MaxTurns = 2`), one connection that ends, and room for every
  terminal these open (`MaxPanes = 5`, which `TypeOK` checks).

Deadlock is not checked where the system may stop: the bounds on events, and
users who ask for nothing more.

### Fairness

`WindowState`: `WF` on `Finish`, since the thread inside a critical section goes on.
`SF` on `Acquire`: a named mutex is granted in turn, and a wait that runs out is
counted as a fault, of which there are finitely many. `SF` on `Heartbeat`: the
dispatcher timer of a workspace window keeps firing, but is handled only when the
thread is free.

`WorkspaceLaunch`: `WF` on `Dispatch`, the window's thread as a whole: the dispatcher
does not idle while a loop's next action, a notice or the delay of a replay is due.
Connections are not fair, so nothing is promised for one that never comes up.

No user command is fair. The recorder, the tunnel and the files have no liveness
property: what happens next is up to the terminal, the server, the network and the
users.

### Open points without a property

- the state of a checkpoint is captured before `AddCheckpoint` takes the mutex, but
  no caller in the repository captures one;
- a frame that cannot be encoded fails `HandleBinary` after the route or the log has
  changed (`MirrorDeviceTunnelSession.cpp:41`), which takes lengths past the
  protocol's limits;
- a closing window's heartbeat may list it once more before its destructor removes
  the record (`AppHost.cpp:1300`);
- the runtime state of a terminal is kept after its tab is closed
  (`WorkspaceTerminalPageExtension.cpp:546`).

## What is proved

For all sets of windows, clients, routes and names, all limits and all bounds.
Assumptions on the constants: limits, durations and the modulus are positive, the
bounds are naturals, the worker is not a command window, and what is saved at first
is a list whose directories can be counted (`SavedAssumption`).

The recorder (`MirrorSessionProofs`; the recovery plans in `MirrorDeliveryProofs`):

- `TypeCorrect`: `Spec => []TypeOK`.
- `StreamCorrect`: `Spec => []StreamInvariant`. The invariant is
  `SequencesUnique`, `RetainedIsNewest`, `NoSilentLoss` and `StreamShape`. The
  first three are not inductive alone: that an append keeps the newest part needs
  the new number to be larger than every recorded one (`StreamShape`), and that
  a checkpoint may clear `HasGap` needs it to sit at the window's head. The step
  rests on `NewestPartGrows`, which is about one bounded append. `NumbersUnique`,
  `NewestKept` and `LossIsFlagged` are its parts.
- `AttributesCorrect`: `Spec => []AttributesFollowStream`, from `AttributesInvariant`,
  which adds that a window not yet begun has no title and has not exited. An event
  changes the latest value of its own kind only (`RecordEventLatest`).
- `GapStaysUntilCheckpoint` and `ClosedStaysClosed`: the action properties
  `GapClearedOnlyByCheckpoint` and `ClosedIsFinal`, action by action.
- `ResumeCorrect`, `ReplayCorrect`, `CheckpointCorrect`, `PlansCorrect`: what the
  recovery plans carry, from `StreamInvariant`. The lemma behind them,
  `EventsAfterExact`, says what the search in `WorkspaceMirrorEventsAfter` returns
  on an ordered stream.
- `ControlCorrect`: `Spec => []OneController`, from `ControlInvariant`: the lease is
  that of the last grant and `(t + d) % m <= t + d`. `LeaseNeverTaken`: the action
  property `NoTakeover`, since only a grant or a revocation changes the lease.

The tunnel (`MirrorDeliveryProofs`, from the lemmas of the modules before it):

- `TunnelImplementsSession`: `TunnelSpec => Spec`, with the invariant that the
  worker's clock is not ahead of the clock; `TunnelSafe` carries the recorder's
  invariants over to the tunnel.
- `SinkCorrect`: `TunnelSpec => []SinkFollowsLog`, from `SinkInvariant`: at most one
  input is logged and not yet given to the sink, and the worker is then about to
  give it, so that it takes no other frame.
- `DeliveryCorrect`: `TunnelSpec => []DeliveryInvariant`, and its parts
  `TunnelTypeCorrect`, `SentCorrect`, `LiveOrderCorrect` and `NothingLostCorrect`.
  The invariant adds to the three properties what makes them inductive. For the
  order (`LiveInvariant`): a frame that waits is newer than what its route was sent,
  and what was sent of a window is not past the head its publisher read before it
  recorded. For completeness (`OwedInvariant`): output a route is owed was sent, or
  waits in the worker's batch or the publisher's, or is yet to be collected by a
  publisher whose span has the route. A step either builds no batch, and then only
  moves the data along (the quiet steps of `MirrorTunnelProofs`), or builds a
  recovery or a live batch, or sends a frame, or fails to (`MirrorStepProofs`).
  `MirrorFrameProofs` shows that the batches the code builds from filtered streams
  and the list of routes are ordered and complete for each route (`BatchesBuilt`).

The registry (`WindowStateProofs`):

- `RegistryCorrect`: `Spec => []RegistryInvariant`, and its parts
  `RegistryTypeCorrect`, `RecordsUnique` and `LookupsCorrect`. The type and the unique
  window ids need `LookupsAlone`: the window that the continuation of an open or a
  close makes gets the next number of its process, which is within range because
  nothing else of that process ran since the lookup was asked for. Rewriting
  (`Save`), pruning and replacing keep the ids distinct, also a prefix of the result
  that a kill leaves, since they filter or replace in place (`FilteringProofs`).
- `OwnersVouch` and `OthersKept`: the action properties `OnlyOwnerVouches` and
  `KeepsOtherWindows`. The second needs that a new record goes to the end, so that
  what does not fit is the new one.

The files (`WorkspaceStorageProofs`):

- `FilesImplementStore`: `Spec => ImplementsStore`, for any number of windows saving
  at once and any faults. The inductive invariant `SaveInv` says that lists are
  lists, that the directory being removed is not one of the saver's list, and how
  far a save is in each phase: while it writes, `at` is within the list; once it
  cleans up, it is past it. That is what makes a removal come after the last write.
  Each file operation is then a step of the store or none (`StoreWrites`, ...).

Only model-checked:

- liveness (`EveryCallReturns`, `ListedAgain`, `StartupInputArrives`), since TLAPS has
  no fairness reasoning;
- `UntouchedStays` and `SavedListLoads`: they depend on what the folds over names and
  tab orders compute, which needs induction over the list;
- the invariants of `WorkspaceLaunch`, which speak of flattened lists of actions and
  of subsequences of what a terminal received;
- the type invariants of `WorkspaceStorage` and `WorkspaceLaunch`.

## Not modelled

`PROJECT.json` lists every part with the reason.

- Host and presentation: the upstream terminal but for the window handling and the
  startup loop above, XAML, colours, text of messages and logs.
- Formats: byte layouts of the mirror's frames, HTTP, YAML. They are functions
  without state; the models carry values. Of a definition only names, tab order,
  panels and the demo flag are modelled, the other fields are carried along.
- Multi-window layouts: arithmetic on floating-point weights.
- Save and capture: compares live tabs with the definition in one callback; what
  it saves is in `WorkspaceStorage`.
- Chat: one thread, and a message is delivered and its id consumed in one callback.
  The one coroutine with suspensions needs a transport that nothing sets
  (`SetWorkspaceChatSubmitTransport` has no caller). A pane's pending output capture is
  replaced by the next command within 350 ms (`WorkspaceChatStateHelpers.h:159`), so
  the first command's output loses its correlation id.
- In `WorkspaceLaunch`: web view commands, closing of tabs, the text that a command
  is launched with.
- In the tunnel: heartbeats, the directory report, and what WinHTTP does with
  concurrent sends. Only whole frames interleave.
