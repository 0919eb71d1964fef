--------------------------- MODULE WorkspaceLaunch ---------------------------
(***************************************************************************)
(* How a workspace window comes up: the list of startup actions built from *)
(* the definition (WorkspaceFacadeStartupMethods.cpp), the loop that runs  *)
(* them (TerminalPage::ProcessStartupActions), the queue that tells a new  *)
(* terminal which node it is (WorkspaceTerminalPageExtension.cpp,          *)
(* WorkspaceLaunchRuntimeGlue.cpp), the command terminals hosted inside a  *)
(* node's tab (WorkspaceCommandTabHost.cpp), and the replay of a node's    *)
(* startup input once its connection is up, and again after a restart.     *)
(*                                                                         *)
(* Everything but the connections runs on the thread of the window.  The   *)
(* loop gives the thread up between two actions, so key strokes, command   *)
(* lines sent to the window, connection notices and other loops of the     *)
(* same kind run in between.                                               *)
(***************************************************************************)
EXTENDS Integers, Sequences, FiniteSets, SequencesExt

CONSTANTS
    Nodes,      \* the visible nodes of the definition, in their order
    Other,      \* the actions of a command line sent to the window
    None,       \* no node, no input, no panel
    MaxTurns,   \* bound: what the user does meanwhile; a restart counts 1, the rest 2
    MaxExits,   \* bound: connections that end
    MaxPanes    \* terminals the window ever has, within the other bounds

\* A node has one command or more, each with its startup input or None; the
\* inputs an SSH node replays one by one; what its profile resolves to; how
\* further commands are shown.  An SSH terminal with a tty waits for a prompt.
Node == [id : STRING, profile : {"plain", "missing", "elevated"}, ssh : BOOLEAN,
         tty : BOOLEAN, mode : {"Tab", "Split"}, panel : BOOLEAN,
         commands : Seq({None} \cup STRING), deferred : Seq(STRING)]

ASSUME NodesAssumption ==
    /\ \A n \in DOMAIN Nodes : Nodes[n] \in Node /\ Nodes[n].commands # <<>>
    /\ \A m, n \in DOMAIN Nodes : Nodes[m].id = Nodes[n].id => m = n

ASSUME BoundsAssumption == MaxTurns \in Nat /\ MaxExits \in Nat /\ MaxPanes \in Nat

Runs == {"startup", "other"}

VARIABLES
    page,     \* the queues, the tracked input, the terminals and the focus
    left,     \* the actions each loop has yet to run
    replays,  \* the suspended replays of startup input
    turns,    \* what the user did
    exits,    \* connections that ended
    mixed     \* something else opened a terminal while the workspace came up

vars == <<page, left, replays, turns, exits, mixed>>

------------------------------------------------------------------------------
(* The startup actions of a definition. *)

NewTab(node) == [kind |-> "newTab", node |-> node, input |-> None]

SplitPane(node) == [kind |-> "splitPane", node |-> node, input |-> None]

SendInput(input) == [kind |-> "sendInput", node |-> None, input |-> input]

\* The node with an id.
Find(id) == CHOOSE n \in ToSet(Nodes) : n.id = id

IdsOf(nodes) == {nodes[n].id : n \in DOMAIN nodes}

\* A node opens one tab for its first command.  In split mode its other
\* commands split that tab; in tab mode they are left to the tab's own host.
NodeActions(node) ==
    LET Shown == IF node.mode = "Split" THEN DOMAIN node.commands ELSE {1}
        Open(c) == <<IF c = 1 THEN NewTab(node.id) ELSE SplitPane(node.id)>>
        Input(c) == IF node.commands[c] = None THEN <<>> ELSE <<SendInput(node.commands[c])>>
    IN  FlattenSeq([c \in 1..Cardinality(Shown) |-> Open(c) \o Input(c)])

\* A node whose profile does not resolve has no actions.
BuildStartupActions ==
    LET resolved == SelectSeq(Nodes, LAMBDA n : n.profile # "missing")
    IN  FlattenSeq([n \in DOMAIN resolved |-> NodeActions(resolved[n])])

------------------------------------------------------------------------------
(* Terminals.  What was opened for which node is not in the code: it is    *)
(* what the properties compare the registered node with.                   *)

\* A terminal that was just made: its connection is not up, nothing is on
\* its way to the window's thread, and it received nothing.
Terminal(kind, opened, node, inputs) ==
    [kind |-> kind, opened |-> opened, node |-> node, host |-> 0, panel |-> None,
     inputs |-> inputs, armed |-> inputs # <<>>, state |-> "connecting", epoch |-> 0,
     notices |-> 0, got |-> <<>>, calm |-> TRUE]

\* What a connection that is not up is sent is dropped.
Deliver(pg, p, input) ==
    IF p = 0 \/ input = None THEN pg
    ELSE IF pg.panes[p].state # "connected" THEN pg
    ELSE [pg EXCEPT !.panes[p].got = Append(@, input)]

\* The inputs to replay.  The definition is only at hand when the window's
\* editor was loaded, and it is looked up by the registered node.
DeferredStartupInputs(pg, ssh, id) ==
    IF pg.action = None THEN <<>>
    ELSE IF ssh /\ pg.selected /\ id \in IdsOf(Nodes) /\ Find(id).deferred # <<>> THEN Find(id).deferred
    ELSE <<pg.action>>

\* A new terminal takes the next queued id and the tracked input; when it has
\* something to replay the action that would send it now is to be skipped.
RegisterWorkspaceNodeRuntimeState(pg, kind, opened) ==
    LET id == IF pg.ids = <<>> THEN None ELSE Head(pg.ids)
        ssh == opened \in IdsOf(Nodes) /\ Find(opened).ssh
        inputs == DeferredStartupInputs(pg, ssh, id)
    IN  [pg EXCEPT !.ids = IF @ = <<>> THEN @ ELSE Tail(@),
                   !.action = None,
                   !.skip = inputs # <<>>,
                   !.panes = Append(@, Terminal(kind, opened, id, inputs)),
                   !.focus = Len(pg.panes) + 1]

\* A terminal that has to be elevated opens in a window of its own.
Elevated(opened) == opened \in IdsOf(Nodes) /\ Find(opened).profile = "elevated"

\* A tab made while a panel choice is queued is a node's tab.
OpenNewTab(pg, opened) ==
    LET made == RegisterWorkspaceNodeRuntimeState(pg, "tab", opened)
    IN  IF Elevated(opened) THEN pg
        ELSE IF pg.panels = <<>> THEN made
        ELSE [made EXCEPT !.panels = Tail(@), !.panes[made.focus].panel = Head(pg.panels)]

\* The terminal of a split is registered like any other.
SplitFocusedTab(pg, opened) ==
    IF Elevated(opened) THEN pg ELSE RegisterWorkspaceNodeRuntimeState(pg, "split", opened)

DoAction(pg, action) ==
    CASE action.kind = "newTab"    -> OpenNewTab(pg, action.node)
      [] action.kind = "splitPane" -> SplitFocusedTab(pg, action.node)
      [] action.kind = "sendInput" -> Deliver(pg, pg.focus, action.input)

\* The input that follows a new tab in the list is the one to replay.
TrackWorkspaceNodeStartupAction(pg, actions) ==
    LET next == IF Head(actions).kind = "newTab" /\ Len(actions) > 1 THEN actions[2].input ELSE None
    IN  IF Head(actions).kind = "sendInput" THEN pg ELSE [pg EXCEPT !.action = next, !.skip = FALSE]

\* Mutant of RunAction: the action runs although its input is replayed.
RunActionAnyway(pg, actions) == DoAction(TrackWorkspaceNodeStartupAction(pg, actions), Head(actions))

\* The first action of a list: skipped when its input is replayed instead.
RunAction(pg, actions) ==
    LET tracked == TrackWorkspaceNodeStartupAction(pg, actions)
    IN  IF tracked.skip /\ Head(actions).kind = "sendInput" THEN [tracked EXCEPT !.skip = FALSE]
        ELSE DoAction(tracked, Head(actions))

\* A tab-mode node's tab hosts a terminal for each further command.
HostsCommands(pane) ==
    /\ pane.kind = "tab" /\ pane.panel # None /\ pane.node \in IdsOf(Nodes)
    /\ LET node == Find(pane.node)
       IN  node.mode = "Tab" /\ node.profile = "plain" /\ Len(node.commands) > 1

\* Mutant of ConfigureTerminalContentWrapper: what a tab had stays beside it.
ConfigureBesideOldOnes(pg) ==
    LET Input(input) == IF input = None THEN <<>> ELSE <<input>>
        Hosted(p, node) == [c \in 1..(Len(node.commands) - 1) |->
            [Terminal("command", node.id, None, Input(node.commands[c + 1])) EXCEPT !.host = p]]
        New(p) == IF HostsCommands(pg.panes[p]) THEN Hosted(p, Find(pg.panes[p].node)) ELSE <<>>
    IN  [pg EXCEPT !.panes = @ \o FlattenSeq([p \in DOMAIN @ |-> New(p)])]

\* They are made anew, without touching the queues, and take the place of
\* the ones the tab had.
ConfigureTerminalContentWrapper(pg) ==
    LET Replaced(t) == IF t.host = 0 THEN t
                       ELSE IF HostsCommands(pg.panes[t.host]) THEN [t EXCEPT !.state = "gone", !.armed = FALSE]
                       ELSE t
        Input(input) == IF input = None THEN <<>> ELSE <<input>>
        Hosted(p, node) == [c \in 1..(Len(node.commands) - 1) |->
            [Terminal("command", node.id, None, Input(node.commands[c + 1])) EXCEPT !.host = p]]
        New(p) == IF HostsCommands(pg.panes[p]) THEN Hosted(p, Find(pg.panes[p].node)) ELSE <<>>
    IN  [pg EXCEPT !.panes = [p \in DOMAIN @ |-> Replaced(@[p])] \o FlattenSeq([p \in DOMAIN @ |-> New(p)])]

\* Every visible node is queued, whether or not it will open a tab.
OnPreparingStartupActions(pg) ==
    [pg EXCEPT !.ids = [n \in DOMAIN Nodes |-> Nodes[n].id],
               !.panels = [n \in DOMAIN Nodes |-> Nodes[n].panel]]

\* Mutant of OnStartupActionsCompleted: what was not consumed stays queued.
KeepPendingWorkspaceNodeQueues(pg) == pg

OnStartupActionsCompleted(pg) == [pg EXCEPT !.ids = <<>>, !.panels = <<>>]

------------------------------------------------------------------------------
(* The steps of the window's thread. *)

Starting == left["startup"] # <<>>

\* What a loop does between two suspensions: one action and, after the last,
\* the command terminals are made and the queues emptied.
ProcessStartupActions(r) ==
    /\ left[r] # <<>>
    /\ \E done \in {RunAction(page, left[r])} :
           page' = IF Len(left[r]) > 1 THEN done
                   ELSE OnStartupActionsCompleted(ConfigureTerminalContentWrapper(done))
    /\ left' = [left EXCEPT ![r] = Tail(@)]
    /\ mixed' = (mixed \/ (r = "other" /\ Starting))
    /\ UNCHANGED <<replays, turns, exits>>

\* A user does something once the window is there.
Turn(cost) ==
    /\ page.panes # <<>>
    /\ turns + cost <= MaxTurns
    /\ turns' = turns + cost

\* A command line is sent to the window: a second loop.
ExecuteCommandline ==
    /\ Turn(2)
    /\ left["other"] = <<>>
    /\ left' = [left EXCEPT !["other"] = Other]
    /\ UNCHANGED <<page, replays, exits, mixed>>

\* The user opens a tab with the keyboard.
HandleNewTab ==
    /\ Turn(2)
    /\ page' = DoAction(page, NewTab(None))
    /\ mixed' = (mixed \/ Starting)
    /\ UNCHANGED <<left, replays, exits>>

\* The user picks the workspace that is already open here from the menu: the
\* command terminals are made anew before the window is found and summoned.
OpenWorkspace ==
    /\ Turn(2)
    /\ page' = ConfigureTerminalContentWrapper(page)
    /\ UNCHANGED <<left, replays, exits, mixed>>

\* The editor's list is read, on a change on disk or by the user, and this workspace is the selected one.
LoadWorkspaceEditorState ==
    /\ page.panes # <<>> /\ ~page.selected
    /\ page' = [page EXCEPT !.selected = TRUE]
    /\ UNCHANGED <<left, replays, turns, exits, mixed>>

\* The user moves the focus.
Focus(p) ==
    /\ Turn(2)
    /\ page.panes[p].state # "gone" /\ page.focus # p
    /\ page' = [page EXCEPT !.focus = p]
    /\ UNCHANGED <<left, replays, exits, mixed>>

\* Mutant of RestartPaneConnection: the input is not armed again.
RestartDisarmed(p) ==
    /\ Turn(1)
    /\ page.panes[p].state # "gone"
    /\ page' = [page EXCEPT !.panes[p] =
                    [@ EXCEPT !.state = "connecting", !.epoch = @ + 1, !.got = <<>>,
                              !.calm = page.panes[p].notices = 0 /\ \A r \in replays : r.pane # p]]
    /\ UNCHANGED <<left, replays, exits, mixed>>

\* A terminal's connection is replaced by a new one, and a node's input armed
\* again; a replay of the old connection goes on.  What a command terminal
\* was sent once it is not sent again.
RestartPaneConnection(p) ==
    /\ Turn(1)
    /\ page.panes[p].state # "gone"
    /\ page' = [page EXCEPT !.panes[p] =
                    [@ EXCEPT !.state = "connecting", !.epoch = @ + 1, !.got = <<>>,
                              !.armed = IF page.panes[p].kind = "command" THEN @ ELSE page.panes[p].inputs # <<>>,
                              !.calm = page.panes[p].notices = 0 /\ \A r \in replays : r.pane # p]]
    /\ UNCHANGED <<left, replays, exits, mixed>>

\* The replay on a terminal with a tty waits for the prompt of the far side.
Waits(pane) == pane.opened \in IdsOf(Nodes) /\ Find(pane.opened).tty

\* The window's thread gets the notice that a connection came up.  The notice
\* carries the state of the moment it was raised.  Input that is armed is
\* disarmed, and its replay begins, with a delay.
OnConnectionStateChanged(p) ==
    /\ page.panes[p].notices > 0
    /\ page' = [page EXCEPT !.panes[p].notices = @ - 1, !.panes[p].armed = FALSE]
    /\ replays' = IF page.panes[p].armed
                  THEN replays \cup {[pane |-> p, epoch |-> page.panes[p].epoch,
                                      next |-> IF Waits(page.panes[p]) THEN 0 ELSE 1]}
                  ELSE replays
    /\ UNCHANGED <<left, turns, exits, mixed>>

\* Mutant of ReplayPendingWorkspaceStartupInput: one input too many.
ReplayOneMore(r) ==
    LET pane == page.panes[r.pane]
    IN  /\ IF pane.state = "closed" \/ r.next > Len(pane.inputs)
           THEN replays' = replays \ {r}
           ELSE replays' = (replays \ {r}) \cup {[r EXCEPT !.next = @ + 1]}
        /\ page' = IF pane.state = "closed" \/ r.next = 0 THEN page
                   ELSE Deliver(page, r.pane, pane.inputs[r.next])
        /\ UNCHANGED <<left, turns, exits, mixed>>

\* A replay goes on after a delay.  It gives up when the connection has ended;
\* waiting for the prompt it goes on when that is there, or at the latest
\* after eight seconds; else it sends the next input.
ReplayPendingWorkspaceStartupInput(r) ==
    LET pane == page.panes[r.pane]
    IN  /\ IF pane.state = "closed" \/ r.next = Len(pane.inputs)
           THEN replays' = replays \ {r}
           ELSE replays' = (replays \ {r}) \cup {[r EXCEPT !.next = @ + 1]}
        /\ page' = IF pane.state = "closed" \/ r.next = 0 THEN page
                   ELSE Deliver(page, r.pane, pane.inputs[r.next])
        /\ UNCHANGED <<left, turns, exits, mixed>>

------------------------------------------------------------------------------
(* The connections, on threads of their own. *)

\* A connection comes up.  A command terminal is sent its input on the spot,
\* any other terminal's notice is posted to the window's thread.
Connect(p) ==
    LET pane == page.panes[p]
        up == [page EXCEPT !.panes[p] = [@ EXCEPT !.state = "connected", !.armed = @ /\ pane.kind # "command",
                                                  !.notices = IF pane.kind = "command" THEN @ ELSE @ + 1]]
    IN  /\ pane.state = "connecting"
        /\ page' = IF pane.kind = "command" /\ pane.armed THEN Deliver(up, p, pane.inputs[1]) ELSE up
        /\ UNCHANGED <<left, replays, turns, exits, mixed>>

\* A connection ends, or does not come up.
Close(p) ==
    /\ exits < MaxExits
    /\ page.panes[p].state \in {"connecting", "connected"}
    /\ page' = [page EXCEPT !.panes[p].state = "closed"]
    /\ exits' = exits + 1
    /\ UNCHANGED <<left, replays, turns, mixed>>

------------------------------------------------------------------------------
\* The window's loop has filled the queues; it opens the first tab at once,
\* before anything else can be done with the window.
Init ==
    /\ page = OnPreparingStartupActions(
                  [ids |-> <<>>, panels |-> <<>>, action |-> None, skip |-> FALSE, selected |-> FALSE,
                   panes |-> <<>>, focus |-> 0])
    /\ left = [startup |-> BuildStartupActions, other |-> <<>>]
    /\ replays = {}
    /\ turns = 0
    /\ exits = 0
    /\ mixed = FALSE

User == ExecuteCommandline \/ HandleNewTab \/ OpenWorkspace

\* What the dispatcher of the window's thread runs.
Dispatch ==
    \/ \E r \in Runs : ProcessStartupActions(r)
    \/ \E p \in DOMAIN page.panes : OnConnectionStateChanged(p)
    \/ \E r \in replays : ReplayPendingWorkspaceStartupInput(r)

Next ==
    \/ Dispatch
    \/ User
    \/ LoadWorkspaceEditorState
    \/ \E p \in DOMAIN page.panes : Focus(p) \/ RestartPaneConnection(p)
    \/ \E p \in DOMAIN page.panes : Connect(p) \/ Close(p)

\* The dispatcher does not idle while something is posted to it or a timer
\* ran out; connections, users and processes owe nothing.
Spec == Init /\ [][Next]_vars /\ WF_vars(Dispatch)

------------------------------------------------------------------------------
(* Properties. *)

\* Types: a suspended replay has an input left to send, the focus is on a
\* terminal, and only terminals inside a tab have a host.
TypeOK ==
    /\ page.ids \in Seq(IdsOf(Nodes)) /\ page.panels \in Seq(BOOLEAN) /\ page.selected \in BOOLEAN
    /\ page.skip \in BOOLEAN
    /\ page.focus \in 0..Len(page.panes) /\ Len(page.panes) <= MaxPanes
    /\ \A p \in DOMAIN page.panes :
           /\ page.panes[p].node \in IdsOf(Nodes) \cup {None}
           /\ page.panes[p].state \in {"connecting", "connected", "closed", "gone"}
           /\ (page.panes[p].host # 0) = (page.panes[p].kind = "command")
           /\ page.panes[p].notices \in Nat /\ page.panes[p].armed \in BOOLEAN
    /\ \A r \in replays : r.pane \in DOMAIN page.panes /\ r.next \in 0..Len(page.panes[r.pane].inputs)
    /\ DOMAIN left = Runs
    /\ turns \in 0..MaxTurns /\ exits \in 0..MaxExits /\ mixed \in BOOLEAN

\* What a node's own tab has to replay: its input as one piece or, with the
\* definition at hand, as the separate inputs of an SSH node.
OwnInputs(node) ==
    LET input == node.commands[1]
    IN  IF input = None THEN {<<>>}
        ELSE {<<input>>} \cup IF node.ssh /\ node.deferred # <<>> THEN {node.deferred} ELSE {}

\* The queue of node ids gives each tab its own node: unless a terminal was
\* opened by something else in the middle of the startup, a node's tab is
\* registered as that node, with its panel and its startup input, and no
\* other terminal, then or later, is taken for a node.
\* (ConsumePendingWorkspaceNodeId, _RegisterWorkspaceNodeRuntimeState)
TabsKnowTheirNode ==
    mixed \/ \A p \in DOMAIN page.panes :
        LET pane == page.panes[p]
        IN  /\ pane.node \in {pane.opened, None}
            /\ pane.kind = "tab" /\ pane.opened = None => pane.panel = None
            /\ pane.kind = "tab" /\ pane.opened # None =>
                   /\ pane.node = pane.opened /\ pane.panel = Find(pane.opened).panel
                   /\ pane.inputs \in OwnInputs(Find(pane.opened))

\* A terminal's startup input goes to each of its connections in order, and
\* no piece of it twice: neither by two replays nor by a replay and the
\* action it stands for.  Not promised for a connection that replaced one
\* whose notice or replay was still under way.
\* (_ReplayPendingWorkspaceStartupInput, ConsumeWorkspaceStartupActionSkip)
InputsInOrder ==
    mixed \/ \A p \in DOMAIN page.panes :
        LET pane == page.panes[p]
            own == SelectSeq(pane.got, LAMBDA i : i \in ToSet(pane.inputs))
        IN  pane.calm => IsPrefix(own, pane.inputs)

\* Once the workspace is up, a tab-mode node's tab hosts one terminal for
\* each further command, in their order and no more, however often the
\* command terminals were made anew; no other terminal hosts any.
\* (_ConfigureTerminalContentWrapper, Tab::SetTerminalContentTabHost)
CommandTerminalsHosted ==
    mixed \/ Starting \/ \A p \in DOMAIN page.panes :
        LET pane == page.panes[p]
            hosted == SelectSeq(page.panes, LAMBDA t : t.host = p /\ t.state # "gone")
            rest == IF pane.kind = "tab" /\ pane.opened # None /\ Find(pane.opened).mode = "Tab"
                    THEN Tail(Find(pane.opened).commands) ELSE <<>>
        IN  [h \in DOMAIN hosted |-> hosted[h].inputs]
              = [c \in DOMAIN rest |-> IF rest[c] = None THEN <<>> ELSE <<rest[c]>>]

\* The input of a terminal that is connected and was not restarted under its
\* feet; a command terminal's is for its first connection.
Awaited(p) ==
    /\ ~mixed
    /\ page.panes[p].state = "connected" /\ page.panes[p].calm
    /\ page.panes[p].kind = "command" => page.panes[p].epoch = 0

\* Again and again every terminal that is connected has been sent all of its
\* startup input; so one that stays connected gets it, after its first
\* connection and after every restart.
\* (OnConnectionStateChanged, _restartPaneConnection, sendWhenConnected)
StartupInputArrives ==
    []<>(\A p \in DOMAIN page.panes :
             Awaited(p) => ToSet(page.panes[p].inputs) \subseteq ToSet(page.panes[p].got))

=============================================================================
