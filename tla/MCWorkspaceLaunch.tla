-------------------------- MODULE MCWorkspaceLaunch --------------------------
(***************************************************************************)
(* WorkspaceLaunch for TLC: the definitions of two workspaces and a        *)
(* command line that opens a tab and types into it.                        *)
(***************************************************************************)
EXTENDS WorkspaceLaunch

NodeOf(id, mode, commands) ==
    [id |-> id, profile |-> "plain", ssh |-> FALSE, tty |-> FALSE, mode |-> mode, panel |-> TRUE,
     commands |-> commands, deferred |-> <<>>]

\* A node with a second command in a tab of its own, an SSH node that changes
\* directory and runs a command, and a node whose profile is gone.
TabNodes == <<
    NodeOf("build", "Tab", <<"make", "watch">>),
    [NodeOf("remote", "Split", <<"cd+top">>) EXCEPT !.ssh = TRUE, !.tty = TRUE, !.panel = FALSE,
                                                    !.deferred = <<"cd", "top">>],
    [NodeOf("stray", "Split", <<None>>) EXCEPT !.profile = "missing"] >>

\* A node whose two commands split its tab, and one more node.
SplitNodes == << NodeOf("pair", "Split", <<"serve", "log">>), NodeOf("shell", "Split", <<None>>) >>

WtCommandline == << NewTab(None), SendInput("hello") >>

=============================================================================
