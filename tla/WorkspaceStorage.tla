-------------------------- MODULE WorkspaceStorage --------------------------
(***************************************************************************)
(* The saved workspace definitions: a directory per workspace, with a file *)
(* workspace.yaml and a directory with a file tab.yaml per node, and the   *)
(* root file workspaces.yaml.  The windows load the whole list, change it  *)
(* and save the whole list.  Nothing locks the files: the windows of all   *)
(* processes read and write them at the same time, a save is one file      *)
(* operation after the other, and a process may be gone in between.        *)
(*                                                                         *)
(* A default window has the workspace manager, whose edits stay in memory  *)
(* until they are saved.  A workspace window saves when its tabs are       *)
(* moved or closed and when an input panel is shown or hidden.             *)
(*                                                                         *)
(* A name is its lowered form, a sequence of numbers that sorts as the     *)
(* text does and grows by n when " (n)" is appended, and whether it is     *)
(* written in other letters than that form.  Of a workspace the model      *)
(* keeps the tab order, of a node whether its input panel shows; all nodes *)
(* show their tab.  A file that was emptied reads as these fields' default.*)
(***************************************************************************)
EXTENDS Integers, Sequences, FiniteSets, FiniteSetsExt, Functions, Folds

CONSTANTS
    Managers,    \* default windows
    Viewers,     \* workspace windows
    TypedNames,  \* names a user may type
    Saved,       \* the list that is saved at first
    None,        \* no folder; nothing found
    Budgets      \* bound: how often users ask something of each window, and how
                 \* often a process dies, a file cannot be read or a write is lost

Windows == Managers \cup Viewers

VARIABLES
    meta,    \* by workspace directory: the tab order in its workspace.yaml
    tabs,    \* by workspace directory: its spelling and its node directories
    demo,    \* what the root file says of the demo entry
    page,    \* each window's list in memory
    pc,      \* where a window is in an operation
    task,    \* what the operation is
    mgr,     \* the list it has loaded or is saving
    dirs,    \* the directory names of that list
    at, sub, \* the workspace and the node it has come to
    todo,    \* directories that were there when it began to clean up
    victim,  \* the directory it removes
    alone,   \* history: no other save, no fault, since this save began
    settled, \* history: the list on disk after an undisturbed save
    touched, \* history: names a user changed, or that could not be read
    turns,   \* what users may still ask
    faults   \* how many faults may still occur

disk == <<meta, tabs, demo>>
frame == <<task, mgr, dirs, at, sub, todo, victim>>
history == <<alone, settled, touched>>
vars == <<disk, page, pc, frame, history, turns, faults>>

Put(f, k, v) == [x \in DOMAIN f \cup {k} |-> IF x = k THEN v ELSE f[x]]
Drop(f, k) == [x \in DOMAIN f \ {k} |-> f[x]]

NamesOf(list) == [n \in DOMAIN list |-> list[n].name]
Ids(list) == [n \in DOMAIN list |-> list[n].id]
Keys(names) == {names[n].key : n \in DOMAIN names}

Before(k, l) ==
    \E n \in 1..Len(l) :
        /\ n <= Len(k) + 1
        /\ SubSeq(k, 1, n - 1) = SubSeq(l, 1, n - 1)
        /\ n = Len(k) + 1 \/ k[n] < l[n]

Sorted(keys) ==
    [n \in 1..Cardinality(keys) |-> CHOOSE k \in keys : Cardinality({l \in keys : Before(l, k)}) = n - 1]

\* The list without its n-th entry, and a list folded from its first entry.
RemoveAt(list, n) == SubSeq(list, 1, n - 1) \o SubSeq(list, n + 1, Len(list))

FoldList(op(_, _), base, list) ==
    MapThenFoldSet(LAMBDA n, done : op(done, n), base, LAMBDA n : list[n], Max, DOMAIN list)

UniqueName(name, used) ==
    IF name.key \notin used THEN name
    ELSE LET free == {n \in 2..(Cardinality(used) + 2) : Append(name.key, n) \notin used}
         IN  [name EXCEPT !.key = Append(@, Min(free))]

\* Mutant: names that differ in their letters' case count as different.
UniqueNamesBySpelling(names) ==
    FoldList(LAMBDA done, name : Append(done, IF name \in Range(done) THEN UniqueName(name, Keys(done)) ELSE name),
             <<>>, names)

UniqueNames(names) ==
    FoldList(LAMBDA done, name : Append(done, UniqueName(name, Keys(done))), <<>>, names)

\* What is saved at first is a list, whose directories can be counted.
ASSUME SavedAssumption ==
    /\ Saved \in Seq(Range(Saved))
    /\ IsFiniteSet(Keys(UniqueNames(NamesOf(Saved))))

\* The nodes that the tab order names, by their first unused namesake, then
\* the other nodes.
OrderedNodes(nodes, order) ==
    LET unused(id, got) == {n \in DOMAIN nodes : nodes[n].id = id /\ n \notin Range(got)}
        named == FoldList(LAMBDA got, id : IF unused(id, got) = {} THEN got
                                           ELSE Append(got, Min(unused(id, got))), <<>>, order)
        all == named \o SelectSeq([n \in DOMAIN nodes |-> n], LAMBDA n : n \notin Range(named))
    IN  [n \in DOMAIN nodes |-> nodes[all[n]]]

EffectiveTabOrder(workspace) == Ids(OrderedNodes(workspace.nodes, workspace.order))

NormalizeWorkspacePersistableNames(workspace) ==
    LET nodes == workspace.nodes
        unique == UniqueNames(NamesOf(nodes))
        known == SelectSeq(workspace.order, LAMBDA id : id \in Range(Ids(nodes)))
        renamed(id) == unique[Min({n \in DOMAIN nodes : nodes[n].id = id})]
    IN  [workspace EXCEPT
            !.nodes = [n \in DOMAIN nodes |->
                          [nodes[n] EXCEPT !.id = unique[n], !.name = unique[n]]],
            !.order = [n \in DOMAIN known |-> renamed(known[n])]]

FinalizeWorkspaceManagerNames(list) ==
    LET unique == UniqueNames(NamesOf(list))
    IN  [n \in DOMAIN list |->
            [NormalizeWorkspacePersistableNames(list[n]) EXCEPT !.id = unique[n], !.name = unique[n]]]

\* The first workspace, or node, with an id; 0 when there is none.
IndexOf(list, id) ==
    LET found == {n \in DOMAIN list : list[n].id = id}
    IN  IF found = {} THEN 0 ELSE Min(found)
-----------------------------------------------------------------------------
(* What an operation does to the list, or None when it does not apply.     *)

RemoveWorkspaceDefinition(list, id) ==
    LET n == IndexOf(list, id) IN IF n = 0 THEN None ELSE RemoveAt(list, n)

RemoveWorkspaceNode(list, id, node) ==
    LET n == IndexOf(list, id)
        m == IF n = 0 THEN 0 ELSE IndexOf(list[n].nodes, node)
    IN  IF m = 0 THEN None
        ELSE IF Len(list[n].nodes) = 1 THEN RemoveAt(list, n)
        ELSE [list EXCEPT ![n].nodes = RemoveAt(@, m)]

ReorderWorkspaceNodes(list, id, order) ==
    LET n == IndexOf(list, id)
        nodes == list[n].nodes
    IN  IF n = 0 \/ Len(order) # Len(nodes) \/ ~IsInjective(order)
                 \/ ~(Range(order) \subseteq Range(Ids(nodes))) THEN None
        ELSE [list EXCEPT ![n].order = order,
                          ![n].nodes = [m \in DOMAIN nodes |-> nodes[IndexOf(nodes, order[m])]]]

SetWorkspaceNodeInputVisibility(list, id, node, panel) ==
    LET n == IndexOf(list, id)
    IN  IF n = 0 \/ node > Len(list[n].nodes) THEN None
        ELSE [list EXCEPT ![n].nodes[node].panel = panel]

Changed(t, list) ==
    CASE t.op = "save" -> FinalizeWorkspaceManagerNames(list)
      [] t.op = "remove" -> RemoveWorkspaceDefinition(list, t.id)
      [] t.op = "removeNode" -> RemoveWorkspaceNode(list, t.id, t.node)
      [] t.op = "order" -> ReorderWorkspaceNodes(list, t.id, t.order)
      [] t.op = "panel" -> SetWorkspaceNodeInputVisibility(list, t.id, t.index, t.panel)
      [] OTHER -> None
-----------------------------------------------------------------------------
(* An operation starts.  It takes the list in memory or loads one.         *)

\* The user asks something of a window that is doing nothing.
Turn(w) ==
    /\ pc[w] = "idle"
    /\ turns[w] > 0
    /\ turns' = [turns EXCEPT ![w] = @ - 1]

Saving == {"meta", "metaFlush", "node", "nodeFlush", "pruneNodes",
           "pruneWorkspaces", "removing", "rootFlush"}

Fault == faults > 0 /\ faults' = faults - 1

NoTask == [op |-> "none"]
Nothing == [list |-> <<>>, demo |-> FALSE]

\* The operation returns and its locals are gone.
Release(w) ==
    /\ pc' = [pc EXCEPT ![w] = "idle"]
    /\ task' = [task EXCEPT ![w] = NoTask]
    /\ mgr' = [mgr EXCEPT ![w] = Nothing]
    /\ dirs' = [dirs EXCEPT ![w] = <<>>]
    /\ at' = [at EXCEPT ![w] = 1]
    /\ sub' = [sub EXCEPT ![w] = 1]
    /\ todo' = [todo EXCEPT ![w] = {}]
    /\ victim' = [victim EXCEPT ![w] = None]

\* SaveToPath begins.
BeginSave(w, t, list, shown) ==
    /\ task' = [task EXCEPT ![w] = t]
    /\ mgr' = [mgr EXCEPT ![w] = [list |-> list, demo |-> shown]]
    /\ LET unique == UniqueNames(NamesOf(list))
       IN  dirs' = [dirs EXCEPT ![w] = [n \in DOMAIN list |-> unique[n]]]
    /\ pc' = [pc EXCEPT ![w] = IF list = <<>> THEN "pruneWorkspaces" ELSE "meta"]
    /\ at' = [at EXCEPT ![w] = 1]
    /\ sub' = [sub EXCEPT ![w] = 1]
    /\ todo' = [todo EXCEPT ![w] = DOMAIN meta]
    /\ alone' = [v \in Windows |-> v = w /\ \A u \in Windows \ {w} : pc[u] \notin Saving]
    /\ settled' = None
    /\ UNCHANGED <<disk, victim>>

BeginLoad(w, t) ==
    /\ task' = [task EXCEPT ![w] = t]
    /\ pc' = [pc EXCEPT ![w] = "enumerate"]
    /\ UNCHANGED <<disk, mgr, dirs, at, sub, todo, victim, alone, settled>>

\* Changes the list and saves it, if the operation applies to it.
ApplyAndSave(w, t, list, shown) ==
    IF Changed(t, list) = None THEN Release(w) /\ UNCHANGED <<disk, alone, settled>>
    ELSE BeginSave(w, t, Changed(t, list), shown)

\* The manager opens, drops its edits, or hears of a change on disk while it
\* has none.
ReloadEditor(w) ==
    /\ Turn(w)
    /\ page' = [page EXCEPT ![w].dirty = FALSE]
    /\ BeginLoad(w, [op |-> "reload"])
    /\ UNCHANGED <<touched, faults>>

SaveWorkspaceEditorState(w) ==
    /\ Turn(w)
    /\ w \in Managers /\ page[w].open
    /\ ApplyAndSave(w, [op |-> "save"], page[w].list, page[w].demo)
    /\ UNCHANGED <<page, touched, faults>>

\* _LoadWorkspaceEditorMutationManager: unsaved edits are saved along.
Mutate(w, t) ==
    /\ IF page[w].dirty THEN ApplyAndSave(w, t, page[w].list, page[w].demo) ELSE BeginLoad(w, t)
    /\ touched' = touched \cup {t.id.key}
    /\ UNCHANGED <<page, faults>>

RemoveWorkspaceDefinitionById(w) ==
    /\ Turn(w)
    /\ w \in Managers
    /\ \E n \in DOMAIN page[w].list :
           Mutate(w, [op |-> "remove", id |-> page[w].list[n].id])

RemoveWorkspaceNodeById(w) ==
    /\ Turn(w)
    /\ LET shown == IF w \in Managers THEN page[w].list ELSE Saved
       IN  \E n \in DOMAIN shown : \E m \in DOMAIN shown[n].nodes :
               Mutate(w, [op |-> "removeNode", id |-> shown[n].id, node |-> shown[n].nodes[m].id])

\* The tabs of a workspace window in any order, one for each node id.
TabOrders(nodes) ==
    LET ids == Range(Ids(nodes)) IN Injection(1..Cardinality(ids), ids)

\* The tabs of a workspace window were moved.
PersistCurrentWorkspaceTabOrder(w) ==
    /\ Turn(w)
    /\ w \in Viewers
    /\ \E n \in DOMAIN Saved : \E order \in TabOrders(Saved[n].nodes) \ {<<>>} :
           BeginLoad(w, [op |-> "order", id |-> Saved[n].id, order |-> order])
    /\ UNCHANGED <<page, touched, faults>>

\* The list in memory, however old, is saved if it has the node.
PersistWorkspaceNodeInputVisibility(w) ==
    /\ Turn(w)
    /\ w \in Viewers
    /\ \E n \in DOMAIN Saved, panel \in BOOLEAN : \E m \in DOMAIN Saved[n].nodes :
           LET t == [op |-> "panel", id |-> Saved[n].id, index |-> m, panel |-> panel]
           IN  IF Changed(t, page[w].list) = None THEN BeginLoad(w, t)
               ELSE BeginSave(w, t, Changed(t, page[w].list), page[w].demo)
    /\ UNCHANGED <<page, touched, faults>>
-----------------------------------------------------------------------------
(* Edits in the manager change the list in memory only.                    *)

Edit(w, list, keys) ==
    /\ Turn(w)
    /\ w \in Managers /\ page[w].open
    /\ page' = [page EXCEPT ![w].list = list, ![w].dirty = TRUE]
    /\ touched' = touched \cup keys
    /\ UNCHANGED <<disk, pc, frame, alone, settled, faults>>

Generated(count) == [key |-> <<count + 1>>, caps |-> FALSE]

\* A new workspace is a copy of another one or empty.
AddWorkspaceDefinition(w) ==
    LET list == page[w].list
        name == Generated(Len(list))
        blank == [id |-> name, name |-> name, nodes |-> <<>>, order |-> <<>>]
    IN  \E workspace \in {blank} \cup {[list[n] EXCEPT !.id = name, !.name = name] : n \in DOMAIN list} :
            Edit(w, Append(list, workspace), {name.key})

AddWorkspaceNode(w) ==
    \E n \in DOMAIN page[w].list :
        LET name == Generated(Len(page[w].list[n].nodes))
            node == [id |-> name, name |-> name, panel |-> FALSE]
        IN  Edit(w, [page[w].list EXCEPT ![n].nodes = Append(@, node)], {})

\* The ids keep the old names until the list is saved.
EditWorkspaceName(w) ==
    \E n \in DOMAIN page[w].list, name \in TypedNames :
        Edit(w, [page[w].list EXCEPT ![n].name = name], {page[w].list[n].name.key, name.key})

EditNodeName(w) ==
    \E n \in DOMAIN page[w].list, name \in TypedNames : \E m \in DOMAIN page[w].list[n].nodes :
        Edit(w, [page[w].list EXCEPT ![n].nodes[m].name = name], {page[w].list[n].name.key})

MoveWorkspaceManagerVisibleNode(w) ==
    \E n \in DOMAIN page[w].list : \E m \in 1..(Len(page[w].list[n].nodes) - 1) :
        LET nodes == page[w].list[n].nodes
            moved == [nodes EXCEPT ![m] = nodes[m + 1], ![m + 1] = nodes[m]]
        IN  Edit(w, [page[w].list EXCEPT ![n].nodes = moved, ![n].order = Ids(moved)], {})
-----------------------------------------------------------------------------
(* LoadFromPath: the root file and the workspace directories, then the     *)
(* node directories of one workspace after the other.  A file that cannot  *)
(* be opened is passed over; the history notes which.                      *)

Unreadable(keys) == {{}} \cup (IF faults > 0 THEN {{k} : k \in keys} ELSE {})

CountFaults(lost) == faults' = faults - Cardinality(lost)

\* Mutant: a workspace file that is being rewritten counts as damaged.
EnumerateWholeFiles(w) ==
    LET found == Sorted({k \in DOMAIN meta : meta[k] # <<>> \/ tabs[k].nodes = <<>>})
        read(k) == [id |-> tabs[k].shown, name |-> tabs[k].shown, nodes |-> <<>>, order |-> meta[k]]
    IN  /\ pc[w] = "enumerate"
        /\ mgr' = [mgr EXCEPT ![w] = [list |-> [n \in DOMAIN found |-> read(found[n])], demo |-> demo]]
        /\ pc' = [pc EXCEPT ![w] = "readNodes"]
        /\ at' = [at EXCEPT ![w] = 1]
        /\ UNCHANGED <<disk, page, task, dirs, sub, todo, victim, alone, settled, touched, turns, faults>>

EnumeratePersistedWorkspaceDirectories(w) ==
    /\ pc[w] = "enumerate"
    /\ \E lost \in Unreadable(DOMAIN meta) :
           LET found == Sorted(DOMAIN meta \ lost)
               read(k) == [id |-> tabs[k].shown, name |-> tabs[k].shown,
                           nodes |-> <<>>, order |-> meta[k]]
           IN  /\ mgr' = [mgr EXCEPT ![w] = [list |-> [n \in 1..Cardinality(DOMAIN meta \ lost) |-> read(found[n])],
                                             demo |-> demo]]
               /\ touched' = touched \cup lost
               /\ CountFaults(lost)
    /\ pc' = [pc EXCEPT ![w] = "readNodes"]
    /\ at' = [at EXCEPT ![w] = 1]
    /\ UNCHANGED <<disk, page, task, dirs, sub, todo, victim, alone, settled, turns>>

NodesIn(key) == IF key \in DOMAIN tabs THEN tabs[key].nodes ELSE <<>>

\* The nodes in the order of the workspace file, those it does not name last.
LoadedNodes(files, keys, order) ==
    LET found == Sorted(keys)
        read(n) == [id |-> files[found[n]].shown, name |-> files[found[n]].shown,
                    panel |-> files[found[n]].panel]
    IN  OrderedNodes([n \in DOMAIN found |-> read(n)], order)

ReadNodes(w) ==
    LET workspace == mgr[w].list[at[w]]
        files == NodesIn(workspace.name.key)
    IN  /\ pc[w] = "readNodes"
        /\ at[w] <= Len(mgr[w].list)
        /\ \E lost \in Unreadable(DOMAIN files) :
               LET nodes == LoadedNodes(files, DOMAIN files \ lost, workspace.order)
               IN  /\ mgr' = [mgr EXCEPT ![w].list[at[w]] =
                                  [@ EXCEPT !.nodes = nodes, !.order = IF nodes = <<>> THEN @ ELSE Ids(nodes)]]
                   /\ touched' = IF lost = {} THEN touched ELSE touched \cup {workspace.name.key}
                   /\ CountFaults(lost)
        /\ at' = [at EXCEPT ![w] = @ + 1]
        /\ UNCHANGED <<disk, page, pc, task, dirs, sub, todo, victim, alone, settled, turns>>

\* A list that is only shown replaces the one in memory; the others are
\* changed and saved.
FinishLoad(w) ==
    /\ pc[w] = "readNodes"
    /\ at[w] > Len(mgr[w].list)
    /\ IF task[w].op = "reload"
       THEN /\ page' = [page EXCEPT ![w] = [list |-> mgr[w].list, demo |-> mgr[w].demo,
                                            dirty |-> page[w].dirty, open |-> TRUE]]
            /\ Release(w) /\ UNCHANGED <<disk, alone, settled>>
       ELSE /\ ApplyAndSave(w, task[w], mgr[w].list, mgr[w].demo)
            /\ UNCHANGED page
    /\ UNCHANGED <<touched, turns, faults>>
-----------------------------------------------------------------------------
(* SaveToPath, file by file.  Opening a file empties it, or creates it and *)
(* its directories; a directory that is there keeps its spelling.  What    *)
(* was written reaches the file later, when it is closed, and a failure    *)
(* there goes unnoticed.                                                   *)

Step(w, next) == pc' = [pc EXCEPT ![w] = next]

Current(w) == mgr[w].list[at[w]]
Folder(w) == dirs[w][at[w]].key
NodeDirs(w) == UniqueNames(NamesOf(Current(w).nodes))

Shown(name) == IF name.key \in DOMAIN tabs THEN tabs[name.key]
               ELSE [shown |-> name, nodes |-> <<>>]

OpenWorkspaceFile(w) ==
    /\ pc[w] = "meta"
    /\ meta' = Put(meta, Folder(w), <<>>)
    /\ tabs' = Put(tabs, Folder(w), Shown(dirs[w][at[w]]))
    /\ Step(w, "metaFlush")
    /\ UNCHANGED <<demo, page, frame, history, turns, faults>>

\* All that is written to a file is lost when it is closed.
LoseWrite(w) ==
    /\ Fault
    /\ alone' = [alone EXCEPT ![w] = FALSE]

AfterFile(w) ==
    /\ sub' = [sub EXCEPT ![w] = IF pc[w] = "metaFlush" THEN 1 ELSE @ + 1]
    /\ IF sub'[w] <= Len(Current(w).nodes)
       THEN Step(w, "node") /\ UNCHANGED todo
       ELSE /\ Step(w, "pruneNodes")
            /\ todo' = [todo EXCEPT ![w] = DOMAIN NodesIn(Folder(w))]

CloseWorkspaceFile(w) ==
    /\ pc[w] = "metaFlush"
    /\ \/ /\ meta' = Put(meta, Folder(w), EffectiveTabOrder(Current(w)))
          /\ UNCHANGED <<alone, faults>>
       \/ LoseWrite(w) /\ UNCHANGED meta
    /\ AfterFile(w)
    /\ UNCHANGED <<tabs, demo, page, task, mgr, dirs, at, victim, settled, touched, turns>>

NodeFile(w, panel) ==
    LET name == NodeDirs(w)[sub[w]]
        folder == Shown(dirs[w][at[w]])
        spelt == IF name.key \in DOMAIN folder.nodes THEN folder.nodes[name.key].shown ELSE name
    IN  Put(tabs, Folder(w),
            [folder EXCEPT !.nodes = Put(@, name.key, [shown |-> spelt, panel |-> panel])])

OpenNodeFile(w) ==
    /\ pc[w] = "node"
    /\ tabs' = NodeFile(w, FALSE)
    /\ Step(w, "nodeFlush")
    /\ UNCHANGED <<meta, demo, page, frame, history, turns, faults>>

CloseNodeFile(w) ==
    /\ pc[w] = "nodeFlush"
    /\ \/ /\ tabs' = NodeFile(w, Current(w).nodes[sub[w]].panel)
          /\ UNCHANGED <<alone, faults>>
       \/ LoseWrite(w) /\ UNCHANGED tabs
    /\ AfterFile(w)
    /\ UNCHANGED <<meta, demo, page, task, mgr, dirs, at, victim, settled, touched, turns>>

\* A file that a window has open is not removed: the other window's save fails.
HeldNodes(key) == {NodeDirs(w)[sub[w]].key : w \in {v \in Windows : pc[v] = "nodeFlush" /\ Folder(v) = key}}

HeldMetadata(key) == \E w \in Windows : pc[w] = "metaFlush" /\ Folder(w) = key

StaleNodes(w) == DOMAIN NodesIn(Folder(w)) \ Keys(NodeDirs(w))

\* A directory that appears during the clean-up may be seen by it or not.
RemoveStaleNode(w) ==
    /\ pc[w] = "pruneNodes"
    /\ \E key \in StaleNodes(w) \ HeldNodes(Folder(w)) :
           tabs' = [tabs EXCEPT ![Folder(w)].nodes = Drop(@, key)]
    /\ UNCHANGED <<meta, demo, page, pc, frame, history, turns, faults>>

\* Mutant: the tabs that are gone from the list keep their directories.
NextWorkspaceAtOnce(w) ==
    /\ pc[w] = "pruneNodes"
    /\ IF at[w] < Len(dirs[w])
       THEN Step(w, "meta") /\ at' = [at EXCEPT ![w] = @ + 1] /\ UNCHANGED todo
       ELSE Step(w, "pruneWorkspaces") /\ todo' = [todo EXCEPT ![w] = DOMAIN meta] /\ UNCHANGED at
    /\ UNCHANGED <<disk, page, task, mgr, dirs, sub, victim, history, turns, faults>>

\* Mutant: the directories are cleaned up after the first workspace.
NextWorkspaceEarly(w) ==
    /\ pc[w] = "pruneNodes"
    /\ Step(w, "pruneWorkspaces")
    /\ todo' = [todo EXCEPT ![w] = DOMAIN meta]
    /\ UNCHANGED <<disk, page, task, mgr, dirs, at, sub, victim, history, turns, faults>>

NextWorkspace(w) ==
    /\ pc[w] = "pruneNodes"
    /\ StaleNodes(w) \cap todo[w] = {}
    /\ IF at[w] < Len(dirs[w])
       THEN /\ Step(w, "meta")
            /\ at' = [at EXCEPT ![w] = @ + 1]
            /\ UNCHANGED todo
       ELSE /\ Step(w, "pruneWorkspaces")
            /\ todo' = [todo EXCEPT ![w] = DOMAIN meta]
            /\ UNCHANGED at
    /\ UNCHANGED <<disk, page, task, mgr, dirs, sub, victim, history, turns, faults>>

StaleWorkspaces(w) == DOMAIN meta \ Keys(dirs[w])

ChooseStaleWorkspace(w) ==
    /\ pc[w] = "pruneWorkspaces"
    /\ \E key \in StaleWorkspaces(w) : victim' = [victim EXCEPT ![w] = key]
    /\ Step(w, "removing")
    /\ UNCHANGED <<disk, page, task, mgr, dirs, at, sub, todo, history, turns, faults>>

\* remove_all takes the entries of the directory one after the other.
RemoveEntry(w) ==
    /\ pc[w] = "removing"
    /\ victim[w] \in DOMAIN tabs
    /\ \/ /\ victim[w] \in DOMAIN meta
          /\ ~HeldMetadata(victim[w])
          /\ meta' = Drop(meta, victim[w])
          /\ UNCHANGED tabs
       \/ /\ tabs[victim[w]].nodes # <<>>
          /\ HeldNodes(victim[w]) = {}
          /\ tabs' = [tabs EXCEPT ![victim[w]].nodes = <<>>]
          /\ UNCHANGED meta
    /\ UNCHANGED <<demo, page, pc, frame, history, turns, faults>>

RemoveFolder(w) ==
    /\ pc[w] = "removing"
    /\ victim[w] \notin DOMAIN meta
    /\ victim[w] \in DOMAIN tabs => tabs[victim[w]].nodes = <<>>
    /\ tabs' = Drop(tabs, victim[w])
    /\ victim' = [victim EXCEPT ![w] = None]
    /\ Step(w, "pruneWorkspaces")
    /\ UNCHANGED <<meta, demo, page, task, mgr, dirs, at, sub, todo, history, turns, faults>>

\* The legacy file that is removed has the name of the root file, which is
\* then created anew; either way it says nothing of the demo entry.
ReplaceRootFile(w) ==
    /\ pc[w] = "pruneWorkspaces"
    /\ StaleWorkspaces(w) \cap todo[w] = {}
    /\ demo' = FALSE
    /\ Step(w, "rootFlush")
    /\ UNCHANGED <<meta, tabs, page, frame, history, turns, faults>>

\* The save is done.  The saved list replaces the one in memory; a workspace
\* window then loads it.
CloseRootFile(w) ==
    /\ pc[w] = "rootFlush"
    /\ \/ /\ demo' = mgr[w].demo
          /\ settled' = IF alone[w] THEN mgr[w] ELSE None
          /\ UNCHANGED <<alone, faults>>
       \/ LoseWrite(w) /\ UNCHANGED <<demo, settled>>
    /\ page' = [page EXCEPT ![w] = [list |-> mgr[w].list, demo |-> mgr[w].demo, dirty |-> FALSE, open |-> @.open]]
    /\ IF task[w].op \in {"order", "panel"}
       THEN /\ Step(w, "enumerate")
            /\ task' = [task EXCEPT ![w] = [op |-> "reload"]]
            /\ UNCHANGED <<mgr, dirs, at, sub, todo, victim>>
       ELSE Release(w)
    /\ UNCHANGED <<meta, tabs, touched, turns>>
-----------------------------------------------------------------------------
\* What is to be removed is open in another window, or was filled again.
Refused(w) ==
    \/ pc[w] = "pruneNodes" /\ StaleNodes(w) \cap HeldNodes(Folder(w)) # {}
    \/ pc[w] = "removing" /\ (HeldMetadata(victim[w]) \/ HeldNodes(victim[w]) # {})

(* A file could not be opened or removed: the save reports failure and the *)
(* list in memory stays as it is.                                          *)
FailSave(w) ==
    /\ pc[w] \in Saving
    /\ IF Refused(w) THEN UNCHANGED faults ELSE Fault
    /\ Release(w)
    /\ UNCHANGED <<disk, page, history, turns>>

\* The process is gone in the middle of an operation, and started again.
Crash(w) ==
    /\ pc[w] # "idle"
    /\ Fault
    /\ Release(w)
    /\ page' = [page EXCEPT ![w] = [list |-> <<>>, demo |-> FALSE, dirty |-> FALSE, open |-> FALSE]]
    /\ UNCHANGED <<disk, history, turns>>
-----------------------------------------------------------------------------
Init ==
    LET names == UniqueNames(NamesOf(Saved))
        index(k) == CHOOSE n \in DOMAIN names : names[n].key = k
        files(nodes) == [k \in Keys(NamesOf(nodes)) |->
                            LET m == CHOOSE i \in DOMAIN nodes : nodes[i].name.key = k
                            IN  [shown |-> nodes[m].name, panel |-> nodes[m].panel]]
    IN  /\ meta = [k \in Keys(names) |-> EffectiveTabOrder(Saved[index(k)])]
        /\ tabs = [k \in Keys(names) |-> [shown |-> names[index(k)], nodes |-> files(Saved[index(k)].nodes)]]
        /\ demo = TRUE
        /\ page = [w \in Windows |-> [list |-> Saved, demo |-> TRUE, dirty |-> FALSE, open |-> TRUE]]
        /\ pc = [w \in Windows |-> "idle"]
        /\ task = [w \in Windows |-> NoTask]
        /\ mgr = [w \in Windows |-> Nothing]
        /\ dirs = [w \in Windows |-> <<>>]
        /\ at = [w \in Windows |-> 1]
        /\ sub = [w \in Windows |-> 1]
        /\ todo = [w \in Windows |-> {}]
        /\ victim = [w \in Windows |-> None]
        /\ alone = [w \in Windows |-> FALSE]
        /\ settled = None
        /\ touched = {}
        /\ \E budget \in Budgets : turns = budget.turns /\ faults = budget.faults

Request(w) ==
    \/ ReloadEditor(w) \/ SaveWorkspaceEditorState(w)
    \/ RemoveWorkspaceDefinitionById(w) \/ RemoveWorkspaceNodeById(w)
    \/ PersistCurrentWorkspaceTabOrder(w) \/ PersistWorkspaceNodeInputVisibility(w)
    \/ AddWorkspaceDefinition(w) \/ AddWorkspaceNode(w) \/ EditWorkspaceName(w)
    \/ EditNodeName(w) \/ MoveWorkspaceManagerVisibleNode(w)

Work(w) ==
    \/ EnumeratePersistedWorkspaceDirectories(w) \/ ReadNodes(w) \/ FinishLoad(w)
    \/ OpenWorkspaceFile(w) \/ CloseWorkspaceFile(w) \/ OpenNodeFile(w) \/ CloseNodeFile(w)
    \/ RemoveStaleNode(w) \/ NextWorkspace(w) \/ ChooseStaleWorkspace(w) \/ RemoveEntry(w)
    \/ RemoveFolder(w) \/ ReplaceRootFile(w) \/ CloseRootFile(w)

Next == \E w \in Windows : Request(w) \/ Work(w) \/ FailSave(w) \/ Crash(w)

Spec == Init /\ [][Next]_vars
-----------------------------------------------------------------------------
\* Every list a window is saving has a directory name of its own for each
\* workspace, and every directory that loads is there.
TypeOK ==
    /\ DOMAIN meta \subseteq DOMAIN tabs
    /\ pc \in [Windows -> Saving \cup {"idle", "enumerate", "readNodes"}]
    /\ \A w \in Windows :
           /\ page[w].dirty => page[w].open
           /\ pc[w] \in Saving =>
                  /\ Len(dirs[w]) = Len(mgr[w].list)
                  /\ IsInjective([n \in DOMAIN dirs[w] |-> dirs[w][n].key])
                  /\ at[w] <= Len(dirs[w]) \/ pc[w] \in {"pruneWorkspaces", "removing", "rootFlush"}

\* A workspace that nobody removed, renamed or edited is on disk at all times,
\* with all its tabs: through saves of several windows at once, loads in the
\* middle of a save, failed and interrupted saves and lost writes
\* (LoadFromPath, SaveToPath).
UntouchedStays ==
    \A n \in DOMAIN Saved :
        LET key == Saved[n].name.key
        IN  key \notin touched =>
                /\ key \in DOMAIN meta
                /\ Keys(NamesOf(Saved[n].nodes)) \subseteq DOMAIN NodesIn(key)

\* The tabs of a saved workspace, in memory and as a load finds them.
TabsInMemory(workspace) == OrderedNodes(workspace.nodes, workspace.order)

TabsOnDisk(key) == LoadedNodes(NodesIn(key), DOMAIN NodesIn(key), meta[key])

SameTabs(one, other) ==
    /\ Len(one) = Len(other)
    /\ \A m \in DOMAIN one : one[m].name.key = other[m].name.key /\ one[m].panel = other[m].panel

\* No node waits for its new name, and none was renamed to other letters only.
NamesSettled(workspace, key) ==
    LET names == UniqueNames(NamesOf(workspace.nodes))
    IN  \A m \in DOMAIN names :
            /\ workspace.nodes[m].id = names[m] /\ workspace.nodes[m].name = names[m]
            /\ NodesIn(key)[names[m].key].shown = names[m]

\* After a save that no other save, crash or lost write disturbed, a load
\* finds what was saved and nothing else: the workspaces, their tabs with
\* their settings and in their order, and the demo entry (SaveToPath).
SavedListLoads ==
    settled # None =>
        LET list == settled.list
            names == UniqueNames(NamesOf(list))
        IN  /\ DOMAIN meta = Keys(names)
            /\ demo = settled.demo
            /\ \A n \in DOMAIN list :
                   LET key == names[n].key
                   IN  /\ DOMAIN NodesIn(key) = Keys(UniqueNames(NamesOf(list[n].nodes)))
                       /\ NamesSettled(list[n], key) => SameTabs(TabsInMemory(list[n]), TabsOnDisk(key))

\* "Keep both in sync so every caller has an order that survives Save()"
\* (ApplyVisibleWorkspaceNodeOrder): the order of the tabs does so.
TabOrderSurvives ==
    settled # None =>
        \A n \in DOMAIN settled.list :
            LET key == UniqueNames(NamesOf(settled.list))[n].key
                tabsThen == UniqueNames(NamesOf(TabsInMemory(settled.list[n])))
                tabsNow == NamesOf(TabsOnDisk(key))
            IN  [m \in DOMAIN tabsThen |-> tabsThen[m].key] = [m \in DOMAIN tabsNow |-> tabsNow[m].key]

\* How many workspaces of its list a save has written, and the names of these
\* and of all it is to write.
Written(w) ==
    CASE pc[w] = "meta" -> at[w] - 1
      [] pc[w] \in {"metaFlush", "node", "nodeFlush", "pruneNodes"} -> at[w]
      [] OTHER -> IF at[w] < Len(dirs[w]) THEN at[w] ELSE Len(dirs[w])

WrittenNames(w) == IF pc[w] \in Saving THEN {dirs[w][n].key : n \in 1..Written(w)} ELSE {}

ListedNames(w) == IF pc[w] \in Saving THEN {dirs[w][n].key : n \in 1..Len(dirs[w])} ELSE {}

Store == INSTANCE DefinitionStore WITH
    Savers <- Windows,
    names <- DOMAIN meta,
    active <- {w \in Windows : pc[w] \in Saving},
    target <- [w \in Windows |-> ListedNames(w)],
    added <- [w \in Windows |-> WrittenNames(w)]

\* The files keep what saving promises of the set of workspaces: names come
\* from the list being saved, and go only when that whole list is on disk.
ImplementsStore == Store!Spec

=============================================================================
