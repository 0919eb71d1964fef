----------------------- MODULE WorkspaceStorageProofs -----------------------
(***************************************************************************)
(* The files of WorkspaceStorage keep the promise of DefinitionStore, for  *)
(* any windows, any names and any list that is saved at first.             *)
(***************************************************************************)
EXTENDS WorkspaceStorage, TLAPS, FiniteSetTheorems,
        WellFoundedInduction

IsList(list) == \E S : list \in Seq(S)

(* Facts on lists, for the operations that change one.                     *)

\* A function on 1..k is a list of length k.
LEMMA FunctionIsList ==
    ASSUME NEW f, NEW k \in Nat, DOMAIN f = 1..k, f = [n \in 1..k |-> f[n]]
    PROVE  IsList(f) /\ Len(f) = k
<1> DEFINE S == {f[n] : n \in 1..k}
<1>1. f \in [1..k -> S]
  OBVIOUS
<1>2. f \in Seq(S) /\ Len(f) = k
  BY <1>1
<1> QED BY Zenon, <1>2 DEF IsList

\* A list has the domain of its length.
LEMMA ListDomain ==
    ASSUME NEW list, IsList(list)
    PROVE  /\ Len(list) \in Nat
           /\ DOMAIN list = 1..Len(list)
           /\ list = [n \in 1..Len(list) |-> list[n]]
           /\ list # <<>> => 1 <= Len(list)
           /\ list = <<>> => Len(list) = 0
BY DEF IsList

\* Changing entries keeps a list (reordering, editing, reading nodes).
LEMMA SameDomainIsList ==
    ASSUME NEW list, IsList(list), NEW g, DOMAIN g = DOMAIN list, g = [n \in DOMAIN g |-> g[n]]
    PROVE  IsList(g)
<1> USE ListDomain
<1> QED BY FunctionIsList

\* An added workspace gives a list (AddWorkspaceDefinition).
LEMMA AppendIsList ==
    ASSUME NEW list, IsList(list), NEW x
    PROVE  IsList(Append(list, x))
<1>1. PICK S : list \in Seq(S)
  BY DEF IsList
<1>2. list \in Seq(S \cup {x})
  BY <1>1
<1>3. Append(list, x) \in Seq(S \cup {x})
  BY <1>2
<1> QED BY <1>3 DEF IsList

\* The first entry with an id is an entry, or there is none (IndexOf).
LEMMA IndexOfType ==
    ASSUME NEW list, IsList(list), NEW id
    PROVE  IndexOf(list, id) \in 0..Len(list)
<1> DEFINE found == {n \in DOMAIN list : list[n].id = id}
           R == OpToRel(<, Nat)
<1>1. Len(list) \in Nat /\ found \subseteq 1..Len(list)
  BY ListDomain
<1>2. CASE found = {}
  BY <1>1, <1>2 DEF IndexOf
<1>3. CASE found # {}
  <2>1. PICK x \in found : \A y \in found : <<y, x>> \notin R
    <3>1. IsWellFoundedOn(R, Nat)
      BY Zenon, NatLessThanWellFounded
    <3>2. found \subseteq Nat
      BY <1>1
    <3> HIDE DEF R, found
    <3> QED BY Zenon, <3>1, <3>2, <1>3, WFMin
  <2>2. ASSUME NEW y \in found PROVE x =< y
    <3>1. <<y, x>> \notin R
      BY Zenon, <2>1
    <3>2. y \in Nat /\ x \in Nat
      BY <1>1
    <3>3. ~(y < x)
      BY <3>1, <3>2 DEF OpToRel
    <3> QED BY <3>2, <3>3
  <2>3. Min(found) \in found
    <3> HIDE DEF found
    <3> QED BY Zenon, <2>2 DEF Min
  <2>4. IndexOf(list, id) = Min(found)
    BY <1>3 DEF IndexOf
  <2> QED BY <2>3, <2>4, <1>1
<1> QED BY <1>2, <1>3

\* A removed entry leaves a list (RemoveWorkspaceDefinition).
LEMMA RemoveAtIsList ==
    ASSUME NEW list, IsList(list), NEW n \in 1..Len(list)
    PROVE  IsList(RemoveAt(list, n))
<1>1. PICK S : list \in Seq(S)
  BY DEF IsList
<1>2. SubSeq(list, 1, n - 1) \in Seq(S)
  BY <1>1
<1>3. SubSeq(list, n + 1, Len(list)) \in Seq(S)
  BY <1>1
<1>4. RemoveAt(list, n) \in Seq(S)
  BY <1>2, <1>3 DEF RemoveAt
<1> QED BY <1>4 DEF IsList

\* What an operation makes of a list is a list (Changed).
LEMMA ChangedIsList ==
    ASSUME NEW t, NEW list, IsList(list), Changed(t, list) # None
    PROVE  IsList(Changed(t, list))
<1> USE ListDomain
<1>1. CASE t.op = "save"
  BY Zenon, <1>1, SameDomainIsList DEF Changed, FinalizeWorkspaceManagerNames
<1>2. CASE t.op = "remove"
  <2>1. IndexOf(list, t.id) \in 1..Len(list)
    BY <1>2, IndexOfType DEF Changed, RemoveWorkspaceDefinition
  <2> QED BY <1>2, <2>1, RemoveAtIsList DEF Changed, RemoveWorkspaceDefinition
<1>3. CASE t.op = "removeNode"
  <2>1. IndexOf(list, t.id) \in 1..Len(list)
    BY <1>3, IndexOfType DEF Changed, RemoveWorkspaceNode
  <2>2. \/ Changed(t, list) = RemoveAt(list, IndexOf(list, t.id))
        \/ \E x : Changed(t, list) = [list EXCEPT ![IndexOf(list, t.id)] = x]
    BY Zenon, <1>3 DEF Changed, RemoveWorkspaceNode
  <2> QED BY <2>1, <2>2, RemoveAtIsList, SameDomainIsList
<1>4. CASE t.op = "order"
  <2>1. \E x : Changed(t, list) = [list EXCEPT ![IndexOf(list, t.id)] = x]
    BY Zenon, <1>4 DEF Changed, ReorderWorkspaceNodes
  <2> QED BY Zenon, <2>1, SameDomainIsList
<1>5. CASE t.op = "panel"
  <2>1. \E x : Changed(t, list) = [list EXCEPT ![IndexOf(list, t.id)] = x]
    BY Zenon, <1>5 DEF Changed, SetWorkspaceNodeInputVisibility
  <2> QED BY Zenon, <2>1, SameDomainIsList
<1> QED BY <1>1, <1>2, <1>3, <1>4, <1>5 DEF Changed

(* The inductive invariant: the lists are lists, and a save is as far as   *)
(* the phase it is in says.                                                *)

Writing == {"meta", "metaFlush", "node", "nodeFlush", "pruneNodes"}
Cleaning == {"pruneWorkspaces", "removing", "rootFlush"}

IsPage(p) ==
    /\ \E S, D, Y, O : p \in [list : S, demo : D, dirty : Y, open : O]
    /\ IsList(p.list)

IsLoaded(r) ==
    /\ \E S, D : r \in [list : S, demo : D]
    /\ IsList(r.list)

SaveInv ==
    /\ IsFiniteSet(DOMAIN meta)
    /\ pc \in [Windows -> Saving \cup {"idle", "enumerate", "readNodes"}]
    /\ at \in [Windows -> Nat \ {0}]
    /\ DOMAIN page = Windows /\ DOMAIN mgr = Windows /\ DOMAIN dirs = Windows /\ DOMAIN victim = Windows
    /\ \A w \in Windows :
           /\ IsPage(page[w]) /\ IsLoaded(mgr[w])
           /\ pc[w] \in Saving => IsList(dirs[w])
           /\ pc[w] = "removing" => victim[w] \notin Keys(dirs[w])
           /\ pc[w] \in Writing => at[w] <= Len(dirs[w])
           /\ pc[w] \in Cleaning => Len(dirs[w]) <= at[w]

\* The invariant holds at first.
LEMMA SaveInvInit == Init => SaveInv
<1> SUFFICES ASSUME Init PROVE SaveInv
  OBVIOUS
<1>1. IsFiniteSet(DOMAIN meta)
  BY Zenon, SavedAssumption DEF Init
<1>2. IsList(Saved) /\ IsList(<<>>)
  BY SavedAssumption DEF IsList
<1>3. \A w \in Windows : IsPage(page[w]) /\ IsLoaded(mgr[w])
  BY Zenon, <1>2 DEF Init, IsPage, IsLoaded, Nothing
<1>4. /\ pc = [w \in Windows |-> "idle"] /\ at = [w \in Windows |-> 1]
      /\ DOMAIN page = Windows /\ DOMAIN mgr = Windows /\ DOMAIN dirs = Windows /\ DOMAIN victim = Windows
  BY Zenon DEF Init
<1> QED BY <1>1, <1>3, <1>4 DEF SaveInv, Saving, Writing, Cleaning

\* What a step of one window leaves alone.
Others(w) ==
    \A v \in Windows \ {w} : pc'[v] = pc[v] /\ at'[v] = at[v] /\ dirs'[v] = dirs[v]

\* What a step of one window must establish for the invariant.
Keeps(w) ==
    /\ pc' \in [Windows -> Saving \cup {"idle", "enumerate", "readNodes"}]
    /\ at' \in [Windows -> Nat \ {0}]
    /\ DOMAIN mgr' = Windows /\ DOMAIN dirs' = Windows /\ DOMAIN victim' = Windows
    /\ Others(w)
    /\ \A v \in Windows \ {w} : mgr'[v] = mgr[v] /\ victim'[v] = victim[v]
    /\ IsLoaded(mgr'[w])
    /\ pc'[w] \in Saving => IsList(dirs'[w])
    /\ pc'[w] = "removing" => victim'[w] \notin Keys(dirs'[w])
    /\ pc'[w] \in Writing => at'[w] <= Len(dirs'[w])
    /\ pc'[w] \in Cleaning => Len(dirs'[w]) <= at'[w]

\* A window that returns from an operation keeps the invariant (Release).
LEMMA ReleaseKeeps ==
    ASSUME SaveInv, NEW w \in Windows, Release(w)
    PROVE  Keeps(w)
<1>1. IsLoaded(Nothing)
  <2>1. Nothing \in [list : {<<>>}, demo : {FALSE}]
    BY DEF Nothing
  <2>2. IsList(Nothing.list)
    BY DEF Nothing, IsList
  <2> QED BY Zenon, <2>1, <2>2 DEF IsLoaded
<1> QED BY <1>1 DEF SaveInv, Release, Keeps, Others, Saving, Writing, Cleaning

\* A window that begins to save a list keeps it (SaveToPath).
LEMMA BeginSaveKeeps ==
    ASSUME SaveInv, NEW w \in Windows, NEW t, NEW list, IsList(list), NEW shown,
           BeginSave(w, t, list, shown)
    PROVE  Keeps(w)
<1> DEFINE unique == UniqueNames(NamesOf(list))
           D == [n \in DOMAIN list |-> unique[n]]
<1>1. IsList(D) /\ Len(D) = Len(list)
  <2>1. D = [n \in 1..Len(list) |-> D[n]] /\ DOMAIN D = 1..Len(list) /\ Len(list) \in Nat
    BY ListDomain
  <2> HIDE DEF D
  <2> QED BY <2>1, FunctionIsList
<1>2. dirs' = [dirs EXCEPT ![w] = D] /\ pc' = [pc EXCEPT ![w] = IF list = <<>> THEN "pruneWorkspaces" ELSE "meta"]
      /\ at' = [at EXCEPT ![w] = 1] /\ mgr' = [mgr EXCEPT ![w] = [list |-> list, demo |-> shown]]
      /\ victim' = victim
  BY DEF BeginSave
<1>3. IsLoaded([list |-> list, demo |-> shown])
  BY Zenon DEF IsLoaded
<1> HIDE DEF D
<1> QED BY <1>1, <1>2, <1>3, ListDomain DEF SaveInv, Keeps, Others, Saving, Writing, Cleaning

\* A window that begins to load keeps it (LoadFromPath).
LEMMA BeginLoadKeeps ==
    ASSUME SaveInv, NEW w \in Windows, NEW t, BeginLoad(w, t)
    PROVE  Keeps(w)
BY DEF SaveInv, BeginLoad, Keeps, Others, Saving, Writing, Cleaning

\* A window that changes a list and saves it keeps it (ApplyAndSave).
LEMMA ApplyAndSaveKeeps ==
    ASSUME SaveInv, NEW w \in Windows, NEW t, NEW list, IsList(list), NEW shown,
           ApplyAndSave(w, t, list, shown)
    PROVE  Keeps(w)
BY ReleaseKeeps, BeginSaveKeeps, ChangedIsList DEF ApplyAndSave

\* The invariant after a step that keeps it.
LEMMA KeepsSaveInv ==
    ASSUME SaveInv, NEW w \in Windows, Keeps(w), IsFiniteSet(DOMAIN meta'),
           DOMAIN page' = Windows, \A v \in Windows : IsPage(page'[v])
    PROVE  SaveInv'
BY Zenon DEF SaveInv, Keeps, Others

\* A window that stays where it is keeps the invariant.
LEMMA StayingKeeps ==
    ASSUME SaveInv, NEW w \in Windows, UNCHANGED <<pc, mgr, dirs, at, victim>>
    PROVE  Keeps(w)
BY DEF SaveInv, Keeps, Others

\* A page is a record with a list (FinishLoad, CloseRootFile, Crash).
LEMMA PageRecord ==
    ASSUME NEW list, IsList(list), NEW d, NEW y, NEW o
    PROVE  IsPage([list |-> list, demo |-> d, dirty |-> y, open |-> o])
<1>1. [list |-> list, demo |-> d, dirty |-> y, open |-> o] \in [list : {list}, demo : {d}, dirty : {y}, open : {o}]
  OBVIOUS
<1> QED BY Zenon, <1>1 DEF IsPage

\* A window's list may be replaced and its edits forgotten.
LEMMA PageExcept ==
    ASSUME NEW p, IsPage(p), NEW list, IsList(list)
    PROVE  /\ IsPage([p EXCEPT !.list = list, !.dirty = TRUE])
           /\ IsPage([p EXCEPT !.dirty = FALSE])
<1>1. PICK S, D, Y, O : p \in [list : S, demo : D, dirty : Y, open : O]
  BY DEF IsPage
<1>2. [p EXCEPT !.list = list, !.dirty = TRUE] \in [list : {list}, demo : D, dirty : {TRUE}, open : O]
  BY Zenon, <1>1
<1>3. [p EXCEPT !.dirty = FALSE] \in [list : {p.list}, demo : D, dirty : {FALSE}, open : O]
  BY Zenon, <1>1
<1> QED BY ZenonT(30), <1>2, <1>3 DEF IsPage

\* An edit changes the window's own list and nothing else (Edit).
LEMMA EditKeeps ==
    ASSUME SaveInv, NEW w \in Windows, NEW list, IsList(list), NEW keys, Edit(w, list, keys)
    PROVE  /\ Keeps(w) /\ meta' = meta
           /\ DOMAIN page' = Windows
           /\ \A v \in Windows : IsPage(page'[v])
<1>1. UNCHANGED <<pc, mgr, dirs, at, victim>> /\ meta' = meta
  BY DEF Edit, frame, disk
<1>2. page' = [page EXCEPT ![w].list = list, ![w].dirty = TRUE]
  BY DEF Edit
<1>3. IsPage([page[w] EXCEPT !.list = list, !.dirty = TRUE])
  BY Zenon, PageExcept DEF SaveInv
<1> QED BY <1>1, <1>2, <1>3, StayingKeeps DEF SaveInv

\* A removal takes the edited list or loads one (Mutate).
LEMMA MutateKeeps ==
    ASSUME SaveInv, NEW w \in Windows, NEW t, Mutate(w, t)
    PROVE  Keeps(w) /\ page' = page
BY ApplyAndSaveKeeps, BeginLoadKeeps DEF Mutate, SaveInv, IsPage

\* What users ask of a window keeps the invariant (Request).
LEMMA RequestKeeps ==
    ASSUME SaveInv, NEW w \in Windows, Request(w)
    PROVE  /\ Keeps(w) /\ meta' = meta
           /\ DOMAIN page' = Windows
           /\ \A v \in Windows : IsPage(page'[v])
<1> DEFINE Goal == /\ Keeps(w) /\ meta' = meta
                   /\ DOMAIN page' = Windows
                   /\ \A v \in Windows : IsPage(page'[v])
           list == page[w].list
<1>0. DOMAIN page = Windows /\ (\A v \in Windows : IsPage(page[v])) /\ IsList(list)
  BY DEF SaveInv, IsPage
<1>1. CASE ReloadEditor(w)
  <2>1. Keeps(w) /\ meta' = meta
    BY Zenon, <1>1, BeginLoadKeeps DEF ReloadEditor, BeginLoad, disk
  <2>2. page' = [page EXCEPT ![w].dirty = FALSE]
    BY <1>1 DEF ReloadEditor
  <2> QED BY Zenon, <2>1, <2>2, <1>0, PageExcept
<1>2. CASE SaveWorkspaceEditorState(w)
  <2>1. Keeps(w) /\ page' = page
    BY <1>2, <1>0, ApplyAndSaveKeeps DEF SaveWorkspaceEditorState
  <2>2. meta' = meta
    BY <1>2 DEF SaveWorkspaceEditorState, ApplyAndSave, BeginSave, disk
  <2> QED BY <2>1, <2>2, <1>0
<1>3. CASE RemoveWorkspaceDefinitionById(w) \/ RemoveWorkspaceNodeById(w)
  <2>1. PICK t : Mutate(w, t)
    BY Zenon, <1>3 DEF RemoveWorkspaceDefinitionById, RemoveWorkspaceNodeById
  <2>2. meta' = meta
    BY <2>1 DEF Mutate, ApplyAndSave, BeginSave, BeginLoad, disk
  <2> QED BY <2>1, <2>2, <1>0, MutateKeeps
<1>4. CASE PersistCurrentWorkspaceTabOrder(w)
  <2>1. PICK t : BeginLoad(w, t)
    BY <1>4 DEF PersistCurrentWorkspaceTabOrder
  <2>2. meta' = meta /\ page' = page
    BY <2>1, <1>4 DEF PersistCurrentWorkspaceTabOrder, BeginLoad, disk
  <2> QED BY <2>1, <2>2, <1>0, BeginLoadKeeps
<1>5. CASE PersistWorkspaceNodeInputVisibility(w)
  <2>1. PICK t : IF Changed(t, list) = None THEN BeginLoad(w, t)
                 ELSE BeginSave(w, t, Changed(t, list), page[w].demo)
    BY SMTT(20), <1>5 DEF PersistWorkspaceNodeInputVisibility
  <2>2. meta' = meta /\ page' = page
    BY <2>1, <1>5 DEF PersistWorkspaceNodeInputVisibility, BeginLoad, BeginSave, disk
  <2> QED BY <2>1, <2>2, <1>0, BeginLoadKeeps, BeginSaveKeeps, ChangedIsList
<1>6. CASE AddWorkspaceDefinition(w)
  <2>1. PICK x, keys : Edit(w, Append(list, x), keys)
    BY Zenon, <1>6 DEF AddWorkspaceDefinition
  <2> QED BY <2>1, <1>0, AppendIsList, EditKeeps
<1>7. CASE AddWorkspaceNode(w) \/ EditWorkspaceName(w) \/ EditNodeName(w) \/ MoveWorkspaceManagerVisibleNode(w)
  <2>1. PICK g, keys : Edit(w, g, keys) /\ DOMAIN g = DOMAIN list /\ g = [n \in DOMAIN g |-> g[n]]
    <3>1. CASE AddWorkspaceNode(w)
      BY <3>1 DEF AddWorkspaceNode
    <3>2. CASE EditWorkspaceName(w)
      BY <3>2 DEF EditWorkspaceName
    <3>3. CASE EditNodeName(w)
      BY <3>3 DEF EditNodeName
    <3>4. CASE MoveWorkspaceManagerVisibleNode(w)
      <4>1. PICK n, x, y, keys : Edit(w, [list EXCEPT ![n].nodes = x, ![n].order = y], keys)
        BY Zenon, <3>4 DEF MoveWorkspaceManagerVisibleNode
      <4> QED BY <4>1
    <3> QED BY <1>7, <3>1, <3>2, <3>3, <3>4
  <2>2. IsList(g)
    BY <2>1, <1>0, SameDomainIsList
  <2> QED BY <2>1, <2>2, EditKeeps
<1> QED BY <1>1, <1>2, <1>3, <1>4, <1>5, <1>6, <1>7 DEF Request

\* Files that appear or go one at a time can be counted (Put, Drop).
LEMMA FiniteFiles ==
    ASSUME NEW f, IsFiniteSet(DOMAIN f), NEW k, NEW v
    PROVE  IsFiniteSet(DOMAIN Put(f, k, v)) /\ IsFiniteSet(DOMAIN Drop(f, k))
<1>1. DOMAIN Put(f, k, v) = DOMAIN f \cup {k}
  BY DEF Put
<1>2. DOMAIN Drop(f, k) \subseteq DOMAIN f
  BY DEF Drop
<1> QED BY <1>1, <1>2, FS_AddElement, FS_Subset

\* Reading the definitions keeps the invariant (LoadFromPath).
LEMMA LoadKeeps ==
    ASSUME SaveInv, NEW w \in Windows,
           EnumeratePersistedWorkspaceDirectories(w) \/ ReadNodes(w) \/ FinishLoad(w)
    PROVE  /\ Keeps(w) /\ meta' = meta
           /\ DOMAIN page' = Windows
           /\ \A v \in Windows : IsPage(page'[v])
<1>0. DOMAIN page = Windows /\ (\A v \in Windows : IsPage(page[v])) /\ IsList(mgr[w].list)
  BY DEF SaveInv, IsLoaded
<1>1. CASE EnumeratePersistedWorkspaceDirectories(w)
  <2>1. PICK lost, r :
            mgr' = [mgr EXCEPT ![w] = [list |-> [n \in 1..Cardinality(DOMAIN meta \ lost) |-> r[n]], demo |-> demo]]
    <3>1. PICK lost \in Unreadable(DOMAIN meta) :
              LET found == Sorted(DOMAIN meta \ lost)
                  read(k) == [id |-> tabs[k].shown, name |-> tabs[k].shown, nodes |-> <<>>, order |-> meta[k]]
              IN  mgr' = [mgr EXCEPT ![w] = [list |-> [n \in 1..Cardinality(DOMAIN meta \ lost) |-> read(found[n])],
                                             demo |-> demo]]
      BY Zenon, <1>1 DEF EnumeratePersistedWorkspaceDirectories
    <3> DEFINE found == Sorted(DOMAIN meta \ lost)
               r == [n \in 1..Cardinality(DOMAIN meta \ lost) |->
                        [id |-> tabs[found[n]].shown, name |-> tabs[found[n]].shown,
                         nodes |-> <<>>, order |-> meta[found[n]]]]
    <3>2. mgr' = [mgr EXCEPT ![w] = [list |-> [n \in 1..Cardinality(DOMAIN meta \ lost) |-> r[n]], demo |-> demo]]
      BY Zenon, <3>1
    <3> QED BY Zenon, <3>2
  <2> DEFINE k == Cardinality(DOMAIN meta \ lost)
             list == [n \in 1..k |-> r[n]]
  <2>2. k \in Nat
    BY FS_Subset, FS_CardinalityType DEF SaveInv
  <2>3. IsList(list)
    <3> HIDE DEF k
    <3> QED BY <2>2, FunctionIsList
  <2>4. IsLoaded([list |-> list, demo |-> demo])
    <3> HIDE DEF list
    <3>1. [list |-> list, demo |-> demo] \in [list : {list}, demo : {demo}]
      BY SMTT(20)
    <3> QED BY Zenon, <3>1, <2>3 DEF IsLoaded
  <2>5. /\ pc' = [pc EXCEPT ![w] = "readNodes"] /\ at' = [at EXCEPT ![w] = 1]
        /\ meta' = meta /\ page' = page /\ dirs' = dirs /\ victim' = victim
    BY SMTT(20), <1>1 DEF EnumeratePersistedWorkspaceDirectories, disk
  <2> HIDE DEF list
  <2>6. Keeps(w)
    BY <2>1, <2>4, <2>5 DEF SaveInv, Keeps, Others, Saving, Writing, Cleaning, list
  <2> QED BY <2>5, <2>6, <1>0
<1>2. CASE ReadNodes(w)
  <2>1. PICK x : mgr' = [mgr EXCEPT ![w].list[at[w]] = x]
    BY Zenon, <1>2 DEF ReadNodes
  <2>2. /\ pc' = pc /\ at' = [at EXCEPT ![w] = @ + 1] /\ pc[w] = "readNodes"
        /\ meta' = meta /\ page' = page /\ dirs' = dirs /\ victim' = victim
    BY Zenon, <1>2 DEF ReadNodes, disk
  <2>3. IsLoaded(mgr'[w]) /\ DOMAIN mgr' = Windows /\ \A v \in Windows \ {w} : mgr'[v] = mgr[v]
    <3> DEFINE list == [mgr[w].list EXCEPT ![at[w]] = x]
    <3>1. IsList(list)
      BY <1>0, SameDomainIsList
    <3>2. mgr' = [mgr EXCEPT ![w] = [@ EXCEPT !.list = list]]
      BY <2>1
    <3>3. PICK S, D : mgr[w] \in [list : S, demo : D]
      BY DEF SaveInv, IsLoaded
    <3> HIDE DEF list
    <3>4. [mgr[w] EXCEPT !.list = list] \in [list : {list}, demo : D]
      BY <3>3
    <3>5. IsLoaded([mgr[w] EXCEPT !.list = list])
      BY Zenon, <3>1, <3>4 DEF IsLoaded
    <3> QED BY <3>2, <3>5 DEF SaveInv
  <2>4. Keeps(w)
    BY <2>2, <2>3 DEF SaveInv, Keeps, Others, Saving, Writing, Cleaning
  <2> QED BY <2>2, <2>4, <1>0
<1>3. CASE FinishLoad(w)
  <2>1. CASE task[w].op = "reload"
    <3>1. Release(w) /\ meta' = meta
      BY <1>3, <2>1 DEF FinishLoad, disk
    <3>2. page' = [page EXCEPT ![w] = [list |-> mgr[w].list, demo |-> mgr[w].demo,
                                       dirty |-> page[w].dirty, open |-> TRUE]]
      BY SMTT(20), <1>3, <2>1 DEF FinishLoad
    <3>3. IsPage([list |-> mgr[w].list, demo |-> mgr[w].demo, dirty |-> page[w].dirty, open |-> TRUE])
      BY <1>0, PageRecord
    <3> QED BY <3>1, <3>2, <3>3, <1>0, ReleaseKeeps
  <2>2. CASE task[w].op # "reload"
    <3>1. page' = page /\ ApplyAndSave(w, task[w], mgr[w].list, mgr[w].demo)
      BY <1>3, <2>2 DEF FinishLoad
    <3>2. meta' = meta
      BY <3>1 DEF ApplyAndSave, BeginSave, disk
    <3> QED BY <3>1, <3>2, <1>0, ApplyAndSaveKeeps
  <2> QED BY <2>1, <2>2
<1> QED BY <1>1, <1>2, <1>3

\* The file operations of a save keep the invariant (SaveToPath).
LEMMA SaveKeeps ==
    ASSUME SaveInv, NEW w \in Windows,
           \/ OpenWorkspaceFile(w) \/ CloseWorkspaceFile(w) \/ OpenNodeFile(w) \/ CloseNodeFile(w)
           \/ RemoveStaleNode(w) \/ NextWorkspace(w) \/ ChooseStaleWorkspace(w) \/ RemoveEntry(w)
           \/ RemoveFolder(w) \/ ReplaceRootFile(w)
    PROVE  Keeps(w) /\ IsFiniteSet(DOMAIN meta') /\ page' = page
<1> USE DEF Step
<1>0. IsFiniteSet(DOMAIN meta) /\ (pc[w] \in Saving => Len(dirs[w]) \in Nat)
  BY SMTT(20), ListDomain DEF SaveInv
<1>1. CASE OpenWorkspaceFile(w)
  <2>1. /\ pc' = [pc EXCEPT ![w] = "metaFlush"] /\ pc[w] = "meta" /\ page' = page
        /\ UNCHANGED <<mgr, dirs, at, victim>> /\ meta' = Put(meta, Folder(w), <<>>)
    BY Zenon, <1>1 DEF OpenWorkspaceFile, frame
  <2> QED BY <2>1, <1>0, FiniteFiles DEF SaveInv, Keeps, Others, Saving, Writing, Cleaning
<1>2. CASE CloseWorkspaceFile(w) \/ CloseNodeFile(w)
  <2>1. /\ pc' = [pc EXCEPT ![w] = "node"] \/ pc' = [pc EXCEPT ![w] = "pruneNodes"]
        /\ pc[w] \in {"metaFlush", "nodeFlush"} /\ page' = page /\ UNCHANGED <<mgr, dirs, at, victim>>
    BY Zenon, <1>2 DEF CloseWorkspaceFile, CloseNodeFile, AfterFile
  <2>2. meta' = meta \/ meta' = Put(meta, Folder(w), EffectiveTabOrder(Current(w)))
    BY Zenon, <1>2 DEF CloseWorkspaceFile, CloseNodeFile
  <2>3. IsFiniteSet(DOMAIN meta')
    BY Zenon, <2>2, <1>0, FiniteFiles
  <2> QED BY Zenon, <2>1, <2>3 DEF SaveInv, Keeps, Others, Saving, Writing, Cleaning
<1>3. CASE OpenNodeFile(w)
  <2>1. /\ pc' = [pc EXCEPT ![w] = "nodeFlush"] /\ pc[w] = "node" /\ page' = page
        /\ UNCHANGED <<mgr, dirs, at, victim, meta>>
    BY <1>3 DEF OpenNodeFile, frame
  <2> QED BY Zenon, <2>1, <1>0 DEF SaveInv, Keeps, Others, Saving, Writing, Cleaning
<1>4. CASE RemoveStaleNode(w)
  <2>1. page' = page /\ UNCHANGED <<pc, mgr, dirs, at, victim, meta>>
    BY <1>4 DEF RemoveStaleNode, frame
  <2> QED BY <2>1, <1>0, StayingKeeps
<1>5. CASE NextWorkspace(w)
  <2>1. /\ \/ pc' = [pc EXCEPT ![w] = "meta"] /\ at' = [at EXCEPT ![w] = @ + 1] /\ at[w] < Len(dirs[w])
           \/ pc' = [pc EXCEPT ![w] = "pruneWorkspaces"] /\ at' = at /\ ~(at[w] < Len(dirs[w]))
        /\ pc[w] = "pruneNodes" /\ page' = page /\ UNCHANGED <<mgr, dirs, victim, meta>>
    BY <1>5 DEF NextWorkspace, disk
  <2>2. IsLoaded(mgr[w]) /\ IsList(dirs[w]) /\ Len(dirs[w]) \in Nat /\ at[w] \in Nat \ {0}
    BY <2>1, ListDomain DEF SaveInv, Saving
  <2>3. /\ pc' \in [Windows -> Saving \cup {"idle", "enumerate", "readNodes"}]
        /\ at' \in [Windows -> Nat \ {0}]
        /\ Others(w)
    BY SMTT(20), <2>1, <2>2 DEF SaveInv, Others, Saving
  <2>4. /\ pc'[w] \in {"meta", "pruneWorkspaces"}
        /\ pc'[w] = "meta" => at'[w] <= Len(dirs'[w])
        /\ pc'[w] = "pruneWorkspaces" => Len(dirs'[w]) <= at'[w]
    BY <2>1, <2>2 DEF SaveInv
  <2>5. DOMAIN mgr' = Windows /\ DOMAIN dirs' = Windows /\ DOMAIN victim' = Windows
    BY ZenonT(30), <2>1 DEF SaveInv
  <2>6. Keeps(w)
    BY <2>1, <2>2, <2>3, <2>4, <2>5 DEF Keeps, Saving, Writing, Cleaning
  <2> QED BY Zenon, <1>0, <2>1, <2>6 DEF SaveInv
<1>6. CASE ChooseStaleWorkspace(w)
  <2>1. /\ pc' = [pc EXCEPT ![w] = "removing"] /\ pc[w] = "pruneWorkspaces" /\ page' = page
        /\ UNCHANGED <<mgr, dirs, at, meta>>
        /\ \E key \in StaleWorkspaces(w) : victim' = [victim EXCEPT ![w] = key]
    BY Zenon, <1>6 DEF ChooseStaleWorkspace, disk
  <2> QED BY Zenon, <2>1, <1>0 DEF SaveInv, Keeps, Others, Saving, Writing, Cleaning, StaleWorkspaces
<1>7. CASE RemoveEntry(w)
  <2>1. page' = page /\ UNCHANGED <<pc, mgr, dirs, at, victim>>
    BY <1>7 DEF RemoveEntry, frame
  <2>2. meta' = meta \/ meta' = Drop(meta, victim[w])
    BY <1>7 DEF RemoveEntry
  <2>3. IsFiniteSet(DOMAIN meta')
    BY <2>2, <1>0, FiniteFiles
  <2> QED BY <2>1, <2>3, StayingKeeps
<1>8. CASE RemoveFolder(w)
  <2>1. /\ pc' = [pc EXCEPT ![w] = "pruneWorkspaces"] /\ pc[w] = "removing" /\ page' = page
        /\ UNCHANGED <<mgr, dirs, at, meta>> /\ victim' = [victim EXCEPT ![w] = None]
    BY Zenon, <1>8 DEF RemoveFolder
  <2> QED BY Zenon, <2>1, <1>0 DEF SaveInv, Keeps, Others, Saving, Writing, Cleaning
<1>9. CASE ReplaceRootFile(w)
  <2>1. /\ pc' = [pc EXCEPT ![w] = "rootFlush"] /\ pc[w] = "pruneWorkspaces" /\ page' = page
        /\ UNCHANGED <<mgr, dirs, at, meta, victim>>
    BY Zenon, <1>9 DEF ReplaceRootFile, frame
  <2> QED BY Zenon, <2>1, <1>0 DEF SaveInv, Keeps, Others, Saving, Writing, Cleaning
<1> QED BY <1>1, <1>2, <1>3, <1>4, <1>5, <1>6, <1>7, <1>8, <1>9

\* The ways a save ends keep the invariant (CloseRootFile, FailSave, Crash).
LEMMA EndKeeps ==
    ASSUME SaveInv, NEW w \in Windows, CloseRootFile(w) \/ FailSave(w) \/ Crash(w)
    PROVE  /\ Keeps(w) /\ meta' = meta /\ pc'[w] \notin Saving
           /\ DOMAIN page' = Windows
           /\ \A v \in Windows : IsPage(page'[v])
<1>0. DOMAIN page = Windows /\ (\A v \in Windows : IsPage(page[v])) /\ IsList(mgr[w].list) /\ IsList(<<>>)
  BY DEF SaveInv, IsLoaded, IsList
<1>1. CASE CloseRootFile(w)
  <2>1. PICK o : page' = [page EXCEPT ![w] = [list |-> mgr[w].list, demo |-> mgr[w].demo,
                                              dirty |-> FALSE, open |-> o]]
    BY Zenon, <1>1 DEF CloseRootFile
  <2>2. IsPage([list |-> mgr[w].list, demo |-> mgr[w].demo, dirty |-> FALSE, open |-> o])
    BY <1>0, PageRecord
  <2>3. CASE Release(w)
    BY Zenon, <1>1, <2>1, <2>2, <2>3, <1>0, ReleaseKeeps DEF CloseRootFile, Release, SaveInv, Saving
  <2>4. CASE /\ pc' = [pc EXCEPT ![w] = "enumerate"]
             /\ UNCHANGED <<mgr, dirs, at, victim>>
    <3>1. Keeps(w) /\ pc'[w] \notin Saving
      BY <2>4 DEF SaveInv, Keeps, Others, Saving, Writing, Cleaning
    <3> QED BY Zenon, <1>1, <2>1, <2>2, <3>1, <1>0 DEF CloseRootFile
  <2> QED BY Zenon, <1>1, <2>3, <2>4 DEF CloseRootFile, Step
<1>2. CASE FailSave(w)
  BY Zenon, <1>2, <1>0, ReleaseKeeps DEF FailSave, Release, SaveInv, Saving, disk
<1>3. CASE Crash(w)
  <2>1. IsPage([list |-> <<>>, demo |-> FALSE, dirty |-> FALSE, open |-> FALSE])
    BY <1>0, PageRecord
  <2> QED BY Zenon, <1>3, <2>1, <1>0, ReleaseKeeps DEF Crash, Release, SaveInv, Saving, disk
<1> QED BY <1>1, <1>2, <1>3

\* The invariant is inductive.
LEMMA SaveInvNext == SaveInv /\ [Next]_vars => SaveInv'
<1> SUFFICES ASSUME SaveInv, [Next]_vars PROVE SaveInv'
  OBVIOUS
<1>1. CASE UNCHANGED vars
  BY <1>1 DEF vars, disk, frame, SaveInv
<1>2. ASSUME NEW w \in Windows, Request(w) PROVE SaveInv'
  BY Zenon, <1>2, RequestKeeps, KeepsSaveInv DEF SaveInv
<1>3. ASSUME NEW w \in Windows, Work(w) PROVE SaveInv'
  <2>0. IsFiniteSet(DOMAIN meta) /\ DOMAIN page = Windows /\ \A v \in Windows : IsPage(page[v])
    BY Zenon DEF SaveInv
  <2>1. CASE EnumeratePersistedWorkspaceDirectories(w) \/ ReadNodes(w) \/ FinishLoad(w)
    BY <2>0, <2>1, LoadKeeps, KeepsSaveInv
  <2>2. CASE CloseRootFile(w)
    BY <2>0, <2>2, EndKeeps, KeepsSaveInv
  <2> QED BY Zenon, <1>3, <2>0, <2>1, <2>2, SaveKeeps, KeepsSaveInv DEF Work
<1>4. ASSUME NEW w \in Windows, FailSave(w) \/ Crash(w) PROVE SaveInv'
  BY Zenon, <1>4, EndKeeps, KeepsSaveInv DEF SaveInv
<1> QED BY <1>1, <1>2, <1>3, <1>4 DEF Next

(* The simulation.  A step of a window is one of the five below, seen from *)
(* the abstract store.                                                     *)

\* The other windows' saves stay as they are (every action).
LEMMA OthersStay ==
    ASSUME NEW w \in Windows, Others(w), NEW v \in Windows \ {w}
    PROVE  /\ ListedNames(v)' = ListedNames(v)
           /\ WrittenNames(v)' = WrittenNames(v)
           /\ (pc'[v] \in Saving) <=> (pc[v] \in Saving)
BY Zenon DEF Others, ListedNames, WrittenNames, Written

\* A step that moves on inside a save, or outside one, is no step of the
\* store (OpenNodeFile, NextWorkspace, edits and loads).
LEMMA StoreStays ==
    ASSUME NEW w \in Windows, Others(w), DOMAIN meta' = DOMAIN meta,
           ListedNames(w)' = ListedNames(w), WrittenNames(w)' = WrittenNames(w),
           (pc'[w] \in Saving) <=> (pc[w] \in Saving)
    PROVE  UNCHANGED Store!vars
<1>1. \A v \in Windows : /\ ListedNames(v)' = ListedNames(v)
                         /\ WrittenNames(v)' = WrittenNames(v)
                         /\ (pc'[v] \in Saving) <=> (pc[v] \in Saving)
  BY OthersStay
<1> QED BY <1>1 DEF Store!vars

\* SaveToPath begins: nothing is written yet (BeginSave).
LEMMA StoreBegins ==
    ASSUME NEW w \in Windows, Others(w), DOMAIN meta' = DOMAIN meta,
           pc[w] \notin Saving, pc'[w] \in Saving, WrittenNames(w)' = {}
    PROVE  Store!Begin(w)
<1>1. {v \in Windows : pc[v] \in Saving}' = {v \in Windows : pc[v] \in Saving} \cup {w}
  BY OthersStay
<1>2. \A v \in Windows \ {w} : ListedNames(v)' = ListedNames(v) /\ WrittenNames(v)' = WrittenNames(v)
  BY OthersStay
<1>3. [v \in Windows |-> ListedNames(v)]' = [[v \in Windows |-> ListedNames(v)] EXCEPT ![w] = ListedNames(w)']
  BY Zenon, <1>2
<1>4. [v \in Windows |-> WrittenNames(v)]' = [[v \in Windows |-> WrittenNames(v)] EXCEPT ![w] = {}]
  BY Zenon, <1>2
<1> QED BY <1>1, <1>3, <1>4 DEF Store!Begin

\* A save is over, done or not (CloseRootFile, FailSave, Crash).
LEMMA StoreEnds ==
    ASSUME NEW w \in Windows, Others(w), DOMAIN meta' = DOMAIN meta,
           pc[w] \in Saving, pc'[w] \notin Saving
    PROVE  Store!End(w)
<1>1. {v \in Windows : pc[v] \in Saving}' = {v \in Windows : pc[v] \in Saving} \ {w}
  BY OthersStay
<1>2. \A v \in Windows \ {w} : ListedNames(v)' = ListedNames(v) /\ WrittenNames(v)' = WrittenNames(v)
  BY OthersStay
<1>3. ListedNames(w)' = {} /\ WrittenNames(w)' = {}
  BY DEF ListedNames, WrittenNames
<1>4. [v \in Windows |-> ListedNames(v)]' = [[v \in Windows |-> ListedNames(v)] EXCEPT ![w] = {}]
  BY Zenon, <1>2, <1>3
<1>5. [v \in Windows |-> WrittenNames(v)]' = [[v \in Windows |-> WrittenNames(v)] EXCEPT ![w] = {}]
  BY Zenon, <1>2, <1>3
<1> QED BY <1>1, <1>4, <1>5 DEF Store!End

\* Opening a workspace file writes the next name of the list, and closing it
\* writes that name again (SaveToPath).
LEMMA StoreWrites ==
    ASSUME SaveInv, NEW w \in Windows, Others(w), UNCHANGED <<dirs, at>>,
           pc[w] \in {"meta", "metaFlush"}, pc'[w] \in {"metaFlush", "node", "pruneNodes"},
           DOMAIN meta' = DOMAIN meta \cup {Folder(w)}
    PROVE  Store!Write(w)
<1>2. at[w] \in 1..Len(dirs[w])
  BY ListDomain DEF SaveInv, Saving, Writing
<1>3. Folder(w) \in ListedNames(w)
  BY <1>2 DEF ListedNames, Folder, Saving
<1>4. ListedNames(w)' = ListedNames(w)
  BY DEF ListedNames, Saving
<1>5. WrittenNames(w)' = WrittenNames(w) \cup {Folder(w)}
  <2>1. Written(w) \in {at[w] - 1, at[w]} /\ Written(w)' = at[w]
    BY DEF Written
  <2>2. at[w] \in Nat /\ 1..at[w] = 1..(at[w] - 1) \cup {at[w]}
    BY <1>2 DEF SaveInv
  <2> QED BY <1>2, <2>1, <2>2 DEF WrittenNames, Folder, Saving
<1>7. \A v \in Windows \ {w} : /\ ListedNames(v)' = ListedNames(v) /\ WrittenNames(v)' = WrittenNames(v)
                               /\ (pc'[v] \in Saving) <=> (pc[v] \in Saving)
  BY OthersStay
<1>8. {v \in Windows : pc[v] \in Saving}' = {v \in Windows : pc[v] \in Saving} /\ pc[w] \in Saving
  BY <1>7 DEF Saving
<1>9. [v \in Windows |-> ListedNames(v)]' = [v \in Windows |-> ListedNames(v)]
  BY <1>4, <1>7
<1>10. [v \in Windows |-> WrittenNames(v)]'
           = [[v \in Windows |-> WrittenNames(v)] EXCEPT ![w] = @ \cup {Folder(w)}]
  BY Zenon, <1>5, <1>7
<1> QED BY Zenon, <1>3, <1>8, <1>9, <1>10 DEF Store!Write

\* Removing a workspace file takes a name that is not on the list, when all
\* of the list is written (SaveToPath).
LEMMA StoreRemoves ==
    ASSUME SaveInv, NEW w \in Windows, RemoveEntry(w)
    PROVE  Store!Remove(w) \/ UNCHANGED Store!vars
<1>1. UNCHANGED <<pc, dirs, at>> /\ pc[w] = "removing"
  BY DEF RemoveEntry, frame
<1>2. Others(w) /\ ListedNames(w)' = ListedNames(w) /\ WrittenNames(w)' = WrittenNames(w)
  BY <1>1 DEF Others, ListedNames, WrittenNames, Written
<1>3. CASE meta' = meta
  BY <1>1, <1>2, <1>3, StoreStays
<1>4. CASE victim[w] \in DOMAIN meta /\ meta' = Drop(meta, victim[w])
  <2>1. IsList(dirs[w]) /\ Len(dirs[w]) <= at[w] /\ victim[w] \notin Keys(dirs[w])
    BY <1>1 DEF SaveInv, Saving, Cleaning
  <2>2. Written(w) = Len(dirs[w])
    BY <1>1, <2>1, ListDomain DEF Written, SaveInv
  <2>3. WrittenNames(w) = ListedNames(w)
    BY <2>2 DEF WrittenNames, ListedNames
  <2>4. victim[w] \notin ListedNames(w)
    BY <2>1, ListDomain DEF ListedNames, Keys
  <2>5. DOMAIN meta' = DOMAIN meta \ {victim[w]}
    BY <1>4 DEF Drop
  <2>6. UNCHANGED <<[v \in Windows |-> ListedNames(v)], [v \in Windows |-> WrittenNames(v)],
                    {v \in Windows : pc[v] \in Saving}>>
    BY <1>1 DEF ListedNames, WrittenNames, Written
  <2>7. w \in {v \in Windows : pc[v] \in Saving}
    BY <1>1 DEF Saving
  <2> QED BY <1>4, <2>3, <2>4, <2>5, <2>6, <2>7 DEF Store!Remove
<1> QED BY <1>3, <1>4 DEF RemoveEntry

\* A save that begins, or a window that stays out of one (BeginSave,
\* BeginLoad, Release, ApplyAndSave).
LEMMA StoreApplies ==
    ASSUME SaveInv, NEW w \in Windows, pc[w] \notin Saving, Keeps(w), meta' = meta,
           \/ \E t, list, shown : IsList(list) /\ BeginSave(w, t, list, shown)
           \/ pc'[w] \notin Saving
    PROVE  Store!Begin(w) \/ UNCHANGED Store!vars
<1>0. Others(w)
  BY DEF Keeps
<1>1. CASE pc'[w] \notin Saving
  BY Zenon, <1>0, <1>1, StoreStays DEF ListedNames, WrittenNames
<1>2. ASSUME NEW t, NEW list, NEW shown, IsList(list), BeginSave(w, t, list, shown)
      PROVE  Store!Begin(w)
  <2>1. /\ pc'[w] = IF list = <<>> THEN "pruneWorkspaces" ELSE "meta"
        /\ at'[w] = 1
    BY Zenon, <1>2 DEF BeginSave, SaveInv
  <2>2. Len(dirs'[w]) \in Nat /\ (list = <<>> => Len(dirs'[w]) = 0)
    <3> DEFINE unique == UniqueNames(NamesOf(list))
               D == [n \in DOMAIN list |-> unique[n]]
    <3>1. dirs'[w] = D
      BY Zenon, <1>2 DEF BeginSave, SaveInv
    <3>2. D = [n \in 1..Len(list) |-> D[n]] /\ DOMAIN D = 1..Len(list) /\ Len(list) \in Nat
      BY <1>2, ListDomain
    <3> HIDE DEF D
    <3> QED BY <3>1, <3>2, <1>2, FunctionIsList, ListDomain
  <2>3. Written(w)' = 0
    BY <2>1, <2>2 DEF Written
  <2>4. WrittenNames(w)' = {} /\ pc'[w] \in Saving
    BY <2>1, <2>3 DEF WrittenNames, Saving
  <2> QED BY <1>0, <2>4, StoreBegins
<1> QED BY <1>1, <1>2

\* What applies an operation to a list begins a save or none (ApplyAndSave).
LEMMA ApplyAndSaveBegins ==
    ASSUME SaveInv, NEW w \in Windows, NEW t, NEW list, IsList(list), NEW shown,
           ApplyAndSave(w, t, list, shown)
    PROVE  \/ \E u, l, s : IsList(l) /\ BeginSave(w, u, l, s)
           \/ pc'[w] \notin Saving
<1>1. CASE Changed(t, list) = None
  BY <1>1 DEF ApplyAndSave, Release, SaveInv, Saving
<1>2. CASE Changed(t, list) # None
  BY <1>2, ChangedIsList DEF ApplyAndSave
<1> QED BY SMTT(20), <1>1, <1>2

\* What users ask is the start of a save, or no step of the store (Request).
LEMMA StoreRequest ==
    ASSUME SaveInv, NEW w \in Windows, Request(w)
    PROVE  Store!Begin(w) \/ UNCHANGED Store!vars
<1>0. Keeps(w) /\ meta' = meta
  BY RequestKeeps
<1>1. pc[w] \notin Saving /\ IsList(page[w].list)
  <2>1. pc[w] = "idle"
    BY Zenon DEF Request, ReloadEditor, SaveWorkspaceEditorState, RemoveWorkspaceDefinitionById, RemoveWorkspaceNodeById,
           PersistCurrentWorkspaceTabOrder, PersistWorkspaceNodeInputVisibility, AddWorkspaceDefinition,
           AddWorkspaceNode, EditWorkspaceName, EditNodeName, MoveWorkspaceManagerVisibleNode, Edit, Turn
  <2> QED BY <2>1 DEF Saving, SaveInv, IsPage
<1>2. ASSUME NEW t, BeginLoad(w, t) PROVE pc'[w] \notin Saving
  BY <1>2 DEF BeginLoad, SaveInv, Saving
<1>3. CASE ReloadEditor(w) \/ PersistCurrentWorkspaceTabOrder(w)
  <2>1. PICK t : BeginLoad(w, t)
    BY Zenon, <1>3 DEF ReloadEditor, PersistCurrentWorkspaceTabOrder
  <2> QED BY <2>1, <1>0, <1>1, <1>2, StoreApplies
<1>4. CASE SaveWorkspaceEditorState(w)
  <2>1. ApplyAndSave(w, [op |-> "save"], page[w].list, page[w].demo)
    BY SMTT(20), <1>4 DEF SaveWorkspaceEditorState
  <2> QED BY <2>1, <1>0, <1>1, ApplyAndSaveBegins, StoreApplies
<1>5. CASE RemoveWorkspaceDefinitionById(w) \/ RemoveWorkspaceNodeById(w)
  <2>1. PICK t : Mutate(w, t)
    BY Zenon, <1>5 DEF RemoveWorkspaceDefinitionById, RemoveWorkspaceNodeById
  <2>2. BeginLoad(w, t) \/ ApplyAndSave(w, t, page[w].list, page[w].demo)
    BY <2>1 DEF Mutate
  <2> QED BY <2>2, <1>0, <1>1, <1>2, ApplyAndSaveBegins, StoreApplies
<1>6. CASE PersistWorkspaceNodeInputVisibility(w)
  <2>1. PICK t : IF Changed(t, page[w].list) = None THEN BeginLoad(w, t)
                 ELSE BeginSave(w, t, Changed(t, page[w].list), page[w].demo)
    BY <1>6 DEF PersistWorkspaceNodeInputVisibility
  <2> QED BY <2>1, <1>0, <1>1, <1>2, ChangedIsList, StoreApplies
<1>7. CASE AddWorkspaceDefinition(w) \/ AddWorkspaceNode(w) \/ EditWorkspaceName(w) \/ EditNodeName(w)
           \/ MoveWorkspaceManagerVisibleNode(w)
  <2>1. pc' = pc
    BY Zenon, <1>7 DEF AddWorkspaceDefinition, AddWorkspaceNode, EditWorkspaceName, EditNodeName,
                MoveWorkspaceManagerVisibleNode, Edit
  <2> QED BY <2>1, <1>0, <1>1, StoreApplies
<1> QED BY <1>3, <1>4, <1>5, <1>6, <1>7 DEF Request

\* The steps inside a save that neither write a workspace file nor remove
\* one are no steps of the store (SaveToPath).
LEMMA StoreMovesOn ==
    ASSUME SaveInv, NEW w \in Windows,
           \/ OpenNodeFile(w) \/ CloseNodeFile(w) \/ RemoveStaleNode(w) \/ NextWorkspace(w)
           \/ ChooseStaleWorkspace(w) \/ RemoveFolder(w) \/ ReplaceRootFile(w)
    PROVE  UNCHANGED Store!vars
<1> USE DEF Step
<1>0. Others(w) /\ pc \in [Windows -> Saving \cup {"idle", "enumerate", "readNodes"}]
      /\ at \in [Windows -> Nat \ {0}]
  BY Zenon, SaveKeeps DEF Keeps, SaveInv
<1>1. dirs' = dirs /\ meta' = meta /\ pc[w] \in Saving
  BY Zenon DEF OpenNodeFile, CloseNodeFile, RemoveStaleNode, NextWorkspace,
         ChooseStaleWorkspace, RemoveFolder, ReplaceRootFile, frame, disk, Saving
<1>2. pc'[w] \in Saving /\ Written(w)' = Written(w)
  <2>1. CASE OpenNodeFile(w) \/ CloseNodeFile(w) \/ RemoveStaleNode(w)
    <3>1. at' = at /\ {pc[w], pc'[w]} \subseteq {"node", "nodeFlush", "pruneNodes"}
      BY Zenon, <2>1, <1>0 DEF OpenNodeFile, CloseNodeFile, RemoveStaleNode, AfterFile, frame
    <3> QED BY <3>1 DEF Written, Saving
  <2>2. CASE NextWorkspace(w)
    <3>1. at[w] <= Len(dirs[w]) /\ Len(dirs[w]) \in Nat
      BY <2>2, ListDomain DEF NextWorkspace, SaveInv, Saving, Writing
    <3>2. CASE at[w] < Len(dirs[w])
      <4>1. pc[w] = "pruneNodes" /\ pc'[w] = "meta" /\ at'[w] = at[w] + 1
        BY <2>2, <3>2, <1>0 DEF NextWorkspace
      <4> QED BY <4>1, <1>0 DEF Written, Saving
    <3>3. CASE ~(at[w] < Len(dirs[w]))
      <4>1. pc[w] = "pruneNodes" /\ pc'[w] = "pruneWorkspaces" /\ at' = at
        BY <2>2, <3>3, <1>0 DEF NextWorkspace
      <4> QED BY <4>1, <3>1, <3>3, <1>0, <1>1 DEF Written, Saving
    <3> QED BY <3>2, <3>3
  <2>3. CASE ChooseStaleWorkspace(w) \/ RemoveFolder(w) \/ ReplaceRootFile(w)
    <3>1. at' = at /\ {pc[w], pc'[w]} \subseteq Cleaning
      BY Zenon, <2>3, <1>0 DEF ChooseStaleWorkspace, RemoveFolder, ReplaceRootFile, frame, Cleaning
    <3> QED BY <3>1, <1>1 DEF Written, Saving, Cleaning
  <2> QED BY <2>1, <2>2, <2>3
<1>3. ListedNames(w)' = ListedNames(w) /\ WrittenNames(w)' = WrittenNames(w)
  BY Zenon, <1>1, <1>2 DEF ListedNames, WrittenNames
<1> QED BY <1>0, <1>1, <1>2, <1>3, StoreStays

\* Every step on the files is a step of the store, or none.
LEMMA StoreStep ==
    ASSUME SaveInv, [Next]_vars
    PROVE  [Store!Next]_(Store!vars)
<1>1. CASE UNCHANGED vars
  BY <1>1 DEF vars, disk, frame, Store!vars, ListedNames, WrittenNames, Written
<1>2. ASSUME NEW w \in Windows, Request(w)
      PROVE  Store!Begin(w) \/ UNCHANGED Store!vars
  BY <1>2, StoreRequest
<1>3. ASSUME NEW w \in Windows, Work(w)
      PROVE  Store!Begin(w) \/ Store!Write(w) \/ Store!Remove(w) \/ Store!End(w) \/ UNCHANGED Store!vars
  <2>1. CASE EnumeratePersistedWorkspaceDirectories(w) \/ ReadNodes(w)
    <3>1. pc[w] \notin Saving /\ pc'[w] \notin Saving
      BY Zenon, <2>1 DEF EnumeratePersistedWorkspaceDirectories, ReadNodes, SaveInv, Saving
    <3> QED BY Zenon, <2>1, <3>1, LoadKeeps, StoreApplies
  <2>2. CASE FinishLoad(w)
    <3>1. pc[w] \notin Saving /\ IsList(mgr[w].list)
      BY <2>2 DEF FinishLoad, Saving, SaveInv, IsLoaded
    <3>2. Release(w) \/ ApplyAndSave(w, task[w], mgr[w].list, mgr[w].demo)
      BY <2>2 DEF FinishLoad
    <3>3. Release(w) => pc'[w] \notin Saving
      BY DEF Release, Saving, SaveInv
    <3> QED BY Zenon, <2>2, <3>1, <3>2, <3>3, LoadKeeps, ApplyAndSaveBegins, StoreApplies
  <2>3. CASE OpenWorkspaceFile(w)
    <3>1. /\ Others(w) /\ UNCHANGED <<dirs, at>> /\ pc[w] = "meta" /\ pc'[w] = "metaFlush"
          /\ DOMAIN meta' = DOMAIN meta \cup {Folder(w)}
      BY Zenon, <2>3, SaveKeeps DEF OpenWorkspaceFile, Step, frame, Put, Keeps, SaveInv
    <3> QED BY <3>1, StoreWrites
  <2>4. CASE CloseWorkspaceFile(w)
    <3>1. Others(w) /\ UNCHANGED <<dirs, at>> /\ pc[w] = "metaFlush" /\ pc'[w] \in {"node", "pruneNodes"}
      BY Zenon, <2>4, SaveKeeps DEF CloseWorkspaceFile, AfterFile, Step, Keeps, SaveInv
    <3>2. CASE meta' = meta
      <4>1. ListedNames(w)' = ListedNames(w) /\ WrittenNames(w)' = WrittenNames(w)
        BY SMTT(20), <3>1 DEF ListedNames, WrittenNames, Written, Saving
      <4> QED BY Zenon, <3>1, <3>2, <4>1, StoreStays DEF Saving
    <3>3. CASE meta' = Put(meta, Folder(w), EffectiveTabOrder(Current(w)))
      BY <3>1, <3>3, StoreWrites DEF Put
    <3> QED BY <2>4, <3>2, <3>3 DEF CloseWorkspaceFile
  <2>5. CASE RemoveEntry(w)
    BY <2>5, StoreRemoves
  <2>6. CASE CloseRootFile(w)
    <3>1. pc[w] \in Saving
      BY <2>6 DEF CloseRootFile, Saving
    <3> QED BY Zenon, <2>6, <3>1, EndKeeps, StoreEnds DEF Keeps
  <2> QED BY <1>3, <2>1, <2>2, <2>3, <2>4, <2>5, <2>6, StoreMovesOn DEF Work
<1>4. ASSUME NEW w \in Windows, FailSave(w) \/ Crash(w)
      PROVE  Store!End(w) \/ UNCHANGED Store!vars
  <2>1. Keeps(w) /\ meta' = meta /\ pc'[w] \notin Saving
    BY <1>4, EndKeeps
  <2>2. CASE pc[w] \in Saving
    BY <2>1, <2>2, StoreEnds DEF Keeps
  <2>3. CASE pc[w] \notin Saving
    BY Zenon, <2>1, <2>3, StoreStays DEF Keeps, ListedNames, WrittenNames
  <2> QED BY <2>2, <2>3
<1> QED BY <1>1, <1>2, <1>3, <1>4 DEF Next, Store!Next

\* The windows, reading and writing files with no lock, implement the store:
\* workspaces are added only from a list that is being saved, and removed only
\* by a save that has written its whole list and does not have them on it
\* (SaveToPath), whatever happens in between.
THEOREM FilesImplementStore == Spec => ImplementsStore
<1>1. Init => Store!Init
  BY Zenon DEF Init, Store!Init, ListedNames, WrittenNames, Saving
<1>2. SaveInv /\ [Next]_vars => [Store!Next]_(Store!vars)
  BY StoreStep
<1> QED BY <1>1, <1>2, SaveInvInit, SaveInvNext, PTL DEF Spec, ImplementsStore, Store!Spec

=============================================================================
