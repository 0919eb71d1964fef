----------------------------- MODULE WindowState -----------------------------
(***************************************************************************)
(* The registry of open workspace windows: one block of shared memory that *)
(* every terminal process of a session reads and rewrites under a named    *)
(* mutex (WorkspaceCore.cpp, WorkspaceCoreStateManager.cpp), and the       *)
(* operations of a window that go through it: open, heartbeat, rename,     *)
(* delete and close.                                                       *)
(*                                                                         *)
(* All windows of a process run on one thread.  A call on the block prunes *)
(* it, runs a callback and releases the mutex; definitions are read from   *)
(* disk in between, and other processes change them meanwhile.  A call     *)
(* that waits too long for the mutex returns an empty result.              *)
(*                                                                         *)
(* A definition's id is its name, which is the name of its directory: both *)
(* are one value here, and a rename is a change of id.                     *)
(***************************************************************************)
EXTENDS Integers, Sequences, FiniteSets, Filtering

CONSTANTS
    Processes,  \* terminal processes of the session
    Names,      \* workspace ids
    None,       \* the empty id; no holder; no window
    Capacity,   \* records in the block
    Timeout,    \* how long a record lives without a heartbeat
    MaxId,      \* bound: window ids of a process
    MaxTime,    \* bound: the tick count
    MaxFaults,  \* bound: processes killed and waits that time out
    MaxTurns    \* bound: what users ask of the windows

ASSUME SizesAssumption == Capacity \in Nat \ {0} /\ Timeout \in Nat /\ MaxId \in Nat

ASSUME NoneAssumption == None \notin Names \cup Processes

VARIABLES
    disk,    \* ids of the definitions that load
    block,   \* the records, without the cleared ones
    holder,  \* the process that holds the mutex
    tick,    \* the tick count it read then
    now,     \* GetTickCount64
    alive,   \* running processes
    windows, \* the windows of each process by window id
    calls,   \* the calls on the block each process has to make, first to last
    faults,  \* how many kills and timeouts there were
    turns    \* how many commands users gave

vars == <<disk, block, holder, tick, now, alive, windows, calls, faults, turns>>

Ids == 1..MaxId

\* A window has the name the host looks it up by, which does not follow a
\* rename, and its current workspace.
Window == [name : Names \cup {None}, workspace : Names \cup {None}, closing : BOOLEAN]

\* The recorded name is the id or, when the definition did not load, empty.
Record == [window : Ids, process : Processes, workspace : Names, named : BOOLEAN, seen : Nat]

Call == [op : {"refresh", "remove", "open", "close"},
         window : Ids \cup {0}, workspace : Names \cup {None}, exists : BOOLEAN]

\* Types; the block fits, and only a live process with a call holds the mutex.
TypeOK ==
    /\ disk \subseteq Names
    /\ block \in Seq(Record) /\ Len(block) <= Capacity
    /\ holder \in alive \cup {None}
    /\ holder # None => calls[holder] # <<>>
    /\ now \in Nat /\ tick \in 0..now
    /\ alive \subseteq Processes
    /\ windows \in [Processes -> [Ids -> Window \cup {None}]]
    /\ calls \in [Processes -> Seq(Call)]
    /\ faults \in Nat /\ turns \in Nat

Init ==
    /\ disk = Names
    /\ block = <<>>
    /\ holder = None /\ tick = 0 /\ now = 0
    /\ alive = Processes
    /\ windows = [p \in Processes |-> [i \in Ids |-> None]]
    /\ calls = [p \in Processes |-> <<>>]
    /\ faults = 0 /\ turns = 0

-----------------------------------------------------------------------------
(***************************************************************************)
(* The block.                                                              *)
(***************************************************************************)
Expired(r) ==
    \/ r.process \notin alive
    \/ ~r.named
    \/ r.workspace \notin disk
    \/ now - r.seen > Timeout

Records(b) == {b[k] : k \in DOMAIN b}

Prune(b) == Filter(b, {r \in Records(b) : ~Expired(r)})

RemoveWindow(b, i) == Filter(b, {r \in Records(b) : r.window # i})

\* Mutant: the new record goes first.
UpsertWindowFirst(b, r) == <<r>> \o RemoveWindow(b, r.window)

\* Mutant: a record that is there stays.
UpsertWindowOnce(b, r) == IF \E k \in DOMAIN b : b[k].window = r.window THEN b ELSE Append(b, r)

\* Mutant: another process's record with the same window id stays.
UpsertWindowByProcess(b, r) ==
    LET k == Find(b, {q \in Records(b) : q.window = r.window /\ q.process = r.process})
    IN IF k = 0 THEN Append(b, r) ELSE [b EXCEPT ![k] = r]

UpsertWindow(b, r) ==
    LET k == Find(b, {q \in Records(b) : q.window = r.window})
    IN IF k = 0 THEN Append(b, r) ELSE [b EXCEPT ![k] = r]

UpdateWindowState(b, p, i, w) ==
    IF w = None THEN RemoveWindow(b, i)
    ELSE UpsertWindow(b, [window |-> i, process |-> p, workspace |-> w, named |-> FALSE, seen |-> 0])

\* Mutant: every record counts as seen.
SaveAllSeen(b, i) ==
    [k \in 1..(IF Len(b) < Capacity THEN Len(b) ELSE Capacity) |->
        [b[k] EXCEPT !.named = b[k].workspace \in disk, !.seen = tick]]

\* Mutant: no check of the capacity.
SaveUncapped(b, i) ==
    [k \in 1..Len(b) |-> [b[k] EXCEPT !.named = b[k].workspace \in disk,
                                     !.seen = IF b[k].window = i THEN tick ELSE @]]

\* The block is rewritten from the list: names are read again for every record,
\* the refreshed window is seen now, and what does not fit is left out.
Save(b, i) ==
    [k \in 1..(IF Len(b) < Capacity THEN Len(b) ELSE Capacity) |->
        [b[k] EXCEPT !.named = b[k].workspace \in disk,
                     !.seen = IF b[k].window = i THEN tick ELSE @]]

\* What the callback of process p leaves in the block.
Written(p) ==
    LET c == Head(calls[p])
    IN CASE c.op = "refresh" -> Save(UpdateWindowState(block, p, c.window, c.workspace), c.window)
         [] c.op = "remove" -> Save(RemoveWindow(block, c.window), 0)
         [] OTHER -> block

\* The first record of the workspace whose process runs; 0 when there is none.
FindOpenWorkspaceWindowId(b, w) ==
    LET k == Find(b, {r \in Records(b) : r.workspace = w /\ r.process \in alive})
    IN IF k = 0 THEN 0 ELSE b[k].window

-----------------------------------------------------------------------------
(***************************************************************************)
(* What the thread of a process does with windows and definitions.  Each   *)
(* turn ends in calls on the block.                                        *)
(***************************************************************************)
Refresh(i, w) == [op |-> "refresh", window |-> i, workspace |-> w, exists |-> FALSE]
Removal(i) == [op |-> "remove", window |-> i, workspace |-> None, exists |-> FALSE]

Idle(p) == p \in alive /\ calls[p] = <<>>

Open(p) == {i \in Ids : windows[p][i] # None}

\* The host numbers a new window after the highest of its own process.
NewId(p) == CHOOSE i \in 1..(MaxId + 1) :
    /\ \A j \in Open(p) : j < i
    /\ i > 1 => i - 1 \in Open(p)

ByName(p, w) == {i \in Open(p) : windows[p][i].name = w}

CallBlock(p, s) == calls' = [calls EXCEPT ![p] = s]

\* A window without a workspace, of the upstream terminal.
NewWindow(p) ==
    /\ Idle(p)
    /\ NewId(p) <= MaxId
    /\ windows' = [windows EXCEPT ![p][NewId(p)] = [name |-> None, workspace |-> None, closing |-> FALSE]]
    /\ CallBlock(p, <<Refresh(NewId(p), None)>>)
    /\ UNCHANGED <<disk, block, holder, tick, now, alive, faults>>

\* Mutant: the timer does not wait until its thread has made its calls.
RefreshDuringCall(p, i) ==
    /\ p \in alive
    /\ i \in Open(p)
    /\ CallBlock(p, Append(calls[p], Refresh(i, windows[p][i].workspace)))
    /\ UNCHANGED <<disk, block, holder, tick, now, alive, windows, faults>>

\* The heartbeat timer, which runs until the window is destroyed, and the other
\* places that refresh.
RefreshWorkspaceWindowState(p, i) ==
    /\ Idle(p)
    /\ i \in Open(p)
    /\ CallBlock(p, <<Refresh(i, windows[p][i].workspace)>>)
    /\ UNCHANGED <<disk, block, holder, tick, now, alive, windows, faults>>

\* The definitions are loaded first, the block after them.
OpenWorkspace(p, w) ==
    /\ Idle(p)
    /\ NewId(p) \in 2..MaxId
    /\ CallBlock(p, <<[op |-> "open", window |-> 0, workspace |-> w, exists |-> w \in disk]>>)
    /\ UNCHANGED <<disk, block, holder, tick, now, alive, windows, faults>>

\* A window's workspace changes, and the block is told.
SetCurrentWorkspaceId(p, i, w) ==
    /\ windows' = [windows EXCEPT ![p][i].workspace = w]
    /\ CallBlock(p, IF windows[p][i].workspace = w THEN <<>> ELSE <<Refresh(i, w)>>)

\* The editor of window i writes its list, which may be older than the disk, in
\* place of the definitions.  The window's own is looked up by position: it
\* becomes whatever stands there, or none past the end or if it was gone.
SaveWorkspaceEditorState(p, i, defs, w) ==
    LET own == windows[p][i].workspace
    IN /\ Idle(p)
       /\ i \in Open(p)
       /\ w \in defs \cup {None}
       /\ own \notin disk => w = None
       /\ w = None => own \notin disk \/ Cardinality(defs) < Cardinality(disk)
       /\ disk' = defs
       /\ SetCurrentWorkspaceId(p, i, w)
       /\ UNCHANGED <<block, holder, tick, now, alive, faults>>

\* The name edit in the tab row renames the window's own workspace to v, or to a
\* variant v of a name in use.  Of two with one name the later in the list gets
\* the variant: it may be the other that becomes v, and the window's own takes
\* its name.
CommitWorkspaceNameEdit(p, i, v, w) ==
    LET others == disk \ {windows[p][i].workspace}
    IN /\ Idle(p)
       /\ i \in Open(p)
       /\ windows[p][i].workspace \in disk
       /\ v \notin others
       /\ disk' = others \cup {v}
       /\ w \in disk'
       /\ SetCurrentWorkspaceId(p, i, w)
       /\ UNCHANGED <<block, holder, tick, now, alive, faults>>

\* Window i deletes w from the definitions or, if it has changed it, from the
\* editor's list: its own workspace, after which it closes itself, or another,
\* whose window it then looks for in the block.
RemoveWorkspaceDefinitionById(p, i, defs, w) ==
    /\ Idle(p)
    /\ NewId(p) <= MaxId
    /\ i \in Open(p)
    /\ w \in defs
    /\ disk' = defs \ {w}
    /\ IF windows[p][i].workspace = w
       THEN /\ windows' = [windows EXCEPT ![p][i].workspace = None, ![p][i].closing = TRUE]
            /\ CallBlock(p, <<Refresh(i, None), Removal(i)>>)
       ELSE /\ CallBlock(p, <<[op |-> "close", window |-> i, workspace |-> w, exists |-> FALSE]>>)
            /\ UNCHANGED windows
    /\ UNCHANGED <<block, holder, tick, now, alive, faults>>

\* The record is removed, then the close message is posted.
CloseRequested(p, i) ==
    /\ Idle(p)
    /\ i \in Open(p)
    /\ ~windows[p][i].closing
    /\ windows' = [windows EXCEPT ![p][i].closing = TRUE]
    /\ CallBlock(p, <<Removal(i)>>)
    /\ UNCHANGED <<disk, block, holder, tick, now, alive, faults>>

Destroy(p, i) ==
    /\ Idle(p)
    /\ i \in Open(p)
    /\ windows[p][i].closing
    /\ windows' = [windows EXCEPT ![p][i] = None]
    /\ CallBlock(p, <<Removal(i)>>)
    /\ UNCHANGED <<disk, block, holder, tick, now, alive, faults>>

-----------------------------------------------------------------------------
(***************************************************************************)
(* A call on the block.                                                    *)
(***************************************************************************)
Acquire(p) ==
    /\ p \in alive /\ calls[p] # <<>>
    /\ holder = None
    /\ holder' = p
    /\ tick' = now
    /\ block' = Prune(block)
    /\ UNCHANGED <<disk, now, alive, windows, calls, faults>>

\* What follows an open, with the window the block named or 0: that window is
\* summoned, or the startup actions go to the window of that name or a new one.
Opened(p, found) ==
    LET c == Head(calls[p])
        fresh == [name |-> c.workspace, workspace |-> c.workspace, closing |-> FALSE]
    IN IF found # 0 \/ ~c.exists \/ ByName(p, c.workspace) # {}
       THEN /\ CallBlock(p, Tail(calls[p]))
            /\ UNCHANGED windows
       ELSE /\ windows' = [windows EXCEPT ![p][NewId(p)] = fresh]
            /\ CallBlock(p, <<Refresh(NewId(p), c.workspace)>>)

\* _CloseOpenWorkspaceWindow sends CloseWindow to the window of its own process
\* with the id the block named; without one the host makes a new window for it.
CloseSent(p, found) ==
    LET target == IF found \in Open(p) THEN found ELSE NewId(p)
        window == IF found \in Open(p) THEN [windows[p][found] EXCEPT !.closing = TRUE]
                  ELSE [name |-> None, workspace |-> None, closing |-> TRUE]
    IN IF found \in {0, Head(calls[p]).window}
       THEN /\ CallBlock(p, <<>>)
            /\ UNCHANGED windows
       ELSE /\ windows' = [windows EXCEPT ![p][target] = window]
            /\ CallBlock(p, <<Refresh(target, window.workspace), Removal(target)>>)

\* What a call returns to: found is what it read from the block.
Return(p, found) ==
    LET c == Head(calls[p])
    IN CASE c.op = "open" -> Opened(p, found)
         [] c.op = "close" -> CloseSent(p, found)
         [] OTHER -> CallBlock(p, Tail(calls[p])) /\ UNCHANGED windows

Finish(p) ==
    /\ holder = p /\ calls[p] # <<>>
    /\ block' = Written(p)
    /\ holder' = None
    /\ tick' = 0
    /\ Return(p, FindOpenWorkspaceWindowId(block, Head(calls[p]).workspace))
    /\ UNCHANGED <<disk, now, alive, faults>>

\* The wait for the mutex ran out.
GiveUp(p) ==
    /\ p \in alive /\ calls[p] # <<>>
    /\ holder \notin {None, p}
    /\ faults < MaxFaults
    /\ faults' = faults + 1
    /\ Return(p, 0)
    /\ UNCHANGED <<disk, block, holder, tick, now, alive>>

\* What is left of the block when its holder is killed: the old one, or as many
\* records of the new one as it had written.
Torn(p) == {block} \cup {SubSeq(Written(p), 1, k) : k \in 0..Len(Written(p))}

\* Mutant: the mutex stays with the process that was killed.
CrashKeepsMutex(p) ==
    /\ p \in alive
    /\ faults < MaxFaults
    /\ faults' = faults + 1
    /\ alive' = alive \ {p}
    /\ windows' = [windows EXCEPT ![p] = [i \in Ids |-> None]]
    /\ calls' = [calls EXCEPT ![p] = <<>>]
    /\ block' \in IF holder = p THEN Torn(p) ELSE {block}
    /\ UNCHANGED <<disk, holder, tick, now>>

\* A process is killed.  The mutex it may hold is abandoned, which the next one
\* to wait for it takes like a free one.
Crash(p) ==
    /\ p \in alive
    /\ faults < MaxFaults
    /\ faults' = faults + 1
    /\ alive' = alive \ {p}
    /\ windows' = [windows EXCEPT ![p] = [i \in Ids |-> None]]
    /\ calls' = [calls EXCEPT ![p] = <<>>]
    /\ IF holder = p
       THEN block' \in Torn(p) /\ holder' = None /\ tick' = 0
       ELSE UNCHANGED <<block, holder, tick>>
    /\ UNCHANGED <<disk, now>>

\* A new process may get the process id of a killed one.
Start(p) ==
    /\ p \notin alive
    /\ alive' = alive \cup {p}
    /\ UNCHANGED <<disk, block, holder, tick, now, windows, calls, faults>>

Tick ==
    /\ now < MaxTime
    /\ now' = now + 1
    /\ UNCHANGED <<disk, block, holder, tick, alive, windows, calls, faults>>

\* What users ask of the windows of p ...
Command(p) ==
    /\ turns < MaxTurns
    /\ turns' = turns + 1
    /\ \/ NewWindow(p)
       \/ \E w \in Names : OpenWorkspace(p, w)
       \/ \E i \in Ids :
             \/ \E defs \in SUBSET Names, w \in Names \cup {None} : SaveWorkspaceEditorState(p, i, defs, w)
             \/ \E v, w \in Names : CommitWorkspaceNameEdit(p, i, v, w)
             \/ \E defs \in SUBSET Names, w \in Names : RemoveWorkspaceDefinitionById(p, i, defs, w)
             \/ CloseRequested(p, i)

\* ... and what its thread does by itself.
Turn(p) ==
    /\ \E i \in Ids : RefreshWorkspaceWindowState(p, i) \/ Destroy(p, i)
    /\ UNCHANGED turns

CallStep(p) ==
    /\ Acquire(p) \/ Finish(p) \/ GiveUp(p)
    /\ UNCHANGED turns

Environment ==
    /\ Tick \/ \E p \in Processes : Crash(p) \/ Start(p)
    /\ UNCHANGED turns

Next ==
    \/ \E p \in Processes : Command(p) \/ Turn(p) \/ CallStep(p)
    \/ Environment

Spec == Init /\ [][Next]_vars

\* The thread of a process goes on with its calls, the system does not pass a
\* waiter over for ever, and the heartbeat timer of a workspace window fires again.
Heartbeat(p, i) ==
    /\ i \in Open(p) /\ windows[p][i].workspace # None
    /\ RefreshWorkspaceWindowState(p, i)
    /\ UNCHANGED turns

Fairness ==
    \A p \in Processes :
        /\ WF_vars(Finish(p) /\ UNCHANGED turns)
        /\ SF_vars(Acquire(p) /\ UNCHANGED turns)
        /\ \A i \in Ids : SF_vars(Heartbeat(p, i))

FairSpec == Spec /\ Fairness

-----------------------------------------------------------------------------
(***************************************************************************)
(* Properties.                                                             *)
(***************************************************************************)
Same(q, r) == q.window = r.window /\ q.process = r.process /\ q.workspace = r.workspace

\* The block never holds two records of one window id, not even after a process
\* was killed while it rewrote the block: a lookup has one answer.
UniqueRecords == \A j, k \in DOMAIN block : j # k => block[j].window # block[k].window

\* A call about a window has an id for it.  A lookup that may make a window is
\* the only call its process has to make, and there is a number left for it.
Ready(p, s) ==
    \A k \in DOMAIN s :
        /\ s[k].op # "open" => s[k].window \in Ids
        /\ s[k].op \in {"open", "close"} => Len(s) = 1 /\ NewId(p) <= MaxId

\* The continuation of a lookup runs with nothing behind it: no refresh or
\* removal of the same process is lost when it replaces what is left to call,
\* and the window it makes takes the place of none.
LookupsAlone == \A p \in Processes : Ready(p, calls[p])

\* A record appears, or counts as seen again, only while its own process
\* refreshes that window: what other windows write never keeps the record of a
\* hung window alive.
OnlyOwnerVouches ==
    [][\A k \in DOMAIN block' :
          LET r == block'[k]
          IN \/ \E j \in DOMAIN block : Same(block[j], r) /\ block[j].seen = r.seen
             \/ /\ holder = r.process
                /\ Head(calls[holder]).op = "refresh"
                /\ Head(calls[holder]).window = r.window]_vars

\* Unless a process is killed, a record that has not expired is dropped only by
\* a call about its window id: a full block turns the new window away and
\* keeps the others.
KeepsOtherWindows ==
    [][\A k \in DOMAIN block :
          LET r == block[k]
          IN \/ Expired(r)
             \/ ~(alive \subseteq alive')
             \/ holder # None /\ Head(calls[holder]).window = r.window
             \/ \E j \in DOMAIN block' : Same(block'[j], r)]_vars

\* A call on the block always comes back, whoever was killed inside it.
EveryCallReturns ==
    \A p \in Processes : calls[p] # <<>> ~> calls[p] = <<>>

Listed(p, i) ==
    \E k \in DOMAIN block :
        block[k].window = i /\ block[k].process = p /\ block[k].workspace = windows[p][i].workspace

\* Whatever removed its record (a namesake in another process, a definition
\* that was gone for a while, a kill that tore the block), a workspace window
\* is listed again as long as it stays open and its definition exists.
ListedAgain ==
    \A p \in Processes, i \in Ids :
        []<>(\/ i \notin Open(p)
             \/ windows[p][i].closing
             \/ windows[p][i].workspace \notin disk
             \/ Listed(p, i))

\* The close action of a deleted workspace reaches its window, as the comment
\* in _CloseOpenWorkspaceWindow has it.
DeleteClosesWindow ==
    [][\A p \in Processes, i \in Ids :
          /\ Finish(p)
          /\ Head(calls[p]).op = "close"
          /\ i \in Open(p) /\ windows[p][i].workspace = Head(calls[p]).workspace
          => windows'[p][i].closing]_vars

=============================================================================
